SPECIFICATION FairSpec
CONSTANTS
  s1 = s1
  s2 = s2
  Sub <- Subs
  one = s2
  Cap <- Caps
  MaxAus = 4
INVARIANTS TypeOK SlotOwnership InOrder Accounted DropsAddUp
PROPERTIES QuietAfterUnsubscribe ImplementsSlot WriteReturns
CHECK_DEADLOCK FALSE
