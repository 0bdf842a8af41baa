SPECIFICATION StoreSpec
CONSTANTS
  Sizes = {1}
  MaxTotal = 1
  MaxSegments = 3
  MaxCrashes = 0
  MaxFaults = 0
INVARIANTS IndexedStayListed
CHECK_DEADLOCK FALSE
