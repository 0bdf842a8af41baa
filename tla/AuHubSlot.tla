----------------------------- MODULE AuHubSlot -----------------------------
(* The hub as one of its subscribers sees it: a HubSlot.                   *)
EXTENDS AuHub

CONSTANT one        \* the subscriber that looks

ASSUME OneAssumption == one \in Sub

SlotLinked == CASE stage[one] = "live" -> "linked"
                [] stage[one] = "gone" -> "unlinked"
                [] OTHER -> "new"

SlotLast == IF stage[one] # "live" THEN 0
            ELSE IF id[one] \in todo THEN written - 1 ELSE written

Slot == INSTANCE HubSlot WITH
  Cap <- Cap[one], linked <- SlotLinked, alive <- alive[one],
  queue <- chan[one], owed <- Unsettled(one, owes), dropped <- dropped[one],
  last <- SlotLast

(* Whatever the other subscribers do and however a pass interleaves with   *)
(* them, the behaviour of the hub towards this one is that of HubSlot:     *)
(* first in first out, a loss only when there is no room, one loss counted *)
(* before the next unit is offered, silence after unsubscribe.             *)
ImplementsSlot == Slot!Spec
=============================================================================
