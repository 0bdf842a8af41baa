------------------------------ MODULE HubSlot ------------------------------
(***************************************************************************)
(* What one subscriber of the access-unit hub may rely on                  *)
(* (src/src/h264/hub.rs, Subscriber and SubscriberSlot): a bounded FIFO    *)
(* that loses the newest unit when it is full, a counter that owes at most *)
(* one loss, and silence once the slot is unlinked.                        *)
(*                                                                         *)
(* An access unit is the number of the write that published it.  The       *)
(* module is the abstract specification AuHub implements for every         *)
(* subscriber, and the environment the consumers of the hub (MseStream)    *)
(* are composed with.                                                      *)
(***************************************************************************)
EXTENDS Naturals, Sequences

CONSTANT Cap    \* capacity given to subscribe_with_capacity, at least 1

VARIABLES
  linked,     \* "new" | "linked" | "unlinked": the slot in the hub's map
  alive,      \* the mpsc Receiver has not been dropped
  queue,      \* units sent and not received yet
  owed,       \* a try_send failed and its counter is not incremented yet
  dropped,    \* the subscriber's drop counter
  last        \* last unit written while linked (offered to it or just before it)

slotVars == <<linked, alive, queue, owed, dropped, last>>

(* Type invariant of the slot.                                             *)
SlotTypeOK ==
  /\ linked \in {"new", "linked", "unlinked"}
  /\ alive \in BOOLEAN
  /\ queue \in Seq(Nat)
  /\ owed \in BOOLEAN
  /\ dropped \in Nat
  /\ last \in Nat

Init ==
  /\ linked = "new" /\ alive = TRUE /\ queue = <<>>
  /\ owed = FALSE /\ dropped = 0 /\ last = 0

\* subscribe: the slot enters the map; units up to n were written before it.
Link(n) ==
  /\ linked = "new" /\ n >= last
  /\ linked' = "linked" /\ last' = n
  /\ UNCHANGED <<alive, queue, owed, dropped>>

\* unsubscribe: the sender goes away, queued units stay readable.
Unlink ==
  /\ linked = "linked" /\ ~owed
  /\ linked' = "unlinked" /\ last' = 0
  /\ UNCHANGED <<alive, queue, owed, dropped>>

HasRoom == alive /\ Len(queue) < Cap

\* try_send of unit n succeeds ...
OfferTaken(n) ==
  /\ linked = "linked" /\ ~owed /\ n > last /\ HasRoom
  /\ queue' = Append(queue, n) /\ last' = n
  /\ UNCHANGED <<linked, alive, owed, dropped>>

\* ... or fails, on a full queue or on a receiver that is gone.
OfferFailed(n) ==
  /\ linked = "linked" /\ ~owed /\ n > last /\ ~HasRoom
  /\ owed' = TRUE /\ last' = n
  /\ UNCHANGED <<linked, alive, queue, dropped>>

\* counter.fetch_add after a failed try_send
CountLoss ==
  /\ owed
  /\ owed' = FALSE /\ dropped' = dropped + 1
  /\ UNCHANGED <<linked, alive, queue, last>>

Receive ==
  /\ alive /\ queue # <<>>
  /\ queue' = Tail(queue)
  /\ UNCHANGED <<linked, alive, owed, dropped, last>>

\* the Receiver is dropped, with whatever it still holds
CloseReceiver ==
  /\ alive
  /\ alive' = FALSE /\ queue' = <<>>
  /\ UNCHANGED <<linked, owed, dropped, last>>

\* The unit concerned is whatever last becomes.
Next ==
  \/ last' \in Nat /\ (Link(last') \/ OfferTaken(last') \/ OfferFailed(last'))
  \/ Unlink \/ CountLoss \/ Receive \/ CloseReceiver

Spec == Init /\ [][Next]_slotVars
=============================================================================
