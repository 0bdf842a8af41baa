------------------------------- MODULE AuHub -------------------------------
(***************************************************************************)
(* The H.264 access-unit hub, src/src/h264/hub.rs: one mutex around the    *)
(* map id -> (sender, drop counter), a write that walks the map with the   *)
(* mutex held, and receivers that run without it.                          *)
(*                                                                         *)
(* A subscriber is a call of subscribe_with_capacity.  Its id is taken     *)
(* from next_id before the mutex is locked, so subscribe is two steps.  A  *)
(* write is many: one try_send per slot, the counter of a failed one, and  *)
(* the global counter at the end; receivers interleave with all of them.   *)
(***************************************************************************)
EXTENDS Naturals, Sequences, FiniteSets, Functions

CONSTANTS
  Sub,        \* subscribers (each calls subscribe once)
  Cap,        \* Cap[s]: the capacity s asks for (64, 2, ...)
  MaxAus      \* bound: number of access units the pump writes

ASSUME SubAssumption == IsFiniteSet(Sub)
ASSUME CapsAssumption == Cap \in [Sub -> Nat \ {0}]
ASSUME MaxAusAssumption == MaxAus \in Nat

VARIABLES
  nextId,       \* AuHub.next_id
  id,           \* id[s]: the id s was given (0 before)
  stage,        \* "new" -> "reserved" -> "live" -> "gone"
  subscribers,  \* AuHub.subscribers: id -> whose slot it is
  writing,      \* a write holds the mutex
  todo,         \* ids the write in progress has not tried yet
  owes,         \* id whose try_send failed, its counter not incremented yet
  passDrops,    \* the local variable dropped of write
  written,      \* access units written so far; the n-th one is n
  chan,         \* chan[s]: the bounded channel of s
  alive,        \* alive[s]: the Receiver of s exists
  dropped,      \* dropped[s]: the drop counter of s
  droppedAus,   \* AuHub.dropped_aus
  got,          \* history: what s has received
  audience      \* history: how many units were written while s was live

registry == <<nextId, id, stage, subscribers>>
pass == <<writing, todo, owes, passDrops, written, audience>>
receivers == <<chan, alive, got>>
counters == <<dropped, droppedAus>>
vars == <<registry, pass, receivers, counters>>

(* Type invariant: the map holds subscribers, and what the pass in         *)
(* progress has still to do is about slots that are in the map.            *)
TypeOK ==
  /\ nextId \in Nat
  /\ id \in [Sub -> Nat]
  /\ stage \in [Sub -> {"new", "reserved", "live", "gone"}]
  /\ subscribers \in [DOMAIN subscribers -> Sub]
  /\ DOMAIN subscribers \subseteq Nat
  /\ writing \in BOOLEAN
  /\ todo \subseteq DOMAIN subscribers
  /\ owes \subseteq DOMAIN subscribers
  /\ passDrops \in Nat
  /\ written \in 0..MaxAus
  /\ chan \in [Sub -> Seq(Nat)]
  /\ alive \in [Sub -> BOOLEAN]
  /\ dropped \in [Sub -> Nat]
  /\ droppedAus \in Nat
  /\ got \in [Sub -> Seq(Nat)]
  /\ audience \in [Sub -> Nat]

Init ==
  /\ nextId = 0
  /\ id = [s \in Sub |-> 0]
  /\ stage = [s \in Sub |-> "new"]
  /\ subscribers = [i \in {} |-> i]
  /\ writing = FALSE /\ todo = {} /\ owes = {} /\ passDrops = 0
  /\ written = 0
  /\ chan = [s \in Sub |-> <<>>]
  /\ alive = [s \in Sub |-> TRUE]
  /\ dropped = [s \in Sub |-> 0]
  /\ droppedAus = 0
  /\ got = [s \in Sub |-> <<>>]
  /\ audience = [s \in Sub |-> 0]

-----------------------------------------------------------------------------
(* subscribe_with_capacity: the channel and the id, then the map.          *)

\* Mutant: the id is the size of the map instead of a counter.
Reserve_MapSize(s) ==
  /\ stage[s] = "new"
  /\ id' = [id EXCEPT ![s] = Cardinality(DOMAIN subscribers)]
  /\ stage' = [stage EXCEPT ![s] = "reserved"]
  /\ UNCHANGED <<nextId, subscribers, pass, receivers, counters>>

Reserve(s) ==
  /\ stage[s] = "new"
  /\ id' = [id EXCEPT ![s] = nextId]
  /\ nextId' = nextId + 1
  /\ stage' = [stage EXCEPT ![s] = "reserved"]
  /\ UNCHANGED <<subscribers, pass, receivers, counters>>

Insert(s) ==
  /\ stage[s] = "reserved" /\ ~writing
  /\ subscribers' = [i \in DOMAIN subscribers \cup {id[s]} |->
                       IF i = id[s] THEN s ELSE subscribers[i]]
  /\ stage' = [stage EXCEPT ![s] = "live"]
  /\ UNCHANGED <<nextId, id, pass, receivers, counters>>

\* Mutant: the slot is left for a later write to clean up.
Unsubscribe_Lazy(s) ==
  /\ stage[s] = "live" /\ ~writing
  /\ stage' = [stage EXCEPT ![s] = "gone"]
  /\ UNCHANGED <<nextId, id, subscribers, pass, receivers, counters>>

\* unsubscribe(id): the slot leaves the map, its channel stays readable.
Unsubscribe(s) ==
  /\ stage[s] = "live" /\ ~writing
  /\ subscribers' = Restrict(subscribers, DOMAIN subscribers \ {id[s]})
  /\ stage' = [stage EXCEPT ![s] = "gone"]
  /\ UNCHANGED <<nextId, id, pass, receivers, counters>>

-----------------------------------------------------------------------------
(* write: lock, one try_send per slot in the map's arbitrary order, unlock *)

BeginWrite ==
  /\ ~writing /\ written < MaxAus
  /\ writing' = TRUE /\ todo' = DOMAIN subscribers
  /\ written' = written + 1
  /\ audience' = [s \in Sub |-> audience[s]
                                 + IF stage[s] = "live" THEN 1 ELSE 0]
  /\ UNCHANGED <<registry, owes, passDrops, receivers, counters>>

\* Mutant: an unbounded channel.
HasRoom_Unbounded(s) == alive[s]

HasRoom(s) == alive[s] /\ Len(chan[s]) < Cap[s]

\* Mutant: the slot is not taken off the list once it was served.
TrySend_Repeats(i) ==
  /\ i \in todo /\ owes = {} /\ HasRoom(subscribers[i])
  /\ chan' = [chan EXCEPT ![subscribers[i]] = Append(@, written)]
  /\ UNCHANGED <<registry, pass, alive, got, counters>>

\* Mutant: a failed try_send is ignored.
TrySend_Silent(i) ==
  /\ i \in todo /\ owes = {}
  /\ todo' = todo \ {i}
  /\ chan' = IF HasRoom(subscribers[i])
               THEN [chan EXCEPT ![subscribers[i]] = Append(@, written)]
               ELSE chan
  /\ UNCHANGED <<registry, writing, owes, passDrops, written, audience, alive,
                 got, counters>>

\* Mutant: send instead of try_send.
TrySend_Blocks(i) ==
  /\ i \in todo /\ owes = {} /\ HasRoom(subscribers[i])
  /\ todo' = todo \ {i}
  /\ chan' = [chan EXCEPT ![subscribers[i]] = Append(@, written)]
  /\ UNCHANGED <<registry, writing, owes, passDrops, written, audience, alive,
                 got, counters>>

\* try_send fails on a full buffer and on a receiver that is gone.
TrySend(i) ==
  /\ i \in todo /\ owes = {}
  /\ todo' = todo \ {i}
  /\ \/ /\ HasRoom(subscribers[i])
        /\ chan' = [chan EXCEPT ![subscribers[i]] = Append(@, written)]
        /\ UNCHANGED owes
     \/ /\ ~HasRoom(subscribers[i])
        /\ owes' = {i}
        /\ UNCHANGED chan
  /\ UNCHANGED <<registry, writing, passDrops, written, audience, alive, got,
                 counters>>

CountDrop(i) ==
  /\ i \in owes
  /\ owes' = {}
  /\ dropped' = [dropped EXCEPT ![subscribers[i]] = @ + 1]
  /\ passDrops' = passDrops + 1
  /\ UNCHANGED <<registry, writing, todo, written, audience, receivers,
                 droppedAus>>

\* Mutant: the mutex is released before the last slot was tried.
EndWrite_Early ==
  /\ writing /\ owes = {}
  /\ droppedAus' = droppedAus + passDrops
  /\ writing' = FALSE /\ passDrops' = 0
  /\ UNCHANGED <<registry, todo, owes, written, audience, receivers, dropped>>

\* Mutant: store instead of fetch_add.
EndWrite_Stores ==
  /\ writing /\ todo = {} /\ owes = {}
  /\ droppedAus' = passDrops
  /\ writing' = FALSE /\ passDrops' = 0
  /\ UNCHANGED <<registry, todo, owes, written, audience, receivers, dropped>>

EndWrite ==
  /\ writing /\ todo = {} /\ owes = {}
  /\ droppedAus' = droppedAus + passDrops
  /\ writing' = FALSE /\ passDrops' = 0
  /\ UNCHANGED <<registry, todo, owes, written, audience, receivers, dropped>>

-----------------------------------------------------------------------------
(* The receiving side runs without the mutex.                              *)

Subscribed(s) == stage[s] \in {"live", "gone"}

Recv(s) ==
  /\ Subscribed(s) /\ alive[s] /\ chan[s] # <<>>
  /\ got' = [got EXCEPT ![s] = Append(@, Head(chan[s]))]
  /\ chan' = [chan EXCEPT ![s] = Tail(@)]
  /\ UNCHANGED <<registry, pass, alive, counters>>

\* The Subscriber value is dropped; hub.rs has no Drop that unsubscribes it.
DropReceiver(s) ==
  /\ Subscribed(s) /\ alive[s]
  /\ alive' = [alive EXCEPT ![s] = FALSE]
  /\ chan' = [chan EXCEPT ![s] = <<>>]
  /\ UNCHANGED <<registry, pass, got, counters>>

-----------------------------------------------------------------------------
WriteStep ==
  \/ \E i \in DOMAIN subscribers : TrySend(i) \/ CountDrop(i)
  \/ EndWrite

Next ==
  \/ \E s \in Sub : \/ Reserve(s) \/ Insert(s) \/ Unsubscribe(s)
                    \/ Recv(s) \/ DropReceiver(s)
  \/ BeginWrite
  \/ WriteStep

Spec == Init /\ [][Next]_vars

\* The pump thread that entered write keeps running; nothing else is assumed.
FairSpec == Spec /\ WF_vars(WriteStep)

-----------------------------------------------------------------------------
(* Properties                                                              *)

\* The write in progress has not settled s yet, for one of the ids.
Unsettled(s, ids) == stage[s] = "live" /\ id[s] \in ids

(* Ids are handed out before the mutex is taken, so subscriptions can      *)
(* overtake one another between fetch_add and insert; still every live     *)
(* subscriber owns exactly the slot filed under its id and the map holds   *)
(* no other slot: no subscribe overwrites a slot, no unsubscribe removes   *)
(* somebody else's.                                                        *)
SlotOwnership ==
  /\ DOMAIN subscribers = {id[s] : s \in {t \in Sub : stage[t] = "live"}}
  /\ \A s \in Sub : stage[s] = "live" => subscribers[id[s]] = s

Increasing(q) == \A i, j \in DOMAIN q : i < j => q[i] < q[j]

(* A subscriber sees units in the order they were written, none twice,     *)
(* however write passes, drops and receives interleave.                    *)
InOrder == \A s \in Sub : Increasing(got[s] \o chan[s])

(* No unit vanishes silently: what was written while a subscriber was live *)
(* has been received, is queued, is counted as dropped, or is the one the  *)
(* pass in progress has not settled for it yet.  This is what lets the     *)
(* stream serializers detect a reference hole from the counter alone.      *)
Accounted ==
  \A s \in Sub : alive[s] =>
    audience[s] = Len(got[s]) + Len(chan[s]) + dropped[s]
                  + IF Unsettled(s, todo \cup owes) THEN 1 ELSE 0

DropCount(counts) == FoldFunctionOnSet(LAMBDA a, b : a + b, 0, counts, Sub)

(* The global counter is the sum of the subscribers' counters, up to the   *)
(* drops the pass in progress has not added yet.                           *)
DropsAddUp == droppedAus + passDrops = DropCount(dropped)

(* Once unsubscribe has returned, the subscriber's channel only drains and *)
(* its counter is final: a write never completes into a slot it captured   *)
(* before the unsubscribe.                                                 *)
QuietAfterUnsubscribe ==
  [][\A s \in Sub : stage[s] = "gone" =>
       /\ Len(chan'[s]) <= Len(chan[s])
       /\ dropped'[s] = dropped[s]]_vars

(* "Non-blocking: drops the unit for any subscriber whose channel buffer   *)
(* is full" (hub.rs, write): a pass ends although no receiver ever reads.  *)
WriteReturns == writing ~> ~writing
=============================================================================
