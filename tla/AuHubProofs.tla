---------------------------- MODULE AuHubProofs ----------------------------
(***************************************************************************)
(* What holds of the hub for any set of subscribers, any capacities and    *)
(* any number of units.                                                    *)
(***************************************************************************)
EXTENDS AuHubSlot, FoldFacts

-----------------------------------------------------------------------------
(* The inductive invariant, in parts.                                      *)

\* Ids handed out are below the counter and never shared.
IdsFresh ==
  /\ \A s \in Sub : stage[s] # "new" => id[s] < nextId
  /\ \A s, t \in Sub : (stage[s] # "new" /\ stage[t] # "new" /\ id[s] = id[t])
                          => s = t

\* Without a pass in progress there is nothing left to do for one; within a
\* pass no id is tried and owing at the same time, and at most one owes.
PassState ==
  /\ ~writing => todo = {} /\ owes = {}
  /\ todo \cap owes = {}
  /\ \A i, j \in owes : i = j

\* A subscriber that has not been inserted has no history.
Blank ==
  \A s \in Sub : stage[s] \in {"new", "reserved"} =>
    chan[s] = <<>> /\ got[s] = <<>> /\ audience[s] = 0 /\ dropped[s] = 0

IInv == TypeOK /\ IdsFresh /\ SlotOwnership /\ PassState /\ Blank

-----------------------------------------------------------------------------
(* A new hub satisfies the inductive invariant.                            *)
LEMMA InitIInv == Init => IInv
  <1> SUFFICES ASSUME Init PROVE IInv
    OBVIOUS
  <1> USE DEF Init
  <1>1. TypeOK
    <2>1. subscribers \in [DOMAIN subscribers -> Sub] /\ DOMAIN subscribers = {}
      OBVIOUS
    <2>2. /\ chan \in [Sub -> Seq(Nat)] /\ got \in [Sub -> Seq(Nat)]
          /\ id \in [Sub -> Nat] /\ audience \in [Sub -> Nat]
          /\ dropped \in [Sub -> Nat] /\ written \in 0..MaxAus
      BY MaxAusAssumption
    <2>3. writing \in BOOLEAN /\ alive \in [Sub -> BOOLEAN]
      BY Zenon
    <2>4. /\ nextId \in Nat /\ passDrops \in Nat /\ droppedAus \in Nat
          /\ stage \in [Sub -> {"new", "reserved", "live", "gone"}]
          /\ todo = {} /\ owes = {}
      OBVIOUS
    <2> QED
      BY <2>1, <2>2, <2>3, <2>4 DEF TypeOK
  <1>2. IdsFresh /\ PassState /\ Blank
    BY DEF IdsFresh, PassState, Blank
  <1>3. SlotOwnership
    BY DEF SlotOwnership
  <1> QED
    BY <1>1, <1>2, <1>3 DEF IInv

(* Every step keeps every variable in its type.                            *)
LEMMA TypeStep == TypeOK /\ IdsFresh /\ SlotOwnership /\ PassState /\ [Next]_vars => TypeOK'
  <1> SUFFICES ASSUME TypeOK, IdsFresh, SlotOwnership, PassState, [Next]_vars
               PROVE TypeOK'
    OBVIOUS
  <1> USE CapsAssumption, MaxAusAssumption DEF TypeOK, registry, pass, receivers, counters
  <1>1. ASSUME NEW s \in Sub, Reserve(s) PROVE TypeOK'
    BY <1>1, SMTT(60) DEF Reserve
  <1>2. ASSUME NEW s \in Sub, Insert(s) PROVE TypeOK'
    BY <1>2 DEF Insert, PassState
  <1>3. ASSUME NEW s \in Sub, Unsubscribe(s) PROVE TypeOK'
    BY <1>3 DEF Unsubscribe, PassState, Restrict
  <1>4. ASSUME BeginWrite PROVE TypeOK'
    BY <1>4 DEF BeginWrite
  <1>5. ASSUME NEW i \in DOMAIN subscribers, TrySend(i) PROVE TypeOK'
    <2>1. subscribers[i] \in Sub /\ written \in Nat
      OBVIOUS
    <2>2. chan' \in [Sub -> Seq(Nat)]
      <3>1. Append(chan[subscribers[i]], written) \in Seq(Nat)
        BY <2>1
      <3> QED
        BY <1>5, <2>1, <3>1 DEF TrySend
    <2>3. owes' \subseteq DOMAIN subscribers /\ todo' \subseteq DOMAIN subscribers
      BY <1>5 DEF TrySend
    <2>4. UNCHANGED <<registry, writing, passDrops, written, audience, alive, got, counters>>
      BY <1>5 DEF TrySend
    <2>5. /\ subscribers' = subscribers /\ writing' = writing /\ alive' = alive
          /\ nextId' = nextId /\ id' = id /\ stage' = stage
          /\ passDrops' = passDrops /\ written' = written
          /\ audience' = audience /\ got' = got
          /\ dropped' = dropped /\ droppedAus' = droppedAus
      BY <2>4
    <2>6. /\ writing' \in BOOLEAN /\ alive' \in [Sub -> BOOLEAN]
          /\ subscribers' \in [DOMAIN subscribers' -> Sub]
          /\ DOMAIN subscribers' \subseteq Nat
      BY <2>5, Zenon
    <2> QED
      BY <2>2, <2>3, <2>5, <2>6, SMTT(60)
  <1>6. ASSUME NEW i \in DOMAIN subscribers, CountDrop(i) PROVE TypeOK'
    BY <1>6, SMTT(60) DEF CountDrop
  <1>7. ASSUME EndWrite PROVE TypeOK'
    <2>1. droppedAus' \in Nat /\ passDrops' \in Nat
      BY <1>7 DEF EndWrite
    <2>2. writing' \in BOOLEAN
      BY <1>7, Zenon DEF EndWrite
    <2> QED
      BY <1>7, <2>1, <2>2 DEF EndWrite
  <1>8. ASSUME NEW s \in Sub, Recv(s) PROVE TypeOK'
    <2>1. Head(chan[s]) \in Nat /\ Tail(chan[s]) \in Seq(Nat)
      BY <1>8 DEF Recv
    <2>2. Append(got[s], Head(chan[s])) \in Seq(Nat)
      BY <2>1
    <2>3. chan' \in [Sub -> Seq(Nat)] /\ got' \in [Sub -> Seq(Nat)]
      BY <1>8, <2>1, <2>2 DEF Recv
    <2>4. /\ subscribers' = subscribers /\ writing' = writing /\ alive' = alive
          /\ nextId' = nextId /\ id' = id /\ stage' = stage
          /\ todo' = todo /\ owes' = owes
          /\ passDrops' = passDrops /\ written' = written
          /\ audience' = audience
          /\ dropped' = dropped /\ droppedAus' = droppedAus
      BY <1>8 DEF Recv
    <2> QED
      BY <2>3, <2>4, Zenon
  <1>9. ASSUME NEW s \in Sub, DropReceiver(s) PROVE TypeOK'
    BY <1>9 DEF DropReceiver
  <1>10. ASSUME UNCHANGED vars PROVE TypeOK'
    BY <1>10 DEF vars
  <1> QED
    BY <1>1, <1>2, <1>3, <1>4, <1>5, <1>6, <1>7, <1>8, <1>9, <1>10
    DEF Next, WriteStep

(* A step is a subscription step or leaves the registry alone.             *)
LEMMA RegistryFrame ==
  [Next]_vars => \/ \E s \in Sub : Reserve(s) \/ Insert(s) \/ Unsubscribe(s)
                 \/ UNCHANGED <<nextId, id, stage, subscribers>>
  <1> USE DEF registry, pass, receivers, counters
  <1>1. ASSUME NEW s \in Sub, Recv(s) \/ DropReceiver(s)
        PROVE  UNCHANGED <<nextId, id, stage, subscribers>>
    BY <1>1 DEF Recv, DropReceiver
  <1>2. ASSUME BeginWrite \/ EndWrite
        PROVE  UNCHANGED <<nextId, id, stage, subscribers>>
    BY <1>2 DEF BeginWrite, EndWrite
  <1>3. ASSUME NEW i \in DOMAIN subscribers, TrySend(i) \/ CountDrop(i)
        PROVE  UNCHANGED <<nextId, id, stage, subscribers>>
    BY <1>3 DEF TrySend, CountDrop
  <1>4. ASSUME UNCHANGED vars PROVE UNCHANGED <<nextId, id, stage, subscribers>>
    BY <1>4 DEF vars
  <1> QED
    BY <1>1, <1>2, <1>3, <1>4 DEF Next, WriteStep

(* Ids: only a reservation changes them, and it takes a fresh one.         *)
LEMMA IdsStep == TypeOK /\ IdsFresh /\ [Next]_vars => IdsFresh'
  <1> SUFFICES ASSUME TypeOK, IdsFresh, [Next]_vars PROVE IdsFresh'
    OBVIOUS
  <1> USE DEF IdsFresh, registry, pass, receivers, counters
  <1>1. ASSUME NEW s \in Sub, Reserve(s) PROVE IdsFresh'
    <2>1. /\ id'[s] = nextId /\ nextId' = nextId + 1 /\ nextId \in Nat
          /\ \A t \in Sub : id[t] \in Nat
      BY <1>1 DEF Reserve, TypeOK
    <2>2. \A t \in Sub : t # s => stage'[t] = stage[t] /\ id'[t] = id[t]
      BY <1>1 DEF Reserve, TypeOK
    <2>3. \A t \in Sub : (t # s /\ stage'[t] # "new") => id'[t] < nextId
      BY <2>2
    <2> QED
      BY <2>1, <2>2, <2>3
  <1>2. ASSUME NEW s \in Sub, Insert(s) PROVE IdsFresh'
    BY <1>2 DEF Insert, TypeOK
  <1>3. ASSUME NEW s \in Sub, Unsubscribe(s) PROVE IdsFresh'
    BY <1>3 DEF Unsubscribe, TypeOK
  <1>4. ASSUME UNCHANGED <<nextId, id, stage>> PROVE IdsFresh'
    BY <1>4
  <1> QED
    <2>1. CASE \E s \in Sub : Reserve(s) \/ Insert(s) \/ Unsubscribe(s)
      BY <2>1, <1>1, <1>2, <1>3
    <2>2. CASE UNCHANGED <<nextId, id, stage, subscribers>>
      BY <2>2, <1>4
    <2> QED
      BY <2>1, <2>2, RegistryFrame

(* The map: insert adds the slot of a subscriber whose id nobody else has, *)
(* unsubscribe removes the caller's own.                                   *)
LEMMA OwnershipStep ==
  TypeOK /\ IdsFresh /\ SlotOwnership /\ [Next]_vars => SlotOwnership'
  <1> SUFFICES ASSUME TypeOK, IdsFresh, SlotOwnership, [Next]_vars
               PROVE SlotOwnership'
    OBVIOUS
  <1> USE DEF SlotOwnership, registry, pass, receivers, counters
  <1>1. ASSUME NEW s \in Sub, Reserve(s) PROVE SlotOwnership'
    <2>1. stage[s] = "new" /\ stage'[s] = "reserved" /\ subscribers' = subscribers
      BY <1>1 DEF Reserve, TypeOK
    <2>2. \A t \in Sub : t # s => stage'[t] = stage[t] /\ id'[t] = id[t]
      BY <1>1 DEF Reserve, TypeOK
    <2>3. \A t \in Sub : stage'[t] = "live" <=> stage[t] = "live"
      BY <2>1, <2>2
    <2> QED
      BY <2>1, <2>2, <2>3
  <1>2. ASSUME NEW s \in Sub, Insert(s) PROVE SlotOwnership'
    <2>1. \A t \in Sub : stage'[t] = "live" <=> (stage[t] = "live" \/ t = s)
      BY <1>2 DEF Insert, TypeOK
    <2>2. /\ DOMAIN subscribers' = DOMAIN subscribers \cup {id[s]}
          /\ subscribers'[id[s]] = s
          /\ \A i \in DOMAIN subscribers : i # id[s] => subscribers'[i] = subscribers[i]
      BY <1>2 DEF Insert
    <2>3. \A t \in Sub : (stage[t] = "live" /\ t # s) => id[t] # id[s]
      BY <1>2 DEF Insert, IdsFresh
    <2>4. id' = id
      BY <1>2 DEF Insert
    <2> QED
      BY <2>1, <2>2, <2>3, <2>4
  <1>3. ASSUME NEW s \in Sub, Unsubscribe(s) PROVE SlotOwnership'
    <2>1. \A t \in Sub : stage'[t] = "live" <=> (stage[t] = "live" /\ t # s)
      BY <1>3 DEF Unsubscribe, TypeOK
    <2>2. /\ DOMAIN subscribers' = DOMAIN subscribers \ {id[s]}
          /\ \A i \in DOMAIN subscribers : i # id[s] => subscribers'[i] = subscribers[i]
      BY <1>3 DEF Unsubscribe, Restrict
    <2>3. \A t \in Sub : (stage[t] = "live" /\ t # s) => id[t] # id[s]
      BY <1>3 DEF Unsubscribe, IdsFresh
    <2>4. id' = id
      BY <1>3 DEF Unsubscribe
    <2> QED
      BY <2>1, <2>2, <2>3, <2>4
  <1>4. ASSUME UNCHANGED <<id, stage, subscribers>> PROVE SlotOwnership'
    BY <1>4
  <1> QED
    <2>1. CASE \E s \in Sub : Reserve(s) \/ Insert(s) \/ Unsubscribe(s)
      BY <2>1, <1>1, <1>2, <1>3
    <2>2. CASE UNCHANGED <<nextId, id, stage, subscribers>>
      BY <2>2, <1>4
    <2> QED
      BY <2>1, <2>2, RegistryFrame

(* The pass: it starts with nothing owed and ends with nothing left.       *)
LEMMA PassStep == TypeOK /\ PassState /\ [Next]_vars => PassState'
  <1> SUFFICES ASSUME TypeOK, PassState, [Next]_vars PROVE PassState'
    OBVIOUS
  <1> USE DEF PassState, registry, pass, receivers, counters
  <1>1. ASSUME BeginWrite PROVE PassState'
    BY <1>1 DEF BeginWrite
  <1>2. ASSUME NEW i \in DOMAIN subscribers, TrySend(i) PROVE PassState'
    BY <1>2 DEF TrySend
  <1>3. ASSUME NEW i \in DOMAIN subscribers, CountDrop(i) PROVE PassState'
    BY <1>3 DEF CountDrop
  <1>4. ASSUME EndWrite PROVE PassState'
    BY <1>4 DEF EndWrite
  <1>5. ASSUME UNCHANGED <<writing, todo, owes>> PROVE PassState'
    BY <1>5
  <1> QED
    BY <1>1, <1>2, <1>3, <1>4, <1>5
    DEF Next, WriteStep, Reserve, Insert, Unsubscribe, Recv, DropReceiver, vars

(* The slot a pass works on belongs to a live subscriber.                  *)
LEMMA SlotIsLive ==
  ASSUME TypeOK, SlotOwnership, NEW i \in DOMAIN subscribers
  PROVE  subscribers[i] \in Sub /\ stage[subscribers[i]] = "live" /\ id[subscribers[i]] = i
  <1>1. PICK s \in Sub : stage[s] = "live" /\ id[s] = i
    BY DEF SlotOwnership
  <1>2. subscribers[i] = s
    BY <1>1 DEF SlotOwnership
  <1> QED
    BY <1>1, <1>2

(* Nothing reaches a subscriber that is not in the map yet.                *)
LEMMA BlankStep ==
  TypeOK /\ SlotOwnership /\ Blank /\ [Next]_vars => Blank'
  <1> SUFFICES ASSUME TypeOK, SlotOwnership, Blank, [Next]_vars PROVE Blank'
    OBVIOUS
  <1> USE DEF Blank, registry, pass, receivers, counters
  <1>1. ASSUME NEW s \in Sub, Reserve(s) PROVE Blank'
    BY <1>1 DEF Reserve, TypeOK
  <1>2. ASSUME NEW s \in Sub, Insert(s) PROVE Blank'
    BY <1>2 DEF Insert, TypeOK
  <1>3. ASSUME NEW s \in Sub, Unsubscribe(s) PROVE Blank'
    BY <1>3 DEF Unsubscribe, TypeOK
  <1>4. ASSUME BeginWrite PROVE Blank'
    BY <1>4 DEF BeginWrite, TypeOK
  <1>5. ASSUME NEW i \in DOMAIN subscribers, TrySend(i) PROVE Blank'
    <2>1. subscribers[i] \in Sub /\ stage[subscribers[i]] = "live"
      BY SlotIsLive
    <2>2. got' = got /\ audience' = audience /\ dropped' = dropped /\ stage' = stage
      BY <1>5 DEF TrySend
    <2>3. ASSUME NEW s \in Sub, s # subscribers[i] PROVE chan'[s] = chan[s]
      BY <1>5, <2>1, <2>3 DEF TrySend, TypeOK
    <2> QED
      BY <2>1, <2>2, <2>3
  <1>6. ASSUME NEW i \in DOMAIN subscribers, CountDrop(i) PROVE Blank'
    BY <1>6, SlotIsLive DEF CountDrop, TypeOK
  <1>7. ASSUME NEW s \in Sub, Recv(s) PROVE Blank'
    BY <1>7 DEF Recv, Subscribed, TypeOK
  <1>8. ASSUME NEW s \in Sub, DropReceiver(s) PROVE Blank'
    BY <1>8 DEF DropReceiver, Subscribed, TypeOK
  <1>9. ASSUME UNCHANGED <<stage, chan, got, audience, dropped>> PROVE Blank'
    BY <1>9
  <1> QED
    BY <1>1, <1>2, <1>3, <1>4, <1>5, <1>6, <1>7, <1>8, <1>9
    DEF Next, WriteStep, EndWrite, vars

(* The invariant is inductive, so it holds of the specification.           *)
THEOREM Invariance == Spec => []IInv
  <1>1. Init => IInv
    BY InitIInv
  <1>2. IInv /\ [Next]_vars => IInv'
    BY TypeStep, IdsStep, OwnershipStep, PassStep, BlankStep DEF IInv
  <1> QED
    BY <1>1, <1>2, PTL DEF Spec

-----------------------------------------------------------------------------
(* Every variable keeps its type, whatever the number of subscribers.      *)
THEOREM TypeCorrect == Spec => []TypeOK
  <1>1. IInv => TypeOK
    BY DEF IInv
  <1> QED
    BY <1>1, Invariance, PTL

(* No subscribe overwrites a slot and no unsubscribe removes another       *)
(* subscriber's, although ids are handed out without the mutex.            *)
THEOREM OwnershipHolds == Spec => []SlotOwnership
  <1>1. IInv => SlotOwnership
    BY DEF IInv
  <1> QED
    BY <1>1, Invariance, PTL

-----------------------------------------------------------------------------
(* Every unit is accounted for.                                            *)

Balanced(s) ==
  audience[s] = Len(got[s]) + Len(chan[s]) + dropped[s]
                + IF Unsettled(s, todo \cup owes) THEN 1 ELSE 0

Total(s) == Len(got[s]) + Len(chan[s]) + dropped[s]
Pending(s) == Unsettled(s, todo \cup owes)

(* Only dropping a Receiver changes which receivers exist.                 *)
LEMMA AliveFrame ==
  [Next]_vars => (\E r \in Sub : DropReceiver(r)) \/ alive' = alive
  <1> USE DEF registry, pass, receivers, counters
  <1>1. ASSUME NEW r \in Sub, Reserve(r) \/ Insert(r) \/ Unsubscribe(r) \/ Recv(r)
        PROVE  alive' = alive
    BY <1>1 DEF Reserve, Insert, Unsubscribe, Recv
  <1>2. ASSUME BeginWrite \/ EndWrite PROVE alive' = alive
    BY <1>2 DEF BeginWrite, EndWrite
  <1>3. ASSUME NEW i \in DOMAIN subscribers, TrySend(i) \/ CountDrop(i)
        PROVE  alive' = alive
    BY <1>3 DEF TrySend, CountDrop
  <1>4. ASSUME UNCHANGED vars PROVE alive' = alive
    BY <1>4 DEF vars
  <1> QED
    BY <1>1, <1>2, <1>3, <1>4 DEF Next, WriteStep

(* Every step moves a unit from one column of a subscriber's account to    *)
(* the next: begin of a pass to unsettled, try_send to queued or owed, the *)
(* counter to dropped, recv to received.                                   *)
LEMMA AccountedStep == IInv /\ Accounted /\ [Next]_vars => Accounted'
  <1> SUFFICES ASSUME IInv, Accounted, [Next]_vars, NEW s \in Sub, alive'[s]
               PROVE Balanced(s)'
    BY DEF Accounted, Balanced
  <1>0. TypeOK /\ IdsFresh /\ SlotOwnership /\ PassState /\ Blank
    BY DEF IInv
  <1>a. alive[s]
    <2>1. ASSUME NEW r \in Sub, DropReceiver(r) PROVE alive[s]
      BY <1>0, <2>1, Zenon DEF DropReceiver, TypeOK
    <2>2. CASE \E r \in Sub : DropReceiver(r)
      BY <2>1, <2>2
    <2>3. CASE alive' = alive
      BY <2>3
    <2> QED
      BY <2>2, <2>3, AliveFrame
  <1>b. Balanced(s)
    BY <1>a DEF Accounted, Balanced
  <1> USE DEF registry, pass, receivers, counters
  <1>c. audience[s] = Total(s) + IF Pending(s) THEN 1 ELSE 0
    BY <1>b DEF Balanced, Total, Pending
  <1>d. ASSUME audience'[s] = Total(s)' + IF Pending(s)' THEN 1 ELSE 0
        PROVE  Balanced(s)'
    BY <1>d DEF Balanced, Total, Pending
  <1>t. /\ Len(got[s]) \in Nat /\ Len(chan[s]) \in Nat /\ dropped[s] \in Nat
        /\ audience[s] \in Nat /\ chan[s] \in Seq(Nat) /\ got[s] \in Seq(Nat)
        /\ written \in Nat
    BY <1>0, MaxAusAssumption DEF TypeOK
  <1>p. PICK g \in Nat, c \in Nat, d \in Nat :
          g = Len(got[s]) /\ c = Len(chan[s]) /\ d = dropped[s]
    BY <1>t
  <1>s. Total(s) = g + c + d
    BY <1>p DEF Total
  <1>u. Total(s) \in Nat
    BY <1>s
  <1>1. ASSUME NEW r \in Sub, Reserve(r) PROVE Balanced(s)'
    <2>1. s = r => stage[s] = "new" /\ stage'[s] = "reserved"
      BY <1>0, <1>1 DEF Reserve, TypeOK
    <2>2. s # r => stage'[s] = stage[s] /\ id'[s] = id[s]
      BY <1>0, <1>1 DEF Reserve, TypeOK
    <2>3. UNCHANGED <<todo, owes, audience, got, chan, dropped>>
      BY <1>1 DEF Reserve
    <2>4. Pending(s)' <=> Pending(s)
      BY <2>1, <2>2, <2>3 DEF Pending, Unsettled
    <2> QED
      BY <1>c, <1>d, <2>3, <2>4 DEF Total
  <1>2. ASSUME NEW r \in Sub, Insert(r) \/ Unsubscribe(r) PROVE Balanced(s)'
    <2>1. todo = {} /\ owes = {}
      BY <1>0, <1>2 DEF Insert, Unsubscribe, PassState
    <2>2. UNCHANGED <<todo, owes, audience, got, chan, dropped>>
      BY <1>2 DEF Insert, Unsubscribe
    <2>3. ~Pending(s) /\ ~Pending(s)'
      BY <2>1, <2>2 DEF Pending, Unsettled
    <2> QED
      BY <1>c, <1>d, <2>2, <2>3 DEF Total
  <1>3. ASSUME BeginWrite PROVE Balanced(s)'
    <2>1. /\ todo = {} /\ owes = {} /\ owes' = {} /\ todo' = DOMAIN subscribers
      BY <1>0, <1>3 DEF BeginWrite, PassState
    <2>2. stage[s] = "live" => id[s] \in DOMAIN subscribers
      BY <1>0 DEF SlotOwnership
    <2>3. audience'[s] = audience[s] + IF stage[s] = "live" THEN 1 ELSE 0
      BY <1>0, <1>3 DEF BeginWrite, TypeOK
    <2>4. UNCHANGED <<id, stage, got, chan, dropped>>
      BY <1>3 DEF BeginWrite
    <2>5. ~Pending(s) /\ (Pending(s)' <=> stage[s] = "live")
      BY <2>1, <2>2, <2>4 DEF Pending, Unsettled
    <2>6. Total(s)' = Total(s)
      BY <2>4 DEF Total
    <2> QED
      BY <1>c, <1>d, <1>u, <2>3, <2>5, <2>6
  <1>4. ASSUME NEW i \in DOMAIN subscribers, TrySend(i) PROVE Balanced(s)'
    <2> DEFINE r == subscribers[i]
    <2>1. r \in Sub /\ stage[r] = "live" /\ id[r] = i
      BY <1>0, SlotIsLive
    <2>2. s # r => ~(stage[s] = "live" /\ id[s] = i)
      BY <1>0, <2>1 DEF IdsFresh
    <2>3. /\ i \in todo /\ owes = {} /\ todo' = todo \ {i}
          /\ UNCHANGED <<id, stage, got, audience, dropped>>
      BY <1>4 DEF TrySend
    <2>4. CASE chan' = [chan EXCEPT ![r] = Append(@, written)] /\ owes' = owes
      <3>1. s = r => Len(chan'[s]) = Len(chan[s]) + 1
        BY <1>0, <1>t, <2>4 DEF TypeOK
      <3>2. s # r => chan'[s] = chan[s]
        BY <1>0, <2>4 DEF TypeOK
      <3>3. Total(s)' = IF s = r THEN Total(s) + 1 ELSE Total(s)
        <4>1. CASE s = r
          <5>1. Total(s)' = g + (c + 1) + d
            BY <1>p, <2>3, <3>1, <4>1 DEF Total
          <5> QED
            BY <1>s, <4>1, <5>1
        <4>2. CASE s # r
          BY <2>3, <3>2, <4>2 DEF Total
        <4> QED
          BY <4>1, <4>2
      <3>4. IF s = r THEN Pending(s) /\ ~Pending(s)' ELSE Pending(s)' <=> Pending(s)
        BY <2>1, <2>2, <2>3, <2>4 DEF Pending, Unsettled
      <3> QED
        BY <1>c, <1>d, <1>u, <2>3, <3>3, <3>4
    <2>5. CASE chan' = chan /\ owes' = {i}
      <3>1. Total(s)' = Total(s)
        BY <2>3, <2>5 DEF Total
      <3>2. Pending(s)' <=> Pending(s)
        BY <2>3, <2>5 DEF Pending, Unsettled
      <3> QED
        BY <1>c, <1>d, <2>3, <3>1, <3>2
    <2> QED
      BY <1>4, <2>4, <2>5 DEF TrySend
  <1>5. ASSUME NEW i \in DOMAIN subscribers, CountDrop(i) PROVE Balanced(s)'
    <2> DEFINE r == subscribers[i]
    <2>1. r \in Sub /\ stage[r] = "live" /\ id[r] = i
      BY <1>0, SlotIsLive
    <2>2. s # r => ~(stage[s] = "live" /\ id[s] = i)
      BY <1>0, <2>1 DEF IdsFresh
    <2>3. /\ owes' = {} /\ owes = {i} /\ i \notin todo
          /\ UNCHANGED <<id, stage, got, chan, audience, todo>>
      BY <1>0, <1>5 DEF CountDrop, PassState
    <2>4. dropped'[s] = IF s = r THEN dropped[s] + 1 ELSE dropped[s]
      BY <1>0, <1>5 DEF CountDrop, TypeOK
    <2>5. Total(s)' = IF s = r THEN Total(s) + 1 ELSE Total(s)
      <3>1. CASE s = r
        <4>1. Total(s)' = g + c + (d + 1)
          BY <1>p, <2>3, <2>4, <3>1 DEF Total
        <4> QED
          BY <1>s, <3>1, <4>1
      <3>2. CASE s # r
        BY <2>3, <2>4, <3>2 DEF Total
      <3> QED
        BY <3>1, <3>2
    <2>6. IF s = r THEN Pending(s) /\ ~Pending(s)' ELSE Pending(s)' <=> Pending(s)
      BY <2>1, <2>2, <2>3 DEF Pending, Unsettled
    <2> QED
      BY <1>c, <1>d, <1>u, <2>3, <2>5, <2>6
  <1>6. ASSUME NEW r \in Sub, Recv(r) PROVE Balanced(s)'
    <2>1. s = r => Len(got'[s]) = Len(got[s]) + 1 /\ Len(chan'[s]) = Len(chan[s]) - 1
      BY <1>0, <1>t, <1>6 DEF Recv, TypeOK
    <2>2. s # r => got'[s] = got[s] /\ chan'[s] = chan[s]
      BY <1>0, <1>6 DEF Recv, TypeOK
    <2>3. UNCHANGED <<id, stage, audience, dropped, todo, owes>>
      BY <1>6 DEF Recv
    <2>4. Total(s)' = Total(s)
      <3>1. CASE s = r
        <4>1. Total(s)' = (g + 1) + (c - 1) + d
          BY <1>p, <2>1, <2>3, <3>1 DEF Total
        <4> QED
          BY <1>s, <4>1
      <3>2. CASE s # r
        BY <2>2, <2>3, <3>2 DEF Total
      <3> QED
        BY <3>1, <3>2
    <2>5. Pending(s)' <=> Pending(s)
      BY <2>3 DEF Pending, Unsettled
    <2> QED
      BY <1>c, <1>d, <2>3, <2>4, <2>5
  <1>7. ASSUME NEW r \in Sub, DropReceiver(r) PROVE Balanced(s)'
    <2>1. s # r
      BY <1>0, <1>7, Zenon DEF DropReceiver, TypeOK
    <2>2. chan'[s] = chan[s]
      BY <1>0, <1>7, <2>1 DEF DropReceiver, TypeOK
    <2>3. UNCHANGED <<id, stage, got, audience, dropped, todo, owes>>
      BY <1>7 DEF DropReceiver
    <2> QED
      BY <1>c, <1>d, <2>2, <2>3 DEF Total, Pending, Unsettled
  <1>8. ASSUME UNCHANGED <<id, stage, got, chan, audience, dropped, todo, owes>>
        PROVE  Balanced(s)'
    BY <1>c, <1>d, <1>8 DEF Total, Pending, Unsettled
  <1>9. ASSUME EndWrite \/ UNCHANGED vars
        PROVE  UNCHANGED <<id, stage, got, chan, audience, dropped, todo, owes>>
    BY <1>9 DEF EndWrite, vars
  <1> QED
    BY <1>1, <1>2, <1>3, <1>4, <1>5, <1>6, <1>7, <1>8, <1>9 DEF Next, WriteStep

(* No unit vanishes silently, for any capacity and any number of units.    *)
THEOREM NothingVanishes == Spec => []Accounted
  <1>1. Init => Accounted
    BY DEF Init, Accounted, Unsettled
  <1>2. IInv /\ Accounted /\ [Next]_vars => Accounted'
    BY AccountedStep
  <1> QED
    BY <1>1, <1>2, Invariance, PTL DEF Spec

-----------------------------------------------------------------------------
(* Order of delivery.                                                      *)

(* Appending something larger keeps a sequence increasing.                 *)
LEMMA AppendIncreasing ==
  ASSUME NEW q \in Seq(Nat), NEW n \in Nat, Increasing(q),
         \A k \in 1..Len(q) : q[k] < n
  PROVE  Append(q, n) \in Seq(Nat) /\ Increasing(Append(q, n))
  BY DEF Increasing

(* Sending appends to received-then-queued.                                *)
LEMMA ConcatAppend ==
  ASSUME NEW g \in Seq(Nat), NEW c \in Seq(Nat), NEW n \in Nat
  PROVE  g \o Append(c, n) = Append(g \o c, n)
  OBVIOUS

(* Receiving does not change received-then-queued.                         *)
LEMMA ConcatMove ==
  ASSUME NEW g \in Seq(Nat), NEW c \in Seq(Nat), c # <<>>
  PROVE  Append(g, Head(c)) \o Tail(c) = g \o c
  OBVIOUS

(* Dropping the Receiver cuts received-then-queued to a prefix, which is   *)
(* still increasing.                                                       *)
LEMMA ConcatPrefix ==
  ASSUME NEW g \in Seq(Nat), NEW c \in Seq(Nat), Increasing(g \o c)
  PROVE  /\ Increasing(g \o <<>>)
         /\ \A k \in 1..Len(g \o <<>>) : k \in 1..Len(g \o c)
                                      /\ (g \o <<>>)[k] = (g \o c)[k]
  <1>1. g \o <<>> = g
    OBVIOUS
  <1>2. \A k \in 1..Len(g) : k \in 1..Len(g \o c) /\ (g \o c)[k] = g[k]
    OBVIOUS
  <1>3. Increasing(g)
    <2> SUFFICES ASSUME NEW i \in 1..Len(g), NEW j \in 1..Len(g), i < j
                 PROVE  g[i] < g[j]
      BY DEF Increasing
    <2>1. DOMAIN (g \o c) = 1..Len(g \o c)
      OBVIOUS
    <2>2. (g \o c)[i] < (g \o c)[j]
      BY <1>2, <2>1, Zenon DEF Increasing
    <2> QED
      BY <1>2, <2>2
  <1>4. Increasing(g \o <<>>)
    BY <1>1, <1>3, Zenon
  <1> QED
    BY <1>1, <1>2, <1>4, Zenon

Seen(s) == got[s] \o chan[s]

\* What a subscriber has seen is not newer than the last write, and older
\* than it while that write has not tried the subscriber yet.
SeenBelow(s) ==
  /\ \A k \in 1..Len(Seen(s)) : Seen(s)[k] <= written
  /\ Unsettled(s, todo) => \A k \in 1..Len(Seen(s)) : Seen(s)[k] < written

Ordered == \A s \in Sub : Increasing(Seen(s)) /\ SeenBelow(s)

(* Every step keeps received-then-queued increasing and below the unit     *)
(* being written.                                                          *)
LEMMA OrderedStep == IInv /\ Ordered /\ [Next]_vars => Ordered'
  <1> SUFFICES ASSUME IInv, Ordered, [Next]_vars, NEW s \in Sub
               PROVE (Increasing(Seen(s)) /\ SeenBelow(s))'
    BY DEF Ordered
  <1> DEFINE Goal == (Increasing(Seen(s)) /\ SeenBelow(s))'
  <1>0. /\ TypeOK /\ IdsFresh /\ SlotOwnership /\ PassState
        /\ Increasing(Seen(s)) /\ SeenBelow(s)
    BY DEF IInv, Ordered
  <1> USE DEF registry, pass, receivers, counters
  <1>t. /\ chan[s] \in Seq(Nat) /\ got[s] \in Seq(Nat) /\ Seen(s) \in Seq(Nat)
        /\ written \in Nat
    BY <1>0, MaxAusAssumption DEF TypeOK, Seen
  \* Steps that move nothing and leave nobody newly unsettled.
  <1>k. ASSUME Seen(s)' = Seen(s), written' = written,
               Unsettled(s, todo)' => Unsettled(s, todo)
        PROVE  Goal
    BY <1>0, <1>k DEF SeenBelow
  <1>1. ASSUME NEW r \in Sub, Reserve(r) PROVE Goal
    <2>1. stage'[s] = "live" => stage[s] = "live" /\ id'[s] = id[s]
      BY <1>0, <1>1 DEF Reserve, TypeOK
    <2>2. UNCHANGED <<got, chan, written, todo>>
      BY <1>1 DEF Reserve
    <2> QED
      BY <1>k, <2>1, <2>2 DEF Seen, Unsettled
  <1>2. ASSUME NEW r \in Sub, Insert(r) \/ Unsubscribe(r) PROVE Goal
    <2>1. todo = {}
      BY <1>0, <1>2 DEF Insert, Unsubscribe, PassState
    <2>2. UNCHANGED <<got, chan, written, todo>>
      BY <1>2 DEF Insert, Unsubscribe
    <2> QED
      BY <1>k, <2>1, <2>2 DEF Seen, Unsettled
  <1>3. ASSUME BeginWrite PROVE Goal
    <2>1. written' = written + 1 /\ Seen(s)' = Seen(s)
      BY <1>3 DEF BeginWrite, Seen
    <2>2. \A k \in 1..Len(Seen(s)) : Seen(s)[k] \in Nat /\ Seen(s)[k] <= written
      BY <1>0, <1>t DEF SeenBelow
    <2>3. \A k \in 1..Len(Seen(s)) : Seen(s)[k] < written'
      BY <1>t, <2>1, <2>2
    <2>4. \A k \in 1..Len(Seen(s)) : Seen(s)[k] <= written'
      BY <1>t, <2>1, <2>2
    <2> QED
      BY <1>0, <2>1, <2>3, <2>4 DEF SeenBelow
  <1>4. ASSUME NEW i \in DOMAIN subscribers, TrySend(i) PROVE Goal
    <2> DEFINE r == subscribers[i]
    <2>1. r \in Sub /\ stage[r] = "live" /\ id[r] = i
      BY <1>0, SlotIsLive
    <2>2. /\ i \in todo /\ todo' = todo \ {i}
          /\ UNCHANGED <<id, stage, got, written>>
      BY <1>4 DEF TrySend
    <2>3. Unsettled(s, todo)' => Unsettled(s, todo)
      BY <2>2 DEF Unsettled
    <2>4. CASE s = r /\ chan' = [chan EXCEPT ![r] = Append(@, written)]
      <3>1. Unsettled(s, todo) /\ ~Unsettled(s, todo)'
        BY <2>1, <2>2, <2>4 DEF Unsettled
      <3>2. chan'[s] = Append(chan[s], written)
        BY <1>0, <2>4 DEF TypeOK
      <3>3. Seen(s)' = Append(Seen(s), written)
        <4>1. Seen(s)' = got[s] \o Append(chan[s], written)
          BY <2>2, <3>2 DEF Seen
        <4>2. got[s] \in Seq(Nat) /\ chan[s] \in Seq(Nat) /\ written \in Nat
          BY <1>0 DEF TypeOK
        <4> QED
          BY <4>1, <4>2, ConcatAppend, Zenon DEF Seen
      <3>4. \A k \in 1..Len(Seen(s)) : Seen(s)[k] < written
        BY <1>0, <3>1 DEF SeenBelow
      <3>5. Increasing(Seen(s)')
        BY <1>0, <1>t, <3>3, <3>4, AppendIncreasing
      <3>6. \A k \in 1..Len(Append(Seen(s), written)) : Append(Seen(s), written)[k] <= written
        BY <1>t, <3>4
      <3> QED
        BY <2>2, <3>1, <3>3, <3>5, <3>6 DEF SeenBelow
    <2>5. CASE chan'[s] = chan[s]
      BY <1>k, <2>2, <2>3, <2>5 DEF Seen
    <2>6. \/ s = r /\ chan' = [chan EXCEPT ![r] = Append(@, written)]
          \/ chan'[s] = chan[s]
      BY <1>0, <1>4 DEF TrySend, TypeOK
    <2> QED
      BY <2>4, <2>5, <2>6
  <1>5. ASSUME NEW r \in Sub, Recv(r) PROVE Goal
    <2>1. Seen(s)' = Seen(s)
      <3>1. CASE s = r
        <4>1. /\ chan[s] # <<>> /\ got'[s] = Append(got[s], Head(chan[s]))
              /\ chan'[s] = Tail(chan[s])
          BY <1>0, <1>5, <3>1 DEF Recv, TypeOK
        <4> QED
          BY <1>t, <4>1, ConcatMove DEF Seen
      <3>2. CASE s # r
        BY <1>0, <1>5, <3>2 DEF Recv, Seen, TypeOK
      <3> QED
        BY <3>1, <3>2
    <2>2. UNCHANGED <<id, stage, todo, written>>
      BY <1>5 DEF Recv
    <2> QED
      BY <1>k, <2>1, <2>2 DEF Unsettled
  <1>6. ASSUME NEW r \in Sub, DropReceiver(r) PROVE Goal
    <2>1. UNCHANGED <<id, stage, todo, written, got>>
      BY <1>6 DEF DropReceiver
    <2>2. CASE s = r
      <3>1. chan'[s] = <<>>
        BY <1>0, <1>6, <2>2 DEF DropReceiver, TypeOK
      <3>2. Seen(s)' = got[s] \o <<>>
        BY <2>1, <3>1 DEF Seen
      <3>3. /\ Increasing(Seen(s)')
            /\ \A k \in 1..Len(Seen(s)') : k \in 1..Len(Seen(s))
                                          /\ Seen(s)'[k] = Seen(s)[k]
        <4>1. Increasing(got[s] \o chan[s])
          BY <1>0 DEF Seen
        <4>2. /\ Increasing(got[s] \o <<>>)
              /\ \A k \in 1..Len(got[s] \o <<>>) :
                    /\ k \in 1..Len(got[s] \o chan[s])
                    /\ (got[s] \o <<>>)[k] = (got[s] \o chan[s])[k]
          BY <1>t, <4>1, ConcatPrefix
        <4> QED
          BY <3>2, <4>2 DEF Seen
      <3>4. Unsettled(s, todo)' = Unsettled(s, todo)
        BY <2>1 DEF Unsettled
      <3> QED
        BY <1>0, <2>1, <3>3, <3>4 DEF SeenBelow
    <2>3. CASE s # r
      <3>1. Seen(s)' = Seen(s)
        BY <1>0, <1>6, <2>3 DEF DropReceiver, Seen, TypeOK
      <3> QED
        BY <1>k, <2>1, <3>1 DEF Unsettled
    <2> QED
      BY <2>2, <2>3
  <1>7. ASSUME UNCHANGED <<id, stage, got, chan, written, todo>> PROVE Goal
    BY <1>k, <1>7 DEF Seen, Unsettled
  <1>8. ASSUME EndWrite \/ UNCHANGED vars
        PROVE  UNCHANGED <<id, stage, got, chan, written, todo>>
    BY <1>8 DEF EndWrite, vars
  <1>9. ASSUME NEW i \in DOMAIN subscribers, CountDrop(i)
        PROVE  UNCHANGED <<id, stage, got, chan, written, todo>>
    BY <1>9 DEF CountDrop
  <1> QED
    BY <1>1, <1>2, <1>3, <1>4, <1>5, <1>6, <1>7, <1>8, <1>9 DEF Next, WriteStep

(* Every subscriber sees the units in the order they were written, none    *)
(* twice, for any number of subscribers, units and capacities.             *)
THEOREM DeliveredInOrder == Spec => []InOrder
  <1>1. Init => Ordered
    BY DEF Init, Ordered, Seen, SeenBelow, Increasing
  <1>2. IInv /\ Ordered /\ [Next]_vars => Ordered'
    BY OrderedStep
  <1>3. Ordered => InOrder
    BY DEF Ordered, InOrder, Seen
  <1> QED
    BY <1>1, <1>2, <1>3, Invariance, PTL DEF Spec

-----------------------------------------------------------------------------
(* After unsubscribe the channel only drains and the counter is final: the *)
(* slot a pass works on belongs to a subscriber that is still live.        *)
THEOREM QuietHolds == Spec => QuietAfterUnsubscribe
  <1>1. ASSUME IInv, [Next]_vars, NEW s \in Sub, stage[s] = "gone"
        PROVE  Len(chan'[s]) <= Len(chan[s]) /\ dropped'[s] = dropped[s]
    <2>0. TypeOK /\ SlotOwnership /\ chan[s] \in Seq(Nat)
      BY <1>1 DEF IInv, TypeOK
    <2> USE DEF registry, pass, receivers, counters
    <2>k. ASSUME chan'[s] = chan[s], dropped'[s] = dropped[s]
          PROVE  Len(chan'[s]) <= Len(chan[s]) /\ dropped'[s] = dropped[s]
      BY <2>0, <2>k
    <2>1. ASSUME NEW r \in Sub, Recv(r) \/ DropReceiver(r)
          PROVE  Len(chan'[s]) <= Len(chan[s]) /\ dropped'[s] = dropped[s]
      <3>1. chan'[s] = chan[s] \/ chan'[s] = <<>> \/ (chan[s] # <<>> /\ chan'[s] = Tail(chan[s]))
        BY <2>0, <2>1 DEF Recv, DropReceiver, TypeOK
      <3>2. Len(chan'[s]) <= Len(chan[s])
        <4>1. PICK n \in Nat : n = Len(chan[s])
          BY <2>0
        <4>2. CASE chan'[s] = chan[s]
          BY <4>1, <4>2
        <4>3. CASE chan'[s] = <<>>
          BY <4>1, <4>3
        <4>4. CASE chan[s] # <<>> /\ chan'[s] = Tail(chan[s])
          <5>1. Len(chan'[s]) = n - 1
            BY <2>0, <4>1, <4>4
          <5> QED
            BY <4>1, <5>1
        <4> QED
          BY <3>1, <4>2, <4>3, <4>4
      <3>3. dropped' = dropped
        BY <2>1 DEF Recv, DropReceiver
      <3> QED
        BY <3>2, <3>3
    <2>2. ASSUME NEW i \in DOMAIN subscribers, TrySend(i) \/ CountDrop(i)
          PROVE  chan'[s] = chan[s] /\ dropped'[s] = dropped[s]
      <3>1. subscribers[i] # s
        BY <1>1, <2>0, SlotIsLive
      <3> QED
        BY <2>0, <2>2, <3>1 DEF TrySend, CountDrop, TypeOK
    <2>3. ASSUME NEW r \in Sub, Reserve(r) \/ Insert(r) \/ Unsubscribe(r)
          PROVE  chan'[s] = chan[s] /\ dropped'[s] = dropped[s]
      BY <2>3 DEF Reserve, Insert, Unsubscribe
    <2>4. ASSUME BeginWrite \/ EndWrite \/ UNCHANGED vars
          PROVE  chan'[s] = chan[s] /\ dropped'[s] = dropped[s]
      BY <2>4 DEF BeginWrite, EndWrite, vars
    <2> QED
      BY <1>1, <2>k, <2>1, <2>2, <2>3, <2>4 DEF Next, WriteStep
  <1>2. IInv /\ [Next]_vars =>
          [\A s \in Sub : stage[s] = "gone" =>
             /\ Len(chan'[s]) <= Len(chan[s])
             /\ dropped'[s] = dropped[s]]_vars
    BY <1>1
  <1> QED
    BY <1>2, Invariance, PTL DEF Spec, QuietAfterUnsubscribe

-----------------------------------------------------------------------------
(* The sums of the counters of the subscribers.                            *)

\* Nothing adds up to nothing.
LEMMA SumOfNothing ==
  ASSUME NEW f, NEW S, IsFiniteSet(S), \A x \in S : f[x] = 0
  PROVE  Sum(f, S) = 0
<1>1. PICK g : AddsUp(g, f, S) /\ Sum(f, S) = g[S]
  BY SumAddsUp
<1> DEFINE D == {T \in SUBSET S : g[T] # 0}
<1>2. SUFFICES ASSUME D # {} PROVE FALSE
  BY <1>1
<1>3. D \subseteq SUBSET S
  OBVIOUS
<1> HIDE DEF D
<1>4. PICK T \in D : \A U \in D : U \subseteq T => U = T
  BY <1>2, <1>3, Smallest
<1>5. T # {}
  BY <1>1, <1>4, AddsUpStep DEF D
<1>6. OneOf(T) \in T
  BY <1>5, TakenIn
<1>7. g[T \ {OneOf(T)}] = 0 /\ f[OneOf(T)] = 0
  BY <1>4, <1>6 DEF D
<1> QED
  BY <1>1, <1>4, <1>5, <1>7, AddsUpStep DEF D

\* One more in one place is one more in the sum.
LEMMA SumOfOneMore ==
  ASSUME NEW S, IsFiniteSet(S), NEW f \in [S -> Nat], NEW s \in S
  PROVE  /\ Sum(f, S) \in Nat
         /\ Sum([f EXCEPT ![s] = @ + 1], S) = Sum(f, S) + 1
<1> DEFINE e == [f EXCEPT ![s] = @ + 1]
<1>1. PICK g : AddsUp(g, f, S) /\ Sum(f, S) = g[S]
  BY SumAddsUp
<1>2. PICK h : AddsUp(h, e, S) /\ Sum(e, S) = h[S]
  BY SumAddsUp
<1>0. \A x \in S : e[x] = f[x] + (IF x = s THEN 1 ELSE 0)
  OBVIOUS
<1> HIDE DEF e
<1> DEFINE D == {T \in SUBSET S :
                   ~ (g[T] \in Nat /\ h[T] = g[T] + (IF s \in T THEN 1 ELSE 0))}
<1>3. SUFFICES ASSUME D # {} PROVE FALSE
  BY <1>1, <1>2 DEF e
<1>4. D \subseteq SUBSET S
  OBVIOUS
<1> HIDE DEF D
<1>5. PICK T \in D : \A U \in D : U \subseteq T => U = T
  BY <1>3, <1>4, Smallest
<1>6. T \in SUBSET S /\ ~ (g[T] \in Nat /\ h[T] = g[T] + (IF s \in T THEN 1 ELSE 0))
  BY <1>5 DEF D
<1>7. T # {}
  <2>1. ASSUME T = {} PROVE g[T] = 0 /\ h[T] = 0
    BY <1>1, <1>2, <1>6, <2>1, AddsUpStep
  <2> QED
    BY <1>6, <2>1
<1>8. OneOf(T) \in T /\ OneOf(T) \in S
  BY <1>6, <1>7, TakenIn
<1> DEFINE V == T \ {OneOf(T)}
<1>9. g[V] \in Nat /\ h[V] = g[V] + (IF s \in V THEN 1 ELSE 0)
  <2>1. V \in SUBSET S /\ V \subseteq T /\ V # T
    BY <1>6, <1>8
  <2> QED
    BY <1>5, <2>1 DEF D
<1>10. g[T] = f[OneOf(T)] + g[V]
  <2>1. AddsUp(g, f, S) /\ T \in SUBSET S /\ T # {}
    BY <1>1, <1>6, <1>7
  <2> QED
    BY ONLY <2>1, AddsUpStep
<1>11. h[T] = e[OneOf(T)] + h[V]
  <2>1. AddsUp(h, e, S) /\ T \in SUBSET S /\ T # {}
    BY <1>2, <1>6, <1>7
  <2> QED
    BY ONLY <2>1, AddsUpStep
<1>12. f[OneOf(T)] \in Nat /\ e[OneOf(T)] = f[OneOf(T)] + (IF OneOf(T) = s THEN 1 ELSE 0)
  BY <1>0, <1>8
<1>13. s \in T <=> s \in V \/ OneOf(T) = s
  BY <1>8
<1>14. ~ (s \in V /\ OneOf(T) = s)
  OBVIOUS
<1> HIDE DEF V
<1> QED
  BY <1>6, <1>9, <1>10, <1>11, <1>12, <1>13, <1>14

LEMMA DropCountIsSum == ASSUME NEW f PROVE DropCount(f) = Sum(f, Sub)
  BY DEF DropCount, Sum

-----------------------------------------------------------------------------
\* What the theorem below keeps: every increment is in two places at once.
LEMMA DropsStep == IInv /\ DropsAddUp /\ [Next]_vars => DropsAddUp'
<1> SUFFICES ASSUME IInv, DropsAddUp, [Next]_vars PROVE DropsAddUp'
  OBVIOUS
<1>1. DropsAddUp <=> droppedAus + passDrops = DropCount(dropped)
  BY DEF DropsAddUp
<1>2. DropsAddUp' <=> droppedAus' + passDrops' = DropCount(dropped')
  BY DEF DropsAddUp
<1>3. /\ dropped \in [Sub -> Nat] /\ droppedAus \in Nat /\ passDrops \in Nat
      /\ subscribers \in [DOMAIN subscribers -> Sub]
  BY DEF IInv, TypeOK
<1>4. ASSUME NEW i \in DOMAIN subscribers, CountDrop(i) PROVE DropsAddUp'
  <2>1. subscribers[i] \in Sub
    BY <1>3
  <2>2. /\ dropped' = [dropped EXCEPT ![subscribers[i]] = @ + 1]
        /\ passDrops' = passDrops + 1 /\ droppedAus' = droppedAus
    BY <1>4 DEF CountDrop
  <2>3. DropCount(dropped') = DropCount(dropped) + 1 /\ DropCount(dropped) \in Nat
    BY <1>3, <2>1, <2>2, SumOfOneMore, SubAssumption, DropCountIsSum
  <2> QED
    BY <1>1, <1>2, <1>3, <2>2, <2>3
<1>5. CASE EndWrite
  <2>1. droppedAus' = droppedAus + passDrops /\ passDrops' = 0 /\ dropped' = dropped
    BY <1>5 DEF EndWrite
  <2> QED
    BY <1>1, <1>2, <1>3, <2>1
<1>6. ASSUME UNCHANGED <<dropped, droppedAus, passDrops>> PROVE DropsAddUp'
  BY <1>1, <1>2, <1>6
<1>7. CASE \E s \in Sub : \/ Reserve(s) \/ Insert(s) \/ Unsubscribe(s)
                          \/ Recv(s) \/ DropReceiver(s)
  <2>1. UNCHANGED <<dropped, droppedAus, passDrops>>
    BY <1>7 DEF Reserve, Insert, Unsubscribe, Recv, DropReceiver, counters, pass
  <2> QED
    BY <1>6, <2>1
<1>8. CASE BeginWrite \/ UNCHANGED vars
  <2>1. UNCHANGED <<dropped, droppedAus, passDrops>>
    BY <1>8 DEF BeginWrite, vars, counters, pass
  <2> QED
    BY <1>6, <2>1
<1>9. CASE \E i \in DOMAIN subscribers : TrySend(i)
  <2>1. UNCHANGED <<dropped, droppedAus, passDrops>>
    BY <1>9 DEF TrySend, counters
  <2> QED
    BY <1>6, <2>1
<1> QED
  BY <1>4, <1>5, <1>7, <1>8, <1>9 DEF Next, WriteStep

(* The global counter is the sum of the subscribers' counters, up to the   *)
(* drops of the pass in progress, for any number of subscribers and        *)
(* units: no drop is counted twice and none is lost, whoever unsubscribes  *)
(* or is dropped in between (AuHub::write).                                *)
THEOREM DropsCounted == Spec => []DropsAddUp
<1>1. Init => DropsAddUp
  <2> SUFFICES ASSUME Init PROVE DropsAddUp
    OBVIOUS
  <2>1. droppedAus = 0 /\ passDrops = 0 /\ \A s \in Sub : dropped[s] = 0
    BY DEF Init
  <2>2. DropCount(dropped) = 0
    BY <2>1, SumOfNothing, SubAssumption, DropCountIsSum
  <2> QED
    BY <2>1, <2>2 DEF DropsAddUp
<1> QED
  BY <1>1, DropsStep, Invariance, PTL DEF Spec

-----------------------------------------------------------------------------
(* The hub implements a HubSlot for every one of its subscribers.          *)

(* A step that leaves the subscriber's part of the state alone.            *)
LEMMA SlotStutters ==
  ASSUME stage'[one] = stage[one], id'[one] = id[one], alive'[one] = alive[one],
         chan'[one] = chan[one], dropped'[one] = dropped[one],
         written' = written,
         id[one] \in todo' <=> id[one] \in todo,
         id[one] \in owes' <=> id[one] \in owes
  PROVE  UNCHANGED Slot!slotVars
  BY DEF Slot!slotVars, SlotLinked, SlotLast, Unsettled

(* A subscriber that has not subscribed is a new slot.                     *)
LEMMA SlotInit == Init => Slot!Init
  BY OneAssumption DEF Init, Slot!Init, SlotLinked, SlotLast, Unsettled

(* Every step of the hub is a step of the slot or leaves it alone.         *)
LEMMA SlotStep == IInv /\ [Next]_vars => [Slot!Next]_(Slot!slotVars)
  <1> SUFFICES ASSUME IInv, [Next]_vars
               PROVE  Slot!Next \/ UNCHANGED Slot!slotVars
    OBVIOUS
  <1> DEFINE Goal == Slot!Next \/ UNCHANGED Slot!slotVars
  <1>0. /\ TypeOK /\ IdsFresh /\ SlotOwnership /\ PassState
        /\ one \in Sub /\ written \in Nat
    BY OneAssumption, MaxAusAssumption DEF IInv, TypeOK
  <1> USE DEF registry, pass, receivers, counters
  <1>1. ASSUME NEW r \in Sub, Reserve(r) PROVE Goal
    <2>1. UNCHANGED <<todo, owes, written, chan, alive, dropped>>
      BY <1>1 DEF Reserve
    <2>2. CASE r = one
      <3>1. stage[one] = "new" /\ stage'[one] = "reserved"
        BY <1>0, <1>1, <2>2 DEF Reserve, TypeOK
      <3> QED
        BY <2>1, <3>1 DEF Slot!slotVars, SlotLinked, SlotLast, Unsettled
    <2>3. CASE r # one
      <3>1. stage'[one] = stage[one] /\ id'[one] = id[one]
        BY <1>0, <1>1, <2>3 DEF Reserve, TypeOK
      <3> QED
        BY <2>1, <3>1, SlotStutters
    <2> QED
      BY <2>2, <2>3
  <1>2. ASSUME NEW r \in Sub, Insert(r) PROVE Goal
    <2>1. UNCHANGED <<id, todo, owes, written, chan, alive, dropped>>
      BY <1>2 DEF Insert
    <2>2. CASE r = one
      <3>1. /\ stage[one] = "reserved" /\ stage'[one] = "live"
            /\ todo = {} /\ owes = {}
        BY <1>0, <1>2, <2>2 DEF Insert, TypeOK, PassState
      <3>2. /\ SlotLinked = "new" /\ SlotLinked' = "linked"
            /\ SlotLast = 0 /\ SlotLast' = written
        BY <2>1, <3>1 DEF SlotLinked, SlotLast
      <3>3. Unsettled(one, owes)' = Unsettled(one, owes)
        BY <2>1, <3>1 DEF Unsettled
      <3>4. SlotLast' \in Nat /\ SlotLast' >= SlotLast
        BY <1>0, <3>2
      <3>5. Slot!Link(SlotLast')
        BY <2>1, <3>2, <3>3, <3>4 DEF Slot!Link
      <3> QED
        BY <3>4, <3>5 DEF Slot!Next
    <2>3. CASE r # one
      <3>1. stage'[one] = stage[one]
        BY <1>0, <1>2, <2>3 DEF Insert, TypeOK
      <3> QED
        BY <2>1, <3>1, SlotStutters
    <2> QED
      BY <2>2, <2>3
  <1>3. ASSUME NEW r \in Sub, Unsubscribe(r) PROVE Goal
    <2>1. UNCHANGED <<id, todo, owes, written, chan, alive, dropped>>
      BY <1>3 DEF Unsubscribe
    <2>2. CASE r = one
      <3>1. /\ stage[one] = "live" /\ stage'[one] = "gone" /\ owes = {}
        BY <1>0, <1>3, <2>2 DEF Unsubscribe, TypeOK, PassState
      <3>2. Slot!Unlink
        BY <2>1, <3>1 DEF Slot!Unlink, SlotLinked, SlotLast, Unsettled
      <3> QED
        BY <3>2 DEF Slot!Next
    <2>3. CASE r # one
      <3>1. stage'[one] = stage[one]
        BY <1>0, <1>3, <2>3 DEF Unsubscribe, TypeOK
      <3> QED
        BY <2>1, <3>1, SlotStutters
    <2> QED
      BY <2>2, <2>3
  <1>4. ASSUME BeginWrite PROVE Goal
    <2>1. /\ todo = {} /\ owes = {} /\ owes' = {} /\ todo' = DOMAIN subscribers
          /\ written' = written + 1
          /\ UNCHANGED <<id, stage, chan, alive, dropped>>
      BY <1>0, <1>4 DEF BeginWrite, PassState
    <2>2. stage[one] = "live" => id[one] \in DOMAIN subscribers
      BY <1>0 DEF SlotOwnership
    <2>3. SlotLast' = SlotLast
      <3>1. CASE stage[one] = "live"
        <4>1. SlotLast = written /\ SlotLast' = written' - 1
          BY <2>1, <2>2, <3>1 DEF SlotLast
        <4> QED
          BY <1>0, <2>1, <4>1
      <3>2. CASE stage[one] # "live"
        BY <2>1, <3>2 DEF SlotLast
      <3> QED
        BY <3>1, <3>2
    <2>4. SlotLinked' = SlotLinked /\ Unsettled(one, owes)' = Unsettled(one, owes)
      BY <2>1 DEF SlotLinked, Unsettled
    <2> QED
      BY <2>1, <2>3, <2>4 DEF Slot!slotVars
  <1>5. ASSUME NEW i \in DOMAIN subscribers, TrySend(i) PROVE Goal
    <2> DEFINE r == subscribers[i]
    <2>1. r \in Sub /\ stage[r] = "live" /\ id[r] = i
      BY <1>0, SlotIsLive
    <2>2. /\ i \in todo /\ owes = {} /\ todo' = todo \ {i}
          /\ UNCHANGED <<id, stage, alive, written, dropped>>
      BY <1>5 DEF TrySend
    <2>3. \/ /\ HasRoom(r) /\ owes' = owes
             /\ chan' = [chan EXCEPT ![r] = Append(@, written)]
          \/ ~HasRoom(r) /\ owes' = {i} /\ chan' = chan
      BY <1>5 DEF TrySend
    <2>4. CASE r = one
      <3>1. /\ SlotLinked = "linked" /\ SlotLinked' = "linked"
            /\ SlotLast = written - 1 /\ SlotLast' = written
            /\ ~Unsettled(one, owes)
        BY <2>1, <2>2, <2>4 DEF SlotLinked, SlotLast, Unsettled
      <3>2. SlotLast' \in Nat /\ SlotLast' > SlotLast
        BY <1>0, <3>1
      <3>3. CASE HasRoom(r) /\ owes' = owes
                 /\ chan' = [chan EXCEPT ![r] = Append(@, written)]
        <4>1. chan'[one] = Append(chan[one], SlotLast')
          BY <1>0, <2>4, <3>1, <3>3 DEF TypeOK
        <4>2. Unsettled(one, owes)' = Unsettled(one, owes)
          BY <2>2, <3>3 DEF Unsettled
        <4>3. Slot!HasRoom
          BY <2>4, <3>3 DEF Slot!HasRoom, HasRoom
        <4>4. Slot!OfferTaken(SlotLast')
          BY <2>2, <3>1, <3>2, <4>1, <4>2, <4>3 DEF Slot!OfferTaken
        <4> QED
          BY <3>2, <4>4 DEF Slot!Next
      <3>4. CASE ~HasRoom(r) /\ owes' = {i} /\ chan' = chan
        <4>1. Unsettled(one, owes)' = TRUE
          BY <2>1, <2>2, <2>4, <3>4 DEF Unsettled
        <4>2. ~Slot!HasRoom
          BY <2>4, <3>4 DEF Slot!HasRoom, HasRoom
        <4>3. Slot!OfferFailed(SlotLast')
          BY <2>2, <3>1, <3>2, <3>4, <4>1, <4>2 DEF Slot!OfferFailed
        <4> QED
          BY <3>2, <4>3 DEF Slot!Next
      <3> QED
        BY <2>3, <3>3, <3>4
    <2>5. CASE r # one
      <3>1. chan'[one] = chan[one]
        BY <1>0, <2>3, <2>5 DEF TypeOK
      <3>2. CASE stage[one] = "live"
        <4>1. id[one] # i
          BY <1>0, <2>1, <2>5, <3>2 DEF IdsFresh
        <4> QED
          BY <2>2, <2>3, <3>1, <4>1, SlotStutters
      <3>3. CASE stage[one] # "live"
        BY <2>2, <3>1, <3>3 DEF Slot!slotVars, SlotLinked, SlotLast, Unsettled
      <3> QED
        BY <3>2, <3>3
    <2> QED
      BY <2>4, <2>5
  <1>6. ASSUME NEW i \in DOMAIN subscribers, CountDrop(i) PROVE Goal
    <2> DEFINE r == subscribers[i]
    <2>1. r \in Sub /\ stage[r] = "live" /\ id[r] = i
      BY <1>0, SlotIsLive
    <2>2. /\ owes' = {} /\ owes = {i}
          /\ UNCHANGED <<id, stage, alive, chan, written, todo>>
      BY <1>0, <1>6 DEF CountDrop, PassState
    <2>3. CASE r = one
      <3>1. dropped'[one] = dropped[one] + 1
        BY <1>0, <1>6, <2>3 DEF CountDrop, TypeOK
      <3>2. Unsettled(one, owes) /\ Unsettled(one, owes)' = FALSE
        BY <2>1, <2>2, <2>3 DEF Unsettled
      <3>3. SlotLinked' = SlotLinked /\ SlotLast' = SlotLast
        BY <2>2 DEF SlotLinked, SlotLast
      <3>4. Slot!CountLoss
        BY <2>2, <3>1, <3>2, <3>3 DEF Slot!CountLoss
      <3> QED
        BY <3>4 DEF Slot!Next
    <2>4. CASE r # one
      <3>1. dropped'[one] = dropped[one]
        BY <1>0, <1>6, <2>4 DEF CountDrop, TypeOK
      <3>2. ~(stage[one] = "live" /\ id[one] = i)
        BY <1>0, <2>1, <2>4 DEF IdsFresh
      <3> QED
        BY <2>2, <3>1, <3>2 DEF Slot!slotVars, SlotLinked, SlotLast, Unsettled
    <2> QED
      BY <2>3, <2>4
  <1>7. ASSUME NEW r \in Sub, Recv(r) PROVE Goal
    <2>1. UNCHANGED <<id, stage, todo, owes, written, alive, dropped>>
      BY <1>7 DEF Recv
    <2>2. /\ SlotLinked' = SlotLinked /\ SlotLast' = SlotLast
          /\ Unsettled(one, owes)' = Unsettled(one, owes)
      BY <2>1 DEF SlotLinked, SlotLast, Unsettled
    <2>3. CASE r = one
      <3>1. alive[one] /\ chan[one] # <<>>
        BY <1>7, <2>3 DEF Recv
      <3>2. chan'[one] = Tail(chan[one])
        BY <1>0, <1>7, <2>3 DEF Recv, TypeOK
      <3>3. Slot!Receive
        BY <2>1, <2>2, <3>1, <3>2 DEF Slot!Receive
      <3> QED
        BY <3>3 DEF Slot!Next
    <2>4. CASE r # one
      <3>1. chan'[one] = chan[one]
        BY <1>0, <1>7, <2>4 DEF Recv, TypeOK
      <3> QED
        BY <2>1, <3>1, SlotStutters
    <2> QED
      BY <2>3, <2>4
  <1>8. ASSUME NEW r \in Sub, DropReceiver(r) PROVE Goal
    <2>1. UNCHANGED <<id, stage, todo, owes, written, dropped>>
      BY <1>8 DEF DropReceiver
    <2>2. /\ SlotLinked' = SlotLinked /\ SlotLast' = SlotLast
          /\ Unsettled(one, owes)' = Unsettled(one, owes)
      BY <2>1 DEF SlotLinked, SlotLast, Unsettled
    <2>3. CASE r = one
      <3>1. alive[one]
        BY <1>8, <2>3 DEF DropReceiver
      <3>2. chan'[one] = <<>>
        BY <1>0, <1>8, <2>3 DEF DropReceiver, TypeOK
      <3>3. alive'[one] = FALSE
        BY <1>0, <1>8, <2>3, Zenon DEF DropReceiver, TypeOK
      <3>4. Slot!CloseReceiver
        BY <2>1, <2>2, <3>1, <3>2, <3>3 DEF Slot!CloseReceiver
      <3> QED
        BY <3>4 DEF Slot!Next
    <2>4. CASE r # one
      <3>1. chan'[one] = chan[one]
        BY <1>0, <1>8, <2>4 DEF DropReceiver, TypeOK
      <3>2. alive'[one] = alive[one]
        BY <1>0, <1>8, <2>4, Zenon DEF DropReceiver, TypeOK
      <3> QED
        BY <2>1, <3>1, <3>2, SlotStutters
    <2> QED
      BY <2>3, <2>4
  <1>9. ASSUME EndWrite \/ UNCHANGED vars PROVE Goal
    <2>1. UNCHANGED <<id, stage, alive, chan, dropped, written, todo, owes>>
      BY <1>9 DEF EndWrite, vars
    <2> QED
      BY <2>1, SlotStutters
  <1> QED
    BY <1>1, <1>2, <1>3, <1>4, <1>5, <1>6, <1>7, <1>8, <1>9 DEF Next, WriteStep

(* The hub implements the abstract slot, for every subscriber, whatever    *)
(* the others do: first in first out, a loss only when there is no room or *)
(* no receiver, at most one loss uncounted, silence after unsubscribe.     *)
THEOREM SlotRefined == Spec => ImplementsSlot
  <1>1. Init => Slot!Init
    BY SlotInit
  <1>2. IInv /\ [Next]_vars => [Slot!Next]_(Slot!slotVars)
    BY SlotStep
  <1> QED
    BY <1>1, <1>2, Invariance, PTL DEF Spec, Slot!Spec, ImplementsSlot
=============================================================================
