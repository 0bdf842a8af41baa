------------------------------ MODULE RtspProofs ------------------------------
(***************************************************************************)
(* What an RTSP connection puts on the wire, for any number of units,      *)
(* sessions and PLAYs and any capacities.                                  *)
(*                                                                         *)
(* Order is not inductive: what keeps it is that a play's channel, hand    *)
(* and queue are a line of units in the order they were written, that the  *)
(* line of the play whose Receiver is held lies past everything taken      *)
(* before, and that a new PLAY starts with an empty queue, so that its     *)
(* line begins with a unit not yet written.  The key-frame rules need that *)
(* the two flags remember what the wire has seen, through re-PLAYs and     *)
(* sessions, which never reset them.                                       *)
(*                                                                         *)
(* Sequence numbers have no gap (SeqContiguousExtent) while the number a   *)
(* session will use next is tied to the last packet it put on the wire.    *)
(*                                                                         *)
(* Answers pair with requests because what is unread is always the end of  *)
(* the row of pieces the client sent: a read takes the front of it, and    *)
(* only what was read in full is answered, in the order it was read.       *)
(*                                                                         *)
(* A unit arrives whole because a receiver that holds the first k - 1      *)
(* fragments of a NAL unit holds its bytes up to the k-th cut, and because *)
(* the end flag is on the fragment whose end is the unit's, exactly when   *)
(* the division rounds up.  The timestamps grow while the session          *)
(* remembers that of its last unit.                                        *)
(***************************************************************************)
EXTENDS MCRtsp, FoldFacts, SequenceTheorems, TLAPS

PlayRecord == [queue : Seq(Aus), thread : {"recv", "send", "exit"},
               hand : 0..MaxAus, async : Seq(Aus)]

(* Lines of units.                                                         *)
Rising(s) == \A i, j \in DOMAIN s : i < j => s[i] < s[j]

\* What waits in a play is in order and was written after unit lo, up to n.
Line(pl, lo, n) ==
  /\ Rising(pl.queue) /\ Rising(pl.async)
  /\ \A j \in DOMAIN pl.queue : lo < pl.queue[j] /\ pl.queue[j] <= n
  /\ \A i \in DOMAIN pl.async : lo < pl.async[i] /\ pl.async[i] <= n
  /\ \A i \in DOMAIN pl.async, j \in DOMAIN pl.queue : pl.async[i] < pl.queue[j]
  /\ pl.thread = "send" =>
       /\ lo < pl.hand /\ pl.hand <= n
       /\ \A i \in DOMAIN pl.async : pl.async[i] < pl.hand
       /\ \A j \in DOMAIN pl.queue : pl.hand < pl.queue[j]

LEMMA LinePublished ==
  ASSUME NEW pl \in PlayRecord, NEW q \in PlayRecord, NEW lo \in Nat,
         NEW n \in Nat, lo <= n, Line(pl, lo, n),
         q.queue = Append(pl.queue, n + 1), q.async = pl.async,
         q.thread = pl.thread, q.hand = pl.hand
  PROVE  Line(q, lo, n + 1)
<1> USE BoundAssumption DEF PlayRecord, Aus
<1>1. /\ pl.queue \in Seq(1..MaxAus) /\ pl.async \in Seq(1..MaxAus)
      /\ Len(q.queue) = Len(pl.queue) + 1
      /\ \A j \in 1..Len(pl.queue) : q.queue[j] = pl.queue[j]
      /\ q.queue[Len(pl.queue) + 1] = n + 1
      /\ DOMAIN q.queue = 1..(Len(pl.queue) + 1) /\ DOMAIN pl.queue = 1..Len(pl.queue)
  OBVIOUS
<1>2. \A j \in DOMAIN pl.queue : lo < pl.queue[j] /\ pl.queue[j] <= n
  BY DEF Line
<1>3. \A i \in DOMAIN pl.async : lo < pl.async[i] /\ pl.async[i] <= n
  BY DEF Line
<1>4. Rising(q.queue)
  <2>1. Rising(pl.queue)
    BY DEF Line
  <2> SUFFICES ASSUME NEW i \in DOMAIN q.queue, NEW j \in DOMAIN q.queue, i < j
               PROVE  q.queue[i] < q.queue[j]
    BY DEF Rising
  <2>2. CASE j \in DOMAIN pl.queue
    BY SMTT(30), <1>1, <2>1, <2>2 DEF Rising
  <2>3. CASE j = Len(pl.queue) + 1
    BY SMTT(30), <1>1, <1>2, <2>3
  <2> QED
    BY <1>1, <2>2, <2>3
<1>5. \A j \in DOMAIN q.queue : lo < q.queue[j] /\ q.queue[j] <= n + 1
  BY <1>1, <1>2
<1>6. \A i \in DOMAIN q.async : lo < q.async[i] /\ q.async[i] <= n + 1
  BY <1>1, <1>3
<1>7. \A i \in DOMAIN q.async, j \in DOMAIN q.queue : q.async[i] < q.queue[j]
  BY SMTT(30), <1>1, <1>3 DEF Line
<1>8. q.thread = "send" =>
       /\ lo < q.hand /\ q.hand <= n + 1
       /\ \A i \in DOMAIN q.async : q.async[i] < q.hand
       /\ \A j \in DOMAIN q.queue : q.hand < q.queue[j]
  BY <1>1 DEF Line
<1>9. Rising(q.async)
  BY DEF Line
<1> QED
  BY <1>4, <1>5, <1>6, <1>7, <1>8, <1>9 DEF Line

LEMMA LineLater ==
  ASSUME NEW pl \in PlayRecord, NEW lo \in Nat, NEW n \in Nat, NEW m \in Nat,
         n <= m, Line(pl, lo, n)
  PROVE  Line(pl, lo, m)
<1>1. /\ \A j \in DOMAIN pl.queue : pl.queue[j] \in Nat
      /\ \A i \in DOMAIN pl.async : pl.async[i] \in Nat
      /\ pl.hand \in Nat
  BY BoundAssumption DEF PlayRecord, Aus
<1> QED
  BY <1>1 DEF Line

LEMMA LineReceived ==
  ASSUME NEW pl \in PlayRecord, NEW q \in PlayRecord, NEW lo \in Nat,
         NEW n \in Nat, Line(pl, lo, n), pl.queue # <<>>,
         q.queue = Tail(pl.queue), q.async = pl.async,
         q.thread = "send", q.hand = Head(pl.queue)
  PROVE  Line(q, lo, n)
BY SMTT(30) DEF Line, Rising, PlayRecord, Aus

LEMMA LineSent ==
  ASSUME NEW pl \in PlayRecord, NEW q \in PlayRecord, NEW lo \in Nat,
         NEW n \in Nat, Line(pl, lo, n), pl.thread = "send",
         q.queue = pl.queue, q.async = Append(pl.async, pl.hand),
         q.thread = "recv"
  PROVE  Line(q, lo, n)
BY DEF Line, Rising, PlayRecord, Aus

LEMMA LineDropped ==
  ASSUME NEW pl \in PlayRecord, NEW q \in PlayRecord, NEW lo \in Nat,
         NEW n \in Nat, Line(pl, lo, n),
         q.queue = pl.queue, q.async = <<>>, q.thread = pl.thread, q.hand = pl.hand
  PROVE  Line(q, lo, n)
BY DEF Line, Rising, PlayRecord, Aus

LEMMA LineEmpty ==
  ASSUME NEW q \in PlayRecord, NEW lo \in Nat, NEW n \in Nat,
         q.queue = <<>>, q.async = <<>>, q.thread # "send"
  PROVE  Line(q, lo, n)
BY DEF Line, Rising

LEMMA LineTaken ==
  ASSUME NEW pl \in PlayRecord, NEW q \in PlayRecord, NEW lo \in Nat,
         NEW n \in Nat, Line(pl, lo, n), pl.async # <<>>,
         q.queue = pl.queue, q.async = Tail(pl.async), q.thread = pl.thread, q.hand = pl.hand
  PROVE  /\ Line(q, lo, n) /\ Line(q, Head(pl.async), n)
         /\ lo < Head(pl.async) /\ Head(pl.async) <= n
BY DEF Line, Rising, PlayRecord, Aus

(***************************************************************************)
(* The invariant: types, lines, and order of what was taken.               *)
Entry == [au : Aus, on : 1..MaxSetups, udp : BOOLEAN, result : Results,
          first : 0..(SeqSpace - 1), count : Nat]

UnitsOK == units \in Seq(Units) /\ Len(units) <= MaxAus

ServerOK ==
  /\ handler \in {"run", "ended"} /\ authed \in BOOLEAN
  /\ setups \in 0..MaxSetups /\ sid \in 0..setups
  /\ DOMAIN sessions \subseteq 1..setups
  /\ \A s \in DOMAIN sessions :
       sessions[s] \in [udp : BOOLEAN, seq : 0..(SeqSpace - 1)]

FlagsOK ==
  /\ sentKey \in BOOLEAN /\ pDropped \in BOOLEAN /\ stalls \in 0..StallLimit
  /\ handler = "run" => stalls < StallLimit

PlayOK(q, n) ==
  /\ q \in PlayRecord
  /\ Len(q.queue) <= HubCap /\ Len(q.async) <= AsyncCap
  /\ Line(q, 0, n)

PlaysOK ==
  /\ plays \in Seq(PlayRecord) /\ Len(plays) <= MaxPlays
  /\ bridge \in 0..Len(plays) /\ slots \subseteq DOMAIN plays
  /\ \A p \in DOMAIN plays : PlayOK(plays[p], Len(units))

LogOK ==
  /\ log \in Seq(Entry)
  /\ \A i \in DOMAIN log : log[i].au <= Len(units)
  /\ \A i, j \in DOMAIN log : i < j => log[i].au < log[j].au

\* What waits in the play that is held comes after all that was taken.
HeldNext ==
  bridge # 0 => \A i \in DOMAIN log : Line(plays[bridge], log[i].au, Len(units))

WireInv == UnitsOK /\ ServerOK /\ FlagsOK /\ PlaysOK /\ LogOK /\ HeldNext

LEMMA WireInitInv == Init => WireInv
<1> SUFFICES ASSUME Init PROVE WireInv
  OBVIOUS
<1>1. UnitsOK
  BY BoundAssumption DEF Init, UnitsOK
<1>2. ServerOK
  BY BoundAssumption DEF Init, ServerOK
<1>3. FlagsOK
  <2>1. 0 \in 0..StallLimit /\ 0 < StallLimit
    BY CapacityAssumption
  <2>2. sentKey = FALSE /\ pDropped = FALSE /\ stalls = 0
    BY DEF Init
  <2> QED
    BY ONLY <2>1, <2>2 DEF FlagsOK
<1>4. PlaysOK
  BY BoundAssumption DEF Init, PlaysOK
<1>5. LogOK /\ HeldNext
  BY DEF Init, LogOK, HeldNext
<1> QED
  BY <1>1, <1>2, <1>3, <1>4, <1>5 DEF WireInv

LEMMA WireInvTypes == WireInv => TypeOK
BY BoundAssumption DEF WireInv, UnitsOK, ServerOK, FlagsOK, PlaysOK, PlayOK, LogOK, Entry,
   PlayRecord, TypeOK

LEMMA WireInvOrder == WireInv => WireInOrder
BY DEF WireInv, LogOK, WireInOrder, OnWire

(***************************************************************************)
(* Steps.                                                                  *)

\* From each play to the sequence of them.
LEMMA PlaysEach ==
  ASSUME PlaysOK, NEW Q, DOMAIN Q = DOMAIN plays, Q = [p \in DOMAIN plays |-> Q[p]],
         NEW n \in Nat, \A p \in DOMAIN plays : PlayOK(Q[p], n)
  PROVE  /\ Q \in Seq(PlayRecord) /\ Len(Q) = Len(plays)
         /\ \A p \in DOMAIN Q : PlayOK(Q[p], n)
<1>1. DOMAIN plays = 1..Len(plays) /\ Len(plays) \in Nat
  BY DEF PlaysOK
<1>2. \A p \in 1..Len(plays) : Q[p] \in PlayRecord
  BY <1>1 DEF PlayOK
<1>3. Q \in [1..Len(plays) -> PlayRecord]
  BY <1>1, <1>2
<1>4. Q \in Seq(PlayRecord)
  BY <1>1, <1>3, SeqDef
<1> QED
  BY <1>1, <1>3, <1>4

LEMMA LogAus ==
  ASSUME LogOK, NEW i \in DOMAIN log PROVE log[i].au \in Aus /\ log[i].au \in Nat
<1>1. log[i] \in Entry
  BY DEF LogOK
<1>2. log[i].au \in Aus
  BY <1>1 DEF Entry
<1> QED
  BY <1>2, BoundAssumption DEF Aus

\* A step of one play's thread or of the connection's take.
LEMMA OnePlay ==
  ASSUME PlaysOK, HeldNext, LogOK, UnitsOK, UNCHANGED <<units, bridge, slots, log>>,
         NEW p \in DOMAIN plays, NEW q, PlayOK(q, Len(units)),
         plays' = [o \in DOMAIN plays |-> plays'[o]], plays'[p] = q,
         \A o \in DOMAIN plays : o # p => plays'[o] = plays[o],
         bridge = p => \A i \in DOMAIN log : Line(q, log[i].au, Len(units))
  PROVE  PlaysOK' /\ HeldNext'
<1>1. \A o \in DOMAIN plays : plays'[o] = IF o = p THEN q ELSE plays[o]
  BY DEF PlaysOK
<1>2. DOMAIN plays' = DOMAIN plays /\ plays' = [o \in DOMAIN plays |-> plays'[o]]
  BY DEF PlaysOK
<1>3. \A o \in DOMAIN plays : PlayOK(plays'[o], Len(units))
  BY <1>1 DEF PlaysOK
<1>4. Len(units) \in Nat
  BY DEF UnitsOK
<1>5. /\ plays' \in Seq(PlayRecord) /\ Len(plays') = Len(plays)
      /\ \A o \in DOMAIN plays' : PlayOK(plays'[o], Len(units))
  BY <1>2, <1>3, <1>4, PlaysEach
<1>6. PlaysOK'
  BY <1>2, <1>5 DEF PlaysOK
<1>7. HeldNext'
  BY <1>1 DEF HeldNext, PlaysOK
<1> QED
  BY <1>6, <1>7

LEMMA PublishInv ==
  ASSUME WireInv, NEW u \in Units, Publish(u) PROVE WireInv'
<1> DEFINE N == Len(units)
<1> USE DEF WireInv
<1>1. /\ units \in Seq(Units) /\ N \in Nat /\ N < MaxAus
      /\ units' = Append(units, u) /\ Len(units') = N + 1
      /\ UNCHANGED <<connection, flags, server, slots, log>>
  BY BoundAssumption DEF UnitsOK, Publish
<1>2. UnitsOK'
  BY <1>1, BoundAssumption DEF UnitsOK
<1>3. ASSUME NEW p \in DOMAIN plays, NEW lo \in Nat, lo <= N, Line(plays[p], lo, N)
      PROVE  Line(plays'[p], lo, N + 1) /\ PlayOK(plays'[p], N + 1)
  <2>1. PlayOK(plays[p], N) /\ plays[p] \in PlayRecord /\ 0 \in Nat /\ N + 1 \in Aus
    BY <1>1, BoundAssumption DEF PlaysOK, PlayOK, Aus
  <2>2. CASE p \in slots /\ plays[p].thread # "exit" /\ Len(plays[p].queue) < HubCap
    <3>1. plays'[p] = [plays[p] EXCEPT !.queue = Append(@, N + 1)]
      BY <2>2 DEF Publish
    <3>5. /\ plays'[p].queue = Append(plays[p].queue, N + 1)
          /\ plays'[p].async = plays[p].async
          /\ plays'[p].thread = plays[p].thread /\ plays'[p].hand = plays[p].hand
      BY <2>1, <3>1 DEF PlayRecord
    <3>6. /\ Append(plays[p].queue, N + 1) \in Seq(Aus)
          /\ Len(Append(plays[p].queue, N + 1)) <= HubCap
      BY <2>1, <2>2, CapacityAssumption DEF PlayRecord
    <3>7. plays'[p] \in PlayRecord
      BY <2>1, <3>1, <3>6 DEF PlayRecord
    <3>2. /\ plays'[p].queue = Append(plays[p].queue, N + 1)
          /\ plays'[p].async = plays[p].async
          /\ plays'[p].thread = plays[p].thread /\ plays'[p].hand = plays[p].hand
          /\ plays'[p] \in PlayRecord /\ Len(plays'[p].queue) <= HubCap
      BY <3>5, <3>6, <3>7
    <3>3. Line(plays'[p], lo, N + 1)
      BY <1>1, <1>3, <2>1, <3>2, LinePublished
    <3>4. Line(plays'[p], 0, N + 1)
      BY SMTT(30), <1>1, <2>1, <3>2, LinePublished DEF PlayOK
    <3> QED
      BY <2>1, <3>2, <3>3, <3>4 DEF PlayOK
  <2>3. CASE ~(p \in slots /\ plays[p].thread # "exit" /\ Len(plays[p].queue) < HubCap)
    <3>1. plays'[p] = plays[p]
      BY <2>3 DEF Publish
    <3>2. Line(plays[p], 0, N + 1) /\ Line(plays[p], lo, N + 1)
      BY <1>1, <1>3, <2>1, LineLater DEF PlayOK
    <3> QED
      BY <2>1, <3>1, <3>2 DEF PlayOK
  <2> QED
    BY <2>2, <2>3
<1>4. DOMAIN plays' = DOMAIN plays /\ plays' = [p \in DOMAIN plays |-> plays'[p]]
  BY DEF Publish
<1>5. \A p \in DOMAIN plays : PlayOK(plays'[p], N + 1)
  BY <1>1, <1>3 DEF PlaysOK, PlayOK
<1>6. /\ plays' \in Seq(PlayRecord) /\ Len(plays') = Len(plays)
      /\ \A p \in DOMAIN plays' : PlayOK(plays'[p], N + 1)
  BY <1>1, <1>4, <1>5, PlaysEach
<1>7. PlaysOK'
  BY <1>1, <1>4, <1>6 DEF PlaysOK, connection
<1>8. LogOK'
  <2>1. \A i \in DOMAIN log : log[i].au <= N + 1
    BY <1>1, LogAus DEF LogOK
  <2>2. log' = log /\ Len(units') = N + 1
    BY <1>1
  <2> QED
    BY <2>1, <2>2 DEF LogOK
<1>9. HeldNext'
  <2> SUFFICES ASSUME bridge # 0, NEW i \in DOMAIN log
               PROVE  Line(plays'[bridge], log[i].au, N + 1)
    BY <1>1 DEF HeldNext, connection
  <2>1. bridge \in DOMAIN plays
    BY DEF PlaysOK
  <2>2. log[i].au \in Nat /\ log[i].au <= N
    BY LogAus DEF LogOK
  <2> QED
    BY <1>3, <2>1, <2>2 DEF HeldNext
<1>10. ServerOK' /\ FlagsOK'
  BY <1>1 DEF ServerOK, FlagsOK, connection, flags, server
<1> QED
  BY <1>2, <1>7, <1>8, <1>9, <1>10

LEMMA BridgeInv ==
  ASSUME WireInv, NEW p \in DOMAIN plays, BridgeStep(p) PROVE WireInv'
<1> USE DEF WireInv
<1> DEFINE pl == plays[p]
           N == Len(units)
<1>1. PlayOK(pl, N) /\ pl \in PlayRecord /\ N \in Nat
  BY DEF PlaysOK, PlayOK, UnitsOK
<1>2. \A i \in DOMAIN log : log[i].au \in Nat
  BY LogAus
<1>3. UNCHANGED <<units, connection, flags, server, slots, log>>
  BY DEF BridgeStep, BridgeRecv, BridgeSend, BridgeSendFails
<1>4. bridge = p => \A i \in DOMAIN log : Line(pl, log[i].au, N)
  BY DEF HeldNext, PlaysOK
<1>5. CASE BridgeRecv(p)
  <2> DEFINE q == [queue |-> Tail(pl.queue), thread |-> "send", hand |-> Head(pl.queue),
                   async |-> pl.async]
  <2>0. /\ plays' = [o \in DOMAIN plays |-> plays'[o]]
        /\ \A o \in DOMAIN plays : o # p => plays'[o] = plays[o]
    BY <1>5 DEF BridgeRecv, PlaysOK
  <2>1. plays'[p] = q /\ pl.queue # <<>>
    BY <1>1, <1>5 DEF BridgeRecv, PlayRecord
  <2>2. /\ q.queue = Tail(pl.queue) /\ q.async = pl.async
        /\ q.thread = "send" /\ q.hand = Head(pl.queue)
    OBVIOUS
  <2>3. q \in PlayRecord /\ Len(q.queue) <= HubCap /\ Len(q.async) <= AsyncCap
    BY <1>1, <2>1, BoundAssumption, CapacityAssumption DEF PlayRecord, PlayOK, Aus
  <2> HIDE DEF q
  <2>4. \A lo \in Nat : Line(pl, lo, N) => Line(q, lo, N)
    BY <1>1, <2>1, <2>2, <2>3, LineReceived
  <2>5. PlayOK(q, N) /\ (bridge = p => \A i \in DOMAIN log : Line(q, log[i].au, N))
    BY <1>1, <1>2, <1>4, <2>3, <2>4 DEF PlayOK
  <2> QED
    BY <1>3, <2>0, <2>1, <2>5, OnePlay DEF connection, flags, server, ServerOK, FlagsOK, UnitsOK, LogOK
<1>6. CASE BridgeSend(p)
  <2> DEFINE q == [queue |-> pl.queue, thread |-> "recv", hand |-> 0,
                   async |-> Append(pl.async, pl.hand)]
  <2>0. /\ plays' = [o \in DOMAIN plays |-> plays'[o]]
        /\ \A o \in DOMAIN plays : o # p => plays'[o] = plays[o]
    BY <1>6 DEF BridgeSend, PlaysOK
  <2>1. plays'[p] = q /\ pl.thread = "send" /\ Len(pl.async) < AsyncCap
    BY <1>1, <1>6 DEF BridgeSend, PlayRecord
  <2>2. /\ q.queue = pl.queue /\ q.async = Append(pl.async, pl.hand)
        /\ q.thread = "recv"
    OBVIOUS
  <2>3. pl.hand \in Aus
    BY <1>1, <2>1 DEF PlayOK, Line, PlayRecord, Aus
  <2>4. q \in PlayRecord /\ Len(q.queue) <= HubCap /\ Len(q.async) <= AsyncCap
    BY <1>1, <2>1, <2>3, BoundAssumption, CapacityAssumption DEF PlayRecord, PlayOK
  <2> HIDE DEF q
  <2>5. \A lo \in Nat : Line(pl, lo, N) => Line(q, lo, N)
    BY <1>1, <2>1, <2>2, <2>4, LineSent
  <2>6. PlayOK(q, N) /\ (bridge = p => \A i \in DOMAIN log : Line(q, log[i].au, N))
    BY <1>1, <1>2, <1>4, <2>4, <2>5 DEF PlayOK
  <2> QED
    BY <1>3, <2>0, <2>1, <2>6, OnePlay DEF connection, flags, server, ServerOK, FlagsOK, UnitsOK, LogOK
<1>7. CASE BridgeSendFails(p)
  <2> DEFINE q == [queue |-> <<>>, thread |-> "exit", hand |-> 0, async |-> pl.async]
  <2>0. /\ plays' = [o \in DOMAIN plays |-> plays'[o]]
        /\ \A o \in DOMAIN plays : o # p => plays'[o] = plays[o]
    BY <1>7 DEF BridgeSendFails, PlaysOK
  <2>1. plays'[p] = q /\ bridge # p
    BY <1>1, <1>7 DEF BridgeSendFails, Held, PlayRecord
  <2>2. q \in PlayRecord /\ Len(q.queue) <= HubCap /\ Len(q.async) <= AsyncCap
    BY <1>1, BoundAssumption, CapacityAssumption DEF PlayRecord, PlayOK
  <2>3. Line(q, 0, N)
    BY <1>1 DEF PlayOK, Line, Rising
  <2>4. PlayOK(q, N)
    BY <2>2, <2>3 DEF PlayOK
  <2> HIDE DEF q
  <2> QED
    BY <1>3, <2>0, <2>1, <2>4, OnePlay DEF connection, flags, server, ServerOK, FlagsOK, UnitsOK, LogOK
<1> QED
  BY <1>5, <1>6, <1>7 DEF BridgeStep

\* A Receiver that is dropped.
LEMMA Dropped ==
  ASSUME PlaysOK, UnitsOK, LogOK, NEW p \in DOMAIN plays, NEW q,
         q = [plays[p] EXCEPT !.async = <<>>]
  PROVE  PlayOK(q, Len(units))
<1> DEFINE pl == plays[p]
           N == Len(units)
<1>1. PlayOK(pl, N) /\ pl \in PlayRecord /\ N \in Nat
  BY DEF PlaysOK, PlayOK, UnitsOK
<1>2. q.queue = pl.queue /\ q.async = <<>> /\ q.thread = pl.thread /\ q.hand = pl.hand
  BY <1>1 DEF PlayRecord
<1>6. <<>> \in Seq(Aus)
  OBVIOUS
<1>3. q \in PlayRecord
  BY <1>1, <1>6 DEF PlayRecord
<1>4. Line(q, 0, N)
  BY <1>1, <1>2, <1>3, LineDropped DEF PlayOK
<1>5. Len(q.queue) <= HubCap /\ Len(q.async) <= AsyncCap
  BY <1>1, <1>2, CapacityAssumption DEF PlayOK
<1> QED
  BY <1>3, <1>4, <1>5 DEF PlayOK

LEMMA DropInv ==
  ASSUME PlaysOK, UnitsOK, LogOK, units' = units, DropReceiver
  PROVE  PlaysOK' /\ HeldNext'
<1>1. /\ plays' = [p \in DOMAIN plays |-> [plays[p] EXCEPT !.async = <<>>]]
      /\ bridge' = 0 /\ slots' = slots
  BY DEF DropReceiver
<1>2. \A p \in DOMAIN plays : PlayOK(plays'[p], Len(units))
  BY <1>1, Dropped
<1>3. DOMAIN plays' = DOMAIN plays /\ plays' = [p \in DOMAIN plays |-> plays'[p]]
  BY <1>1
<1>6. Len(units) \in Nat
  BY DEF UnitsOK
<1>4. /\ plays' \in Seq(PlayRecord) /\ Len(plays') = Len(plays)
      /\ \A p \in DOMAIN plays' : PlayOK(plays'[p], Len(units))
  BY <1>2, <1>3, <1>6, PlaysEach
<1>5. PlaysOK'
  BY <1>1, <1>3, <1>4 DEF PlaysOK
<1> QED
  BY <1>1, <1>5 DEF HeldNext

LEMMA PlayInv ==
  ASSUME WireInv, NEW cred \in BOOLEAN, NEW s \in DOMAIN sessions, Play(cred, s)
  PROVE  WireInv'
<1> USE DEF WireInv
<1> DEFINE Q == [p \in DOMAIN plays |-> [plays[p] EXCEPT !.async = <<>>]]
           new == [queue |-> <<>>, thread |-> "recv", hand |-> 0, async |-> <<>>]
           N == Len(units)
<1>1. /\ plays' = Append(Q, new) /\ Len(plays) < MaxPlays
      /\ bridge' = Len(plays) + 1 /\ slots' = slots \cup {bridge'}
      /\ sid' = s /\ authed' = TRUE
      /\ UNCHANGED <<units, handler, flags, server, log>>
  BY DEF Play, FreshQueue
<1>2. N \in Nat /\ Len(plays) \in Nat /\ DOMAIN plays = 1..Len(plays)
  BY DEF UnitsOK, PlaysOK
<1>3. \A p \in DOMAIN plays : PlayOK(Q[p], N)
  BY Dropped
<1>4. DOMAIN Q = DOMAIN plays /\ Q = [p \in DOMAIN plays |-> Q[p]]
  OBVIOUS
<1> HIDE DEF Q
<1>5. Q \in Seq(PlayRecord) /\ Len(Q) = Len(plays) /\ \A p \in DOMAIN Q : PlayOK(Q[p], N)
  BY <1>2, <1>3, <1>4, PlaysEach
<1>6. new \in PlayRecord /\ new.queue = <<>> /\ new.async = <<>> /\ new.thread # "send"
  BY BoundAssumption DEF PlayRecord
<1> HIDE DEF new
<1>7. \A lo \in Nat : Line(new, lo, N)
  BY <1>2, <1>6, LineEmpty
<1>8. PlayOK(new, N)
  BY <1>6, <1>7, CapacityAssumption DEF PlayOK
<1>9. /\ plays' \in Seq(PlayRecord) /\ Len(plays') = Len(plays) + 1
      /\ plays'[Len(plays) + 1] = new
      /\ \A p \in DOMAIN plays' : p # Len(plays) + 1 => p \in DOMAIN Q /\ plays'[p] = Q[p]
  BY <1>1, <1>2, <1>5, <1>6
<1>10. \A p \in DOMAIN plays' : PlayOK(plays'[p], N)
  BY <1>5, <1>8, <1>9
<1>11. bridge' \in 0..Len(plays') /\ slots' \subseteq DOMAIN plays'
  BY <1>1, <1>2, <1>9 DEF PlaysOK
<1>12. PlaysOK'
  BY <1>1, <1>2, <1>9, <1>10, <1>11, BoundAssumption DEF PlaysOK
<1>13. HeldNext'
  BY <1>1, <1>7, <1>9, LogAus DEF HeldNext
<1>14. ServerOK'
  BY <1>1 DEF ServerOK, server
<1>15. FlagsOK' /\ UnitsOK' /\ LogOK'
  BY <1>1 DEF FlagsOK, UnitsOK, LogOK, flags
<1> QED
  BY <1>12, <1>13, <1>14, <1>15

LEMMA SetupInv ==
  ASSUME WireInv, NEW cred \in BOOLEAN, NEW udp \in BOOLEAN, NEW seq \in InitSeqs,
         Setup(cred, udp, seq)
  PROVE  WireInv'
<1> USE DEF WireInv
<1>1. /\ setups < MaxSetups /\ authed' = TRUE /\ setups' = setups + 1 /\ sid' = setups'
      /\ DOMAIN sessions' = DOMAIN sessions \cup {setups'}
      /\ sessions'[setups'] = [udp |-> udp, seq |-> seq]
      /\ \A s \in DOMAIN sessions : s # setups' => sessions'[s] = sessions[s]
      /\ UNCHANGED <<units, handler, bridge, flags, delivery, log>>
  BY DEF Setup
<1>2. setups' \in 0..MaxSetups /\ setups' \in 0..setups' /\ 1..setups \subseteq 1..setups'
      /\ setups' \in 1..setups'
  BY <1>1, BoundAssumption DEF ServerOK
<1>3. [udp |-> udp, seq |-> seq] \in [udp : BOOLEAN, seq : 0..(SeqSpace - 1)]
  BY SeqAssumption
<1>4. \A s \in DOMAIN sessions' :
        sessions'[s] \in [udp : BOOLEAN, seq : 0..(SeqSpace - 1)]
  BY <1>1, <1>3 DEF ServerOK
<1>5. ServerOK'
  BY <1>1, <1>2, <1>4 DEF ServerOK
<1> QED
  BY <1>1, <1>5 DEF FlagsOK, UnitsOK, LogOK, PlaysOK, HeldNext, flags, delivery

LEMMA CloseInv ==
  ASSUME WireInv,
         \/ \E cred \in BOOLEAN : Describe(cred)
         \/ Teardown \/ Leave \/ TakeOrphaned
         \/ \E s \in DOMAIN sessions : ForeignTeardown(s)
  PROVE  WireInv'
<1> USE DEF WireInv
<1>1. CASE \E cred \in BOOLEAN : Describe(cred)
  BY <1>1 DEF Describe, ServerOK, FlagsOK, UnitsOK, LogOK, PlaysOK, HeldNext, flags,
              delivery, server
<1>2. CASE Teardown
  <2>1. /\ sessions' = Restrict(sessions, DOMAIN sessions \ {sid}) /\ sid' = 0
        /\ DropReceiver /\ UNCHANGED <<units, handler, authed, flags, setups, log>>
    BY <1>2 DEF Teardown
  <2>2. ServerOK'
    BY <2>1 DEF ServerOK, Restrict
  <2>3. PlaysOK' /\ HeldNext'
    BY <2>1, DropInv
  <2> QED
    BY <2>1, <2>2, <2>3 DEF FlagsOK, UnitsOK, LogOK, flags
<1>3. CASE Leave
  <2>1. /\ handler' = "ended" /\ DropReceiver
        /\ UNCHANGED <<units, authed, sid, flags, server, log>>
    BY <1>3 DEF Leave, End
  <2>2. PlaysOK' /\ HeldNext'
    BY <2>1, DropInv
  <2>3. ServerOK' /\ FlagsOK'
    BY <2>1 DEF ServerOK, FlagsOK, server, flags
  <2> QED
    BY <2>1, <2>2, <2>3 DEF UnitsOK, LogOK
<1>4. CASE TakeOrphaned
  <2>1. DropReceiver /\ UNCHANGED <<units, handler, authed, sid, flags, server, log>>
    BY <1>4 DEF TakeOrphaned
  <2>2. PlaysOK' /\ HeldNext'
    BY <2>1, DropInv
  <2> QED
    BY <2>1, <2>2 DEF ServerOK, FlagsOK, server, flags, UnitsOK, LogOK
<1>5. CASE \E s \in DOMAIN sessions : ForeignTeardown(s)
  <2>1. PICK s \in DOMAIN sessions : ForeignTeardown(s)
    BY <1>5
  <2>2. /\ sessions' = Restrict(sessions, DOMAIN sessions \ {s})
        /\ UNCHANGED <<units, connection, flags, setups, delivery, log>>
    BY <2>1 DEF ForeignTeardown
  <2>3. ServerOK'
    BY <2>2 DEF ServerOK, Restrict, connection
  <2> QED
    BY <2>2, <2>3 DEF FlagsOK, UnitsOK, LogOK, PlaysOK, HeldNext, connection, flags, delivery
<1> QED
  BY <1>1, <1>2, <1>3, <1>4, <1>5

\* What taking a unit means, whatever becomes of it.
LEMMA TakeInv ==
  ASSUME WireInv, CanTake, sid \in DOMAIN sessions, units' = units,
         NEW result \in Results, NEW count \in Nat, Record(result, count),
         (GoOn /\ slots' = slots) \/ End
  PROVE  LogOK' /\ PlaysOK' /\ HeldNext'
<1> USE DEF WireInv
<1> DEFINE pl == plays[bridge]
           N == Len(units)
           q == [pl EXCEPT !.async = Tail(pl.async)]
           e == [au |-> Taken, on |-> sid, udp |-> sessions[sid].udp, result |-> result,
                 first |-> sessions[sid].seq, count |-> count]
<1>1. /\ bridge \in DOMAIN plays /\ PlayOK(pl, N) /\ pl \in PlayRecord /\ N \in Nat
      /\ pl.async # <<>> /\ pl.async \in Seq(Aus)
  BY DEF PlaysOK, PlayOK, UnitsOK, CanTake, PlayRecord
<1>2. /\ q.queue = pl.queue /\ q.async = Tail(pl.async) /\ q.thread = pl.thread
      /\ q.hand = pl.hand
  BY <1>1 DEF PlayRecord
<1>16. Tail(pl.async) \in Seq(Aus) /\ Len(Tail(pl.async)) = Len(pl.async) - 1
  BY <1>1
<1>17. q \in PlayRecord
  BY <1>1, <1>16 DEF PlayRecord
<1>3. q \in PlayRecord /\ Len(q.queue) <= HubCap /\ Len(q.async) <= AsyncCap
  BY <1>1, <1>2, <1>16, <1>17, CapacityAssumption DEF PlayOK
<1>4. Taken = Head(pl.async) /\ Taken \in Aus /\ Taken \in Nat
  BY <1>1, BoundAssumption DEF Taken, Aus
<1> HIDE DEF q
<1>5. \A lo \in Nat : Line(pl, lo, N) =>
        Line(q, lo, N) /\ Line(q, Taken, N) /\ lo < Taken /\ Taken <= N
  BY <1>1, <1>2, <1>3, <1>4, LineTaken
<1>6. \A i \in DOMAIN log : log[i].au < Taken /\ Line(q, log[i].au, N)
  BY <1>1, <1>5, LogAus DEF HeldNext, CanTake
<1>7. Taken <= N /\ Line(q, 0, N) /\ Line(q, Taken, N)
  BY <1>1, <1>5 DEF PlayOK
<1>8. e \in Entry /\ e.au = Taken
  BY <1>4, BoundAssumption DEF ServerOK, Entry
<1>9. log \in Seq(Entry) /\ log' = Append(log, e)
  BY DEF LogOK, Record
<1> HIDE DEF e
<1>10. /\ log' \in Seq(Entry) /\ Len(log') = Len(log) + 1 /\ Len(log) \in Nat
       /\ log'[Len(log) + 1] = e /\ DOMAIN log = 1..Len(log)
       /\ DOMAIN log' = 1..(Len(log) + 1)
       /\ \A i \in DOMAIN log : log'[i] = log[i]
  BY <1>8, <1>9
<1>11. \A i \in DOMAIN log' : log'[i].au <= N
  BY <1>7, <1>8, <1>10 DEF LogOK
<1>12. \A i, j \in DOMAIN log' : i < j => log'[i].au < log'[j].au
  <2> SUFFICES ASSUME NEW i \in DOMAIN log', NEW j \in DOMAIN log', i < j
               PROVE  log'[i].au < log'[j].au
    OBVIOUS
  <2>1. i \in DOMAIN log
    BY <1>10
  <2>2. CASE j \in DOMAIN log
    BY <1>10, <2>1, <2>2 DEF LogOK
  <2>3. CASE j = Len(log) + 1
    BY <1>6, <1>8, <1>10, <2>1, <2>3
  <2> QED
    BY <1>10, <2>2, <2>3
<1>13. LogOK'
  BY <1>10, <1>11, <1>12 DEF LogOK
<1>14. CASE GoOn /\ slots' = slots
  <2>1. bridge' = bridge /\ plays' = [plays EXCEPT ![bridge].async = Tail(pl.async)]
    BY <1>14 DEF GoOn
  <2>2. /\ plays' = [o \in DOMAIN plays |-> plays'[o]] /\ DOMAIN plays' = DOMAIN plays
        /\ \A o \in DOMAIN plays : o # bridge => plays'[o] = plays[o]
    BY <2>1 DEF PlaysOK
  <2>3. plays'[bridge] = q
    BY <1>1, <2>1 DEF q
  <2>4. PlayOK(q, N)
    BY <1>3, <1>7 DEF PlayOK
  <2>5. \A o \in DOMAIN plays : PlayOK(plays'[o], N)
    BY <2>2, <2>3, <2>4 DEF PlaysOK
  <2>6. /\ plays' \in Seq(PlayRecord) /\ Len(plays') = Len(plays)
        /\ \A o \in DOMAIN plays' : PlayOK(plays'[o], N)
    BY <1>1, <2>2, <2>5, PlaysEach
  <2>7. PlaysOK'
    BY <1>14, <2>1, <2>2, <2>6 DEF PlaysOK
  <2>8. \A i \in DOMAIN log' : Line(q, log'[i].au, N)
    BY <1>6, <1>7, <1>8, <1>10
  <2> QED
    BY <1>13, <2>1, <2>3, <2>7, <2>8 DEF HeldNext
<1>15. CASE End
  <2>1. bridge' = 0 /\ DropReceiver
    BY <1>15 DEF End, DropReceiver
  <2>2. PlaysOK'
    BY <2>1, DropInv
  <2> QED
    BY <1>13, <2>1, <2>2 DEF HeldNext
<1> QED
  BY <1>14, <1>15

\* The unit taken is one that was published.
LEMMA UnitTaken ==
  ASSUME WireInv, Take
  PROVE  Unit \in Units /\ Unit.packets \in Nat \ {0} /\ Unit.key \in BOOLEAN
<1> DEFINE pl == plays[bridge]
<1>1. PlayOK(pl, Len(units)) /\ pl.async # <<>> /\ pl.async \in Seq(Aus)
  BY DEF Take, CanTake, WireInv, PlaysOK, PlayOK, PlayRecord
<1>2. 1 \in DOMAIN pl.async /\ Head(pl.async) = pl.async[1]
  BY <1>1
<1>3. Taken <= Len(units) /\ 0 < Taken /\ Taken \in Aus
  BY <1>1, <1>2 DEF PlayOK, Line, Taken
<1>4. Taken \in DOMAIN units /\ units \in Seq(Units)
  BY <1>3, BoundAssumption DEF Aus, WireInv, UnitsOK
<1>5. Unit \in Units
  BY <1>4 DEF Unit
<1> QED
  BY <1>5, UnitsAssumption

LEMMA DeliverInv == ASSUME WireInv, Deliver PROVE WireInv'
<1> USE DEF WireInv
<1>1. CASE TakeOrphaned
  BY <1>1, CloseInv
<1>2. ASSUME Take, NEW result \in Results, NEW count \in Nat, Record(result, count),
             GoOn \/ End, ServerOK', FlagsOK'
      PROVE  WireInv'
  <2>1. CanTake /\ sid \in DOMAIN sessions /\ units' = units /\ slots' = slots
    BY <1>2 DEF Take
  <2>2. LogOK' /\ PlaysOK' /\ HeldNext'
    BY <1>2, <2>1, TakeInv
  <2> QED
    BY <1>2, <2>1, <2>2 DEF UnitsOK
<1>3. ASSUME Take PROVE Unit \in Units /\ Unit.packets \in Nat /\ Unit.key \in BOOLEAN
                        /\ sid \in DOMAIN sessions /\ handler = "run"
                        /\ UNCHANGED <<units, authed, sid, setups, slots>>
  BY <1>3, UnitTaken DEF Take, CanTake
<1>4. ASSUME Take, NEW n \in Nat, SetSeq(n) \/ UNCHANGED sessions,
             handler' \in {"run", "ended"}
      PROVE  ServerOK'
  <2>1. /\ sid \in DOMAIN sessions /\ UNCHANGED <<authed, sid, setups>>
    BY <1>3, <1>4
  <2>2. n % SeqSpace \in 0..(SeqSpace - 1)
    BY SeqAssumption
  <2>3. DOMAIN sessions' = DOMAIN sessions
    BY <1>4 DEF SetSeq
  <2>4. CASE SetSeq(n)
    <3>1. /\ sessions'[sid] = [sessions[sid] EXCEPT !.seq = n % SeqSpace]
          /\ \A s \in DOMAIN sessions : s # sid => sessions'[s] = sessions[s]
      BY <2>1, <2>4 DEF SetSeq
    <3>2. sessions'[sid] \in [udp : BOOLEAN, seq : 0..(SeqSpace - 1)]
      BY <2>1, <2>2, <3>1 DEF ServerOK
    <3> QED
      BY <1>4, <2>1, <2>3, <3>1, <3>2 DEF ServerOK
  <2>5. CASE UNCHANGED sessions
    BY <1>4, <2>1, <2>5 DEF ServerOK
  <2> QED
    BY <1>4, <2>4, <2>5
<1>5. ASSUME Take PROVE SeqAfterUnit \in Nat /\ sessions[sid].seq + 1 \in Nat
  <2>1. sessions[sid].seq \in 0..(SeqSpace - 1)
    BY <1>3, <1>5 DEF ServerOK
  <2> QED
    BY <1>3, <1>5, <2>1, SeqAssumption DEF SeqAfterUnit
<1>6. ASSUME GoOn PROVE handler' = handler /\ UNCHANGED <<handler, bridge>>
  BY <1>6 DEF GoOn
<1>7. ASSUME End PROVE handler' = "ended"
  BY <1>7 DEF End
<1>8. CASE DeliverEarly
  <2>1. Take /\ Record("early", 0) /\ GoOn /\ UNCHANGED <<flags, sessions>>
    BY <1>8 DEF DeliverEarly
  <2>2. ServerOK'
    BY <2>1, <1>4, <1>6, <1>3
  <2>3. FlagsOK'
    BY <2>1, <1>6 DEF FlagsOK, flags
  <2> QED
    BY <2>1, <2>2, <2>3, <1>2 DEF Results
<1>9. ASSUME SeesKey, Take PROVE sentKey' \in BOOLEAN
  BY <1>3, <1>9 DEF SeesKey, FlagsOK
<1>10. CASE DeliverUdp
  <2>1. /\ Take /\ SeesKey /\ SetSeq(SeqAfterUnit) /\ Record("sent", Unit.packets) /\ GoOn
        /\ UNCHANGED <<pDropped, stalls>>
    BY <1>10 DEF DeliverUdp, UdpSeq
  <2>2. ServerOK'
    BY <2>1, <1>4, <1>5, <1>6, <1>3
  <2>3. FlagsOK'
    BY <2>1, <1>6, <1>9 DEF FlagsOK
  <2> QED
    BY <2>1, <2>2, <2>3, <1>2, <1>3 DEF Results
<1>11. CASE DeliverSkipped
  <2>1. /\ Take /\ SeesKey /\ SetSeq(SeqAfterUnit) /\ Record("skipped", 0) /\ GoOn
        /\ UNCHANGED <<pDropped, stalls>>
    BY <1>11 DEF DeliverSkipped, DeliverTcp
  <2>2. ServerOK'
    BY <2>1, <1>4, <1>5, <1>6, <1>3
  <2>3. FlagsOK'
    BY <2>1, <1>6, <1>9 DEF FlagsOK
  <2> QED
    BY <2>1, <2>2, <2>3, <1>2 DEF Results
<1>12. CASE DeliverSent
  <2>1. /\ Take /\ SeesKey /\ SetSeq(sessions[sid].seq + 1) /\ Record("sent", Unit.packets)
        /\ stalls' = 0 /\ pDropped' = (pDropped /\ ~Unit.key) /\ GoOn
    BY <1>12 DEF DeliverSent, DeliverTcp
  <2>2. ServerOK'
    BY <2>1, <1>4, <1>5, <1>6, <1>3
  <2>3. sentKey' \in BOOLEAN /\ pDropped' \in BOOLEAN /\ stalls' = 0
    BY <2>1, <1>3, <1>9
  <2>4. FlagsOK'
    BY <2>3, CapacityAssumption DEF FlagsOK
  <2> QED
    BY <2>1, <2>2, <2>4, <1>2, <1>3 DEF Results
<1>13. CASE DeliverTimeout
  <2>1. /\ Take /\ SeesKey
        /\ stalls' = stalls + (IF Unit.key THEN 1 ELSE 0) /\ pDropped' = PLost
        /\ IF Unit.key /\ stalls' >= StallLimit
             THEN End /\ SetSeq(SeqAfterUnit)
             ELSE GoOn /\ UNCHANGED sessions
    BY <1>13 DEF DeliverTimeout, DeliverTcp
  <2>2. PICK k \in 0..(Unit.packets - 1) : Record("timeout", k)
    BY <1>13 DEF DeliverTimeout
  <2>3. k \in Nat
    BY <1>3, <2>1
  <2>4. handler' \in {"run", "ended"} /\ (SetSeq(SeqAfterUnit) \/ UNCHANGED sessions)
        /\ (GoOn \/ End)
    BY <1>3, <1>6, <1>7, <2>1
  <2>5. ServerOK'
    BY <1>4, <1>5, <2>1, <2>4
  <2>6. sentKey' \in BOOLEAN /\ pDropped' \in BOOLEAN
    BY <1>3, <1>9, <2>1 DEF PLost, FlagsOK
  <2>7. stalls < StallLimit /\ stalls \in Nat /\ StallLimit \in Nat
    BY <1>3, <2>1, CapacityAssumption DEF FlagsOK
  <2>8. stalls' \in 0..StallLimit
    BY <2>1, <2>7
  <2>9. handler' = "run" => stalls' < StallLimit
    BY <1>7, <2>1, <2>7, <1>3
  <2>10. FlagsOK'
    BY <2>6, <2>8, <2>9 DEF FlagsOK
  <2> QED
    BY <1>2, <2>1, <2>2, <2>3, <2>4, <2>5, <2>10 DEF Results
<1>14. CASE DeliverFailed
  <2>1. /\ Take /\ SeesKey /\ SetSeq(SeqAfterUnit) /\ End /\ UNCHANGED <<pDropped, stalls>>
    BY <1>14 DEF DeliverFailed, DeliverTcp
  <2>2. PICK k \in 0..(Unit.packets - 1) : Record("failed", k)
    BY <1>14 DEF DeliverFailed
  <2>3. k \in Nat
    BY <1>3, <2>1
  <2>4. ServerOK'
    BY <2>1, <1>4, <1>5, <1>7
  <2>5. FlagsOK'
    BY <2>1, <1>7, <1>9 DEF FlagsOK
  <2> QED
    BY <2>1, <2>2, <2>3, <2>4, <2>5, <1>2 DEF Results
<1> QED
  BY <1>1, <1>8, <1>10, <1>11, <1>12, <1>13, <1>14 DEF Deliver

LEMMA WireNextInv == WireInv /\ [Next]_vars => WireInv'
<1> SUFFICES ASSUME WireInv, [Next]_vars PROVE WireInv'
  OBVIOUS
<1>1. CASE \E u \in Units : Publish(u)
  BY <1>1, PublishInv
<1>2. CASE \E p \in DOMAIN plays : BridgeStep(p)
  BY <1>2, BridgeInv
<1>3. CASE Request
  BY <1>3, CloseInv, SetupInv, PlayInv DEF Request
<1>4. CASE Teardown \/ Leave \/ \E s \in DOMAIN sessions : ForeignTeardown(s)
  BY <1>4, CloseInv
<1>5. CASE Deliver
  BY <1>5, DeliverInv
<1>6. CASE UNCHANGED vars
  BY <1>6 DEF WireInv, UnitsOK, ServerOK, FlagsOK, PlaysOK, LogOK, HeldNext, vars,
              connection, flags, server, delivery
<1> QED
  BY <1>1, <1>2, <1>3, <1>4, <1>5, <1>6 DEF Next

(***************************************************************************)
(* The key-frame rules.                                                    *)

\* sentKey is true only after a key frame was tried.
KeyTried == sentKey => \E j \in DOMAIN log : IsKey(j) /\ log[j].result # "early"

Restored(i) ==
  \E k \in DOMAIN log : i < k /\ IsKey(k) /\ log[k].result = "sent" /\ ~log[k].udp

\* pDropped is false only while every P-frame lost is made up for.
LossKnown ==
  ~pDropped => \A i \in DOMAIN log :
    log[i].result = "timeout" /\ ~IsKey(i) => Restored(i)

KeyInv == KeyTried /\ LossKnown /\ NoPAfterLostP

\* Nothing is taken: what a unit is does not change.
LEMMA KeyStays ==
  ASSUME WireInv, WireInv', KeyInv, UNCHANGED <<sentKey, pDropped, log>>,
         units' = units \/ \E u \in Units : units' = Append(units, u)
  PROVE  KeyInv'
<1>1. \A i \in DOMAIN log : log[i].au \in DOMAIN units
  BY LogAus, BoundAssumption DEF WireInv, UnitsOK, LogOK, Aus
<1>2. \A i \in DOMAIN log : units'[log[i].au] = units[log[i].au]
  BY <1>1 DEF WireInv, UnitsOK
<1>3. \A i \in DOMAIN log : IsKey(i)' = IsKey(i)
  BY <1>2 DEF IsKey
<1>4. log' = log /\ sentKey' = sentKey /\ pDropped' = pDropped /\ OnWire' = OnWire
  BY DEF OnWire
<1>5. OnWire \subseteq DOMAIN log /\ DOMAIN log = 1..Len(log) /\ Len(log) \in Nat
  BY DEF OnWire, WireInv, LogOK
<1>6. KeyTried'
  BY <1>3, <1>4 DEF KeyInv, KeyTried
<1>7. LossKnown'
  BY <1>3, <1>4 DEF KeyInv, LossKnown, Restored
<1>8. NoPAfterLostP'
  <2>1. \A i \in OnWire : \E j \in 1..i : IsKey(j)' /\ log[j].result # "early"
    BY <1>3, <1>5 DEF KeyInv, NoPAfterLostP
  <2>2. ASSUME NEW i \in DOMAIN log, NEW j \in DOMAIN log,
               i < j, log[i].result = "timeout", ~IsKey(i)',
               log[j].result \in {"sent", "timeout", "failed"}, ~log[j].udp, ~IsKey(j)'
        PROVE  \E k \in (i + 1)..(j - 1) :
                 IsKey(k)' /\ log[k].result = "sent" /\ ~log[k].udp
    BY <1>3, <1>5, <2>2 DEF KeyInv, NoPAfterLostP
  <2> QED
    BY <1>4, <2>1, <2>2 DEF NoPAfterLostP
<1> QED
  BY <1>6, <1>7, <1>8 DEF KeyInv

\* A unit is taken, with what each outcome does to the flags.
LEMMA KeyTaken ==
  ASSUME WireInv, KeyInv, Take, NEW result \in Results, NEW count \in Nat,
         Record(result, count),
         result = "early" => sentKey' = sentKey /\ count = 0,
         result # "early" => sentKey' = (sentKey \/ Unit.key) /\ (sentKey \/ Unit.key),
         result \in {"sent", "timeout", "failed"} /\ ~sessions[sid].udp
           => Unit.key \/ ~pDropped,
         ~pDropped' => ~pDropped \/ (Unit.key /\ result = "sent" /\ ~sessions[sid].udp),
         result = "timeout" /\ ~Unit.key => pDropped'
  PROVE  KeyInv'
<1> DEFINE e == [au |-> Taken, on |-> sid, udp |-> sessions[sid].udp, result |-> result,
                 first |-> sessions[sid].seq, count |-> count]
<1>0. PICK n \in Nat : n = Len(log)
  BY DEF WireInv, LogOK
<1>1. log' = Append(log, e) /\ units' = units /\ n \in Nat /\ log \in Seq(Entry)
  BY DEF Record, Take, WireInv, LogOK
<1>2. /\ DOMAIN log = 1..n /\ DOMAIN log' = 1..(n + 1) /\ log'[n + 1] = e
      /\ \A i \in 1..n : log'[i] = log[i]
  <2> HIDE DEF e
  <2> QED
    BY <1>0, <1>1
<1>3. /\ e.au = Taken /\ e.udp = sessions[sid].udp /\ e.result = result /\ e.count = count
  OBVIOUS
<1> HIDE DEF e
<1>4. \A i \in 1..n : IsKey(i)' = IsKey(i)
  BY <1>1, <1>2 DEF IsKey
<1>5. IsKey(n + 1)' = Unit.key
  BY <1>1, <1>2, <1>3 DEF IsKey, Unit
<1>6. KeyTried'
  <2> SUFFICES ASSUME sentKey'
               PROVE  \E j \in 1..(n + 1) : IsKey(j)' /\ log'[j].result # "early"
    BY <1>2 DEF KeyTried
  <2>1. CASE sentKey
    <3>1. PICK j \in 1..n : IsKey(j) /\ log[j].result # "early"
      BY <1>2, <2>1 DEF KeyInv, KeyTried
    <3> QED
      BY <1>1, <1>2, <1>4, <3>1
  <2>2. CASE ~sentKey
    <3>1. Unit.key /\ result # "early"
      BY <2>2
    <3>2. n + 1 \in 1..(n + 1) /\ log'[n + 1].result # "early"
      BY <1>0, <1>2, <1>3, <3>1
    <3>3. IsKey(n + 1)'
      BY <1>5, <3>1
    <3> QED
      BY <3>2, <3>3
  <2> QED
    BY <2>1, <2>2
<1>7. ASSUME NEW i \in 1..n, Restored(i)
      PROVE  \E k \in 1..n : i < k /\ IsKey(k)' /\ log'[k].result = "sent" /\ ~log'[k].udp
  BY <1>2, <1>4, <1>7 DEF Restored
<1>8. LossKnown'
  <2> SUFFICES ASSUME ~pDropped', NEW i \in 1..(n + 1), log'[i].result = "timeout", ~IsKey(i)'
               PROVE  \E k \in 1..(n + 1) :
                        i < k /\ IsKey(k)' /\ log'[k].result = "sent" /\ ~log'[k].udp
    BY <1>2 DEF LossKnown, Restored
  <2>1. i # n + 1
    BY <1>2, <1>3, <1>5
  <2>2. i \in 1..n
    BY <1>1, <2>1
  <2>3. CASE ~pDropped
    <3>1. Restored(i)
      BY <1>2, <1>4, <2>2, <2>3 DEF KeyInv, LossKnown
    <3>2. PICK k \in 1..n : i < k /\ IsKey(k)' /\ log'[k].result = "sent" /\ ~log'[k].udp
      BY <1>7, <2>2, <3>1
    <3>3. k \in 1..(n + 1)
      BY <1>0
    <3> QED
      BY <3>2, <3>3
  <2>4. CASE pDropped
    <3>1. Unit.key /\ result = "sent" /\ ~sessions[sid].udp
      BY <2>4
    <3>2. n + 1 \in 1..(n + 1) /\ i < n + 1
      BY <1>0, <2>2
    <3>3. log'[n + 1].result = "sent" /\ ~log'[n + 1].udp
      BY <1>2, <1>3, <3>1
    <3>4. IsKey(n + 1)'
      BY <1>5, <3>1
    <3> QED
      BY <3>2, <3>3, <3>4
  <2> QED
    BY <2>3, <2>4
<1>9. NoPAfterLostP'
  <2>1. ASSUME NEW i \in 1..(n + 1), log'[i].count > 0
        PROVE  \E j \in 1..i : IsKey(j)' /\ log'[j].result # "early"
    <3>1. CASE i \in 1..n
      <4>1. i \in OnWire
        BY <1>2, <2>1, <3>1 DEF OnWire
      <4>2. PICK j \in 1..i : IsKey(j) /\ log[j].result # "early"
        BY <4>1 DEF KeyInv, NoPAfterLostP
      <4>3. j \in 1..n
        BY <1>1, <3>1
      <4> QED
        BY <1>2, <1>4, <4>2, <4>3
    <3>2. CASE i = n + 1
      <4>1. result # "early"
        BY <1>2, <1>3, <2>1, <3>2
      <4>2. CASE Unit.key
        <5>1. i \in 1..i /\ log'[i].result # "early"
          BY <1>0, <1>2, <1>3, <3>2, <4>1
        <5>2. IsKey(i)'
          BY <1>5, <3>2, <4>2
        <5> QED
          BY <5>1, <5>2
      <4>3. CASE sentKey
        <5>1. PICK j \in 1..n : IsKey(j) /\ log[j].result # "early"
          BY <1>2, <4>3 DEF KeyInv, KeyTried
        <5>2. j \in 1..i /\ log'[j].result # "early"
          BY <1>0, <1>2, <3>2, <5>1
        <5>3. IsKey(j)'
          BY <1>4, <5>1
        <5> QED
          BY <5>2, <5>3
      <4> QED
        BY <4>1, <4>2, <4>3
    <3>3. i \in 1..n \/ i = n + 1
      BY <1>0
    <3> QED
      BY <3>1, <3>2, <3>3
  <2>2. ASSUME NEW i \in 1..(n + 1), NEW j \in 1..(n + 1),
               i < j, log'[i].result = "timeout", ~IsKey(i)',
               log'[j].result \in {"sent", "timeout", "failed"}, ~log'[j].udp, ~IsKey(j)'
        PROVE  \E k \in (i + 1)..(j - 1) :
                 IsKey(k)' /\ log'[k].result = "sent" /\ ~log'[k].udp
    <3>1. i \in 1..n
      BY <1>1, <2>2
    <3>2. log[i].result = "timeout" /\ ~IsKey(i)
      BY <1>2, <1>4, <2>2, <3>1
    <3>3. CASE j \in 1..n
      <4>1. PICK k \in (i + 1)..(j - 1) : IsKey(k) /\ log[k].result = "sent" /\ ~log[k].udp
        <5>1. log[j].result \in {"sent", "timeout", "failed"} /\ ~log[j].udp /\ ~IsKey(j)
          BY <1>2, <1>4, <2>2, <3>3
        <5> QED
          BY <1>2, <2>2, <3>1, <3>2, <3>3, <5>1 DEF KeyInv, NoPAfterLostP
      <4>2. k \in 1..n
        BY <1>1, <3>1, <3>3
      <4>3. log'[k].result = "sent" /\ ~log'[k].udp
        BY <1>2, <4>1, <4>2
      <4>4. IsKey(k)'
        BY <1>4, <4>1, <4>2
      <4> QED
        BY <4>1, <4>3, <4>4
    <3>4. CASE j = n + 1
      <4>1. ~pDropped
        BY <1>2, <1>3, <1>5, <2>2, <3>4
      <4>2. Restored(i)
        BY <1>2, <3>1, <3>2, <4>1 DEF KeyInv, LossKnown
      <4>3. PICK k \in 1..n : i < k /\ IsKey(k)' /\ log'[k].result = "sent" /\ ~log'[k].udp
        BY <1>7, <3>1, <4>2
      <4>4. k \in (i + 1)..(j - 1)
        BY <1>1, <3>1, <3>4, <4>3
      <4> QED
        BY <4>3, <4>4
    <3>5. j \in 1..n \/ j = n + 1
      BY <1>0
    <3> QED
      BY <3>3, <3>4, <3>5
  <2>3. OnWire' = {i \in 1..(n + 1) : log'[i].count > 0}
    BY <1>2 DEF OnWire
  <2> QED
    BY <1>2, <2>1, <2>2, <2>3 DEF NoPAfterLostP
<1> QED
  BY <1>6, <1>8, <1>9 DEF KeyInv

LEMMA KeyDelivered == ASSUME WireInv, KeyInv, Deliver, WireInv' PROVE KeyInv'
<1>1. CASE TakeOrphaned
  BY <1>1, KeyStays DEF TakeOrphaned, flags
<1>2. ASSUME Take PROVE Unit.packets \in Nat /\ Unit.key \in BOOLEAN
  BY <1>2, UnitTaken
<1>3. CASE DeliverEarly
  <2>1. Take /\ Record("early", 0) /\ UNCHANGED <<sentKey, pDropped>>
    BY <1>3 DEF DeliverEarly, flags
  <2> QED
    BY <2>1, KeyTaken DEF Results
<1>4. CASE DeliverUdp
  <2>1. /\ Take /\ Record("sent", Unit.packets) /\ sessions[sid].udp
        /\ sentKey' = (sentKey \/ Unit.key) /\ (sentKey \/ Unit.key) /\ pDropped' = pDropped
    BY <1>4 DEF DeliverUdp, AwaitsKey, SeesKey
  <2> QED
    BY <1>2, <2>1, KeyTaken DEF Results
<1>5. ASSUME DeliverTcp
      PROVE  /\ Take /\ ~sessions[sid].udp
             /\ sentKey' = (sentKey \/ Unit.key) /\ (sentKey \/ Unit.key)
  BY <1>5 DEF DeliverTcp, AwaitsKey, SeesKey
<1>6. CASE DeliverSkipped
  <2>1. DeliverTcp /\ Record("skipped", 0) /\ pDropped' = pDropped
    BY <1>6 DEF DeliverSkipped
  <2> QED
    BY <1>5, <2>1, KeyTaken DEF Results
<1>7. CASE DeliverSent
  <2>1. /\ DeliverTcp /\ (Unit.key \/ ~pDropped) /\ Record("sent", Unit.packets)
        /\ pDropped' = (pDropped /\ ~Unit.key)
    BY <1>7 DEF DeliverSent, Skips
  <2>2. ~pDropped' => ~pDropped \/ Unit.key
    BY <2>1
  <2> QED
    BY <1>2, <1>5, <2>1, <2>2, KeyTaken DEF Results
<1>8. CASE DeliverTimeout
  <2>1. /\ DeliverTcp /\ (Unit.key \/ ~pDropped) /\ pDropped' = (pDropped \/ ~Unit.key)
    BY <1>8 DEF DeliverTimeout, Skips, PLost
  <2>2. PICK k \in 0..(Unit.packets - 1) : Record("timeout", k)
    BY <1>8 DEF DeliverTimeout
  <2>3. k \in Nat
    BY <1>2, <1>5, <2>1
  <2>4. (~pDropped' => ~pDropped) /\ (~Unit.key => pDropped')
    BY <2>1
  <2> QED
    BY <1>5, <2>1, <2>2, <2>3, <2>4, KeyTaken DEF Results
<1>9. CASE DeliverFailed
  <2>1. DeliverTcp /\ (Unit.key \/ ~pDropped) /\ pDropped' = pDropped
    BY <1>9 DEF DeliverFailed, Skips
  <2>2. PICK k \in 0..(Unit.packets - 1) : Record("failed", k)
    BY <1>9 DEF DeliverFailed
  <2>3. k \in Nat
    BY <1>2, <1>5, <2>1
  <2> QED
    BY <1>5, <2>1, <2>2, <2>3, KeyTaken DEF Results
<1> QED
  BY <1>1, <1>3, <1>4, <1>6, <1>7, <1>8, <1>9 DEF Deliver

LEMMA KeyInitInv == Init => KeyInv
<1> SUFFICES ASSUME Init PROVE KeyInv
  OBVIOUS
<1>1. DOMAIN log = {} /\ sentKey = FALSE
  BY DEF Init
<1> QED
  BY <1>1 DEF KeyInv, KeyTried, LossKnown, NoPAfterLostP, OnWire

LEMMA KeyNextInv == WireInv /\ WireInv' /\ KeyInv /\ [Next]_vars => KeyInv'
<1> SUFFICES ASSUME WireInv, WireInv', KeyInv, [Next]_vars PROVE KeyInv'
  OBVIOUS
<1>1. CASE \E u \in Units : Publish(u)
  BY <1>1, KeyStays DEF Publish, flags
<1>2. CASE \E p \in DOMAIN plays : BridgeStep(p)
  BY <1>2, KeyStays DEF BridgeStep, BridgeRecv, BridgeSend, BridgeSendFails, flags
<1>3. CASE Request
  BY <1>3, KeyStays DEF Request, Describe, Setup, Play, flags
<1>4. CASE Teardown \/ Leave \/ \E s \in DOMAIN sessions : ForeignTeardown(s)
  BY <1>4, KeyStays DEF Teardown, Leave, ForeignTeardown, flags
<1>5. CASE Deliver
  BY <1>5, KeyDelivered
<1>6. CASE UNCHANGED vars
  BY <1>6, KeyStays DEF vars, flags
<1> QED
  BY <1>1, <1>2, <1>3, <1>4, <1>5, <1>6 DEF Next

(***************************************************************************)
(* Sequence numbers.  What a session goes on with is not read off the log: *)
(* the invariant ties it to the session's last unit on the wire, as long   *)
(* as the connection lives and the session is in the server's map.         *)

\* The last unit of its session that put packets on the wire.
LastOn(i) == i \in OnWire /\ \A k \in OnWire : i < k => log[k].on # log[i].on

\* Nothing that makes a gap came with unit i or after it.
RunsOn(i) ==
  \/ log[i].udp
  \/ /\ log[i].count = 1 /\ log[i].result = "sent"
     /\ \A k \in DOMAIN log : i <= k /\ log[k].on = log[i].on => log[k].result # "skipped"

SessionsKept ==
  \A i \in DOMAIN log :
    /\ log[i].on <= setups
    /\ log[i].on \in DOMAIN sessions => log[i].udp = sessions[log[i].on].udp

NextNumber ==
  \A i \in DOMAIN log :
    handler = "run" /\ log[i].on \in DOMAIN sessions /\ LastOn(i) /\ RunsOn(i)
      => sessions[log[i].on].seq = (log[i].first + log[i].count) % SeqSpace

SeqInv == SessionsKept /\ NextNumber /\ SeqContiguousExtent

LEMMA SeqInitInv == Init => SeqInv
<1> SUFFICES ASSUME Init PROVE SeqInv
  OBVIOUS
<1>1. DOMAIN log = {}
  BY DEF Init
<1> QED
  BY <1>1 DEF SeqInv, SessionsKept, NextNumber, SeqContiguousExtent

\* No unit is taken: sessions come, with a number of their own, and go.
LEMMA SeqStays ==
  ASSUME SeqInv, WireInv, log' = log, setups' \in Nat, setups <= setups',
         handler' = "run" => handler = "run",
         \A s \in DOMAIN sessions' :
           s <= setups => s \in DOMAIN sessions /\ sessions'[s] = sessions[s]
  PROVE  SeqInv'
<1>0. OnWire' = OnWire
  BY DEF OnWire
<1>1. /\ \A i, j \in DOMAIN log : Consecutive(i, j)' => Consecutive(i, j)
      /\ \A i, j \in DOMAIN log : Contiguous(i, j) => Contiguous(i, j)'
      /\ \A i \in DOMAIN log : LastOn(i)' => LastOn(i)
      /\ \A i \in DOMAIN log : RunsOn(i)' => RunsOn(i)
  <2>1. \A i, j \in DOMAIN log : Consecutive(i, j)' => Consecutive(i, j)
    BY <1>0 DEF Consecutive
  <2>2. \A i, j \in DOMAIN log : Contiguous(i, j) => Contiguous(i, j)'
    BY DEF Contiguous
  <2>3. \A i \in DOMAIN log : LastOn(i)' => LastOn(i)
    BY <1>0 DEF LastOn
  <2>4. \A i \in DOMAIN log : RunsOn(i)' = RunsOn(i)
    BY DEF RunsOn
  <2> QED
    BY <2>1, <2>2, <2>3, <2>4
<1>2. \A i \in DOMAIN log : log[i].on \in Nat /\ setups \in Nat
  <2>1. setups \in Nat /\ log \in Seq(Entry)
    BY BoundAssumption DEF WireInv, LogOK, ServerOK
  <2>2. \A i \in DOMAIN log : log[i] \in Entry
    BY <2>1
  <2> QED
    BY <2>1, <2>2, BoundAssumption DEF Entry
<1>3. SessionsKept'
  BY <1>2 DEF SeqInv, SessionsKept
<1>4. NextNumber'
  BY <1>1, <1>2 DEF SeqInv, SessionsKept, NextNumber
<1>5. SeqContiguousExtent'
  BY <1>1 DEF SeqInv, SeqContiguousExtent
<1> QED
  BY <1>3, <1>4, <1>5 DEF SeqInv

\* A unit is taken, with what each outcome does to the session's number.
LEMMA SeqTaken ==
  ASSUME WireInv, SeqInv, CanTake, sid \in DOMAIN sessions, setups' = setups,
         NEW result \in Results, NEW count \in Nat, Record(result, count),
         DOMAIN sessions' = DOMAIN sessions, sessions'[sid].udp = sessions[sid].udp,
         \A s \in DOMAIN sessions : s # sid => sessions'[s] = sessions[s],
         result = "skipped" => count = 0,
         handler' = "run" /\ count = 0 /\ (sessions[sid].udp \/ result # "skipped")
           => sessions'[sid].seq = sessions[sid].seq,
         handler' = "run" /\ count > 0 /\ (sessions[sid].udp \/ (count = 1 /\ result = "sent"))
           => sessions'[sid].seq = (sessions[sid].seq + count) % SeqSpace
  PROVE  SeqInv'
<1> DEFINE e == [au |-> Taken, on |-> sid, udp |-> sessions[sid].udp, result |-> result,
                 first |-> sessions[sid].seq, count |-> count]
<1>0. PICK n \in Nat : n = Len(log)
  BY DEF WireInv, LogOK
<1>1. log' = Append(log, e) /\ log \in Seq(Entry) /\ handler = "run"
  BY DEF Record, CanTake, WireInv, LogOK
<1>2. /\ DOMAIN log = 1..n /\ DOMAIN log' = 1..(n + 1) /\ log'[n + 1] = e
      /\ \A i \in 1..n : log'[i] = log[i]
  <2> HIDE DEF e
  <2> QED
    BY <1>0, <1>1
<1>3. /\ e.on = sid /\ e.udp = sessions[sid].udp /\ e.result = result
      /\ e.first = sessions[sid].seq /\ e.count = count
  OBVIOUS
<1> HIDE DEF e
<1>4. OnWire = {i \in 1..n : log[i].count > 0}
  BY <1>2 DEF OnWire
<1>5. OnWire' = OnWire \cup (IF count > 0 THEN {n + 1} ELSE {})
  <2>1. OnWire' = {i \in 1..(n + 1) : log'[i].count > 0}
    BY <1>2 DEF OnWire
  <2>2. 1..(n + 1) = (1..n) \cup {n + 1}
    BY <1>0
  <2> QED
    BY <1>2, <1>3, <1>4, <2>1, <2>2
<1>6. SessionsKept'
  <2> SUFFICES ASSUME NEW i \in 1..(n + 1)
               PROVE  /\ log'[i].on <= setups
                      /\ log'[i].on \in DOMAIN sessions
                           => log'[i].udp = sessions'[log'[i].on].udp
    BY <1>2 DEF SessionsKept
  <2>1. CASE i \in 1..n
    BY <1>2, <2>1 DEF SeqInv, SessionsKept
  <2>2. CASE i = n + 1
    BY <1>2, <1>3, <2>2 DEF WireInv, ServerOK
  <2> QED
    BY <1>0, <2>1, <2>2
\* An older unit of the session still is its last, or comes just before.
<1>7. ASSUME NEW i \in 1..n, log[i].on = sid, LastOn(i), RunsOn(i)
      PROVE  sessions[sid].seq = (log[i].first + log[i].count) % SeqSpace
  BY <1>1, <1>2, <1>7 DEF SeqInv, NextNumber
<1>8. ASSUME NEW i \in 1..n, RunsOn(i)' PROVE RunsOn(i)
  <2>1. 1..n \subseteq 1..(n + 1)
    BY <1>0
  <2> QED
    BY <1>2, <1>8, <2>1 DEF RunsOn
<1>9. NextNumber'
  <2> SUFFICES ASSUME NEW i \in 1..(n + 1), handler' = "run",
                      log'[i].on \in DOMAIN sessions', LastOn(i)', RunsOn(i)'
               PROVE  sessions'[log'[i].on].seq
                        = (log'[i].first + log'[i].count) % SeqSpace
    BY <1>2 DEF NextNumber
  <2>1. CASE i \in 1..n
    <3>1. log'[i] = log[i] /\ i < n + 1 /\ RunsOn(i)
      BY <1>0, <1>2, <1>8, <2>1
    <3>2. LastOn(i)
      <4>1. i \in OnWire
        BY <1>0, <1>5, <2>1 DEF LastOn
      <4>2. \A k \in OnWire : i < k => log[k].on # log[i].on
        BY <1>2, <1>4, <1>5, <3>1 DEF LastOn
      <4> QED
        BY <4>1, <4>2 DEF LastOn
    <3>3. CASE log[i].on # sid
      BY <1>1, <1>2, <2>1, <3>1, <3>2, <3>3 DEF SeqInv, NextNumber
    <3>4. CASE log[i].on = sid
      <4>1. count = 0
        BY <1>2, <1>3, <1>5, <3>1, <3>4 DEF LastOn
      <4>2. sessions[sid].udp \/ result # "skipped"
        <5>1. CASE log[i].udp
          BY <1>2, <2>1, <3>4, <5>1 DEF SeqInv, SessionsKept
        <5>2. CASE ~log[i].udp
          <6>1. ~log'[i].udp /\ i <= n + 1 /\ n + 1 \in 1..(n + 1) /\ log'[n + 1].on = log'[i].on
            BY <1>0, <1>2, <1>3, <3>1, <3>4, <5>2
          <6>2. log'[n + 1].result # "skipped"
            BY <1>2, <6>1 DEF RunsOn
          <6> QED
            BY <1>2, <1>3, <6>2
        <5> QED
          BY <5>1, <5>2
      <4> QED
        BY <1>7, <2>1, <3>1, <3>2, <3>4, <4>1, <4>2
    <3> QED
      BY <3>3, <3>4
  <2>2. CASE i = n + 1
    <3>1. log'[i] = e
      BY <1>2, <2>2
    <3>2. count > 0
      BY <1>0, <1>4, <1>5, <2>2 DEF LastOn
    <3>3. e.udp \/ (e.count = 1 /\ e.result = "sent")
      BY <3>1 DEF RunsOn
    <3> QED
      BY <1>3, <3>1, <3>2, <3>3
  <2> QED
    BY <1>0, <2>1, <2>2
<1>10. SeqContiguousExtent'
  <2> SUFFICES ASSUME NEW i \in 1..(n + 1), NEW j \in 1..(n + 1), Consecutive(i, j)',
                      \/ log'[i].udp
                      \/ /\ log'[i].count = 1 /\ log'[i].result = "sent"
                         /\ \A k \in i..j : log'[k].on = log'[i].on
                                              => log'[k].result # "skipped"
               PROVE  Contiguous(i, j)'
    BY <1>2 DEF SeqContiguousExtent
  <2>1. /\ i \in OnWire' /\ j \in OnWire' /\ i < j /\ log'[i].on = log'[j].on
        /\ \A k \in OnWire' : i < k /\ k < j => log'[k].on # log'[i].on
    BY DEF Consecutive
  <2>2. i \in 1..n /\ log'[i] = log[i] /\ i \in OnWire
    BY <1>0, <1>2, <1>5, <2>1
  <2>3. \A k \in OnWire : i < k /\ k < j => log[k].on # log[i].on
    BY <1>2, <1>4, <1>5, <2>1, <2>2
  <2>4. CASE j \in 1..n
    <3>1. log'[j] = log[j] /\ j \in OnWire
      BY <1>0, <1>2, <1>5, <2>1, <2>4
    <3>2. Consecutive(i, j)
      BY <2>1, <2>2, <2>3, <3>1 DEF Consecutive
    <3>3. \A k \in i..j : k \in 1..n /\ log'[k] = log[k]
      BY <1>0, <1>2, <2>2, <2>4
    <3>4. Contiguous(i, j)
      BY <1>2, <2>2, <2>4, <3>2, <3>3 DEF SeqInv, SeqContiguousExtent
    <3> QED
      BY <2>2, <3>1, <3>4 DEF Contiguous
  <2>5. CASE j = n + 1
    <3>1. log'[j] = e /\ log[i].on = sid /\ count > 0
      BY <1>0, <1>2, <1>3, <1>4, <1>5, <2>1, <2>2, <2>5
    <3>2. LastOn(i)
      <4>1. \A k \in OnWire : k < j
        BY <1>0, <1>4, <2>5
      <4> QED
        BY <2>2, <2>3, <4>1 DEF LastOn
    <3>3. RunsOn(i)
      <4>1. CASE log[i].udp
        BY <4>1 DEF RunsOn
      <4>2. CASE ~log[i].udp
        <5>1. \A k \in 1..n : i <= k => k \in i..j /\ log'[k] = log[k]
          BY <1>0, <1>2, <2>2, <2>5
        <5> QED
          BY <1>2, <2>2, <4>2, <5>1 DEF RunsOn
      <4> QED
        BY <4>1, <4>2
    <3>4. log'[j].first = sessions[sid].seq
      BY <1>3, <3>1
    <3> QED
      BY <1>7, <2>2, <3>1, <3>2, <3>3, <3>4 DEF Contiguous
  <2> QED
    BY <1>0, <2>4, <2>5
<1> QED
  BY <1>6, <1>9, <1>10 DEF SeqInv

LEMMA SeqDelivered == ASSUME WireInv, SeqInv, Deliver PROVE SeqInv'
<1>1. CASE TakeOrphaned
  <2>1. setups \in Nat
    BY BoundAssumption DEF WireInv, ServerOK
  <2> QED
    BY <1>1, <2>1, SeqStays DEF TakeOrphaned, server
<1>2. ASSUME Take
      PROVE  /\ Unit.packets \in Nat \ {0} /\ CanTake /\ sid \in DOMAIN sessions
             /\ setups' = setups
  BY <1>2, UnitTaken DEF Take
<1>3. /\ SeqSpace \in Nat \ {0} /\ \A s \in DOMAIN sessions : sessions[s].seq \in Nat
      /\ \A s \in DOMAIN sessions : sessions[s] \in [udp : BOOLEAN, seq : 0..(SeqSpace - 1)]
  BY SeqAssumption DEF WireInv, ServerOK
<1>4. ASSUME Take, NEW m, SetSeq(m)
      PROVE  /\ DOMAIN sessions' = DOMAIN sessions /\ sessions'[sid].udp = sessions[sid].udp
             /\ sessions'[sid].seq = m % SeqSpace
             /\ \A s \in DOMAIN sessions : s # sid => sessions'[s] = sessions[s]
  BY <1>2, <1>3, <1>4 DEF SetSeq
<1>5. CASE DeliverEarly
  <2>1. Take /\ Record("early", 0) /\ sessions' = sessions
    BY <1>5 DEF DeliverEarly
  <2> QED
    BY <1>2, <2>1, SeqTaken DEF Results
<1>6. CASE DeliverUdp
  <2>1. Take /\ Record("sent", Unit.packets) /\ SetSeq(sessions[sid].seq + Unit.packets)
    BY <1>6 DEF DeliverUdp, UdpSeq, SeqAfterUnit
  <2> QED
    BY <1>2, <1>4, <2>1, SeqTaken DEF Results
<1>7. CASE DeliverSkipped
  <2>1. /\ Take /\ Record("skipped", 0) /\ SetSeq(SeqAfterUnit) /\ ~sessions[sid].udp
    BY <1>7 DEF DeliverSkipped, DeliverTcp
  <2> QED
    BY <1>2, <1>4, <2>1, SeqTaken DEF Results
<1>8. CASE DeliverSent
  <2>1. /\ Take /\ Record("sent", Unit.packets) /\ SetSeq(sessions[sid].seq + 1)
        /\ ~sessions[sid].udp
    BY <1>8 DEF DeliverSent, DeliverTcp
  <2> QED
    BY <1>2, <1>4, <2>1, SeqTaken DEF Results
<1>9. CASE DeliverTimeout
  <2>1. /\ Take /\ ~sessions[sid].udp
        /\ (handler' = "ended" /\ SetSeq(SeqAfterUnit)) \/ sessions' = sessions
    BY <1>9 DEF DeliverTimeout, DeliverTcp, End
  <2>2. PICK k \in 0..(Unit.packets - 1) : Record("timeout", k)
    BY <1>9 DEF DeliverTimeout
  <2>3. k \in Nat
    BY <1>2, <2>1
  <2>4. CASE handler' = "ended" /\ SetSeq(SeqAfterUnit)
    BY <1>2, <1>4, <2>1, <2>2, <2>3, <2>4, SeqTaken DEF Results
  <2>5. CASE sessions' = sessions
    BY <1>2, <2>1, <2>2, <2>3, <2>5, SeqTaken DEF Results
  <2> QED
    BY <2>1, <2>4, <2>5
<1>10. CASE DeliverFailed
  <2>1. Take /\ handler' = "ended" /\ SetSeq(SeqAfterUnit)
    BY <1>10 DEF DeliverFailed, DeliverTcp, End
  <2>2. PICK k \in 0..(Unit.packets - 1) : Record("failed", k)
    BY <1>10 DEF DeliverFailed
  <2>3. k \in Nat
    BY <1>2, <2>1
  <2> QED
    BY <1>2, <1>4, <2>1, <2>2, <2>3, SeqTaken DEF Results
<1> QED
  BY <1>1, <1>5, <1>6, <1>7, <1>8, <1>9, <1>10 DEF Deliver

LEMMA SeqNextInv == WireInv /\ SeqInv /\ [Next]_vars => SeqInv'
<1> SUFFICES ASSUME WireInv, SeqInv, [Next]_vars PROVE SeqInv'
  OBVIOUS
<1>1. setups \in Nat /\ DOMAIN sessions \subseteq 1..setups
  BY BoundAssumption DEF WireInv, ServerOK
<1>2. ASSUME UNCHANGED <<handler, server, log>> PROVE SeqInv'
  BY <1>1, <1>2, SeqStays DEF server
<1>3. CASE \E u \in Units : Publish(u)
  BY <1>2, <1>3 DEF Publish, connection
<1>4. CASE \E p \in DOMAIN plays : BridgeStep(p)
  BY <1>2, <1>4 DEF BridgeStep, BridgeRecv, BridgeSend, BridgeSendFails, connection
<1>5. CASE \E cred \in BOOLEAN :
             Describe(cred) \/ \E s \in DOMAIN sessions : Play(cred, s)
  BY <1>2, <1>5 DEF Describe, Play, server
<1>6. CASE \E cred \in BOOLEAN, udp \in BOOLEAN, seq \in InitSeqs : Setup(cred, udp, seq)
  <2>1. PICK udp \in BOOLEAN, seq \in InitSeqs :
          /\ setups' = setups + 1 /\ handler' = handler /\ log' = log
          /\ sessions' = [s \in DOMAIN sessions \cup {setups'} |->
                           IF s = setups' THEN [udp |-> udp, seq |-> seq] ELSE sessions[s]]
    BY <1>6 DEF Setup
  <2>2. \A s \in DOMAIN sessions' : s <= setups => s # setups'
    BY <1>1, <2>1
  <2> QED
    BY <1>1, <2>1, <2>2, SeqStays
<1>7. CASE Leave
  BY <1>1, <1>7, SeqStays DEF Leave, End, server
<1>8. CASE Teardown \/ \E s \in DOMAIN sessions : ForeignTeardown(s)
  <2>1. /\ setups' = setups /\ handler' = handler /\ log' = log
        /\ \E gone : sessions' = Restrict(sessions, DOMAIN sessions \ gone)
    BY <1>8 DEF Teardown, ForeignTeardown, connection
  <2> QED
    BY <1>1, <2>1, SeqStays DEF Restrict
<1>9. CASE Deliver
  BY <1>9, SeqDelivered
<1>10. CASE UNCHANGED vars
  BY <1>2, <1>10 DEF vars, connection
<1> QED
  BY <1>3, <1>4, <1>5, <1>6, <1>7, <1>8, <1>9, <1>10 DEF Next, Request

(* Every variable of a connection keeps its type; no channel exceeds its   *)
(* capacity and the count of stalled key frames its limit                  *)
(* (handle_connection in src/src/streaming/rtsp.rs).                       *)
THEOREM SessionTypeCorrect == Spec => []TypeOK
BY WireInitInv, WireNextInv, WireInvTypes, PTL DEF Spec

(* Units reach the wire in the order written and none twice, through any   *)
(* number of PLAYs (rtsp.rs:1426-1449).                                    *)
THEOREM WireInOrderAlways == Spec => []WireInOrder
BY WireInitInv, WireNextInv, WireInvOrder, PTL DEF Spec

(* No P-frame before a key frame was tried, and none over TCP after a lost *)
(* one until a key frame was written in full (rtsp.rs:376-399).            *)
THEOREM NoPAfterLostPAlways == Spec => []NoPAfterLostP
<1>1. KeyInv => NoPAfterLostP
  BY DEF KeyInv
<1> QED
  BY WireInitInv, WireNextInv, KeyInitInv, KeyNextInv, <1>1, PTL DEF Spec

(* A session's RTP sequence numbers run on over UDP through re-PLAYs and   *)
(* other sessions in between, and over TCP for units of one packet written *)
(* in full with none skipped in between (rtsp.rs:382-445).                 *)
THEOREM SeqContiguousAlways == Spec => []SeqContiguousExtent
<1>1. SeqInv => SeqContiguousExtent
  BY DEF SeqInv
<1> QED
  BY WireInitInv, WireNextInv, SeqInitInv, SeqNextInv, <1>1, PTL DEF Spec

-----------------------------------------------------------------------------
(* Requests and answers (RtspFront).                                       *)

\* Pieces are read in the order they were sent: what is not read is the end
\* of the row of all pieces, piece p of message i being number 2 i + p - 2.
PiecesRead == 2 * Len(messages) - Len(wire)

WireRow ==
  /\ wire \in Seq(Nat \X {1, 2}) /\ PiecesRead \in Nat
  /\ \A j \in DOMAIN wire : 2 * wire[j][1] + wire[j][2] = PiecesRead + j + 2

MessagesOK ==
  /\ messages \in Seq([method : Methods \cup {"RTCP"}, cred : Credentials])
  /\ answers \in Seq([cseq : Nat, status : Nat])
  /\ whole \subseteq Nat /\ unbound \subseteq whole

\* Only what was read in full has an answer, in the order it was read.
AnsweredRead ==
  /\ \A j \in DOMAIN answers : answers[j].cseq # 0 =>
       2 * answers[j].cseq <= PiecesRead /\ answers[j].status # 400
  /\ \A i, j \in DOMAIN answers :
       (i < j /\ answers[i].cseq # 0 /\ answers[j].cseq # 0) =>
         answers[i].cseq < answers[j].cseq

\* A request that was read whole was answered, or was a SETUP that could not
\* be bound.
WholeAnswered ==
  \A i \in whole : i # 0 /\ (i \notin unbound => \E j \in DOMAIN answers : answers[j].cseq = i)

FrontInv == MessagesOK /\ WireRow /\ AnsweredRead /\ WholeAnswered

LEMMA FrontInitInv == FrontInit => FrontInv
<1> SUFFICES ASSUME FrontInit PROVE FrontInv
  OBVIOUS
<1> USE DEF FrontInit
<1>1. MessagesOK
  BY DEF MessagesOK
<1>2. WireRow /\ AnsweredRead /\ WholeAnswered
  BY DEF WireRow, AnsweredRead, WholeAnswered, PiecesRead
<1> QED
  BY <1>1, <1>2 DEF FrontInv

(* The row of pieces grows by the two of a message.                        *)
LEMMA TwoPieces ==
  ASSUME NEW w \in Seq(Nat \X {1, 2}), NEW n \in Nat
  PROVE  LET v == w \o <<<<n, 1>>, <<n, 2>>>> IN
         /\ v \in Seq(Nat \X {1, 2}) /\ Len(v) = Len(w) + 2
         /\ \A j \in DOMAIN w : v[j] = w[j]
         /\ v[Len(w) + 1] = <<n, 1>> /\ v[Len(w) + 2] = <<n, 2>>
<1> DEFINE two == <<<<n, 1>>, <<n, 2>>>>
<1>1. two \in Seq(Nat \X {1, 2}) /\ Len(two) = 2 /\ two[1] = <<n, 1>> /\ two[2] = <<n, 2>>
  OBVIOUS
<1> HIDE DEF two
<1> QED
  BY <1>1, ConcatProperties DEF two

LEMMA FrontSends ==
  ASSUME FrontInv, ClientStep
  PROVE  FrontInv'
<1>1. PICK method \in Methods \cup {"RTCP"}, cred \in Credentials : Send(method, cred)
  BY DEF ClientStep, Credentials
<1> DEFINE m == [method |-> method, cred |-> cred]
<1>2. /\ messages' = Append(messages, m)
      /\ m \in [method : Methods \cup {"RTCP"}, cred : Credentials]
      /\ UNCHANGED <<answers, whole, unbound>>
      /\ wire' = wire \o <<<<Len(messages'), 1>>, <<Len(messages'), 2>>>>
  BY <1>1 DEF Send
<1> HIDE DEF m
<1>3. /\ messages' \in Seq([method : Methods \cup {"RTCP"}, cred : Credentials])
      /\ Len(messages') = Len(messages) + 1 /\ Len(messages) \in Nat
  BY <1>2 DEF FrontInv, MessagesOK
<1>4. /\ wire' \in Seq(Nat \X {1, 2}) /\ Len(wire') = Len(wire) + 2
      /\ \A j \in DOMAIN wire : wire'[j] = wire[j]
      /\ wire'[Len(wire) + 1] = <<Len(messages'), 1>>
      /\ wire'[Len(wire) + 2] = <<Len(messages'), 2>>
  BY SMTT(30), <1>2, <1>3, TwoPieces DEF FrontInv, WireRow
<1>5. /\ PiecesRead' = PiecesRead /\ PiecesRead \in Nat /\ Len(wire) \in Nat
      /\ DOMAIN wire' = DOMAIN wire \cup {Len(wire) + 1, Len(wire) + 2}
  <2>1. wire \in Seq(Nat \X {1, 2}) /\ PiecesRead \in Nat
    BY DEF FrontInv, WireRow
  <2>2. Len(wire) \in Nat /\ DOMAIN wire = 1..Len(wire) /\ DOMAIN wire' = 1..(Len(wire) + 2)
    BY <1>4, <2>1
  <2>3. PiecesRead' = PiecesRead
    BY <1>3, <1>4, <2>2 DEF PiecesRead
  <2>4. \A n \in Nat : 1..(n + 2) = (1..n) \cup {n + 1, n + 2}
    OBVIOUS
  <2> QED
    BY <2>1, <2>2, <2>3, <2>4
<1>6. WireRow'
  <2>1. \A j \in DOMAIN wire : 2 * wire'[j][1] + wire'[j][2] = PiecesRead' + j + 2
    BY <1>4, <1>5 DEF FrontInv, WireRow
  <2>2. /\ 2 * Len(messages') + 1 = PiecesRead' + (Len(wire) + 1) + 2
        /\ 2 * Len(messages') + 2 = PiecesRead' + (Len(wire) + 2) + 2
    BY <1>3, <1>5 DEF PiecesRead
  <2>4. /\ 2 * wire'[Len(wire) + 1][1] + wire'[Len(wire) + 1][2] = PiecesRead' + (Len(wire) + 1) + 2
        /\ 2 * wire'[Len(wire) + 2][1] + wire'[Len(wire) + 2][2] = PiecesRead' + (Len(wire) + 2) + 2
    BY <1>4, <2>2
  <2>3. \A j \in DOMAIN wire' : 2 * wire'[j][1] + wire'[j][2] = PiecesRead' + j + 2
    BY <1>5, <2>1, <2>4
  <2> QED
    BY <1>4, <1>5, <2>3 DEF WireRow
<1> QED
  BY <1>2, <1>3, <1>5, <1>6 DEF FrontInv, MessagesOK, AnsweredRead, WholeAnswered

(* What one more answer, to nobody or to a request that has just been read *)
(* in full, means to the answers.                                          *)
LEMMA OneMoreAnswer ==
  ASSUME FrontInv, NEW c \in Nat, NEW st \in Nat, Answer(c, st),
         c # 0 => st # 400 /\ 2 * c > PiecesRead /\ 2 * c <= PiecesRead',
         PiecesRead' \in Nat, PiecesRead' >= PiecesRead
  PROVE  /\ AnsweredRead'
         /\ answers' \in Seq([cseq : Nat, status : Nat])
         /\ \A j \in DOMAIN answers : j \in DOMAIN answers' /\ answers'[j] = answers[j]
         /\ \E j \in DOMAIN answers' : answers'[j].cseq = c
<1> DEFINE a == [cseq |-> c, status |-> st]
<1>1. a \in [cseq : Nat, status : Nat] /\ a.cseq = c /\ a.status = st
  OBVIOUS
<1>2. answers' = Append(answers, a)
  BY DEF Answer
<1> HIDE DEF a
<1>3. /\ answers' \in Seq([cseq : Nat, status : Nat]) /\ Len(answers) \in Nat
      /\ DOMAIN answers' = DOMAIN answers \cup {Len(answers) + 1}
      /\ \A j \in DOMAIN answers : answers'[j] = answers[j] /\ j <= Len(answers)
      /\ answers'[Len(answers) + 1] = a
  BY SMTT(30), <1>1, <1>2 DEF FrontInv, MessagesOK
<1>4. \A j \in DOMAIN answers : answers[j].cseq \in Nat
  <2>1. answers \in Seq([cseq : Nat, status : Nat])
    BY DEF FrontInv, MessagesOK
  <2>2. \A j \in DOMAIN answers : answers[j] \in [cseq : Nat, status : Nat]
    BY <2>1, ElementOfSeq, LenProperties
  <2> QED
    BY <2>2
<1>5. AnsweredRead'
  <2>1. \A j \in DOMAIN answers : answers[j].cseq # 0 =>
          2 * answers[j].cseq <= PiecesRead /\ answers[j].status # 400
    BY DEF FrontInv, AnsweredRead
  <2>2. \A j \in DOMAIN answers' : answers'[j].cseq # 0 =>
          2 * answers'[j].cseq <= PiecesRead' /\ answers'[j].status # 400
    BY <1>1, <1>3, <1>4, <2>1 DEF FrontInv, WireRow
  <2>3. ASSUME NEW i \in DOMAIN answers', NEW j \in DOMAIN answers', i < j,
               answers'[i].cseq # 0, answers'[j].cseq # 0
        PROVE  answers'[i].cseq < answers'[j].cseq
    <3>1. i \in DOMAIN answers /\ i \in Nat /\ j \in Nat
      BY <1>3, <2>3
    <3>2. CASE j \in DOMAIN answers
      BY <1>3, <2>3, <3>1, <3>2 DEF FrontInv, AnsweredRead
    <3>3. CASE j = Len(answers) + 1
      BY <1>1, <1>3, <1>4, <2>1, <2>3, <3>1, <3>3 DEF FrontInv, WireRow
    <3> QED
      BY <1>3, <3>2, <3>3
  <2> QED
    BY <2>2, <2>3 DEF AnsweredRead
<1> QED
  BY <1>1, <1>3, <1>5

(* What is in a sequence, and what is left of it without its first k.      *)
LEMMA InSequence ==
  ASSUME NEW S, NEW s \in Seq(S)
  PROVE  /\ Len(s) \in Nat /\ DOMAIN s = 1..Len(s) /\ DOMAIN s \subseteq Nat
         /\ \A j \in DOMAIN s : s[j] \in S
BY LenProperties, ElementOfSeq

LEMMA RestOfSequence ==
  ASSUME NEW S, NEW s \in Seq(S), NEW k \in 1..Len(s)
  PROVE  /\ SubSeq(s, k + 1, Len(s)) \in Seq(S)
         /\ Len(SubSeq(s, k + 1, Len(s))) = Len(s) - k
         /\ \A j \in 1..(Len(s) - k) : SubSeq(s, k + 1, Len(s))[j] = s[k + j]
<1>1. Len(s) \in Nat /\ k + 1 \in Int /\ k \in Nat /\ \A i \in (k + 1)..Len(s) : s[i] \in S
  BY InSequence
<1> DEFINE r == SubSeq(s, k + 1, Len(s))
<1>2. /\ r \in Seq(S)
      /\ Len(r) = IF k + 1 <= Len(s) THEN Len(s) - (k + 1) + 1 ELSE 0
      /\ \A i \in 1 .. Len(s) - (k + 1) + 1 : r[i] = s[(k + 1) + i - 1]
  BY <1>1, SubSeqProperties
<1> HIDE DEF r
<1>3. Len(r) = Len(s) - k /\ Len(s) - (k + 1) + 1 = Len(s) - k
  BY <1>1, <1>2
<1>4. \A i \in 1..(Len(s) - k) : r[i] = s[k + i]
  <2>1. \A i \in 1..(Len(s) - k) : (k + 1) + i - 1 = k + i
    BY <1>1
  <2> QED
    BY <1>2, <1>3, <2>1
<1> QED
  BY <1>2, <1>3, <1>4 DEF r

(* A read takes the front of the row.                                      *)
LEMMA RestOfWire ==
  ASSUME FrontInv, NEW k \in 1..Len(wire), messages' = messages,
         wire' = SubSeq(wire, k + 1, Len(wire))
  PROVE  /\ WireRow' /\ k \in Nat
         /\ PiecesRead' = PiecesRead + k /\ PiecesRead \in Nat /\ PiecesRead' \in Nat
<1>1. /\ wire \in Seq(Nat \X {1, 2}) /\ PiecesRead \in Nat
      /\ messages \in Seq([method : Methods \cup {"RTCP"}, cred : Credentials])
  BY DEF FrontInv, MessagesOK, WireRow
<1>2. Len(wire) \in Nat /\ DOMAIN wire = 1..Len(wire) /\ Len(messages) \in Nat
  BY <1>1
<1>3. /\ wire' \in Seq(Nat \X {1, 2}) /\ Len(wire') = Len(wire) - k
      /\ \A j \in 1..(Len(wire) - k) : wire'[j] = wire[k + j]
  BY <1>1, RestOfSequence
<1>4. PiecesRead' = PiecesRead + k /\ k \in Nat
  <2>1. \A n \in Nat : \A i \in 1..n : i \in Nat
    OBVIOUS
  <2>2. k \in Nat
    BY <1>2, <2>1
  <2>3. \A n, l \in Nat : 2 * n - (l - k) = (2 * n - l) + k
    BY <2>2
  <2> QED
    BY <1>2, <1>3, <2>2, <2>3 DEF PiecesRead
<1>5. DOMAIN wire' = 1..(Len(wire) - k)
  BY <1>3, InSequence
<1>6. ASSUME NEW j \in DOMAIN wire'
      PROVE  2 * wire'[j][1] + wire'[j][2] = PiecesRead' + j + 2
  <2>1. k + j \in DOMAIN wire /\ j \in Nat /\ wire'[j] = wire[k + j]
    <3>1. j \in 1..(Len(wire) - k)
      BY <1>5, <1>6
    <3>2. \A n, l \in Nat : \A i \in 1..(n - l) : l + i \in 1..n /\ i \in Nat
      OBVIOUS
    <3>3. k + j \in 1..Len(wire) /\ j \in Nat
      BY <1>2, <1>4, <3>1, <3>2
    <3> QED
      BY <1>2, <1>3, <3>1, <3>3
  <2>2. 2 * wire[k + j][1] + wire[k + j][2] = PiecesRead + (k + j) + 2
    BY <2>1 DEF FrontInv, WireRow
  <2>3. \A n, l, i \in Nat : n + (l + i) + 2 = (n + l) + i + 2
    OBVIOUS
  <2>4. PiecesRead + (k + j) + 2 = PiecesRead' + j + 2
    BY <1>1, <1>4, <2>1, <2>3
  <2> QED
    BY <2>1, <2>2, <2>4
<1>7. PiecesRead' \in Nat
  BY <1>1, <1>4
<1> QED
  BY <1>1, <1>3, <1>4, <1>6, <1>7 DEF WireRow

(* A message whose end is among the first k pieces is read in full, and    *)
(* was not before.                                                         *)
LEMMA EndRead ==
  ASSUME FrontInv, NEW k \in 1..Len(wire), NEW j \in 1..k,
         wire[j][2] = 2 \/ (wire[j][2] = 1 /\ j < k)
  PROVE  /\ wire[j][1] \in Nat \ {0}
         /\ 2 * wire[j][1] > PiecesRead /\ 2 * wire[j][1] <= PiecesRead + k
<1>1. wire \in Seq(Nat \X {1, 2}) /\ PiecesRead \in Nat
  BY DEF FrontInv, WireRow
<1>2. j \in DOMAIN wire /\ j \in Nat /\ j >= 1 /\ k \in Nat
  BY <1>1
<1>3. wire[j] \in Nat \X {1, 2}
  BY <1>1, <1>2, InSequence
<1>4. wire[j][1] \in Nat
  BY <1>3
<1>5. 2 * wire[j][1] + wire[j][2] = PiecesRead + j + 2
  BY <1>2 DEF FrontInv, WireRow
<1>6. CASE wire[j][2] = 2
  <2>1. \A n, p \in Nat : 2 * n + 2 = p + j + 2 => 2 * n > p /\ 2 * n <= p + k /\ n # 0
    BY <1>2
  <2> QED
    BY <1>1, <1>4, <1>5, <1>6, <2>1
<1>7. CASE wire[j][2] = 1 /\ j < k
  <2>1. \A n, p \in Nat : 2 * n + 1 = p + j + 2 => 2 * n > p /\ 2 * n <= p + k /\ n # 0
    BY <1>2, <1>7
  <2> QED
    BY <1>1, <1>4, <1>5, <1>7, <2>1
<1> QED
  BY <1>6, <1>7

(* A read that answers nobody, or somebody it read the end of, and that    *)
(* held no request in full.                                                *)
LEMMA SaidNothing ==
  ASSUME FrontInv, UNCHANGED <<messages, whole, unbound, answers>>, WireRow',
         PiecesRead' >= PiecesRead, PiecesRead \in Nat, PiecesRead' \in Nat
  PROVE  FrontInv'
<1>1. \A j \in DOMAIN answers : answers[j].cseq \in Nat
  <2>1. answers \in Seq([cseq : Nat, status : Nat])
    BY DEF FrontInv, MessagesOK
  <2>2. \A j \in DOMAIN answers : answers[j] \in [cseq : Nat, status : Nat]
    BY <2>1, InSequence
  <2> QED
    BY <2>2
<1>2. AnsweredRead'
  BY <1>1 DEF FrontInv, AnsweredRead
<1> QED
  BY <1>2 DEF FrontInv, MessagesOK, WholeAnswered

LEMMA SaidSomething ==
  ASSUME FrontInv, UNCHANGED <<messages, whole, unbound>>, WireRow',
         PiecesRead' >= PiecesRead, PiecesRead \in Nat, PiecesRead' \in Nat,
         NEW c \in Nat, NEW st \in Nat, Answer(c, st),
         c # 0 => st # 400 /\ 2 * c > PiecesRead /\ 2 * c <= PiecesRead'
  PROVE  FrontInv'
<1>1. /\ AnsweredRead'
      /\ answers' \in Seq([cseq : Nat, status : Nat])
      /\ \A j \in DOMAIN answers : j \in DOMAIN answers' /\ answers'[j] = answers[j]
  BY OneMoreAnswer
<1>2. WholeAnswered'
  BY <1>1 DEF FrontInv, WholeAnswered
<1> QED
  BY <1>1, <1>2 DEF FrontInv, MessagesOK

(* Route answers the request, unless it is a SETUP it cannot bind.         *)
LEMMA RouteAnswers ==
  ASSUME NEW i, Route(i)
  PROVE  \/ unbound' = unbound /\ \E st \in Nat \ {400} : Answer(i, st)
         \/ unbound' = unbound \cup {i} /\ answers' = answers
<1>1. CASE Plain(i) \/ Refuse(i)
  BY <1>1 DEF Plain, Refuse
<1>2. CASE FrontDescribe(i) \/ FrontPlay(i) \/ FrontTeardown(i)
  BY <1>2 DEF FrontDescribe, FrontPlay, FrontTeardown
<1>3. CASE FrontSetup(i)
  BY <1>3 DEF FrontSetup
<1> QED
  BY <1>1, <1>2, <1>3 DEF Route

LEMMA FrontReads ==
  ASSUME FrontInv, ServerReads
  PROVE  FrontInv'
<1>1. PICK k \in 1..Len(wire) :
        /\ ReadRequest(k) \/ ReadReport(k) \/ ReadPartial(k)
        /\ wire' = SubSeq(wire, k + 1, Len(wire))
        /\ UNCHANGED <<protected, messages>>
  BY DEF ServerReads
<1>2. /\ WireRow' /\ PiecesRead' = PiecesRead + k /\ PiecesRead' >= PiecesRead
      /\ k \in Nat /\ PiecesRead \in Nat /\ PiecesRead' \in Nat
  BY <1>1, RestOfWire
<1>3. whole \subseteq Nat /\ unbound \subseteq whole
  BY DEF FrontInv, MessagesOK
<1>4. CASE ReadRequest(k)
  <2> DEFINE i == wire[1][1]
  <2>1. /\ Route(i) /\ whole' = whole \cup {i} /\ k >= 2 /\ wire[1][2] = 1
    BY <1>4 DEF ReadRequest, HeadersDecode
  <2>2. i \in Nat \ {0} /\ 2 * i > PiecesRead /\ 2 * i <= PiecesRead'
    BY <1>2, <2>1, EndRead
  <2> HIDE DEF i
  <2>3. CASE unbound' = unbound /\ \E st \in Nat \ {400} : Answer(i, st)
    <3>1. PICK st \in Nat \ {400} : Answer(i, st)
      BY <2>3
    <3>2. /\ AnsweredRead'
          /\ answers' \in Seq([cseq : Nat, status : Nat])
          /\ \A j \in DOMAIN answers : j \in DOMAIN answers' /\ answers'[j] = answers[j]
          /\ \E j \in DOMAIN answers' : answers'[j].cseq = i
      BY <1>2, <2>2, <3>1, OneMoreAnswer
    <3>3. WholeAnswered'
      <4>1. \A n \in whole : n # 0 /\ (n \notin unbound => \E j \in DOMAIN answers' : answers'[j].cseq = n)
        BY <3>2 DEF FrontInv, WholeAnswered
      <4> QED
        BY <2>1, <2>2, <2>3, <3>2, <4>1 DEF WholeAnswered
    <3> QED
      BY SMTT(30), <1>1, <1>2, <1>3, <2>1, <2>2, <2>3, <3>2, <3>3 DEF FrontInv, MessagesOK
  <2>4. CASE unbound' = unbound \cup {i} /\ answers' = answers
    <3>1. \A j \in DOMAIN answers : answers[j].cseq \in Nat
      <4>1. answers \in Seq([cseq : Nat, status : Nat])
        BY DEF FrontInv, MessagesOK
      <4>2. \A j \in DOMAIN answers : answers[j] \in [cseq : Nat, status : Nat]
        BY <4>1, InSequence
      <4> QED
        BY <4>2
    <3>2. AnsweredRead'
      BY <1>2, <2>4, <3>1 DEF FrontInv, AnsweredRead
    <3>3. WholeAnswered'
      BY <2>1, <2>2, <2>4 DEF FrontInv, WholeAnswered
    <3> QED
      BY <1>1, <1>2, <1>3, <2>1, <2>2, <2>4, <3>2, <3>3 DEF FrontInv, MessagesOK
  <2> QED
    BY <2>1, <2>3, <2>4, RouteAnswers
<1>5. CASE ReadReport(k)
  BY <1>1, <1>2, <1>5, SaidNothing DEF ReadReport, Silent
<1>6. CASE ReadPartial(k)
  <2>1. whole' = whole /\ unbound' = unbound
    BY <1>6 DEF ReadPartial, Silent, BadRequest
  <2>2. CASE Silent
    BY <1>1, <1>2, <2>1, <2>2, SaidNothing DEF Silent
  <2>3. CASE Answer(0, 400) \/ Answer(0, 405)
    BY <1>1, <1>2, <2>1, <2>3, SaidSomething
  <2>4. ASSUME NEW i, HeadersEnd(k, i), Answer(i, 405)
        PROVE  FrontInv'
    <3>1. PICK j \in 1..k : wire[j] = <<i, 2>>
      BY <2>4 DEF HeadersEnd
    <3>2. wire[j][1] = i /\ wire[j][2] = 2
      BY <3>1
    <3>3. i \in Nat \ {0} /\ 2 * i > PiecesRead /\ 2 * i <= PiecesRead'
      BY <1>2, <3>2, EndRead
    <3> QED
      BY <1>1, <1>2, <2>1, <2>4, <3>3, SaidSomething
  <2> QED
    BY <1>6, <2>2, <2>3, <2>4 DEF ReadPartial, BadRequest
<1> QED
  BY <1>1, <1>4, <1>5, <1>6

LEMMA FrontNextInv == FrontInv /\ [FrontNext]_frontVars => FrontInv'
<1> SUFFICES ASSUME FrontInv, [FrontNext]_frontVars PROVE FrontInv'
  OBVIOUS
<1>1. CASE ClientStep
  BY <1>1, FrontSends
<1>2. CASE ServerReads
  BY <1>2, FrontReads
<1>3. CASE UNCHANGED frontVars
  BY <1>3 DEF frontVars, FrontInv, MessagesOK, WireRow, AnsweredRead, WholeAnswered, PiecesRead
<1> QED
  BY <1>1, <1>2, <1>3 DEF FrontNext

LEMMA AnswersFromInv == FrontInv => AnswersPair
<1> SUFFICES ASSUME FrontInv PROVE AnswersPair
  OBVIOUS
<1>1. /\ answers \in Seq([cseq : Nat, status : Nat])
      /\ \A i, j \in DOMAIN answers :
           (i < j /\ answers[i].cseq # 0 /\ answers[j].cseq # 0) =>
             answers[i].cseq < answers[j].cseq
  BY DEF FrontInv, MessagesOK, AnsweredRead
<1>2. DOMAIN answers \subseteq Nat /\ \A j \in DOMAIN answers : answers[j] \in [cseq : Nat, status : Nat]
  BY <1>1, InSequence
<1>3. ASSUME NEW i \in whole \ unbound
      PROVE  \E j \in AnswersTo(i) : AnswersTo(i) = {j} /\ answers[j].status # 400
  <2>1. i # 0 /\ i \in Nat
    BY DEF FrontInv, WholeAnswered, MessagesOK
  <2>2. PICK j \in DOMAIN answers : answers[j].cseq = i
    BY DEF FrontInv, WholeAnswered
  <2>3. answers[j].status # 400
    BY <2>1, <2>2 DEF FrontInv, AnsweredRead
  <2>4. \A n \in DOMAIN answers : answers[n].cseq = i => n = j
    <3>1. \A n \in DOMAIN answers : answers[n].cseq = i => ~(n < j) /\ ~(j < n)
      BY <1>1, <2>1, <2>2
    <3> QED
      BY <1>2, <3>1
  <2> QED
    BY <2>2, <2>3, <2>4 DEF AnswersTo
<1> QED
  BY <1>1, <1>3 DEF AnswersPair

(* A client can pair the answers of handle_connection with its requests,   *)
(* although a read may hold half a message or several: AnswersPair for any *)
(* set of methods and any number of messages.                              *)
THEOREM AnswersPairAlways == FrontSpec => []AnswersPair
<1>1. FrontInv /\ [FrontNext]_frontVars => FrontInv'
  BY FrontNextInv
<1> QED
  BY <1>1, FrontInitInv, AnswersFromInv, PTL DEF FrontSpec

-----------------------------------------------------------------------------
(***************************************************************************)
(* UnitsReassemble: what receiving computes, then a NAL unit, then the     *)
(* units sent.                                                             *)
(***************************************************************************)

(* What a receiver has put together is the end of a run along the packets. *)
NothingYet == [done |-> <<>>, open |-> <<>>]

\* g is the recursion of Reassembled.
Receives(g, packets) ==
  g = [T \in SUBSET DOMAIN packets |->
         IF T = {} THEN NothingYet
         ELSE Receive(g[T \ {Max(T)}], packets[Max(T)])]

LEMMA ReassembledUnfolds ==
  ASSUME NEW packets
  PROVE  Reassembled(packets) = (CHOOSE g : Receives(g, packets))[DOMAIN packets].done
  BY DEF Reassembled, FoldLeft, MapThenFoldSet, Receives, NothingYet

\* A packet of bytes B, and a receiver of such packets.
Carries(packet, B) ==
  LET p == packet.payload IN
  /\ p.fu \in BOOLEAN /\ p.bytes \in Seq(B)
  /\ p.fu => p.header \in B /\ p.start \in BOOLEAN /\ p.end \in BOOLEAN
Receiver(B) == [done : Seq(Seq(B)), open : Seq(B)]

LEMMA ReceiveTyped ==
  ASSUME NEW B, NEW v \in Receiver(B), NEW packet, Carries(packet, B)
  PROVE  Receive(v, packet) \in Receiver(B)
<1> DEFINE p == packet.payload
           o == IF p.start THEN <<p.header>> \o p.bytes
                ELSE IF v.open = <<>> THEN <<>> ELSE v.open \o p.bytes
<1>1. v.done \in Seq(Seq(B)) /\ v.open \in Seq(B) /\ p.bytes \in Seq(B) /\ p.fu \in BOOLEAN
  BY DEF Receiver, Carries
<1>2. p.fu => p.header \in B
  BY DEF Carries
<1>3. p.fu => o \in Seq(B)
  <2>1. p.fu => <<p.header>> \in Seq(B)
    BY <1>2
  <2>2. <<>> \in Seq(B)
    OBVIOUS
  <2>3. p.fu => <<p.header>> \o p.bytes \in Seq(B)
    BY <1>1, <2>1, ConcatProperties
  <2>4. v.open \o p.bytes \in Seq(B)
    BY <1>1, ConcatProperties
  <2> QED
    BY <2>2, <2>3, <2>4
<1>4. Append(v.done, p.bytes) \in Seq(Seq(B)) /\ (p.fu => Append(v.done, o) \in Seq(Seq(B)))
  BY <1>1, <1>3, AppendProperties
<1>5. Receive(v, packet) =
        IF ~p.fu THEN [done |-> Append(v.done, p.bytes), open |-> <<>>]
        ELSE IF p.end /\ o # <<>> THEN [done |-> Append(v.done, o), open |-> <<>>]
             ELSE [done |-> v.done, open |-> o]
  BY DEF Receive
<1> HIDE DEF o, p
<1> QED
  BY <1>1, <1>3, <1>4, <1>5 DEF Receiver

LEMMA ReceiveRuns ==
  ASSUME NEW B, NEW X, NEW packets \in Seq(X), \A x \in X : Carries(x, B)
  PROVE  \E r : /\ r[0] = NothingYet
                /\ \A i \in 1 .. Len(packets) : r[i] = Receive(r[i - 1], packets[i])
                /\ Reassembled(packets) = r[Len(packets)].done
<1> DEFINE n == Len(packets)
           V == Receiver(B)
           step == [p \in V \X (1 .. n) |-> Receive(p[1], packets[p[2]])]
<1>1. n \in Nat /\ DOMAIN packets = 1 .. n /\ \A i \in 1 .. n : Carries(packets[i], B)
  OBVIOUS
<1>2. \A v \in V, i \in 1 .. n : step[<<v, i>>] = Receive(v, packets[i])
  OBVIOUS
<1>3. \A v \in V, i \in 1 .. n : Receive(v, packets[i]) \in V
  BY <1>1, ReceiveTyped
<1>4. step \in [V \X (1 .. n) -> V]
  BY <1>3
<1>5. NothingYet \in V
  BY DEF NothingYet, Receiver
<1> HIDE DEF n, V, step
<1>6. PICK g \in [SUBSET (1 .. n) -> V] : FoldsOver(g, n, NothingYet, step)
  BY <1>1, <1>4, <1>5, FoldExists
<1>7. Receives(g, packets)
  <2>1. ASSUME NEW T \in SUBSET (1 .. n), T # {}
        PROVE  g[T] = Receive(g[T \ {Max(T)}], packets[Max(T)])
    <3>1. Max(T) \in T
      BY <1>1, <2>1, MaxIn
    <3>2. g[T] = step[<<g[T \ {Max(T)}], Max(T)>>] /\ g[T \ {Max(T)}] \in V
          /\ Max(T) \in 1 .. n
      BY <1>6, <2>1, <3>1 DEF FoldsOver
    <3> QED
      BY <1>2, <3>2
  <2>2. g[{}] = NothingYet
    BY <1>6 DEF FoldsOver
  <2>3. g = [T \in SUBSET (1 .. n) |-> g[T]]
    BY <1>6
  <2> QED
    BY <1>1, <2>1, <2>2, <2>3 DEF Receives
<1> DEFINE h == CHOOSE h : Receives(h, packets)
<1>8. Receives(h, packets)
  BY <1>7
<1>9. Reassembled(packets) = h[1 .. n].done
  BY <1>1, ReassembledUnfolds
<1> HIDE DEF h
<1> DEFINE r == [i \in 0 .. n |-> h[1 .. i]]
<1>10. r[0] = NothingYet
  <2>1. 1 .. 0 = {}
    OBVIOUS
  <2>2. h[{}] = NothingYet
    BY <1>8 DEF Receives
  <2> QED
    BY <1>1, <2>1, <2>2
<1>11. ASSUME NEW i \in 1 .. n PROVE r[i] = Receive(r[i - 1], packets[i])
  <2>1. i \in Nat \ {0} /\ i - 1 \in 0 .. n /\ i \in 0 .. n
    BY <1>1
  <2>2. Max(1 .. i) = i /\ (1 .. i) \ {i} = 1 .. (i - 1) /\ (1 .. i) # {}
    BY <2>1, MaxOfRange
  <2>3. 1 .. i \in SUBSET (1 .. n)
    BY <1>1
  <2>4. h[1 .. i] = Receive(h[1 .. (i - 1)], packets[i])
    BY <1>1, <1>8, <2>2, <2>3 DEF Receives
  <2>5. r[i] = h[1 .. i] /\ r[i - 1] = h[1 .. (i - 1)]
    BY <2>1
  <2> QED
    BY <2>4, <2>5
<1>12. r[n] = h[1 .. n]
  BY <1>1
<1> HIDE DEF r
<1> QED
  BY <1>9, <1>10, <1>11, <1>12 DEF n

-----------------------------------------------------------------------------
(* A NAL unit and its packets.                                             *)

\* What lies between two cuts is put back.
LEMMA NextCut ==
  ASSUME NEW B, NEW nal \in Seq(B), nal # <<>>, NEW a \in Nat, NEW b \in a .. Len(nal) - 1
  PROVE  /\ SubSeq(nal, 1, 1 + a) \o SubSeq(Tail(nal), a + 1, b) = SubSeq(nal, 1, 1 + b)
         /\ SubSeq(Tail(nal), a + 1, b) \in Seq(B)
         /\ SubSeq(nal, 1, 1 + a) \in Seq(B) /\ SubSeq(nal, 1, 1 + a) # <<>>
<1> DEFINE n == Len(nal)
           t == Tail(nal)
           u == SubSeq(nal, 1, 1 + a)
           v == SubSeq(t, a + 1, b)
           w == SubSeq(nal, 1, 1 + b)
<1>1. n \in Nat /\ n >= 1 /\ b \in Nat /\ a <= b /\ b <= n - 1
  OBVIOUS
<1>2. t \in Seq(B) /\ Len(t) = n - 1 /\ \A i \in 1 .. n - 1 : t[i] = nal[i + 1]
  OBVIOUS
<1>3. u \in Seq(B) /\ Len(u) = 1 + a /\ \A i \in 1 .. 1 + a : u[i] = nal[i]
  BY <1>1, SubSeqProperties
<1>4. w \in Seq(B) /\ Len(w) = 1 + b /\ \A i \in 1 .. 1 + b : w[i] = nal[i]
  BY <1>1, SubSeqProperties
<1> HIDE DEF t
<1>5. v \in Seq(B) /\ Len(v) = b - a /\ \A i \in 1 .. b - a : v[i] = t[a + i]
  <2>1. CASE a < b
    BY <1>1, <1>2, <2>1, SubSeqProperties
  <2>2. CASE a = b
    BY <1>1, <1>2, <2>2, SubSeqProperties
  <2> QED
    BY <2>1, <2>2, <1>1
<1> HIDE DEF n, u, v, w
<1>6. /\ u \o v \in Seq(B) /\ Len(u \o v) = Len(u) + Len(v)
      /\ \A i \in 1 .. Len(u) + Len(v) : (u \o v)[i] = IF i <= Len(u) THEN u[i] ELSE v[i - Len(u)]
  BY <1>3, <1>5, ConcatProperties
<1>7. Len(u) + Len(v) = 1 + b
  BY <1>1, <1>3, <1>5
<1>8. ASSUME NEW i \in 1 .. 1 + b PROVE (u \o v)[i] = w[i]
  <2>1. CASE i <= 1 + a
    <3>1. i \in 1 .. 1 + a /\ i \in 1 .. Len(u) + Len(v) /\ i <= Len(u)
      BY <2>1, <1>1, <1>3, <1>7
    <3>2. (u \o v)[i] = u[i]
      BY <3>1, <1>6
    <3> QED
      BY <3>1, <3>2, <1>3, <1>4
  <2>2. CASE ~(i <= 1 + a)
    <3>1. i - (1 + a) \in 1 .. b - a /\ a + (i - (1 + a)) = i - 1 /\ i - 1 \in 1 .. n - 1
      BY <2>2, <1>1
    <3>2. v[i - (1 + a)] = nal[i]
      BY <3>1, <1>2, <1>5
    <3> QED
      BY <2>2, <3>2, <1>3, <1>4, <1>6, <1>7
  <2> QED
    BY <2>1, <2>2
<1>9. u \o v = w
  BY <1>4, <1>6, <1>7, <1>8
<1> QED
  BY <1>3, <1>5, <1>9 DEF u, v, w, t

LEMMA FragmentCount ==
  ASSUME NEW L \in Nat \ {0}, NEW f \in Nat \ {0}
  PROVE  LET K == (L + f - 1) \div f IN
         /\ K \in Nat \ {0} /\ (K - 1) * f < L /\ L <= K * f
         /\ \A k \in 1 .. K : /\ (k - 1) * f \in Nat /\ k * f \in Nat
                              /\ (k - 1) * f < L /\ (k - 1) * f + f = k * f
                              /\ (k - 1) * f + f >= L <=> k = K
<1> DEFINE K == (L + f - 1) \div f
           m == (L + f - 1) % f
<1>1. L + f - 1 \in Nat
  OBVIOUS
<1>2. K \in Nat /\ m \in 0 .. f - 1 /\ L + f - 1 = m + K * f
  BY <1>1, Division
<1> HIDE DEF K, m
<1>3. L <= K * f
  <2>1. K * f \in Nat
    BY <1>2
  <2> QED
    BY <1>2, <2>1
<1>4. K # 0
  <2>1. K = 0 => K * f = 0
    OBVIOUS
  <2> QED
    BY <2>1, <1>3
<1>5. (K - 1) * f = K * f - f
  BY <1>2
<1>6. (K - 1) * f < L
  <2>1. K * f \in Nat
    BY <1>2
  <2> QED
    BY <1>2, <1>5, <2>1
<1>7. ASSUME NEW k \in 1 .. K
      PROVE  /\ (k - 1) * f \in Nat /\ k * f \in Nat
             /\ (k - 1) * f < L /\ (k - 1) * f + f = k * f
             /\ (k - 1) * f + f >= L <=> k = K
  <2>1. k \in Nat /\ k - 1 \in Nat /\ k <= K /\ K \in Nat
    BY <1>2
  <2>2. (k - 1) * f \in Nat /\ k * f \in Nat /\ K * f \in Nat
    BY <2>1
  <2>3. (k - 1) * f + f = k * f
    BY <2>1
  <2>4. k < K => k * f + f <= K * f
    BY <2>1, Closest
  <2> QED
    BY <2>1, <2>2, <2>3, <2>4, <1>3, <1>5, <1>6
<1> QED
  BY <1>2, <1>3, <1>4, <1>6, <1>7 DEF K

\* The packets of a NAL unit carry its bytes.
LEMMA PacketsOf ==
  ASSUME NEW B, NEW nal \in Seq(B), nal # <<>>
  PROVE  /\ Len(Packetize(nal)) \in Nat \ {0}
         /\ DOMAIN Packetize(nal) = 1 .. Len(Packetize(nal))
         /\ \A k \in 1 .. Len(Packetize(nal)) :
              LET p == Packetize(nal)[k] IN
              /\ p.fu \in BOOLEAN /\ p.bytes \in Seq(B)
              /\ p.fu => p.header \in B /\ p.start \in BOOLEAN /\ p.end \in BOOLEAN
<1>1. CASE Len(nal) <= Mtu
  <2>1. Packetize(nal) = <<[fu |-> FALSE, bytes |-> nal]>>
    BY <1>1 DEF Packetize
  <2> DEFINE q == <<[fu |-> FALSE, bytes |-> nal]>>
  <2>2. Len(q) = 1 /\ DOMAIN q = 1 .. 1 /\ q[1].fu = FALSE /\ q[1].bytes = nal
    OBVIOUS
  <2>3. Packetize(nal) = q
    BY <2>1
  <2> HIDE DEF q
  <2>4. ASSUME NEW k \in 1 .. Len(q) PROVE q[k].fu = FALSE /\ q[k].bytes \in Seq(B)
    <3>1. k = 1
      BY <2>2
    <3> QED
      BY <2>2, <3>1
  <2>5. Len(q) \in Nat \ {0} /\ DOMAIN q = 1 .. Len(q)
    BY <2>2
  <2> QED
    BY <2>3, <2>4, <2>5
<1>2. CASE ~(Len(nal) <= Mtu)
  <2> DEFINE t == Tail(nal)
             L == Len(t)
             f == FragmentMtu
             K == (L + f - 1) \div f
             Bytes_(k) == SubSeq(t, (k - 1) * f + 1, Smaller((k - 1) * f + f, L))
  <2>1. f \in Nat \ {0} /\ Mtu \in Nat /\ f = Mtu - 2
    BY WireAssumption DEF FragmentMtu
  <2>2. t \in Seq(B) /\ L = Len(nal) - 1 /\ L \in Nat \ {0}
    <3>1. t \in Seq(B) /\ L = Len(nal) - 1 /\ Len(nal) \in Nat
      OBVIOUS
    <3> HIDE DEF t, L, f
    <3> QED
      BY ONLY <1>2, <2>1, <3>1
  <2>3. Packetize(nal) =
          [k \in 1 .. K |-> [fu |-> TRUE, header |-> nal[1], start |-> k = 1,
                             end |-> EndsAt((k - 1) * f, t), bytes |-> Bytes_(k)]]
    BY <1>2 DEF Packetize
  <2>4. nal[1] \in B
    OBVIOUS
  <2> HIDE DEF t, L, f
  <2>5. K \in Nat \ {0} /\ \A k \in 1 .. K : (k - 1) * f \in Nat /\ (k - 1) * f < L
    BY <2>1, <2>2, FragmentCount
  <2>6. ASSUME NEW k \in 1 .. K PROVE Bytes_(k) \in Seq(B)
    <3> DEFINE a == (k - 1) * f
    <3>1. a \in Nat /\ a < L
      BY <2>5
    <3> HIDE DEF a
    <3>2. Smaller(a + f, L) \in a + 1 .. L
      BY <3>1, <2>1, <2>2 DEF Smaller
    <3>3. SubSeq(t, a + 1, Smaller(a + f, L)) \in Seq(B)
      BY <3>1, <3>2, <2>2, SubSeqProperties DEF L
    <3> QED
      BY <3>3 DEF a
  <2> HIDE DEF K, Bytes_
  <2>7. Len(Packetize(nal)) = K /\ DOMAIN Packetize(nal) = 1 .. K
    BY <2>3, <2>5
  <2>8. \A k \in 1 .. K : EndsAt((k - 1) * f, t) \in BOOLEAN
    BY DEF EndsAt
  <2>9. ASSUME NEW k \in 1 .. K
        PROVE  LET p == Packetize(nal)[k] IN
               /\ p.fu \in BOOLEAN /\ p.bytes \in Seq(B)
               /\ p.fu => p.header \in B /\ p.start \in BOOLEAN /\ p.end \in BOOLEAN
    <3> DEFINE p == Packetize(nal)[k]
    <3>1. /\ p.fu = TRUE /\ p.header = nal[1] /\ p.start = (k = 1)
          /\ p.end = EndsAt((k - 1) * f, t) /\ p.bytes = Bytes_(k)
      BY <2>3
    <3> HIDE DEF p
    <3> QED
      BY <3>1, <2>4, <2>6, <2>8 DEF p
  <2> QED
    BY <2>5, <2>7, <2>9
<1> QED
  BY <1>1, <1>2

\* r, a run of a receiver, takes the packets x of nal in after step o.
TakesIn(nal, r, x, o) ==
  \A k \in 1 .. Len(Packetize(nal)) :
    r[o + k] = Receive(r[o + k - 1], x[k]) /\ x[k].payload = Packetize(nal)[k]

\* A receiver with nothing open that is sent the packets of a NAL unit, one
\* after the other from step o on, has that unit and again nothing open.
LEMMA NalReceived ==
  ASSUME NEW B, NEW nal \in Seq(B), nal # <<>>, NEW d \in Seq(Seq(B)),
         NEW r, NEW x, NEW o \in Nat, r[o] = [done |-> d, open |-> <<>>],
         TakesIn(nal, r, x, o)
  PROVE  r[o + Len(Packetize(nal))] = [done |-> Append(d, nal), open |-> <<>>]
<1>0. \A k \in 1 .. Len(Packetize(nal)) :
        r[o + k] = Receive(r[o + k - 1], x[k]) /\ x[k].payload = Packetize(nal)[k]
  BY DEF TakesIn
<1>1. CASE Len(nal) <= Mtu
  <2>1. Packetize(nal) = <<[fu |-> FALSE, bytes |-> nal]>>
    BY <1>1 DEF Packetize
  <2>2. Len(Packetize(nal)) = 1 /\ Packetize(nal)[1] = [fu |-> FALSE, bytes |-> nal]
    BY <2>1
  <2>3. o + 1 - 1 = o
    OBVIOUS
  <2>4. r[o + 1] = Receive(r[o], x[1]) /\ x[1].payload = [fu |-> FALSE, bytes |-> nal]
    <3>1. 1 \in 1 .. Len(Packetize(nal))
      BY <2>2
    <3>2. r[o + 1] = Receive(r[o + 1 - 1], x[1]) /\ x[1].payload = Packetize(nal)[1]
      BY <1>0, <3>1
    <3> QED
      BY <2>2, <2>3, <3>2
  <2> QED
    BY <2>2, <2>4 DEF Receive
<1>2. CASE ~(Len(nal) <= Mtu)
  <2> DEFINE t == Tail(nal)
             L == Len(t)
             f == FragmentMtu
             K == (L + f - 1) \div f
             bytes(k) == SubSeq(t, (k - 1) * f + 1, Smaller((k - 1) * f + f, L))
             Cut(k) == SubSeq(nal, 1, 1 + Smaller(k * f, L))
             After(k) == IF k = 0 THEN [done |-> d, open |-> <<>>]
                         ELSE IF k < K THEN [done |-> d, open |-> Cut(k)]
                         ELSE [done |-> Append(d, nal), open |-> <<>>]
             P == {k \in 0 .. K : r[o + k] = After(k)}
  <2>1. f \in Nat \ {0} /\ Mtu \in Nat /\ f = Mtu - 2
    BY WireAssumption DEF FragmentMtu
  <2>2. t \in Seq(B) /\ L = Len(nal) - 1 /\ L \in Nat \ {0}
    <3>1. t \in Seq(B) /\ L = Len(nal) - 1 /\ Len(nal) \in Nat
      OBVIOUS
    <3> HIDE DEF t, L, f, K, bytes, Cut, After, P
    <3>2. Len(nal) > Mtu /\ Mtu >= 3 /\ Len(nal) - 1 >= 1
      BY ONLY <1>2, <2>1, <3>1
    <3> QED
      BY ONLY <3>1, <3>2
  <2>3. Packetize(nal) =
          [k \in 1 .. K |-> [fu |-> TRUE, header |-> nal[1], start |-> k = 1,
                             end |-> EndsAt((k - 1) * f, t), bytes |-> bytes(k)]]
    BY <1>2 DEF Packetize
  <2>4. nal[1] \in B /\ SubSeq(nal, 1, 1) = <<nal[1]>> /\ SubSeq(nal, 1, Len(nal)) = nal
    <3>1. Len(nal) \in Nat /\ Len(nal) >= 1 /\ nal[1] \in B
      OBVIOUS
    <3>2. /\ Len(SubSeq(nal, 1, 1)) = 1 /\ SubSeq(nal, 1, 1)[1] = nal[1]
          /\ SubSeq(nal, 1, 1) \in Seq(B)
      BY <3>1, SubSeqProperties
    <3>3. /\ Len(SubSeq(nal, 1, Len(nal))) = Len(nal) /\ SubSeq(nal, 1, Len(nal)) \in Seq(B)
          /\ \A i \in 1 .. Len(nal) : SubSeq(nal, 1, Len(nal))[i] = nal[i]
      BY <3>1, SubSeqProperties
    <3>4. SubSeq(nal, 1, Len(nal)) = nal
      BY ONLY <3>3, nal \in Seq(B)
    <3>5. SubSeq(nal, 1, 1) = <<nal[1]>>
      <4> DEFINE u == SubSeq(nal, 1, 1)
                 w == <<nal[1]>>
      <4>1. w \in Seq(B) /\ Len(w) = 1 /\ w[1] = nal[1]
        BY <3>1
      <4>2. u \in Seq(B) /\ Len(u) = 1 /\ u[1] = nal[1]
        BY <3>2
      <4> HIDE DEF u, w
      <4>3. \A i \in 1 .. 1 : u[i] = w[i]
        BY <4>1, <4>2
      <4>4. u = w
        BY ONLY <4>1, <4>2, <4>3
      <4> QED
        BY <4>4 DEF u, w
    <3> QED
      BY <3>1, <3>4, <3>5
  <2>5. /\ K \in Nat \ {0} /\ (K - 1) * f < L /\ L <= K * f
        /\ \A k \in 1 .. K : /\ (k - 1) * f \in Nat /\ k * f \in Nat
                             /\ (k - 1) * f < L /\ (k - 1) * f + f = k * f
                             /\ (k - 1) * f + f >= L <=> k = K
    <3>1. L \in Nat \ {0} /\ f \in Nat \ {0}
      BY <2>1, <2>2
    <3> HIDE DEF L, f
    <3> QED
      BY ONLY <3>1, FragmentCount
  <2> HIDE DEF L, f, K
  <2>6. Len(Packetize(nal)) = K
    BY <2>3, <2>5
  <2>7. 0 \in P
    BY <2>5
  <2>8. ASSUME NEW k \in 1 .. K, k - 1 \in P PROVE k \in P
    <3> DEFINE p == x[k].payload
               v == r[o + k - 1]
               e == IF p.start THEN <<p.header>> \o p.bytes
                    ELSE IF v.open = <<>> THEN <<>> ELSE v.open \o p.bytes
               a == (k - 1) * f
               b == Smaller(k * f, L)
    <3>1. k \in Nat /\ k - 1 \in Nat /\ k \in 0 .. K /\ o + (k - 1) = o + k - 1
          /\ k - 1 < K /\ (k = 1 <=> k - 1 = 0)
      BY <2>5
    <3>2. v = After(k - 1)
      BY <2>8, <3>1
    <3>3. /\ p.fu /\ p.header = nal[1] /\ p.start = (k = 1)
          /\ p.end = EndsAt((k - 1) * f, t) /\ p.bytes = bytes(k)
      <4>1. p = Packetize(nal)[k]
        BY <1>0, <2>6
      <4> HIDE DEF bytes, p
      <4> QED
        BY <2>3, <4>1
    <3>4. p.end <=> k = K
      <4>1. EndsAt((k - 1) * f, t) <=> (k - 1) * f + f >= L
        BY DEF EndsAt, L, f
      <4> QED
        BY <3>3, <4>1, <2>5
    <3>5. a \in Nat /\ a < L /\ a + f = k * f /\ k * f \in Nat
      BY <2>5
    <3>6. b \in Nat /\ b > a /\ b <= L /\ (k = K => b = L)
      <4> DEFINE c == k * f
      <4>1. c \in Nat /\ a + f = c /\ (k = K => L <= c)
        BY ONLY <3>5, <2>5
      <4>2. f \in Nat \ {0} /\ L \in Nat
        BY <2>1, <2>2
      <4>3. b = IF c < L THEN c ELSE L
        BY DEF Smaller
      <4> HIDE DEF a, b, c
      <4> QED
        BY ONLY <3>5, <4>1, <4>2, <4>3
    <3>7. bytes(k) = SubSeq(t, a + 1, b)
      BY <3>5
    <3>8. k # 1 => a = Smaller((k - 1) * f, L)
      <4>1. a \in Nat /\ L \in Nat /\ a < L
        BY <3>5, <2>2
      <4>2. Smaller(a, L) = a
        BY ONLY <4>1 DEF Smaller
      <4> QED
        BY <4>2
    <3>9. k # 1 => v.open = SubSeq(nal, 1, 1 + a)
      <4>1. k # 1 => v = [done |-> d, open |-> Cut(k - 1)]
        BY <3>1, <3>2
      <4>2. k # 1 => Cut(k - 1) = SubSeq(nal, 1, 1 + a)
        BY <3>8
      <4> HIDE DEF a, Cut, v
      <4> QED
        BY ONLY <4>1, <4>2
    <3>10. v.done = d
      BY <3>1, <3>2
    <3>11. k = 1 => a = 0
      BY <2>1
    <3> HIDE DEF a, b, v, p
    <3>12. /\ SubSeq(nal, 1, 1 + a) \o SubSeq(t, a + 1, b) = SubSeq(nal, 1, 1 + b)
           /\ SubSeq(nal, 1, 1 + a) # <<>> /\ SubSeq(nal, 1, 1 + b) # <<>>
      <4>1. b \in a .. Len(nal) - 1 /\ 0 \in Nat
        BY <3>5, <3>6, <2>2
      <4>2. a \in Nat /\ b \in Nat /\ b \in b .. Len(nal) - 1
        BY <3>5, <3>6, <4>1
      <4> QED
        BY <4>1, <4>2, NextCut DEF t
    <3>13. e = SubSeq(nal, 1, 1 + b)
      <4>1. CASE k = 1
        <5>1. <<nal[1]>> = SubSeq(nal, 1, 1 + a)
          BY <4>1, <3>11, <2>4
        <5> QED
          BY <5>1, <4>1, <3>3, <3>7, <3>12
      <4>2. CASE k # 1
        BY <4>2, <3>3, <3>7, <3>9, <3>12
      <4> QED
        BY <4>1, <4>2
    <3>14. r[o + k] = Receive(v, x[k])
      BY <1>0, <2>6 DEF v
    <3>15. Receive(v, x[k]) = IF p.end /\ e # <<>> THEN [done |-> Append(v.done, e), open |-> <<>>]
                              ELSE [done |-> v.done, open |-> e]
      BY <3>3 DEF Receive, p
    <3> HIDE DEF e
    <3>16. k = K => SubSeq(nal, 1, 1 + b) = nal
      BY <3>6, <2>2, <2>4
    <3>17. Cut(k) = SubSeq(nal, 1, 1 + b)
      BY DEF b
    <3>18. r[o + k] = IF k = K THEN [done |-> Append(d, nal), open |-> <<>>]
                      ELSE [done |-> d, open |-> SubSeq(nal, 1, 1 + b)]
      BY <3>4, <3>10, <3>12, <3>13, <3>14, <3>15, <3>16
    <3>19. After(k) = IF k = K THEN [done |-> Append(d, nal), open |-> <<>>]
                      ELSE [done |-> d, open |-> Cut(k)]
      <4>1. k # 0 /\ (k < K <=> k # K)
        BY <3>1, <2>5
      <4> HIDE DEF Cut
      <4> QED
        BY <4>1
    <3> QED
      BY <3>1, <3>17, <3>18, <3>19
  <2> HIDE DEF P
  <2>9. \A k \in 0 .. K : k \in P
    BY <2>5, <2>7, <2>8, UpTo
  <2>10. K \in P /\ K # 0 /\ ~(K < K)
    BY <2>5, <2>9
  <2> QED
    BY <2>6, <2>10 DEF P
<1> QED
  BY <1>1, <1>2

\* The bytes of the encoders modelled.
WireNames == {<<"idr">>, <<"p">>} \cup ({"sps", "pps"} \X Mounts \X (0..1))
WireBytes == WireNames \X Nat
\* A NAL unit is not empty.
WireNals == Seq(WireBytes) \ {<<>>}

LEMMA NalIs ==
  ASSUME NEW name \in WireNames, NEW size \in Nat \ {0}
  PROVE  Nal(name, size) \in WireNals /\ NalType(Nal(name, size)) = name[1]
<1> DEFINE s == Nal(name, size)
<1>1. s = [i \in 1 .. size |-> <<name, i>>]
  BY DEF Nal
<1>2. \A i \in 1 .. size : <<name, i>> \in WireBytes
  BY DEF WireBytes
<1>3. s \in [1 .. size -> WireBytes]
  BY <1>1, <1>2
<1>4. s \in Seq(WireBytes) /\ Len(s) = size /\ size \in Nat /\ size > 0
  BY <1>3
<1>5. s[1] = <<name, 1>> /\ s[1][1] = name
  BY <1>1
<1> HIDE DEF s
<1>6. s # <<>> /\ s[1][1][1] = name[1]
  BY <1>4, <1>5
<1> QED
  BY <1>4, <1>6 DEF s, WireNals, NalType

LEMMA NalsAre ==
  /\ \A m \in Mounts, v \in 0..1 :
       /\ Sps(m, v) \in WireNals /\ NalType(Sps(m, v)) = "sps"
       /\ Pps(m, v) \in WireNals /\ NalType(Pps(m, v)) = "pps"
  /\ \A key \in BOOLEAN, size \in SliceSizes :
       /\ Slice(key, size) \in WireNals
       /\ NalType(Slice(key, size)) = IF key THEN "idr" ELSE "p"
<1>1. ASSUME NEW m \in Mounts, NEW v \in 0..1
      PROVE  /\ Sps(m, v) \in WireNals /\ NalType(Sps(m, v)) = "sps"
             /\ Pps(m, v) \in WireNals /\ NalType(Pps(m, v)) = "pps"
  <2> DEFINE a == <<"sps", m, v>>
             b == <<"pps", m, v>>
  <2>1. a \in WireNames /\ b \in WireNames /\ a[1] = "sps" /\ b[1] = "pps"
    BY DEF WireNames
  <2>2. Sps(m, v) = Nal(a, 2) /\ Pps(m, v) = Nal(b, 1)
    BY DEF Sps, Pps
  <2>3. 1 \in Nat \ {0} /\ 2 \in Nat \ {0}
    OBVIOUS
  <2> HIDE DEF a, b
  <2> QED
    BY <2>1, <2>2, <2>3, NalIs
<1>2. ASSUME NEW key \in BOOLEAN, NEW size \in SliceSizes
      PROVE  /\ Slice(key, size) \in WireNals
             /\ NalType(Slice(key, size)) = IF key THEN "idr" ELSE "p"
  <2> DEFINE a == <<IF key THEN "idr" ELSE "p">>
  <2>1. a \in WireNames /\ a[1] = IF key THEN "idr" ELSE "p"
    BY DEF WireNames
  <2>2. Slice(key, size) = Nal(a, size)
    BY DEF Slice
  <2>3. size \in Nat \ {0}
    BY WireAssumption
  <2> HIDE DEF a
  <2> QED
    BY <2>1, <2>2, <2>3, NalIs
<1> QED
  BY <1>1, <1>2

-----------------------------------------------------------------------------
(* A unit of NAL units and its packets.                                    *)

\* The packets of the n-th of nals.
FramesOf(nals, n, ts) ==
  LET payloads == Packetize(nals[n])
  IN [k \in DOMAIN payloads |->
        [payload |-> payloads[k], ts |-> ts, marker |-> Marked(nals, n, k)]]

LEMMA FramesAre ==
  ASSUME NEW all \in Seq(WireNals), NEW ts, NEW n \in 1 .. Len(all)
  PROVE  LET F == FramesOf(all, n, ts) IN
         /\ Len(F) = Len(Packetize(all[n])) /\ Len(F) \in Nat \ {0}
         /\ DOMAIN F = 1 .. Len(F) /\ F = [k \in 1 .. Len(F) |-> F[k]]
         /\ \A k \in 1 .. Len(F) :
              /\ F[k].payload = Packetize(all[n])[k] /\ F[k].ts = ts
              /\ F[k].marker = Marked(all, n, k) /\ Carries(F[k], WireBytes)
<1> DEFINE P == Packetize(all[n])
           K == Len(P)
           F == FramesOf(all, n, ts)
<1>1. all[n] \in Seq(WireBytes) /\ all[n] # <<>>
  BY DEF WireNals
<1>2. /\ K \in Nat \ {0} /\ DOMAIN P = 1 .. K
      /\ \A k \in 1 .. K : /\ P[k].fu \in BOOLEAN /\ P[k].bytes \in Seq(WireBytes)
                           /\ P[k].fu => /\ P[k].header \in WireBytes
                                         /\ P[k].start \in BOOLEAN /\ P[k].end \in BOOLEAN
  BY ONLY <1>1, PacketsOf
<1>3. F = [k \in DOMAIN P |-> [payload |-> P[k], ts |-> ts, marker |-> Marked(all, n, k)]]
  BY DEF FramesOf
<1> HIDE DEF P, F
<1>4. Len(F) = K /\ DOMAIN F = 1 .. K
  BY <1>2, <1>3 DEF K
<1>5. ASSUME NEW k \in 1 .. K
      PROVE  /\ F[k].payload = P[k] /\ F[k].ts = ts
             /\ F[k].marker = Marked(all, n, k) /\ Carries(F[k], WireBytes)
  <2>1. F[k] = [payload |-> P[k], ts |-> ts, marker |-> Marked(all, n, k)]
    BY <1>2, <1>3
  <2>2. F[k].payload = P[k] /\ F[k].ts = ts /\ F[k].marker = Marked(all, n, k)
    BY <2>1
  <2> QED
    BY <1>2, <2>2 DEF Carries
<1>6. F = [k \in 1 .. K |-> F[k]]
  BY <1>2, <1>3
<1> QED
  BY <1>2, <1>4, <1>5, <1>6 DEF F, P, K

\* A receiver gets the NAL units back, and the marker ends them.
LEMMA FramesReceived ==
  ASSUME NEW all \in Seq(WireNals), all # <<>>, NEW ts
  PROVE  /\ Reassembled(Frames(all, ts)) = all
         /\ DOMAIN Frames(all, ts) = 1 .. Len(Frames(all, ts))
         /\ \A k \in 1 .. Len(Frames(all, ts)) :
              /\ Frames(all, ts)[k].marker <=> k = Len(Frames(all, ts))
              /\ Frames(all, ts)[k].ts = ts
<1> DEFINE N == Len(all)
           F == [n \in 1 .. N |-> FramesOf(all, n, ts)]
           X == UNION {{F[n][k] : k \in 1 .. Len(F[n])} : n \in 1 .. N}
<1>1. N \in Nat /\ N >= 1 /\ DOMAIN all = 1 .. N
  OBVIOUS
<1>2. Frames(all, ts) = FlattenSeq(F)
  <2>1. \A n : FramesOf(all, n, ts) =
          LET payloads == Packetize(all[n])
          IN [k \in DOMAIN payloads |->
                [payload |-> payloads[k], ts |-> ts, marker |-> Marked(all, n, k)]]
    BY DEF FramesOf
  <2> QED
    BY <1>1, <2>1 DEF Frames
<1>3. ASSUME NEW n \in 1 .. N
      PROVE  /\ Len(F[n]) = Len(Packetize(all[n])) /\ Len(F[n]) \in Nat \ {0}
             /\ DOMAIN F[n] = 1 .. Len(F[n]) /\ F[n] = [k \in 1 .. Len(F[n]) |-> F[n][k]]
             /\ \A k \in 1 .. Len(F[n]) :
                  /\ F[n][k].payload = Packetize(all[n])[k] /\ F[n][k].ts = ts
                  /\ F[n][k].marker = Marked(all, n, k) /\ Carries(F[n][k], WireBytes)
  <2>1. F[n] = FramesOf(all, n, ts)
    OBVIOUS
  <2> HIDE DEF F
  <2> QED
    BY <2>1, FramesAre
<1>4. Len(F) = N /\ F = [n \in 1 .. N |-> F[n]]
  BY <1>1
<1> HIDE DEF F
<1> HIDE DEF N
<1>5. \A n \in 1 .. N : F[n] \in Seq(X)
  <2>1. ASSUME NEW n \in 1 .. N PROVE F[n] \in Seq(X)
    <3>1. \A k \in 1 .. Len(F[n]) : F[n][k] \in X
      OBVIOUS
    <3> HIDE DEF X
    <3>2. [k \in 1 .. Len(F[n]) |-> F[n][k]] \in Seq(X)
      BY <1>3, <3>1
    <3> QED
      BY <1>3, <3>2
  <2> QED
    BY <2>1
<1>6. \A x \in X : Carries(x, WireBytes)
  <2>1. ASSUME NEW x \in X PROVE Carries(x, WireBytes)
    <3>1. PICK n \in 1 .. N : x \in {F[n][k] : k \in 1 .. Len(F[n])}
      OBVIOUS
    <3>2. PICK k \in 1 .. Len(F[n]) : x = F[n][k]
      BY <3>1
    <3> QED
      BY <1>3, <3>2
  <2> QED
    BY <2>1
<1> HIDE DEF X
<1>7. F \in Seq(Seq(X))
  BY <1>1, <1>4, <1>5
<1>8. PICK c \in [0 .. N -> Seq(X)] :
        /\ c[0] = <<>>
        /\ \A i \in 1 .. N : c[i] = c[i - 1] \o F[i]
        /\ FlattenSeq(F) = c[N]
  <2>1. \E c \in [0 .. Len(F) -> Seq(X)] :
          /\ c[0] = <<>>
          /\ \A i \in 1 .. Len(F) : c[i] = c[i - 1] \o F[i]
          /\ FlattenSeq(F) = c[Len(F)]
    BY ONLY <1>7, FlattenRuns
  <2> QED
    BY <1>4, <2>1
<1>9. c[N] \in Seq(X) /\ Frames(all, ts) = c[N]
  BY <1>1, <1>2, <1>8
<1>10. PICK r : /\ r[0] = NothingYet
                /\ \A i \in 1 .. Len(c[N]) : r[i] = Receive(r[i - 1], c[N][i])
                /\ Reassembled(c[N]) = r[Len(c[N])].done
  <2> DEFINE packets == c[N]
  <2>1. packets \in Seq(X) /\ \A x \in X : Carries(x, WireBytes)
    BY <1>6, <1>9
  <2> HIDE DEF packets
  <2>2. \E r : /\ r[0] = NothingYet
               /\ \A i \in 1 .. Len(packets) : r[i] = Receive(r[i - 1], packets[i])
               /\ Reassembled(packets) = r[Len(packets)].done
    BY ONLY <2>1, ReceiveRuns
  <2> QED
    BY <2>2 DEF packets
<1>11. \A j \in 0 .. N : /\ Len(c[j]) <= Len(c[N])
                         /\ \A i \in 1 .. Len(c[j]) : c[N][i] = c[j][i]
  <2>1. Concatenates(X, N, c, F)
    BY <1>1, <1>5, <1>8 DEF Concatenates
  <2>2. Grows(N, c)
    BY ONLY <2>1, RunGrows
  <2> QED
    BY ONLY <2>2 DEF Grows
<1>12. ASSUME NEW j \in 1 .. N
       PROVE  /\ Len(c[j - 1]) \in Nat /\ Len(c[j]) = Len(c[j - 1]) + Len(F[j])
              /\ \A i \in 1 .. Len(c[j - 1]) : c[j][i] = c[j - 1][i]
              /\ \A k \in 1 .. Len(F[j]) : c[j][Len(c[j - 1]) + k] = F[j][k]
  <2> DEFINE a == c[j - 1]
             b == F[j]
  <2>1. a \in Seq(X) /\ b \in Seq(X) /\ c[j] = a \o b
    <3>1. j - 1 \in 0 .. N
      BY <1>1
    <3>2. c[j - 1] \in Seq(X) /\ F[j] \in Seq(X) /\ c[j] = c[j - 1] \o F[j]
      BY <1>5, <1>8, <3>1
    <3> QED
      BY <3>2
  <2> HIDE DEF a, b
  <2>2. /\ Len(c[j]) = Len(a) + Len(b) /\ Len(a) \in Nat /\ Len(b) \in Nat
        /\ \A i \in 1 .. Len(a) + Len(b) : c[j][i] = IF i <= Len(a) THEN a[i] ELSE b[i - Len(a)]
    BY ONLY <2>1, ConcatProperties
  <2>3. \A i \in 1 .. Len(a) : c[j][i] = a[i]
    <3>1. \A i \in 1 .. Len(a) : i \in 1 .. Len(a) + Len(b) /\ i <= Len(a)
      BY ONLY <2>2
    <3> QED
      BY <2>2, <3>1
  <2>4. \A k \in 1 .. Len(b) : c[j][Len(a) + k] = b[k]
    <3>1. ASSUME NEW k \in 1 .. Len(b) PROVE c[j][Len(a) + k] = b[k]
      <4>1. /\ Len(a) + k \in 1 .. Len(a) + Len(b)
            /\ ~(Len(a) + k <= Len(a)) /\ Len(a) + k - Len(a) = k
        BY ONLY <2>2, k \in 1 .. Len(b)
      <4>2. c[j][Len(a) + k] = b[Len(a) + k - Len(a)]
        BY <2>2, <4>1
      <4> QED
        BY <4>1, <4>2
    <3> QED
      BY <3>1
  <2> QED
    BY <2>2, <2>3, <2>4 DEF a, b
<1> DEFINE At(j) == r[Len(c[j])] = [done |-> SubSeq(all, 1, j), open |-> <<>>]
           P == {j \in 0 .. N : At(j)}
           Q == {j \in 0 .. N : \A i \in 1 .. Len(c[j]) :
                   /\ c[j][i].ts = ts
                   /\ c[j][i].marker <=> (j = N /\ i = Len(c[N]))}
<1>13. 0 \in P /\ 0 \in Q
  <2>1. SubSeq(all, 1, 0) = <<>> /\ Len(c[0]) = 0 /\ 1 .. 0 = {} /\ 0 \in 0 .. N
    BY <1>1, <1>8
  <2> QED
    BY <2>1, <1>10 DEF NothingYet
<1>14. ASSUME NEW j \in 1 .. N, j - 1 \in P PROVE j \in P
  <2> DEFINE o == Len(c[j - 1])
             d == SubSeq(all, 1, j - 1)
             x == F[j]
             nal == all[j]
  <2>1. nal \in Seq(WireBytes) /\ nal # <<>> /\ o \in Nat /\ j \in 0 .. N
    BY <1>1, <1>12 DEF WireNals
  <2>2. d \in Seq(WireNals) /\ Append(d, nal) = SubSeq(all, 1, j)
    <3>1. j - 1 \in Nat /\ j - 1 <= N /\ j <= N /\ j \in Nat
      BY <1>1
    <3>2. d \in Seq(WireNals) /\ Len(d) = j - 1 /\ \A i \in 1 .. j - 1 : d[i] = all[i]
      BY <3>1, <1>1
    <3>3. /\ SubSeq(all, 1, j) \in Seq(WireNals) /\ Len(SubSeq(all, 1, j)) = j
          /\ \A i \in 1 .. j : SubSeq(all, 1, j)[i] = all[i]
      BY <3>1, <1>1
    <3> DEFINE u == SubSeq(all, 1, j)
               v == Append(d, nal)
    <3> HIDE DEF d
    <3>4. nal \in WireNals
      BY <1>1
    <3>5. v \in Seq(WireNals) /\ Len(v) = j /\ v[j] = nal /\ \A i \in 1 .. j - 1 : v[i] = d[i]
      BY <3>1, <3>2, <3>4, AppendProperties
    <3>6. \A i \in 1 .. j : v[i] = u[i]
      BY <3>1, <3>2, <3>3, <3>5
    <3> HIDE DEF u, v
    <3>7. v = u
      BY <3>3, <3>5, <3>6 DEF u
    <3> QED
      BY <3>2, <3>7 DEF u, v
  <2>3. WireNals \subseteq Seq(WireBytes)
    BY DEF WireNals
  <2>4. d \in Seq(Seq(WireBytes))
    BY ONLY <2>2, <2>3
  <2>5. r[o] = [done |-> d, open |-> <<>>]
    BY <1>14
  <2>6. Len(c[j]) = o + Len(Packetize(nal)) /\ Len(x) = Len(Packetize(nal))
    BY <1>3, <1>12
  <2>7. ASSUME NEW k \in 1 .. Len(Packetize(nal))
        PROVE  r[o + k] = Receive(r[o + k - 1], x[k]) /\ x[k].payload = Packetize(nal)[k]
    <3>1. Len(c[j]) <= Len(c[N]) /\ Len(c[N]) \in Nat /\ Len(x) \in Nat
      <4>1. Len(c[j]) <= Len(c[N])
        BY <2>1, <1>11
      <4>2. Len(c[N]) \in Nat
        BY <1>9
      <4>3. Len(x) \in Nat
        BY <1>3
      <4> QED
        BY <4>1, <4>2, <4>3
    <3>2. k \in 1 .. Len(x) /\ o + k \in 1 .. Len(c[j]) /\ o + k \in 1 .. Len(c[N])
      <4>1. o \in Nat
        BY <2>1
      <4>2. k \in 1 .. Len(x) /\ Len(c[j]) = o + Len(x)
        BY <2>6, <2>7
      <4> HIDE DEF o, x
      <4> QED
        BY ONLY <3>1, <4>1, <4>2
    <3>3. c[N][o + k] = c[j][o + k]
      BY <1>11, <2>1, <3>2
    <3>4. c[j][o + k] = x[k]
      BY <1>12, <3>2
    <3>5. r[o + k] = Receive(r[o + k - 1], c[N][o + k])
      BY <1>10, <3>2
    <3>6. x[k].payload = Packetize(nal)[k]
      BY <1>3, <3>2
    <3> QED
      BY <3>3, <3>4, <3>5, <3>6
  <2> HIDE DEF o, d, x, nal
  <2>8. r[o + Len(Packetize(nal))] = [done |-> Append(d, nal), open |-> <<>>]
    <3>1. TakesIn(nal, r, x, o)
      BY ONLY <2>7 DEF TakesIn
    <3> QED
      BY ONLY <2>1, <2>4, <2>5, <3>1, NalReceived
  <2> QED
    BY <2>1, <2>2, <2>6, <2>8
<1>15. ASSUME NEW j \in 1 .. N, j - 1 \in Q PROVE j \in Q
  <2> DEFINE o == Len(c[j - 1])
             K == Len(F[j])
  <2>1. /\ o \in Nat /\ K \in Nat \ {0} /\ Len(c[j]) = o + K /\ j \in 0 .. N /\ N \in Nat
        /\ K = Len(Packetize(all[j]))
    <3>1. o \in Nat /\ Len(c[j]) = o + K
      BY <1>12
    <3>2. K \in Nat \ {0} /\ K = Len(Packetize(all[j]))
      BY <1>3
    <3>3. j \in 0 .. N /\ N \in Nat
      BY <1>1
    <3> QED
      BY <3>1, <3>2, <3>3
  <2>2. ASSUME NEW i \in 1 .. Len(c[j])
        PROVE  c[j][i].ts = ts /\ (c[j][i].marker <=> (j = N /\ i = Len(c[N])))
    <3> HIDE DEF o, K
    <3>1. CASE i <= o
      <4>1. i \in 1 .. o /\ j - 1 # N /\ i # o + K
        BY ONLY <2>1, <2>2, <3>1, j \in 1 .. N
      <4>2. c[j][i] = c[j - 1][i]
        BY <1>12, <4>1 DEF o
      <4>3. c[j - 1][i].ts = ts /\ (c[j - 1][i].marker <=> (j - 1 = N /\ i = Len(c[N])))
        BY <1>15, <4>1 DEF o
      <4>4. ~(j = N /\ i = Len(c[N]))
        BY <2>1, <4>1
      <4> QED
        BY <4>1, <4>2, <4>3, <4>4
    <3>2. CASE ~(i <= o)
      <4> DEFINE k == i - o
      <4>1. k \in 1 .. K /\ i = o + k /\ (k = K <=> i = o + K)
        BY ONLY <2>1, <2>2, <3>2
      <4> HIDE DEF k
      <4>2. c[j][i] = F[j][k]
        BY <1>12, <4>1 DEF o, K
      <4>3. F[j][k].ts = ts /\ F[j][k].marker = Marked(all, j, k)
        BY <1>3, <4>1 DEF K
      <4>4. Marked(all, j, k) <=> (j = N /\ k = K)
        BY <2>1 DEF Marked, N
      <4>5. j = N => Len(c[N]) = o + K
        BY <2>1
      <4> QED
        BY <4>1, <4>2, <4>3, <4>4, <4>5
    <3> QED
      BY <3>1, <3>2
  <2> QED
    BY <2>1, <2>2
<1> HIDE DEF P, Q
<1>16. \A j \in 0 .. N : j \in P
  BY <1>1, <1>13, <1>14, UpTo
<1>17. \A j \in 0 .. N : j \in Q
  BY <1>1, <1>13, <1>15, UpTo
<1>18. N \in P /\ N \in Q
  BY <1>1, <1>16, <1>17
<1> HIDE DEF At
<1>23. At(N)
  BY ONLY <1>18 DEF P
<1>19. SubSeq(all, 1, N) = all
  <2>1. SubSeq(all, 1, Len(all)) = all
    BY ONLY all \in Seq(WireNals), WholeSeq
  <2>2. N = Len(all)
    BY DEF N
  <2> HIDE DEF N
  <2> QED
    BY ONLY <2>1, <2>2
<1>20. Reassembled(c[N]) = all
  <2>1. r[Len(c[N])] = [done |-> SubSeq(all, 1, N), open |-> <<>>]
    BY <1>23 DEF At
  <2> DEFINE last == r[Len(c[N])]
             d == SubSeq(all, 1, N)
  <2>2. last = [done |-> d, open |-> <<>>] /\ d = all /\ Reassembled(c[N]) = last.done
    BY <1>10, <1>19, <2>1
  <2> HIDE DEF last, d
  <2> QED
    BY ONLY <2>2
<1>21. \A i \in 1 .. Len(c[N]) : c[N][i].ts = ts /\ (c[N][i].marker <=> i = Len(c[N]))
  BY <1>18 DEF Q
<1>22. DOMAIN c[N] = 1 .. Len(c[N])
  BY <1>9
<1> QED
  BY <1>9, <1>20, <1>21, <1>22

-----------------------------------------------------------------------------
(* What an encoder gives out goes out with the right parameter sets.       *)

LEMMA FlattenOne ==
  ASSUME NEW X, NEW x \in Seq(X)
  PROVE  FlattenSeq(<<x>>) = x
<1> DEFINE s == <<x>>
<1>1. s \in Seq(Seq(X)) /\ Len(s) = 1 /\ s[1] = x
  OBVIOUS
<1> HIDE DEF s
<1>2. PICK r \in [0 .. Len(s) -> Seq(X)] :
        /\ r[0] = <<>>
        /\ \A i \in 1 .. Len(s) : r[i] = r[i - 1] \o s[i]
        /\ FlattenSeq(s) = r[Len(s)]
  BY ONLY <1>1, FlattenRuns
<1>3. r[1] = r[0] \o s[1]
  <2>1. 1 \in 1 .. Len(s) /\ 1 - 1 = 0
    BY <1>1
  <2> QED
    BY ONLY <1>2, <2>1
<1>4. <<>> \o x = x
  BY ConcatEmptySeq
<1>5. FlattenSeq(s) = x
  BY <1>1, <1>2, <1>3, <1>4
<1> QED
  BY <1>5 DEF s

LEMMA FlattenThree ==
  ASSUME NEW X, NEW x \in Seq(X)
  PROVE  FlattenSeq(<<<<>>, <<>>, x>>) = x
<1> DEFINE s == <<<<>>, <<>>, x>>
<1>1. s \in Seq(Seq(X)) /\ Len(s) = 3 /\ s[1] = <<>> /\ s[2] = <<>> /\ s[3] = x
  <2>1. <<>> \in Seq(X)
    OBVIOUS
  <2> QED
    BY <2>1
<1> HIDE DEF s
<1>2. PICK r \in [0 .. Len(s) -> Seq(X)] :
        /\ r[0] = <<>>
        /\ \A i \in 1 .. Len(s) : r[i] = r[i - 1] \o s[i]
        /\ FlattenSeq(s) = r[Len(s)]
  BY ONLY <1>1, FlattenRuns
<1>3. r[1] = r[0] \o s[1] /\ r[2] = r[1] \o s[2] /\ r[3] = r[2] \o s[3]
  <2>1. /\ 1 \in 1 .. Len(s) /\ 1 - 1 = 0 /\ 2 \in 1 .. Len(s) /\ 2 - 1 = 1
        /\ 3 \in 1 .. Len(s) /\ 3 - 1 = 2
    BY <1>1
  <2>2. r[1] = r[1 - 1] \o s[1] /\ r[2] = r[2 - 1] \o s[2] /\ r[3] = r[3 - 1] \o s[3]
    BY ONLY <1>2, <2>1
  <2> QED
    BY ONLY <2>1, <2>2
<1>4. <<>> \o x = x /\ <<>> \in Seq(X)
  BY ConcatEmptySeq
<1>5. <<>> \o <<>> = <<>>
  BY <1>4, ConcatEmptySeq
<1>6. FlattenSeq(s) = x
  BY <1>1, <1>2, <1>3, <1>4, <1>5
<1> QED
  BY <1>6 DEF s

\* What the encoder gives out.
Encodes(m, key, nals) ==
  \E size \in SliceSizes :
    \/ key \in BOOLEAN /\ nals = <<Slice(key, size)>>
    \/ /\ key = TRUE
       /\ \E v \in 0..1 : nals = <<Sps(m, v), Pps(m, v), Slice(TRUE, size)>>

\* What the server has stored for the mount.
SetPair(m) == [sps : {<<>>} \cup {Sps(m, v) : v \in 0..1},
               pps : {<<>>} \cup {Pps(m, v) : v \in 0..1}]

\* The NAL units of a unit whose mount had these sets.
Complete(sets, key, nals) ==
  (IF ~key THEN <<>>
   ELSE Stored(sets.sps, Has(nals, "sps")) \o Stored(sets.pps, Has(nals, "pps"))) \o nals
KeptSets(sets, nals) ==
  [sps |-> Keep(sets.sps, nals, "sps"), pps |-> Keep(sets.pps, nals, "pps")]
Slices(nals) ==
  FlattenSeq([n \in DOMAIN nals |->
                IF NalType(nals[n]) \in {"sps", "pps"} THEN <<>> ELSE <<nals[n]>>])
SetsOut(sets, nals) ==
  Stored(KeptSets(sets, nals).sps, FALSE) \o Stored(KeptSets(sets, nals).pps, FALSE)

LEMMA StoredSets ==
  ASSUME NEW m \in Mounts, NEW sets \in SetPair(m), NEW b \in BOOLEAN
  PROVE  Stored(sets.sps, b) \in Seq(WireNals) /\ Stored(sets.pps, b) \in Seq(WireNals)
<1>1. sets.sps = <<>> \/ sets.sps \in WireNals
  BY NalsAre DEF SetPair
<1>2. sets.pps = <<>> \/ sets.pps \in WireNals
  BY NalsAre DEF SetPair
<1>3. \A nal : nal = <<>> \/ nal \in WireNals => Stored(nal, b) \in Seq(WireNals)
  BY DEF Stored
<1> QED
  BY <1>1, <1>2, <1>3

\* A unit of one slice.
LEMMA SliceOut ==
  ASSUME NEW m \in Mounts, NEW sets \in SetPair(m), NEW key \in BOOLEAN,
         NEW size \in SliceSizes
  PROVE  LET nals == <<Slice(key, size)>> IN
         /\ Complete(sets, key, nals) \in Seq(WireNals) /\ Complete(sets, key, nals) # <<>>
         /\ Complete(sets, key, nals)
              = (IF key THEN SetsOut(sets, nals) ELSE <<>>) \o Slices(nals)
         /\ KeptSets(sets, nals) = sets
<1> DEFINE s == Slice(key, size)
           nals == <<s>>
           before == IF ~key THEN <<>> ELSE Stored(sets.sps, FALSE) \o Stored(sets.pps, FALSE)
<1>1. s \in WireNals /\ NalType(s) \in {"idr", "p"}
  BY NalsAre
<1> HIDE DEF s
<1>2. nals \in Seq(WireNals) /\ Len(nals) = 1 /\ DOMAIN nals = {1} /\ nals[1] = s
  BY <1>1
<1> HIDE DEF nals
<1>3. ~Has(nals, "sps") /\ ~Has(nals, "pps")
  BY <1>1, <1>2 DEF Has
<1>4. KeptSets(sets, nals) = sets
  <2>1. Keep(sets.sps, nals, "sps") = sets.sps
    BY <1>1, <1>2 DEF Keep
  <2>2. Keep(sets.pps, nals, "pps") = sets.pps
    BY <1>1, <1>2 DEF Keep
  <2>3. sets = [sps |-> sets.sps, pps |-> sets.pps]
    BY DEF SetPair
  <2> QED
    BY <2>1, <2>2, <2>3 DEF KeptSets
<1>5. Slices(nals) = nals
  <2> DEFINE t == [n \in DOMAIN nals |->
                IF NalType(nals[n]) \in {"sps", "pps"} THEN <<>> ELSE <<nals[n]>>]
  <2>1. \A n \in {1} : t[n] = <<s>>
    BY <1>1, <1>2
  <2>2. DOMAIN t = {1} /\ t = [n \in {1} |-> t[n]]
    BY <1>2
  <2>3. t = [n \in {1} |-> <<s>>]
    <3> HIDE DEF t
    <3> QED
      BY <2>1, <2>2
  <2>4. [n \in {1} |-> <<s>>] = <<<<s>>>>
    OBVIOUS
  <2>5. <<s>> \in Seq(WireNals)
    BY <1>1
  <2>6. FlattenSeq(<<<<s>>>>) = <<s>>
    BY ONLY <2>5, FlattenOne
  <2>7. Slices(nals) = FlattenSeq(t)
    BY DEF Slices
  <2> HIDE DEF t
  <2> QED
    BY <2>3, <2>4, <2>6, <2>7 DEF nals
<1>6. before \in Seq(WireNals)
  <2>1. Stored(sets.sps, FALSE) \in Seq(WireNals) /\ Stored(sets.pps, FALSE) \in Seq(WireNals)
    BY StoredSets
  <2>2. Stored(sets.sps, FALSE) \o Stored(sets.pps, FALSE) \in Seq(WireNals)
    BY ONLY <2>1, ConcatProperties
  <2>3. <<>> \in Seq(WireNals)
    OBVIOUS
  <2> QED
    BY <2>2, <2>3
<1>7. Complete(sets, key, nals) = before \o nals
  <2>1. Has(nals, "sps") = FALSE /\ Has(nals, "pps") = FALSE
    BY <1>3 DEF Has
  <2> QED
    BY <2>1 DEF Complete
<1>8. (IF key THEN SetsOut(sets, nals) ELSE <<>>) = before
  BY <1>4 DEF SetsOut
<1> HIDE DEF before
<1>9. before \o nals \in Seq(WireNals) /\ Len(before \o nals) = Len(before) + 1
  BY <1>2, <1>6, ConcatProperties
<1>10. before \o nals # <<>>
  BY <1>6, <1>9
<1> QED
  BY <1>4, <1>5, <1>7, <1>8, <1>9, <1>10 DEF nals, s

\* A key frame with its parameter sets.
LEMMA SetsAndSliceOut ==
  ASSUME NEW m \in Mounts, NEW sets \in SetPair(m), NEW v \in 0..1,
         NEW size \in SliceSizes
  PROVE  LET nals == <<Sps(m, v), Pps(m, v), Slice(TRUE, size)>> IN
         /\ Complete(sets, TRUE, nals) \in Seq(WireNals) /\ Complete(sets, TRUE, nals) # <<>>
         /\ Complete(sets, TRUE, nals) = SetsOut(sets, nals) \o Slices(nals)
         /\ KeptSets(sets, nals) = [sps |-> Sps(m, v), pps |-> Pps(m, v)]
<1> DEFINE a == Sps(m, v)
           b == Pps(m, v)
           s == Slice(TRUE, size)
           nals == <<a, b, s>>
<1>1. /\ a \in WireNals /\ NalType(a) = "sps" /\ b \in WireNals /\ NalType(b) = "pps"
      /\ s \in WireNals /\ NalType(s) = "idr"
  BY NalsAre
<1> HIDE DEF a, b, s
<1>2. /\ nals \in Seq(WireNals) /\ Len(nals) = 3 /\ DOMAIN nals = 1 .. 3
      /\ nals[1] = a /\ nals[2] = b /\ nals[3] = s
  BY <1>1
<1> HIDE DEF nals
<1>3. Has(nals, "sps") /\ Has(nals, "pps")
  BY <1>1, <1>2 DEF Has
<1>4. KeptSets(sets, nals) = [sps |-> a, pps |-> b]
  <2>1. {n \in DOMAIN nals : NalType(nals[n]) = "sps"} = {1}
    BY <1>1, <1>2
  <2>2. {n \in DOMAIN nals : NalType(nals[n]) = "pps"} = {2}
    BY <1>1, <1>2
  <2>3. Max({1}) = 1 /\ Max({2}) = 2
    BY DEF Max
  <2>4. Keep(sets.sps, nals, "sps") = a
    BY <1>2, <2>1, <2>3 DEF Keep
  <2>5. Keep(sets.pps, nals, "pps") = b
    BY <1>2, <2>2, <2>3 DEF Keep
  <2> QED
    BY <2>4, <2>5 DEF KeptSets
<1>5. Slices(nals) = <<s>>
  <2> DEFINE t == [n \in DOMAIN nals |->
                IF NalType(nals[n]) \in {"sps", "pps"} THEN <<>> ELSE <<nals[n]>>]
             u == <<<<>>, <<>>, <<s>>>>
  <2>1. t[1] = <<>> /\ t[2] = <<>> /\ t[3] = <<s>>
    BY <1>1, <1>2
  <2>2. DOMAIN t = 1 .. 3 /\ t = [n \in 1 .. 3 |-> t[n]]
    BY <1>2
  <2>3. u[1] = <<>> /\ u[2] = <<>> /\ u[3] = <<s>> /\ DOMAIN u = 1 .. 3
        /\ u = [n \in 1 .. 3 |-> u[n]]
    OBVIOUS
  <2>4. t = u
    <3> HIDE DEF t, u
    <3>1. \A n \in 1 .. 3 : n = 1 \/ n = 2 \/ n = 3
      OBVIOUS
    <3> QED
      BY <2>1, <2>2, <2>3, <3>1
  <2>5. <<s>> \in Seq(WireNals)
    BY <1>1
  <2>6. FlattenSeq(u) = <<s>>
    BY ONLY <2>5, FlattenThree
  <2>7. Slices(nals) = FlattenSeq(t)
    BY DEF Slices
  <2> HIDE DEF t, u
  <2> QED
    BY <2>4, <2>6, <2>7
<1>6. Complete(sets, TRUE, nals) = nals
  <2>1. Has(nals, "sps") = TRUE /\ Has(nals, "pps") = TRUE
    BY <1>3 DEF Has
  <2>2. <<>> \o <<>> = <<>> /\ <<>> \o nals = nals
    BY <1>2, ConcatEmptySeq
  <2> QED
    BY <2>1, <2>2 DEF Complete, Stored
<1>7. SetsOut(sets, nals) = <<a>> \o <<b>>
  <2>1. a # <<>> /\ b # <<>>
    BY <1>1 DEF WireNals
  <2> QED
    BY <1>4, <2>1 DEF SetsOut, Stored
<1>8. <<a>> \o <<b>> \o <<s>> = nals
  <2> DEFINE x == <<a>>
             y == <<b>>
             z == <<s>>
             two == x \o y
             three == two \o z
  <2>1. /\ x \in Seq(WireNals) /\ Len(x) = 1 /\ x[1] = a
        /\ y \in Seq(WireNals) /\ Len(y) = 1 /\ y[1] = b
        /\ z \in Seq(WireNals) /\ Len(z) = 1 /\ z[1] = s
    BY <1>1
  <2> HIDE DEF x, y, z
  <2>2. /\ two \in Seq(WireNals) /\ Len(two) = Len(x) + Len(y)
        /\ \A i \in 1 .. Len(x) + Len(y) : two[i] = IF i <= Len(x) THEN x[i] ELSE y[i - Len(x)]
    BY ONLY <2>1, ConcatProperties
  <2>3. Len(two) = 2 /\ two[1] = a /\ two[2] = b
    <3>1. 1 \in 1 .. Len(x) + Len(y) /\ 2 \in 1 .. Len(x) + Len(y)
      BY <2>1
    <3> HIDE DEF two
    <3> QED
      BY ONLY <2>1, <2>2, <3>1
  <2> HIDE DEF two
  <2>4. /\ three \in Seq(WireNals) /\ Len(three) = Len(two) + Len(z)
        /\ \A i \in 1 .. Len(two) + Len(z) :
             three[i] = IF i <= Len(two) THEN two[i] ELSE z[i - Len(two)]
    <3>1. two \in Seq(WireNals) /\ z \in Seq(WireNals)
      BY <2>1, <2>2
    <3> QED
      BY ONLY <3>1, ConcatProperties
  <2> HIDE DEF three
  <2>5. Len(three) = 3 /\ three[1] = a /\ three[2] = b /\ three[3] = s
    <3>1. /\ 1 \in 1 .. Len(two) + Len(z) /\ 2 \in 1 .. Len(two) + Len(z)
          /\ 3 \in 1 .. Len(two) + Len(z)
      BY <2>1, <2>3
    <3> QED
      BY ONLY <2>1, <2>3, <2>4, <3>1
  <2>6. \A i \in 1 .. 3 : three[i] = nals[i]
    <3>1. \A i \in 1 .. 3 : i = 1 \/ i = 2 \/ i = 3
      OBVIOUS
    <3> QED
      BY <3>1, <2>5, <1>2
  <2>7. three = nals
    <3>1. three \in Seq(WireNals) /\ nals \in Seq(WireNals) /\ Len(three) = 3 /\ Len(nals) = 3
      BY <1>2, <2>4, <2>5
    <3> QED
      BY ONLY <3>1, <2>6
  <2> QED
    BY <2>7 DEF three, two, x, y, z
<1>9. nals # <<>>
  <2>1. Len(nals) # 0
    BY <1>2
  <2> QED
    BY ONLY <2>1
<1> QED
  BY <1>2, <1>4, <1>5, <1>6, <1>7, <1>8, <1>9 DEF nals, a, b, s

-----------------------------------------------------------------------------
(* The units sent.                                                         *)

\* A unit as a receiver sees it.
Arrives(unit) ==
  /\ unit.key \in BOOLEAN /\ unit.mount \in Mounts /\ unit.ts \in 0..TsMax
  /\ Reassembled(unit.packets)
       = (IF unit.key THEN SetsOf(unit) ELSE <<>>) \o SlicesOf(unit)
  /\ \A k \in DOMAIN unit.packets :
       /\ unit.packets[k].marker <=> k = Len(unit.packets)
       /\ unit.packets[k].ts = unit.ts

SetsStored ==
  /\ DOMAIN paramSets = Mounts
  /\ \A m \in Mounts : paramSets[m] \in SetPair(m)
  /\ encoded \in [Mounts -> 0..1]
ClocksOK == clock \in [Mounts -> 0..TsMax] /\ lastTs \in [Mounts -> 0..TsMax]
SentRow == sent \in Seq({sent[i] : i \in DOMAIN sent}) /\ Len(sent) <= MaxUnits
\* The session remembers the timestamp of its last unit.
LastOfMount(i) == \A k \in (i + 1)..Len(sent) : sent[k].mount # sent[i].mount
TsKept == \A i \in DOMAIN sent : LastOfMount(i) => sent[i].ts = lastTs[sent[i].mount]
TsInOrder ==
  \A i, j \in DOMAIN sent :
    Follows(i, j) /\ sent[i].ts + TsStep <= TsMax => sent[i].ts < sent[j].ts

UnitsInv ==
  /\ SetsStored /\ ClocksOK /\ SentRow
  /\ \A i \in DOMAIN sent : Arrives(sent[i])
  /\ TsKept /\ TsInOrder

LEMMA UnitsInvTypes == UnitsInv => WireTypeOK
BY DEF UnitsInv, WireTypeOK, SetsStored, ClocksOK, SentRow, Arrives

LEMMA UnitsInvReassemble == UnitsInv => UnitsReassemble
<1> SUFFICES ASSUME UnitsInv, NEW i \in DOMAIN sent
             PROVE  /\ Arrives(sent[i])
                    /\ \A j \in DOMAIN sent :
                         Follows(i, j) /\ sent[i].ts + TsStep <= TsMax => sent[i].ts < sent[j].ts
  BY DEF UnitsReassemble, Arrives
<1> QED
  BY DEF UnitsInv, TsInOrder

LEMMA UnitsInitInv == WireInit => UnitsInv
<1> SUFFICES ASSUME WireInit PROVE UnitsInv
  OBVIOUS
<1>1. /\ paramSets = [m \in Mounts |-> [sps |-> <<>>, pps |-> <<>>]]
      /\ clock = [m \in Mounts |-> 0] /\ lastTs = [m \in Mounts |-> 0]
      /\ encoded = [m \in Mounts |-> 0] /\ sent = <<>>
  BY DEF WireInit
<1>2. SetsStored
  <2>1. \A m \in Mounts : [sps |-> <<>>, pps |-> <<>>] \in SetPair(m)
    BY DEF SetPair
  <2> QED
    BY <1>1, <2>1 DEF SetsStored
<1>3. ClocksOK
  BY <1>1, WireAssumption DEF ClocksOK
<1>4. SentRow
  BY <1>1, WireAssumption DEF SentRow
<1>5. DOMAIN sent = {}
  BY <1>1
<1> QED
  BY <1>2, <1>3, <1>4, <1>5 DEF UnitsInv, TsKept, TsInOrder

LEMMA NextTsGrows ==
  ASSUME NEW prev \in 0..TsMax, NEW computed \in 0..TsMax
  PROVE  /\ NextTs(prev, computed) \in 0..TsMax
         /\ prev + TsStep <= TsMax => prev < NextTs(prev, computed)
<1> DEFINE stepped == (prev + TsStep) % (TsMax + 1)
<1>1. TsMax \in Nat /\ TsStep \in 1..TsMax
  BY WireAssumption
<1>2. prev + TsStep \in Nat /\ TsMax + 1 \in Nat \ {0}
  BY <1>1
<1>3. stepped \in 0..TsMax
  <2>1. stepped \in 0 .. (TsMax + 1) - 1
    BY ONLY <1>2, Division
  <2> QED
    BY <1>1, <2>1
<1>4. ASSUME prev + TsStep <= TsMax PROVE stepped = prev + TsStep
  <2>1. prev + TsStep \in 0 .. (TsMax + 1) - 1
    BY <1>1, <1>2, <1>4
  <2>2. \A r \in 0 .. (TsMax + 1) - 1 : r % (TsMax + 1) = r
    BY <1>2
  <2> QED
    BY <2>1, <2>2
<1>5. NextTs(prev, computed) = IF stepped > computed THEN stepped ELSE computed
  BY DEF NextTs
<1> HIDE DEF stepped
<1> QED
  BY <1>1, <1>3, <1>4, <1>5

LEMMA EncodesArrive ==
  ASSUME NEW m \in Mounts, NEW sets \in SetPair(m), NEW key, NEW nals, Encodes(m, key, nals)
  PROVE  /\ key \in BOOLEAN
         /\ Complete(sets, key, nals) \in Seq(WireNals) /\ Complete(sets, key, nals) # <<>>
         /\ Complete(sets, key, nals)
              = (IF key THEN SetsOut(sets, nals) ELSE <<>>) \o Slices(nals)
         /\ KeptSets(sets, nals) \in SetPair(m)
<1>1. PICK size \in SliceSizes :
        \/ key \in BOOLEAN /\ nals = <<Slice(key, size)>>
        \/ /\ key = TRUE
           /\ \E v \in 0..1 : nals = <<Sps(m, v), Pps(m, v), Slice(TRUE, size)>>
  BY DEF Encodes
<1>2. CASE key \in BOOLEAN /\ nals = <<Slice(key, size)>>
  BY <1>2, SliceOut
<1>3. CASE key = TRUE /\ \E v \in 0..1 : nals = <<Sps(m, v), Pps(m, v), Slice(TRUE, size)>>
  <2>1. PICK v \in 0..1 : nals = <<Sps(m, v), Pps(m, v), Slice(TRUE, size)>>
    BY <1>3
  <2>2. /\ Complete(sets, TRUE, nals) \in Seq(WireNals) /\ Complete(sets, TRUE, nals) # <<>>
        /\ Complete(sets, TRUE, nals) = SetsOut(sets, nals) \o Slices(nals)
        /\ KeptSets(sets, nals) = [sps |-> Sps(m, v), pps |-> Pps(m, v)]
    BY <2>1, SetsAndSliceOut
  <2>3. KeptSets(sets, nals) \in SetPair(m)
    BY <2>2 DEF SetPair
  <2> QED
    BY <1>3, <2>2, <2>3
<1> QED
  BY <1>1, <1>2, <1>3

\* One more unit.
LEMMA SendInv ==
  ASSUME UnitsInv, NEW m \in Mounts, NEW key, NEW nals, NEW gap \in Gaps,
         Encodes(m, key, nals), SendUnit(m, key, nals, gap)
  PROVE  UnitsInv'
<1> DEFINE computed == Smaller(clock[m] + gap, TsMax)
           ts == NextTs(lastTs[m], computed)
           all == Complete(paramSets[m], key, nals)
           n == Len(sent)
           unit == [mount |-> m, key |-> key, nals |-> nals, before |-> paramSets[m],
                    ts |-> ts, packets |-> Frames(all, ts)]
<1>1. /\ DOMAIN paramSets = Mounts /\ \A x \in Mounts : paramSets[x] \in SetPair(x)
      /\ encoded \in [Mounts -> 0..1] /\ clock \in [Mounts -> 0..TsMax]
      /\ lastTs \in [Mounts -> 0..TsMax]
      /\ sent \in Seq({sent[i] : i \in DOMAIN sent}) /\ Len(sent) <= MaxUnits
  BY DEF UnitsInv, SetsStored, ClocksOK, SentRow
<1>2. computed \in 0..TsMax /\ lastTs[m] \in 0..TsMax
  <2>1. clock[m] \in 0..TsMax /\ gap \in Nat /\ TsMax \in Nat
    BY <1>1, WireAssumption
  <2> QED
    BY <1>1, <2>1 DEF Smaller
<1>3. ts \in 0..TsMax /\ (lastTs[m] + TsStep <= TsMax => lastTs[m] < ts)
  BY <1>2, NextTsGrows
<1>4. /\ key \in BOOLEAN /\ all \in Seq(WireNals) /\ all # <<>>
      /\ all = (IF key THEN SetsOut(paramSets[m], nals) ELSE <<>>) \o Slices(nals)
      /\ KeptSets(paramSets[m], nals) \in SetPair(m)
  BY <1>1, EncodesArrive
<1>5. all = Injected(m, key, nals) \o nals
  BY DEF Complete, Injected, SetsFor
<1>6. /\ Len(sent) < MaxUnits
      /\ clock' = [clock EXCEPT ![m] = computed]
      /\ lastTs' = [lastTs EXCEPT ![m] = ts]
      /\ paramSets' = [paramSets EXCEPT ![m] = KeptSets(@, nals)]
      /\ sent' = Append(sent, unit)
      /\ encoded' = encoded
  BY <1>5 DEF SendUnit, KeptSets
<1> HIDE DEF computed, ts, all
<1>7. Arrives(unit)
  <2>1. /\ unit.mount = m /\ unit.key = key /\ unit.nals = nals /\ unit.before = paramSets[m]
        /\ unit.ts = ts /\ unit.packets = Frames(all, ts)
    OBVIOUS
  <2> HIDE DEF unit
  <2>2. SetsOf(unit) = SetsOut(paramSets[m], nals) /\ SlicesOf(unit) = Slices(nals)
    BY <2>1 DEF SetsOf, SetsOut, KeptSets, SlicesOf, Slices
  <2>3. /\ Reassembled(Frames(all, ts)) = all
        /\ DOMAIN Frames(all, ts) = 1 .. Len(Frames(all, ts))
        /\ \A k \in 1 .. Len(Frames(all, ts)) :
             /\ Frames(all, ts)[k].marker <=> k = Len(Frames(all, ts))
             /\ Frames(all, ts)[k].ts = ts
    BY <1>4, FramesReceived
  <2> DEFINE fr == Frames(all, ts)
  <2>4. unit.packets = fr /\ Reassembled(fr) = all /\ DOMAIN fr = 1 .. Len(fr)
    BY <2>1, <2>3
  <2>5. \A k \in 1 .. Len(fr) : (fr[k].marker <=> k = Len(fr)) /\ fr[k].ts = ts
    BY <2>3
  <2> HIDE DEF fr
  <2>6. unit.key \in BOOLEAN /\ unit.mount \in Mounts /\ unit.ts \in 0..TsMax
    BY <1>3, <1>4, <2>1
  <2>7. Reassembled(unit.packets)
          = (IF unit.key THEN SetsOf(unit) ELSE <<>>) \o SlicesOf(unit)
    BY ONLY <1>4, <2>1, <2>2, <2>4
  <2>8. \A k \in DOMAIN unit.packets :
          /\ unit.packets[k].marker <=> k = Len(unit.packets)
          /\ unit.packets[k].ts = unit.ts
    BY ONLY <2>1, <2>4, <2>5
  <2> QED
    BY ONLY <2>6, <2>7, <2>8 DEF Arrives
<1>8. unit.mount = m /\ unit.ts = ts
  OBVIOUS
<1> DEFINE T == {sent[i] : i \in DOMAIN sent} \cup {unit}
<1>9. /\ n \in Nat /\ DOMAIN sent = 1 .. n
      /\ \A i \in 1 .. n : sent'[i] = sent[i]
      /\ sent'[n + 1] = unit /\ DOMAIN sent' = 1 .. n + 1 /\ Len(sent') = n + 1
  <2>1. sent \in Seq(T)
    <3>1. {sent[i] : i \in DOMAIN sent} \subseteq T
      OBVIOUS
    <3> HIDE DEF T
    <3> QED
      BY <1>1, <3>1
  <2>2. unit \in T
    OBVIOUS
  <2> HIDE DEF T, unit
  <2>3. sent' \in Seq(T) /\ Len(sent') = n + 1 /\ \A i \in 1 .. n : sent'[i] = sent[i]
    BY <1>6, <2>1, <2>2, AppendProperties
  <2> QED
    BY <1>6, <2>1, <2>2, <2>3, AppendProperties
<1> HIDE DEF unit, n
<1>10. ClocksOK'
  BY <1>1, <1>2, <1>3, <1>6 DEF ClocksOK
<1>11. SetsStored'
  BY <1>1, <1>4, <1>6 DEF SetsStored
<1>12. SentRow'
  <2>1. sent' = [i \in 1 .. n + 1 |-> sent'[i]]
    <3> DEFINE U == {sent[i] : i \in DOMAIN sent} \cup {unit}
    <3>1. sent \in Seq(U) /\ unit \in U
      <4>1. {sent[i] : i \in DOMAIN sent} \subseteq U
        OBVIOUS
      <4> HIDE DEF U
      <4>2. sent \in Seq(U)
        BY <1>1, <4>1
      <4> QED
        BY <4>2 DEF U
    <3> HIDE DEF U
    <3>2. sent' \in Seq(U)
      BY <1>6, <3>1, AppendProperties
    <3> QED
      BY <3>2, <1>9
  <2> DEFINE V == {sent'[i] : i \in 1 .. n + 1}
  <2>2. \A i \in 1 .. n + 1 : sent'[i] \in V
    OBVIOUS
  <2> HIDE DEF V
  <2>3. [i \in 1 .. n + 1 |-> sent'[i]] \in Seq(V)
    BY <2>2, <1>9
  <2>4. sent' \in Seq(V)
    BY <2>1, <2>3
  <2>5. Len(sent') <= MaxUnits
    BY <1>6, <1>9, WireAssumption DEF n
  <2> QED
    BY <1>9, <2>4, <2>5 DEF SentRow, V
<1>13. ASSUME NEW i \in DOMAIN sent' PROVE Arrives(sent'[i])
  <2>1. i \in 1 .. n \/ i = n + 1
    BY <1>9
  <2> QED
    BY <1>7, <1>9, <2>1 DEF UnitsInv
<1>14. ASSUME NEW i \in 1 .. n
       PROVE  sent[i].ts \in 0..TsMax /\ sent[i].mount \in Mounts
  BY <1>9 DEF UnitsInv, Arrives
<1>15. TsKept'
  <2> SUFFICES ASSUME NEW i \in DOMAIN sent', LastOfMount(i)'
               PROVE  sent'[i].ts = lastTs'[sent'[i].mount]
    BY DEF TsKept
  <2>1. CASE i = n + 1
    BY <1>1, <1>6, <1>8, <1>9, <2>1
  <2>2. CASE i # n + 1
    <3>1. i \in 1 .. n /\ sent'[i] = sent[i] /\ i \in DOMAIN sent
      BY <2>2, <1>9
    <3>2. \A k \in (i + 1) .. n + 1 : sent'[k].mount # sent[i].mount
      BY <3>1, <1>9 DEF LastOfMount
    <3>3. sent[i].mount # m
      <4>1. n + 1 \in (i + 1) .. n + 1
        BY <3>1, <1>9
      <4> QED
        BY <4>1, <3>2, <1>8, <1>9
    <3>4. LastOfMount(i)
      <4>1. \A k \in (i + 1) .. n : k \in (i + 1) .. n + 1 /\ sent'[k] = sent[k]
        BY <3>1, <1>9
      <4> QED
        BY <3>2, <4>1 DEF LastOfMount, n
    <3>5. sent[i].ts = lastTs[sent[i].mount]
      BY <3>1, <3>4 DEF UnitsInv, TsKept
    <3> QED
      BY <1>1, <1>6, <1>14, <3>1, <3>3, <3>5
  <2> QED
    BY <2>1, <2>2
<1>16. TsInOrder'
  <2> SUFFICES ASSUME NEW i \in DOMAIN sent', NEW j \in DOMAIN sent', Follows(i, j)',
                      sent'[i].ts + TsStep <= TsMax
               PROVE  sent'[i].ts < sent'[j].ts
    BY DEF TsInOrder
  <2>1. /\ i < j /\ sent'[i].mount = sent'[j].mount
        /\ \A k \in (i + 1)..(j - 1) : sent'[k].mount # sent'[i].mount
    BY DEF Follows
  <2>2. i \in 1 .. n /\ sent'[i] = sent[i] /\ i \in DOMAIN sent
    BY <2>1, <1>9
  <2>3. CASE j = n + 1
    <3>1. sent[i].mount = m /\ sent'[j].ts = ts
      BY <2>1, <2>2, <2>3, <1>8, <1>9
    <3>2. LastOfMount(i)
      <4>1. \A k \in (i + 1) .. n : k \in (i + 1)..(j - 1) /\ sent'[k] = sent[k]
        BY <2>2, <2>3, <1>9
      <4> QED
        BY <2>1, <2>2, <4>1 DEF LastOfMount, n
    <3>3. sent[i].ts = lastTs[m]
      BY <2>2, <3>1, <3>2 DEF UnitsInv, TsKept
    <3> QED
      BY <1>3, <2>2, <3>1, <3>3
  <2>4. CASE j # n + 1
    <3>1. j \in 1 .. n /\ sent'[j] = sent[j] /\ j \in DOMAIN sent
      BY <2>4, <1>9
    <3>2. \A k \in (i + 1)..(j - 1) : k \in 1 .. n /\ sent'[k] = sent[k]
      BY <2>2, <3>1, <1>9
    <3>3. Follows(i, j)
      BY <2>1, <2>2, <3>1, <3>2 DEF Follows
    <3> QED
      BY <2>2, <3>1, <3>3 DEF UnitsInv, TsInOrder
  <2> QED
    BY <2>3, <2>4
<1> QED
  BY <1>10, <1>11, <1>12, <1>13, <1>15, <1>16 DEF UnitsInv

LEMMA UnitsNextInv == UnitsInv /\ [WireNext]_wireVars => UnitsInv'
<1> SUFFICES ASSUME UnitsInv, [WireNext]_wireVars PROVE UnitsInv'
  OBVIOUS
<1>1. ASSUME NEW m \in Mounts, EncodedUnit(m) PROVE UnitsInv'
  <2>1. PICK size \in SliceSizes, gap \in Gaps :
          \/ SendUnit(m, FALSE, <<Slice(FALSE, size)>>, gap)
          \/ SendUnit(m, TRUE, <<Slice(TRUE, size)>>, gap)
          \/ SendUnit(m, TRUE, <<Sps(m, encoded[m]), Pps(m, encoded[m]),
                                 Slice(TRUE, size)>>, gap)
    BY <1>1 DEF EncodedUnit
  <2>2. encoded[m] \in 0..1
    BY DEF UnitsInv, SetsStored
  <2>3. \E key, nals : Encodes(m, key, nals) /\ SendUnit(m, key, nals, gap)
    <3>1. \A key \in BOOLEAN : Encodes(m, key, <<Slice(key, size)>>)
      BY DEF Encodes
    <3>2. Encodes(m, TRUE, <<Sps(m, encoded[m]), Pps(m, encoded[m]), Slice(TRUE, size)>>)
      BY <2>2 DEF Encodes
    <3> QED
      BY <2>1, <3>1, <3>2
  <2> QED
    BY <2>3, SendInv
<1>2. ASSUME NEW m \in Mounts, NewEncoder(m) PROVE UnitsInv'
  <2>1. /\ encoded' = [encoded EXCEPT ![m] = 1]
        /\ paramSets' = paramSets /\ clock' = clock /\ lastTs' = lastTs /\ sent' = sent
    BY <1>2 DEF NewEncoder
  <2> QED
    BY <2>1 DEF UnitsInv, SetsStored, ClocksOK, SentRow, TsKept, TsInOrder, LastOfMount, Follows
<1>3. CASE UNCHANGED wireVars
  BY <1>3 DEF wireVars, UnitsInv, SetsStored, ClocksOK, SentRow, TsKept, TsInOrder,
              LastOfMount, Follows
<1> QED
  BY <1>1, <1>2, <1>3 DEF WireNext

-----------------------------------------------------------------------------
(* The types of the request side, and the three sides together.            *)

FrontTyped ==
  /\ Len(messages) <= MaxMessages
  /\ protected \in BOOLEAN /\ hasAuth \in BOOLEAN /\ hasSession \in BOOLEAN
  /\ \A i \in whole : 2 * i <= PiecesRead

LEMMA FrontInvTypes == FrontInv /\ FrontTyped => FrontTypeOK
<1> SUFFICES ASSUME FrontInv, FrontTyped PROVE FrontTypeOK
  OBVIOUS
<1>1. /\ messages \in Seq([method : Methods \cup {"RTCP"}, cred : Credentials])
      /\ answers \in Seq([cseq : Nat, status : Nat])
      /\ whole \subseteq Nat /\ unbound \subseteq whole
      /\ wire \in Seq(Nat \X {1, 2}) /\ PiecesRead \in Nat
      /\ \A j \in DOMAIN wire : 2 * wire[j][1] + wire[j][2] = PiecesRead + j + 2
      /\ \A j \in DOMAIN answers : answers[j].cseq # 0 => 2 * answers[j].cseq <= PiecesRead
      /\ \A i \in whole : i # 0
  BY DEF FrontInv, MessagesOK, WireRow, AnsweredRead, WholeAnswered
<1> DEFINE n == Len(messages)
           w == Len(wire)
<1>2. /\ n \in Nat /\ w \in Nat /\ PiecesRead = 2 * n - w /\ DOMAIN messages = 1 .. n
      /\ DOMAIN wire = 1 .. w
  BY <1>1 DEF PiecesRead
<1> HIDE DEF n, w
<1>3. ToSet(wire) \subseteq (DOMAIN messages) \X {1, 2}
  <2>1. ASSUME NEW j \in 1 .. w PROVE wire[j] \in (1 .. n) \X {1, 2}
    <3>1. wire[j] \in Nat \X {1, 2}
      BY <1>1, <1>2, InSequence
    <3>2. wire[j] = <<wire[j][1], wire[j][2]>> /\ wire[j][1] \in Nat /\ wire[j][2] \in {1, 2}
      BY <3>1
    <3>3. 2 * wire[j][1] + wire[j][2] = 2 * n - w + j + 2
      BY <1>1, <1>2
    <3>4. \A a \in Nat, p \in {1, 2} :
            2 * a + p = 2 * n - w + j + 2 /\ 2 * n - w \in Nat => a >= 1 /\ a <= n
      BY <1>2
    <3>5. wire[j][1] >= 1 /\ wire[j][1] <= n
      BY <1>1, <1>2, <3>2, <3>3, <3>4
    <3>6. wire[j][1] \in 1 .. n
      BY <1>2, <3>2, <3>5
    <3> QED
      BY ONLY <3>2, <3>6
  <2> QED
    BY <1>2, <2>1 DEF ToSet
<1>4. answers \in Seq([cseq : 0 .. n, status : Nat])
  <2>1. ASSUME NEW j \in DOMAIN answers PROVE answers[j] \in [cseq : 0 .. n, status : Nat]
    <3>1. answers[j] \in [cseq : Nat, status : Nat]
      BY <1>1, InSequence
    <3>2. answers[j].cseq \in 0 .. n
      <4> DEFINE a == answers[j].cseq
      <4>1. a \in Nat /\ (a # 0 => 2 * a <= PiecesRead)
        BY <1>1, <3>1
      <4> HIDE DEF a
      <4>2. a \in 0 .. n
        BY ONLY <4>1, <1>2
      <4> QED
        BY <4>2 DEF a
    <3> QED
      BY <3>1, <3>2
  <2>2. answers = [j \in 1 .. Len(answers) |-> answers[j]] /\ DOMAIN answers = 1 .. Len(answers)
        /\ Len(answers) \in Nat
    BY <1>1
  <2> DEFINE R == [cseq : 0 .. n, status : Nat]
  <2> HIDE DEF R
  <2>3. \A j \in 1 .. Len(answers) : answers[j] \in R
    BY <2>1, <2>2 DEF R
  <2>4. [j \in 1 .. Len(answers) |-> answers[j]] \in Seq(R)
    BY <2>2, <2>3
  <2> QED
    BY <2>2, <2>4 DEF R
<1>5. whole \subseteq 1 .. n
  <2>1. ASSUME NEW i \in whole PROVE i \in 1 .. n
    <3>1. i \in Nat /\ i # 0 /\ 2 * i <= 2 * n - w
      BY <1>1, <1>2 DEF FrontTyped
    <3> QED
      BY <1>2, <3>1
  <2> QED
    BY <2>1
<1> QED
  BY <1>1, <1>2, <1>3, <1>4, <1>5 DEF FrontTypeOK, FrontTyped, n

LEMMA FrontInitTyped == FrontInit => FrontTyped
<1> SUFFICES ASSUME FrontInit PROVE FrontTyped
  OBVIOUS
<1>1. /\ protected \in BOOLEAN /\ messages = <<>> /\ wire = <<>>
      /\ hasAuth = FALSE /\ hasSession = FALSE /\ whole = {}
  BY DEF FrontInit
<1>2. Len(messages) = 0 /\ MaxMessages \in Nat
  BY <1>1, MaxMessagesAssumption
<1>3. hasAuth \in BOOLEAN /\ hasSession \in BOOLEAN
  BY <1>1
<1>4. \A i \in whole : 2 * i <= PiecesRead
  BY <1>1
<1>5. Len(messages) <= MaxMessages
  BY <1>2
<1> QED
  BY ONLY <1>1, <1>3, <1>4, <1>5 DEF FrontTyped

LEMMA RouteTyped ==
  ASSUME NEW i, Route(i), protected \in BOOLEAN, hasAuth \in BOOLEAN, hasSession \in BOOLEAN
  PROVE  hasAuth' \in BOOLEAN /\ hasSession' \in BOOLEAN
<1>1. CASE Plain(i) \/ Refuse(i)
  BY <1>1 DEF Plain, Refuse
<1>2. ASSUME NEW method, FrontAdmit(i, method) PROVE hasAuth' \in BOOLEAN
  BY <1>2 DEF FrontAdmit
<1>3. CASE FrontDescribe(i) \/ FrontPlay(i)
  BY <1>2, <1>3 DEF FrontDescribe, FrontPlay
<1>4. CASE FrontTeardown(i)
  BY <1>4 DEF FrontTeardown
<1>5. CASE FrontSetup(i)
  BY <1>2, <1>5 DEF FrontSetup
<1> QED
  BY <1>1, <1>3, <1>4, <1>5 DEF Route

LEMMA FrontNextTyped ==
  FrontInv /\ FrontTyped /\ [FrontNext]_frontVars => FrontTyped'
<1> SUFFICES ASSUME FrontInv, FrontTyped, [FrontNext]_frontVars PROVE FrontTyped'
  OBVIOUS
<1>0. /\ whole \subseteq Nat /\ PiecesRead \in Nat
      /\ messages \in Seq([method : Methods \cup {"RTCP"}, cred : Credentials])
      /\ wire \in Seq(Nat \X {1, 2})
  BY DEF FrontInv, MessagesOK, WireRow
<1>1. ASSUME NEW method \in Methods \cup {"RTCP"}, NEW cred \in Credentials, Send(method, cred)
      PROVE  FrontTyped'
  <2>1. /\ Len(messages) < MaxMessages
        /\ messages' = Append(messages, [method |-> method, cred |-> cred])
        /\ wire' = wire \o <<<<Len(messages'), 1>>, <<Len(messages'), 2>>>>
        /\ protected' = protected /\ hasAuth' = hasAuth /\ hasSession' = hasSession
        /\ whole' = whole
    BY <1>1 DEF Send
  <2>2. Len(messages') = Len(messages) + 1 /\ Len(messages) \in Nat
    <3>1. [method |-> method, cred |-> cred]
            \in [method : Methods \cup {"RTCP"}, cred : Credentials]
      OBVIOUS
    <3> QED
      BY <1>0, <2>1, <3>1, AppendProperties
  <2>3. Len(wire') = Len(wire) + 2 /\ Len(wire) \in Nat
    <3> DEFINE k == Len(messages')
    <3>1. k \in Nat
      BY <2>2
    <3> HIDE DEF k
    <3>2. Len(wire \o <<<<k, 1>>, <<k, 2>>>>) = Len(wire) + 2
      BY <1>0, <3>1, TwoPieces
    <3> QED
      BY <1>0, <2>1, <3>2 DEF k
  <2>4. PiecesRead' = PiecesRead
    BY <2>2, <2>3 DEF PiecesRead
  <2> QED
    BY <2>1, <2>2, <2>4, MaxMessagesAssumption DEF FrontTyped
<1>2. CASE ClientStep
  <2>1. "none" \in Credentials
    BY DEF Credentials
  <2> QED
    BY <1>1, <1>2, <2>1 DEF ClientStep
<1>3. CASE ServerReads
  <2>1. PICK k \in 1..Len(wire) :
          /\ ReadRequest(k) \/ ReadReport(k) \/ ReadPartial(k)
          /\ wire' = SubSeq(wire, k + 1, Len(wire))
          /\ UNCHANGED <<protected, messages>>
    BY <1>3 DEF ServerReads
  <2>2. /\ PiecesRead' = PiecesRead + k /\ PiecesRead' >= PiecesRead
        /\ k \in Nat /\ PiecesRead' \in Nat
    BY <2>1, RestOfWire
  <2>3. CASE ReadRequest(k)
    <3> DEFINE i == wire[1][1]
    <3>1. /\ Route(i) /\ whole' = whole \cup {i} /\ k >= 2 /\ wire[1][2] = 1
      BY <2>3 DEF ReadRequest, HeadersDecode
    <3>2. i \in Nat \ {0} /\ 2 * i <= PiecesRead'
      BY <2>2, <3>1, EndRead
    <3> HIDE DEF i
    <3>3. \A x \in whole' : 2 * x <= PiecesRead'
      BY <1>0, <2>2, <3>1, <3>2 DEF FrontTyped
    <3>4. hasAuth' \in BOOLEAN /\ hasSession' \in BOOLEAN
      BY <3>1, RouteTyped DEF FrontTyped
    <3> QED
      BY <2>1, <3>3, <3>4 DEF FrontTyped
  <2>4. CASE ReadReport(k) \/ ReadPartial(k)
    <3>1. whole' = whole /\ hasAuth' = hasAuth /\ hasSession' = hasSession
      BY <2>4 DEF ReadReport, ReadPartial, Silent, BadRequest
    <3>2. \A x \in whole' : 2 * x <= PiecesRead'
      BY <1>0, <2>2, <3>1 DEF FrontTyped
    <3> QED
      BY <2>1, <3>1, <3>2 DEF FrontTyped
  <2> QED
    BY <2>1, <2>3, <2>4
<1>4. CASE UNCHANGED frontVars
  BY <1>4 DEF frontVars, FrontTyped, PiecesRead
<1> QED
  BY <1>2, <1>3, <1>4 DEF FrontNext

(* A unit reaches the receiver byte for byte, marked and in order, with the *)
(* sets of its mount, for every MTU, slice size, gap and number of units.  *)
THEOREM UnitsReassembleAlways == WireSpec => []UnitsReassemble
  BY UnitsInitInv, UnitsNextInv, UnitsInvReassemble, PTL DEF WireSpec

ConnectionInv == WireInv /\ KeyInv /\ SeqInv /\ FrontInv /\ FrontTyped /\ UnitsInv

LEMMA ConnectionNextInv == ConnectionInv /\ [MCNext]_rtspVars => ConnectionInv'
<1> SUFFICES ASSUME ConnectionInv, [MCNext]_rtspVars PROVE ConnectionInv'
  OBVIOUS
<1>1. [Next]_vars /\ [FrontNext]_frontVars /\ [WireNext]_wireVars
  BY DEF MCNext, rtspVars
<1>2. WireInv' /\ FrontInv' /\ FrontTyped' /\ UnitsInv'
  BY <1>1, WireNextInv, FrontNextInv, FrontNextTyped, UnitsNextInv DEF ConnectionInv
<1>3. KeyInv' /\ SeqInv'
  BY <1>1, <1>2, KeyNextInv, SeqNextInv DEF ConnectionInv
<1> QED
  BY <1>2, <1>3 DEF ConnectionInv

LEMMA ConnectionHolds == MCSpec => []ConnectionInv
<1>1. MCInit => ConnectionInv
  BY WireInitInv, KeyInitInv, SeqInitInv, FrontInitInv, FrontInitTyped, UnitsInitInv
     DEF MCInit, ConnectionInv
<1> QED
  BY <1>1, ConnectionNextInv, PTL DEF MCSpec

(* Each side of a connection keeps its variables in their sets, whichever  *)
(* of the three runs (src/src/streaming/rtsp.rs).                          *)
THEOREM ConnectionAlwaysTyped == MCSpec => []MCTypeOK
<1>1. ConnectionInv => MCTypeOK
  BY WireInvTypes, FrontInvTypes, UnitsInvTypes DEF ConnectionInv, MCTypeOK
<1> QED
  BY <1>1, ConnectionHolds, PTL

(* What the wire carries and what is answered is sound in the whole of a   *)
(* connection (handle_connection, packetize_nalu in src/src/streaming/     *)
(* rtsp.rs).                                                               *)
THEOREM ConnectionAlwaysSound ==
  MCSpec => [](/\ WireInOrder /\ NoPAfterLostP /\ SeqContiguousExtent
               /\ AnswersPair /\ UnitsReassemble)
<1> DEFINE ConnectionSound ==
      /\ WireInOrder /\ NoPAfterLostP /\ SeqContiguousExtent
      /\ AnswersPair /\ UnitsReassemble
<1>1. ConnectionInv => ConnectionSound
  <2> SUFFICES ASSUME ConnectionInv PROVE ConnectionSound
    OBVIOUS
  <2>1. WireInOrder /\ AnswersPair /\ UnitsReassemble
    BY WireInvOrder, AnswersFromInv, UnitsInvReassemble DEF ConnectionInv
  <2>2. NoPAfterLostP /\ SeqContiguousExtent
    BY DEF ConnectionInv, KeyInv, SeqInv
  <2> QED
    BY <2>1, <2>2
<1> HIDE DEF ConnectionSound
<1>2. MCSpec => []ConnectionSound
  BY <1>1, ConnectionHolds, PTL
<1> QED
  BY <1>2 DEF ConnectionSound
=============================================================================
