----------------------------- MODULE MseProofs -----------------------------
(***************************************************************************)
(* The two machines of an MSE connection, for any kinds of unit, any number*)
(* of units, connections, intervals and frames; and the way of a unit from *)
(* the encoder's stream through the parser and the muxer.                  *)
(*                                                                         *)
(* The shared media clock: Handoff is not inductive.  What a connection    *)
(* inherits is bounded by the floor it is seeded from, so the invariant    *)
(* carries that nobody has emitted past the floor.                         *)
(*                                                                         *)
(* The bridge and its RealignGate: HoleOnlyBehindOvertakenKey speaks of    *)
(* what was sent, the reason is in what is still to come.  A unit is lost  *)
(* only while two others wait, so the bridge will skip one of them and let *)
(* nothing but a key frame pass; until such a key frame has been handed on *)
(* with the loss behind it, something in the bridge's state still asks for *)
(* it (Owing).  The drop counter is never what the argument rests on.      *)
(*                                                                         *)
(* The bytes of a stream (AnnexB), for any units a start code cannot be    *)
(* found inside of: off says where each frame of the stream begins         *)
(* (LaidAt), and with k start codes found the scan stands between the end  *)
(* of the k-th and the place the next one shows at (Between).  A unit never*)
(* ends in a zero, so a zero before 0, 0, 1 belongs to the code; nothing   *)
(* between two codes shows a third.  What the muxer lays down behind       *)
(* lengths is read back one unit per length (Reads).                       *)
(***************************************************************************)
EXTENDS MseClock, MseStream, AnnexB, FoldFacts

-----------------------------------------------------------------------------
(* The media clock.                                                        *)

(* Every timestamp emitted so far lies at or below the shared floor.       *)
FloorCovers == emitted <= floor

(* An open timeline is past what it inherited, even before its first       *)
(* frame, and only an open one has stamped frames.                         *)
SeededPast ==
  /\ \A c \in open : inherited[c] < clock[c]
  /\ \A c \in Conn : frames[c] > 0 => c \in open

ClockInv == ClockTypeOK /\ FloorCovers /\ SeededPast

(* An interval is a positive number of ticks, whatever the wall clock says *)
(* (the clamp in MseTimeline::next).                                       *)
LEMMA TicksPositive ==
  ASSUME NEW c \in Conn, NEW e \in Elapsed, frames \in [Conn -> Nat]
  PROVE  Ticks(c, e) \in Nat /\ Ticks(c, e) > 0
BY ElapsedAssumption DEF Ticks

(* The floor is raised to a new timestamp and never lowered (the          *)
(* comparison in publish_mse_clock).                                       *)
LEMMA RaisedCovers ==
  ASSUME NEW ticks \in Nat, floor \in Nat
  PROVE  Raised(ticks) \in Nat /\ Raised(ticks) >= ticks /\ Raised(ticks) >= floor
BY DEF Raised

(* The three parts of the invariant hold before the first connection.      *)
LEMMA ClockInitInv == ClockInit => ClockInv
BY MaxFramesAssumption DEF ClockInit, ClockInv, ClockTypeOK, FloorCovers, SeededPast

(* Seeding and stamping keep the invariant, in any order and for any two   *)
(* overlapping connections.                                                *)
LEMMA ClockStepInv == ClockInv /\ [ClockNext]_clockVars => ClockInv'
<1> SUFFICES ASSUME ClockInv, [ClockNext]_clockVars PROVE ClockInv'
  OBVIOUS
<1> USE DEF ClockInv
<1>1. ASSUME NEW c \in Conn, Seed(c) PROVE ClockInv'
  <2>1. ClockTypeOK'
    BY <1>1 DEF Seed, ClockTypeOK
  <2>2. FloorCovers'
    BY <1>1 DEF Seed, ClockTypeOK, FloorCovers
  <2>3. ASSUME NEW d \in open' PROVE inherited'[d] < clock'[d]
    <3>1. CASE d = c
      BY <1>1, <3>1 DEF Seed, ClockTypeOK, FloorCovers
    <3>2. CASE d # c
      BY <1>1, <2>3, <3>2 DEF Seed, ClockTypeOK, SeededPast
    <3> QED BY <3>1, <3>2
  <2>4. ASSUME NEW d \in Conn, frames'[d] > 0 PROVE d \in open'
    BY <1>1, <2>4 DEF Seed, SeededPast
  <2> QED BY <2>1, <2>2, <2>3, <2>4 DEF SeededPast
<1>2. ASSUME NEW c \in Conn, NEW e \in Elapsed, Stamp(c, e) PROVE ClockInv'
  <2> DEFINE t == Ticks(c, e)
             stamp == clock[c] + t
  <2>1. t \in Nat /\ t > 0
    BY TicksPositive, MaxFramesAssumption DEF ClockTypeOK
  <2>2. stamp \in Nat /\ clock[c] \in Nat
    BY <2>1 DEF ClockTypeOK
  <2>3. Raised(stamp) \in Nat /\ Raised(stamp) >= stamp /\ Raised(stamp) >= floor
    BY <2>2, RaisedCovers DEF ClockTypeOK
  <2>4. /\ clock' = [clock EXCEPT ![c] = @ + t]
        /\ floor' = Raised(stamp)
        /\ emitted' = IF stamp > emitted THEN stamp ELSE emitted
        /\ frames' = [frames EXCEPT ![c] = @ + 1]
        /\ c \in open /\ frames[c] < MaxFrames
        /\ UNCHANGED <<open, inherited>>
    BY <1>2 DEF Stamp
  <2> HIDE DEF t, stamp
  <2>5. ClockTypeOK'
    BY <2>1, <2>2, <2>3, <2>4, MaxFramesAssumption DEF ClockTypeOK
  <2>6. FloorCovers'
    BY <2>2, <2>3, <2>4 DEF ClockTypeOK, FloorCovers
  <2>7. ASSUME NEW d \in open' PROVE inherited'[d] < clock'[d]
    <3>1. clock'[d] \in Nat /\ clock[d] \in Nat /\ clock'[d] >= clock[d]
      BY <2>1, <2>4, <2>7 DEF ClockTypeOK
    <3>2. inherited'[d] = inherited[d] /\ inherited[d] < clock[d] /\ inherited[d] \in Nat
      BY <2>4, <2>7 DEF ClockTypeOK, SeededPast
    <3> QED BY <3>1, <3>2
  <2>8. ASSUME NEW d \in Conn, frames'[d] > 0 PROVE d \in open'
    BY <2>4, <2>8 DEF ClockTypeOK, SeededPast
  <2> QED BY <2>5, <2>6, <2>7, <2>8 DEF SeededPast
<1>3. CASE UNCHANGED clockVars
  BY <1>3 DEF clockVars, ClockTypeOK, FloorCovers, SeededPast
<1> QED BY <1>1, <1>2, <1>3 DEF ClockNext

(* Nobody ever emits past the floor a new connection will be seeded from.  *)
THEOREM ClockInvariance == ClockSpec => []ClockInv
BY ClockInitInv, ClockStepInv, PTL DEF ClockSpec

(* A connection that takes over starts strictly past everything any        *)
(* connection had emitted when it was seeded: the seamless reconnect of    *)
(* seed_mse_clock and publish_mse_clock, for any number of overlapping     *)
(* connections.                                                            *)
THEOREM HandoffHolds == ClockSpec => []Handoff
<1>1. ClockInv => Handoff
  BY DEF ClockInv, SeededPast, Handoff
<1> QED BY <1>1, ClockInvariance, PTL

-----------------------------------------------------------------------------
(* The inductive invariant of a connection's bridge, in parts.             *)

MseTypes ==
  /\ MseTypeOK /\ Len(stream) <= MaxAus /\ latest <= Len(stream)
  /\ \A i \in 1..Len(queue) : queue[i] <= Len(stream)
  /\ Len(queue) <= Cap
  /\ bridge # "exit" => alive
  /\ bridge \in {"load", "drain", "send"} => latest >= 1

\* Units come in the order they were written, and a unit the bridge has not
\* passed is waiting or lost.
UnitLine ==
  /\ \A i \in 1..Len(queue) : latest < queue[i]
  /\ \A i, j \in 1..Len(queue) : i < j => queue[i] < queue[j]
  /\ \A n \in lost : n <= Len(stream)
  /\ bridge # "exit" =>
       \A n \in 1..Len(stream) :
          n \in lost \/ n <= latest \/ \E i \in 1..Len(queue) : queue[i] = n

\* A key frame passed the gate when n was lost already.
Paid(n) == \E j \in 1..Len(fed) : IsKey(fed[j].au) /\ n \in fed[j].lost

\* Something in the bridge's state still asks for a key frame.
Asks ==
  \/ bridge = "send" /\ IsKey(latest)
  \/ bridge \in {"start", "recv", "load", "drain"} /\ needKey
  \/ bridge = "drain" /\ skipped > 0
  \/ bridge \in {"load", "drain"} /\ queue # <<>>
  \/ bridge \in {"start", "recv", "send"} /\ Len(queue) = Cap

Owing == bridge # "exit" => \A n \in lost : Paid(n) \/ Asks

LastFed == IF fed = <<>> THEN 0 ELSE fed[Len(fed)].au

\* Between what was handed on last and the unit in hand nothing was skipped,
\* unless the gate knows.
NothingSkipped ==
  /\ LastFed <= latest
  /\ bridge \in {"load", "drain", "send"} => LastFed < latest
  /\ fed # <<>> /\ bridge = "recv" /\ ~needKey => latest = LastFed
  /\ fed # <<>> /\ bridge \in {"load", "drain"} /\ ~needKey /\ skipped = 0 =>
       \A n \in (LastFed + 1)..(latest - 1) : n \in lost
  /\ fed # <<>> /\ bridge = "send" /\ ~IsKey(latest) =>
       \A n \in (LastFed + 1)..(latest - 1) : n \in lost
  /\ bridge = "send" /\ ~IsKey(latest) => \A n \in lost : n < latest => Paid(n)
  /\ bridge \in {"start", "send"} => ~needKey
  /\ bridge = "start" => fed = <<>> /\ latest = 0

\* What holds of a unit handed on and the one before it.
Follows(p, q) ==
  /\ p < q
  /\ (\E n \in (p + 1)..(q - 1) : n \notin lost) => IsKey(q)

FedSound ==
  /\ \A i \in 1..Len(fed) : fed[i].au <= Len(stream)
  /\ \A i \in 1..(Len(fed) - 1) : Follows(fed[i].au, fed[i + 1].au)
  /\ \A i \in 1..(Len(fed) - 1) :
       \A n \in (fed[i].au + 1)..(fed[i + 1].au - 1) :
         ~IsKey(fed[i + 1].au) =>
           \E j \in 1..i : IsKey(fed[j].au) /\ n \in fed[j].lost

\* What was sent and what waits is the end of what was handed on.
SentSound ==
  /\ initialized <=> sent # <<>>
  /\ \A i \in 1..(Len(sent) - 1) : Follows(sent[i], sent[i + 1])
  /\ \A i \in 1..Len(sent) : sent[i] <= Len(stream)
  /\ out # <<>> => fed # <<>> /\ out[1] = LastFed
  /\ body # "dropped" /\ sent # <<>> /\ out = <<>> =>
       fed # <<>> /\ sent[Len(sent)] = LastFed
  /\ body # "dropped" /\ sent # <<>> /\ out # <<>> =>
       Len(fed) > 1 /\ sent[Len(sent)] = fed[Len(fed) - 1].au
  /\ body = "dropped" => out = <<>>

MseInv == MseTypes /\ UnitLine /\ Owing /\ NothingSkipped /\ FedSound /\ SentSound

-----------------------------------------------------------------------------
(* The invariant is kept.                                                  *)

LEMMA MseInitInv == MseInit => MseInv
<1> SUFFICES ASSUME MseInit PROVE MseInv
  OBVIOUS
<1> USE DEF MseInit
<1>1. MseTypes
  <2>0. alive \in BOOLEAN /\ owed \in BOOLEAN /\ needKey \in BOOLEAN /\ initialized \in BOOLEAN
    BY Zenon
  <2>1. Slot!SlotTypeOK  BY <2>0 DEF Slot!SlotTypeOK
  <2>2. stream \in Seq(Kinds) /\ out \in Seq(Aus) /\ sent \in Seq(Aus)
        /\ fed \in Seq([au : Aus, lost : SUBSET Aus])
        /\ Len(stream) = 0 /\ Len(out) = 0 /\ Len(queue) = 0
    OBVIOUS
  <2>3. MseTypeOK  BY <2>0, <2>1, <2>2, MaxAusAssumption DEF MseTypeOK, Cap
  <2> QED  BY <2>2, <2>3, MaxAusAssumption DEF MseTypes, Cap
<1>2. UnitLine /\ Owing  BY DEF UnitLine, Owing
<1>3. NothingSkipped  BY DEF NothingSkipped, LastFed
<1>4. FedSound /\ SentSound  BY DEF FedSound, SentSound
<1> QED  BY <1>1, <1>2, <1>3, <1>4 DEF MseInv

LEMMA Members ==
  ASSUME NEW S, NEW s \in Seq(S)
  PROVE  \A i \in 1..Len(s) : s[i] \in S
OBVIOUS

\* The facts every step starts from.
LEMMA MseFacts ==
  ASSUME MseInv
  PROVE  /\ MaxAus \in Nat /\ Len(stream) \in Nat /\ Len(fed) \in Nat /\ Len(sent) \in Nat
         /\ Len(queue) \in Nat /\ queue \in Seq(Nat) /\ latest \in Nat /\ skipped \in Nat
         /\ \A i \in 1..Len(queue) : queue[i] \in Nat
         /\ fed \in Seq([au : Aus, lost : SUBSET Aus]) /\ Aus \subseteq Nat \ {0}
         /\ \A i \in 1..Len(fed) : fed[i].au \in Nat \ {0} /\ fed[i].lost \subseteq Aus
         /\ sent \in Seq(Aus) /\ \A i \in 1..Len(sent) : sent[i] \in Nat \ {0}
         /\ lost \subseteq Nat \ {0}
         /\ out \in Seq(Aus) /\ (out # <<>> => Len(out) = 1 /\ out[1] \in Nat \ {0})
         /\ LastFed \in Nat
<1>1. MseTypeOK /\ Slot!SlotTypeOK  BY DEF MseInv, MseTypes, MseTypeOK
<1>2. Aus \subseteq Nat \ {0} /\ MaxAus \in Nat  BY MaxAusAssumption DEF Aus
<1>3. /\ queue \in Seq(Nat) /\ stream \in Seq(Kinds) /\ sent \in Seq(Aus)
      /\ fed \in Seq([au : Aus, lost : SUBSET Aus]) /\ out \in Seq(Aus) /\ Len(out) <= 1
      /\ lost \subseteq Aus /\ latest \in 0..MaxAus /\ skipped \in 0..Cap
  BY <1>1 DEF MseTypeOK, Slot!SlotTypeOK
<1>4. \A i \in 1..Len(fed) : fed[i] \in [au : Aus, lost : SUBSET Aus]
  BY <1>3, Members
<1>5. \A i \in 1..Len(fed) : fed[i].au \in Aus /\ fed[i].lost \subseteq Aus  BY <1>4
<1>6. \A i \in 1..Len(sent) : sent[i] \in Aus  BY <1>3
<1>7. \A i \in 1..Len(queue) : queue[i] \in Nat  BY <1>3, Members
<1>8. out # <<>> => Len(out) = 1 /\ out[1] \in Aus
  <2> SUFFICES ASSUME out # <<>> PROVE Len(out) = 1 /\ out[1] \in Aus
    OBVIOUS
  <2>0. out \in Seq(Aus) /\ Len(out) <= 1  BY <1>3
  <2>1. Len(out) \in Nat  BY <2>0
  <2>2. Len(out) = 1
    <3>1. Len(out) # 0  BY <2>0, EmptySeq
    <3> QED  BY <2>0, <2>1, <3>1
  <2> QED  BY <2>2, <1>3, Members
<1>9. LastFed \in Nat
  <2>1. CASE fed = <<>>  BY <2>1 DEF LastFed
  <2>2. CASE fed # <<>>
    <3>1. Len(fed) \in 1..Len(fed)  BY <2>2, <1>3
    <3>2. fed[Len(fed)].au \in Nat  BY <3>1, <1>2, <1>5
    <3> QED  BY <3>2, <2>2 DEF LastFed
  <2> QED  BY <2>1, <2>2
<1>10. latest \in Nat /\ skipped \in Nat /\ lost \subseteq Nat \ {0}
  BY <1>2, <1>3 DEF Cap
<1>11. /\ Len(stream) \in Nat /\ Len(fed) \in Nat /\ Len(sent) \in Nat
       /\ Len(queue) \in Nat
  BY <1>3
<1> QED  BY <1>2, <1>3, <1>5, <1>6, <1>7, <1>8, <1>9, <1>10, <1>11

\* Further units and further losses change nothing about what was handed on.
LEMMA PastKept ==
  ASSUME MseInv, Len(stream') \in Nat, Len(stream) <= Len(stream'),
         \A n \in 1..Len(stream) : stream'[n] = stream[n],
         \A n \in lost : n \in lost', fed' = fed
  PROVE  /\ FedSound' /\ LastFed' = LastFed
         /\ \A n : Paid(n) => Paid(n)'
         /\ \A n \in 1..Len(stream) : IsKey(n)' <=> IsKey(n)
         /\ UNCHANGED <<initialized, sent, out, body>> => SentSound'
<1>1. FedSound /\ SentSound  BY DEF MseInv
<1>2. /\ Len(stream) \in Nat /\ Len(fed) \in Nat /\ Len(sent) \in Nat
      /\ \A i \in 1..Len(fed) : fed[i].au \in Nat \ {0}
      /\ \A i \in 1..Len(sent) : sent[i] \in Nat \ {0}
  BY MseFacts
<1>3. \A n \in 1..Len(stream) : IsKey(n)' <=> IsKey(n)  BY DEF IsKey
<1>4. \A i \in 1..Len(fed) : fed[i].au \in 1..Len(stream)  BY <1>1, <1>2 DEF FedSound
<1>5. \A i \in 1..Len(sent) : sent[i] \in 1..Len(stream)  BY <1>1, <1>2 DEF SentSound
<1>6. \A p \in Nat, q \in 1..Len(stream) : Follows(p, q) => Follows(p, q)'
  BY <1>3 DEF Follows
<1>7. LastFed' = LastFed  BY DEF LastFed
<1>8. \A n : Paid(n) => Paid(n)'
  <2> SUFFICES ASSUME NEW n, NEW j \in 1..Len(fed), IsKey(fed[j].au), n \in fed[j].lost
               PROVE  Paid(n)'
    BY DEF Paid
  <2>1. stream'[fed[j].au] = stream[fed[j].au]  BY <1>4
  <2> QED  BY <2>1 DEF Paid, IsKey
<1>9. FedSound'
  <2>1. \A i \in 1..Len(fed) : fed[i].au <= Len(stream')  BY <1>1, <1>2 DEF FedSound
  <2>2. \A i \in 1..(Len(fed) - 1) : i \in 1..Len(fed) /\ i + 1 \in 1..Len(fed)
    BY <1>2
  <2>3. ASSUME NEW i \in 1..(Len(fed) - 1)
        PROVE  /\ fed[i].au < fed[i + 1].au
               /\ (\E n \in (fed[i].au + 1)..(fed[i + 1].au - 1) : n \notin lost')
                    => stream'[fed[i + 1].au] # "P"
    <3>1. Follows(fed[i].au, fed[i + 1].au)  BY <1>1 DEF FedSound
    <3>2. stream'[fed[i + 1].au] = stream[fed[i + 1].au]  BY <2>2, <1>4
    <3> QED  BY <3>1, <3>2 DEF Follows, IsKey
  <2>4. ASSUME NEW i \in 1..(Len(fed) - 1),
               NEW n \in (fed[i].au + 1)..(fed[i + 1].au - 1),
               ~(stream'[fed[i + 1].au] # "P")
        PROVE  \E j \in 1..i : stream'[fed[j].au] # "P" /\ n \in fed[j].lost
    <3>1. stream'[fed[i + 1].au] = stream[fed[i + 1].au]  BY <2>2, <1>4
    <3>2. PICK j \in 1..i : IsKey(fed[j].au) /\ n \in fed[j].lost
      BY <3>1, <2>4, <1>1 DEF FedSound, IsKey
    <3>3. j \in 1..Len(fed)  BY <1>2
    <3>4. stream'[fed[j].au] = stream[fed[j].au]  BY <3>3, <1>4
    <3> QED  BY <3>2, <3>4 DEF IsKey
  <2> QED  BY <2>1, <2>3, <2>4 DEF FedSound, Follows, IsKey
<1>10. ASSUME UNCHANGED <<initialized, sent, out, body>> PROVE SentSound'
  <2>1. \A i \in 1..Len(sent) : sent[i] <= Len(stream')  BY <1>1, <1>2 DEF SentSound
  <2>2. ASSUME NEW i \in 1..(Len(sent) - 1)
        PROVE  /\ sent[i] < sent[i + 1]
               /\ (\E n \in (sent[i] + 1)..(sent[i + 1] - 1) : n \notin lost')
                    => stream'[sent[i + 1]] # "P"
    <3>1. Follows(sent[i], sent[i + 1])  BY <1>1 DEF SentSound
    <3>2. i + 1 \in 1..Len(sent)  BY <1>2
    <3>3. stream'[sent[i + 1]] = stream[sent[i + 1]]  BY <3>2, <1>5
    <3> QED  BY <3>1, <3>3 DEF Follows, IsKey
  <2>3. \A i \in 1..(Len(sent') - 1) : Follows(sent[i], sent[i + 1])'
    BY <2>2, <1>10 DEF Follows, IsKey
  <2> QED  BY <2>1, <2>3, <1>1, <1>7, <1>10 DEF SentSound
<1> QED  BY <1>3, <1>7, <1>8, <1>9, <1>10

LEMMA MseTypesKept == MseInv /\ [MseNext]_mseVars => MseTypes'
<1> SUFFICES ASSUME MseInv, [MseNext]_mseVars PROVE MseTypes'
  OBVIOUS
<1>1. MseTypes /\ MseTypeOK /\ Slot!SlotTypeOK  BY DEF MseInv, MseTypes, MseTypeOK
<1>2. /\ MaxAus \in Nat /\ Len(stream) \in Nat /\ latest \in Nat /\ queue \in Seq(Nat)
      /\ fed \in Seq([au : Aus, lost : SUBSET Aus]) /\ Aus \subseteq Nat \ {0}
      /\ sent \in Seq(Aus) /\ out \in Seq(Aus) /\ Len(queue) \in Nat
      /\ \A i \in 1..Len(queue) : queue[i] \in Nat
  BY MseFacts
<1>3. ASSUME queue # <<>>, queue' = Tail(queue), stream' = stream
      PROVE  /\ queue' \in Seq(Nat) /\ Len(queue') <= Cap /\ Head(queue) \in 1..Len(stream)
             /\ \A i \in 1..Len(queue') : queue'[i] <= Len(stream)
  <2>1. /\ Len(queue) \in Nat \ {0} /\ Len(queue') = Len(queue) - 1 /\ queue' \in Seq(Nat)
        /\ Head(queue) = queue[1] /\ \A i \in 1..Len(queue') : queue'[i] = queue[i + 1]
    BY <1>2, <1>3
  <2>2. 1 \in 1..Len(queue) /\ Len(queue) <= Cap  BY <2>1, <1>1 DEF MseTypes
  <2>3. Head(queue) \in Nat /\ latest < Head(queue) /\ Head(queue) <= Len(stream)
    BY <2>1, <2>2, <1>1, <1>2 DEF MseTypes, MseInv, UnitLine
  <2>4. \A i \in 1..Len(queue') : i + 1 \in 1..Len(queue)  BY <2>1
  <2>5. \A i \in 1..Len(queue') : queue'[i] <= Len(stream)
    BY <2>1, <2>4, <1>1, <1>3 DEF MseTypes
  <2> QED  BY <2>1, <2>2, <2>3, <2>5, <1>2 DEF Cap
<1>4. Len(stream) <= MaxAus /\ latest <= Len(stream) /\ (bridge # "exit" => alive)
      /\ (bridge \in {"load", "drain", "send"} => latest >= 1) /\ Len(queue) <= Cap
      /\ \A i \in 1..Len(queue) : queue[i] <= Len(stream)
  BY <1>1 DEF MseTypes
<1> USE DEF slot, gate, hand, client
<1>5. ASSUME NEW kind \in Kinds, Publish(kind) PROVE MseTypes'
  <2>1. /\ Len(stream) < MaxAus /\ stream' = Append(stream, kind)
        /\ UNCHANGED <<bridge, hand, gate, out, client, fed, linked, alive, dropped>>
        /\ last' = Len(stream) + 1
        /\ \/ /\ queue' = Append(queue, Len(stream) + 1) /\ Len(queue) < Cap
              /\ UNCHANGED <<lost, owed>>
           \/ queue' = queue /\ lost' = lost \cup {Len(stream) + 1} /\ owed' = TRUE
    BY <1>5 DEF Publish, Slot!OfferTaken, Slot!OfferFailed, Slot!HasRoom
  <2>2. stream' \in Seq(Kinds) /\ Len(stream') = Len(stream) + 1 /\ Len(stream') <= MaxAus
    BY <2>1, <1>1, <1>2 DEF MseTypeOK
  <2>3. /\ queue' \in Seq(Nat) /\ Len(queue') <= Cap
        /\ \A i \in 1..Len(queue') : queue'[i] <= Len(stream')
    <3>1. CASE queue' = Append(queue, Len(stream) + 1) /\ Len(queue) < Cap
      <4>1. Len(queue') = Len(queue) + 1 /\ queue' \in Seq(Nat)
        BY <3>1, <1>2
      <4>2. \A i \in 1..Len(queue') : \/ i \in 1..Len(queue) /\ queue'[i] = queue[i]
                                      \/ queue'[i] = Len(stream) + 1
        BY <3>1, <1>2
      <4>3. \A i \in 1..Len(queue) : queue[i] <= Len(stream) + 1
        BY <1>2, <1>4
      <4>4. \A i \in 1..Len(queue') : queue'[i] <= Len(stream')
        BY SMTT(30), <4>2, <4>3, <2>2, <1>2
      <4> QED  BY <3>1, <4>1, <4>4, <1>2 DEF Cap
    <3>2. CASE queue' = queue
      <4>1. \A i \in 1..Len(queue) : queue[i] <= Len(stream) + 1
        BY <1>1, <1>2 DEF MseTypes
      <4> QED  BY <3>2, <4>1, <2>2, <1>1, <1>2 DEF MseTypes
    <3> QED  BY <3>1, <3>2, <2>1
  <2>4. owed' \in BOOLEAN
    <3>1. owed' = owed \/ owed' = TRUE  BY <2>1
    <3> QED  BY <3>1, <1>1, Zenon DEF Slot!SlotTypeOK
  <2>5. Slot!SlotTypeOK'
    <3>1. last' \in Nat  BY <2>1, <1>2
    <3> QED  BY <3>1, <2>1, <2>3, <2>4, <1>1 DEF Slot!SlotTypeOK
  <2>6. lost' \subseteq Aus
    <3>1. Len(stream) + 1 \in Aus /\ lost \subseteq Aus
      BY <2>1, <1>1, <1>2 DEF Aus, MseTypeOK
    <3> QED  BY <3>1, <2>1
  <2>7. MseTypeOK'  BY <2>1, <2>2, <2>5, <2>6, <1>1 DEF MseTypeOK
  <2> QED  BY <2>1, <2>2, <2>3, <2>7, <1>1, <1>2, <1>4 DEF MseTypes
<1>6. CASE CountLoss
  <2>1. /\ owed' = FALSE /\ dropped' = dropped + 1
        /\ UNCHANGED <<linked, alive, queue, last, stream, bridge, latest, skipped, droppedNow,
                       needKey, seenDrops, out, body, initialized, sent, lost, fed>>
    BY <1>6 DEF CountLoss, Slot!CountLoss
  <2>2. owed' \in BOOLEAN  BY <2>1, Zenon
  <2>3. Slot!SlotTypeOK'  BY <2>1, <2>2, <1>1 DEF Slot!SlotTypeOK
  <2>4. MseTypeOK'  BY <2>1, <2>3, <1>1 DEF MseTypeOK
  <2> QED  BY <2>1, <2>4, <1>4 DEF MseTypes
<1>7. CASE Start
  BY <1>1, <1>7 DEF Start, MseTypes, MseTypeOK, Slot!SlotTypeOK
<1>8. CASE RecvAu
  <2>1. /\ queue # <<>> /\ queue' = Tail(queue) /\ latest' = Head(queue) /\ skipped' = 0
        /\ bridge' = "load" /\ alive
        /\ UNCHANGED <<stream, droppedNow, gate, out, client, lost, fed>>
        /\ UNCHANGED <<linked, alive, owed, dropped, last>>
    BY <1>8 DEF RecvAu, Slot!Receive
  <2>2. /\ queue' \in Seq(Nat) /\ Len(queue') <= Cap /\ Head(queue) \in 1..Len(stream)
        /\ \A i \in 1..Len(queue') : queue'[i] <= Len(stream)
    BY <2>1, <1>3
  <2>3. Slot!SlotTypeOK'  BY <2>1, <2>2, <1>1 DEF Slot!SlotTypeOK
  <2>4. latest' \in 0..MaxAus /\ latest' <= Len(stream) /\ latest' >= 1
    BY <2>1, <2>2, <1>2, <1>4
  <2>5. MseTypeOK'  BY <2>1, <2>3, <2>4, <1>1 DEF MseTypeOK, Cap
  <2> QED  BY <2>1, <2>2, <2>4, <2>5, <1>4 DEF MseTypes
<1>9. CASE RecvEnd \/ SendFails
  <2>1. /\ bridge' = "exit" /\ alive' = FALSE /\ queue' = <<>>
        /\ UNCHANGED <<linked, owed, dropped, last>>
        /\ UNCHANGED <<stream, hand, gate, out, client, lost, fed>>
    BY <1>9 DEF RecvEnd, SendFails, Slot!CloseReceiver
  <2>2. Slot!SlotTypeOK'
    <3>1. alive' \in BOOLEAN  BY <2>1, Zenon
    <3>2. queue' \in Seq(Nat)  BY <2>1
    <3> QED  BY <2>1, <3>1, <3>2, <1>1 DEF Slot!SlotTypeOK
  <2>3. MseTypeOK'  BY <2>1, <2>2, <1>1 DEF MseTypeOK
  <2>4. Len(queue') = 0  BY <2>1
  <2> QED  BY <2>1, <2>3, <2>4, <1>4 DEF MseTypes, Cap
<1>10. CASE LoadDropped
  BY <1>1, <1>10 DEF LoadDropped, MseTypes, MseTypeOK, Slot!SlotTypeOK
<1>11. CASE DrainOne
  <2>1. /\ queue # <<>> /\ queue' = Tail(queue) /\ latest' = Head(queue)
        /\ skipped' = IF skipped < Cap THEN skipped + 1 ELSE skipped
        /\ bridge = "drain"
        /\ UNCHANGED <<stream, bridge, droppedNow, gate, out, client, lost, fed>>
        /\ UNCHANGED <<linked, alive, owed, dropped, last>>
    BY <1>11 DEF DrainOne, Slot!Receive
  <2>2. /\ queue' \in Seq(Nat) /\ Len(queue') <= Cap /\ Head(queue) \in 1..Len(stream)
        /\ \A i \in 1..Len(queue') : queue'[i] <= Len(stream)
    BY <2>1, <1>3
  <2>3. Slot!SlotTypeOK'  BY <2>1, <2>2, <1>1 DEF Slot!SlotTypeOK
  <2>4. latest' \in 0..MaxAus /\ latest' <= Len(stream) /\ latest' >= 1
    BY <2>1, <2>2, <1>2, <1>4
  <2>5. skipped' \in 0..Cap  BY <2>1, <1>1 DEF MseTypeOK, Cap
  <2>6. MseTypeOK'  BY <2>1, <2>3, <2>4, <2>5, <1>1 DEF MseTypeOK
  <2> QED  BY <2>1, <2>2, <2>4, <2>6, <1>4 DEF MseTypes
<1>12. CASE DrainEnd
  <2>1. needKey' \in BOOLEAN  BY <1>12, Zenon DEF DrainEnd
  <2>2. seenDrops' \in Nat /\ bridge' \in {"send", "recv"}
    BY <1>12, <1>1 DEF DrainEnd, MseTypeOK
  <2>3. UNCHANGED <<linked, alive, queue, owed, dropped, last, stream, latest, skipped,
                    droppedNow, out, body, initialized, sent, lost, fed>> /\ bridge = "drain"
    BY <1>12 DEF DrainEnd
  <2>4. Slot!SlotTypeOK'  BY <2>3, <1>1 DEF Slot!SlotTypeOK
  <2>5. MseTypeOK'  BY <2>1, <2>2, <2>3, <2>4, <1>1 DEF MseTypeOK
  <2> QED  BY <2>2, <2>3, <2>5, <1>4 DEF MseTypes
<1>13. CASE SendAu
  <2>1. /\ out' = <<latest>> /\ bridge = "send" /\ bridge' = "recv"
        /\ fed' = Append(fed, [au |-> latest, lost |-> lost])
        /\ UNCHANGED <<linked, alive, queue, owed, dropped, last, stream, latest, skipped,
                       droppedNow, needKey, seenDrops, body, initialized, sent, lost>>
    BY <1>13 DEF SendAu
  <2>2. latest \in Aus  BY <2>1, <1>2, <1>4 DEF Aus
  <2>3. out' \in Seq(Aus) /\ Len(out') <= 1  BY <2>1, <2>2
  <2>4. [au |-> latest, lost |-> lost] \in [au : Aus, lost : SUBSET Aus]
    BY <2>2, <1>1 DEF MseTypeOK
  <2>5. fed' \in Seq([au : Aus, lost : SUBSET Aus])  BY <2>1, <2>4, <1>2
  <2>6. Slot!SlotTypeOK'  BY <2>1, <1>1 DEF Slot!SlotTypeOK
  <2>7. MseTypeOK'  BY <2>1, <2>3, <2>5, <2>6, <1>1 DEF MseTypeOK
  <2> QED  BY <2>1, <2>7, <1>4 DEF MseTypes
<1>14. CASE Poll
  BY <1>1, <1>14 DEF Poll, MseTypes, MseTypeOK, Slot!SlotTypeOK
<1>15. CASE Emit
  <2>1. /\ out # <<>> /\ out' = <<>>
        /\ \/ initialized' = TRUE /\ sent' = Append(sent, Head(out))
           \/ UNCHANGED <<initialized, sent>>
        /\ UNCHANGED <<linked, alive, queue, owed, dropped, last, stream, bridge, latest,
                       skipped, droppedNow, needKey, seenDrops, body, lost, fed>>
    BY <1>15 DEF Emit
  <2>2. Head(out) \in Aus  BY <2>1, <1>2
  <2>3. out' \in Seq(Aus) /\ Len(out') <= 1  BY <2>1
  <2>4. sent' \in Seq(Aus)
    <3>1. sent' = Append(sent, Head(out)) \/ sent' = sent  BY <2>1
    <3>2. Append(sent, Head(out)) \in Seq(Aus)  BY <2>2, <1>2
    <3> QED  BY <3>1, <3>2, <1>2
  <2>5. initialized' \in BOOLEAN
    <3>1. initialized' = TRUE \/ initialized' = initialized  BY <2>1
    <3> QED  BY <3>1, <1>1, Zenon DEF MseTypeOK
  <2>6. Slot!SlotTypeOK'  BY <2>1, <1>1 DEF Slot!SlotTypeOK
  <2>7. MseTypeOK'  BY <2>1, <2>3, <2>4, <2>5, <2>6, <1>1 DEF MseTypeOK
  <2> QED  BY <2>1, <2>7, <1>4 DEF MseTypes
<1>16. CASE DropBody
  <2>1. /\ body' = "dropped" /\ out' = <<>>
        /\ UNCHANGED <<alive, queue, owed, dropped, stream, bridge, latest, skipped,
                       droppedNow, needKey, seenDrops, initialized, sent, lost, fed>>
        /\ \/ linked' = "unlinked" /\ last' = 0
           \/ UNCHANGED <<linked, last>>
    BY <1>16 DEF DropBody, Slot!Unlink
  <2>2. Slot!SlotTypeOK'  BY <2>1, <1>1 DEF Slot!SlotTypeOK
  <2>3. out' \in Seq(Aus) /\ Len(out') <= 1  BY <2>1
  <2>4. MseTypeOK'  BY <2>1, <2>2, <2>3, <1>1 DEF MseTypeOK
  <2> QED  BY <2>1, <2>4, <1>4 DEF MseTypes
<1>17. CASE UNCHANGED mseVars
  BY <1>1, <1>17 DEF mseVars, MseTypes, MseTypeOK, Slot!SlotTypeOK
<1> QED
  BY <1>5, <1>6, <1>7, <1>8, <1>9, <1>10, <1>11, <1>12, <1>13, <1>14, <1>15, <1>16, <1>17
  DEF MseNext, BridgeStep

\* What the head of the queue is, and what is left behind it.
LEMMA TakeHead ==
  ASSUME MseInv, bridge # "exit", queue # <<>>, queue' = Tail(queue),
         latest' = Head(queue), bridge' # "exit", UNCHANGED <<stream, lost>>
  PROVE  /\ UnitLine' /\ latest < latest' /\ latest' \in Nat
         /\ \A n \in (latest + 1)..(latest' - 1) : n \in lost
         /\ Len(queue) = Cap => queue' # <<>>
<1>1. /\ Len(queue) \in Nat /\ queue \in Seq(Nat) /\ latest \in Nat /\ Len(stream) \in Nat
      /\ \A i \in 1..Len(queue) : queue[i] \in Nat
      /\ lost \subseteq Nat \ {0}
  BY MseFacts
<1>2. UnitLine /\ \A i \in 1..Len(queue) : queue[i] <= Len(stream)
  BY DEF MseInv, MseTypes
<1>3. /\ Len(queue) \in Nat \ {0} /\ Len(queue') = Len(queue) - 1 /\ queue' \in Seq(Nat)
      /\ latest' = queue[1] /\ \A i \in 1..Len(queue') : queue'[i] = queue[i + 1]
  BY <1>1
<1>4. 1 \in 1..Len(queue) /\ \A i \in 1..Len(queue') : i + 1 \in 1..Len(queue) /\ 1 < i + 1
  BY <1>3
<1>5. latest < latest' /\ latest' \in Nat /\ latest' <= Len(stream)
  BY <1>1, <1>2, <1>3, <1>4 DEF UnitLine
<1>6. \A i \in 1..Len(queue') : latest' < queue'[i]
  BY <1>2, <1>3, <1>4 DEF UnitLine
<1>7. \A i, j \in 1..Len(queue') : i < j => queue'[i] < queue'[j]
  <2> SUFFICES ASSUME NEW i \in 1..Len(queue'), NEW j \in 1..Len(queue'), i < j
               PROVE  queue'[i] < queue'[j]
    OBVIOUS
  <2>1. i + 1 < j + 1 /\ i + 1 \in 1..Len(queue) /\ j + 1 \in 1..Len(queue)  BY <1>4
  <2> QED  BY <2>1, <1>2, <1>3 DEF UnitLine
<1>8. ASSUME NEW n \in 1..Len(stream), n \notin lost
      PROVE  n <= latest \/ n = latest' \/ \E i \in 1..Len(queue') : queue'[i] = n
  <2>1. CASE n <= latest  BY <2>1
  <2>2. ASSUME NEW i \in 1..Len(queue), queue[i] = n
        PROVE  n = latest' \/ \E k \in 1..Len(queue') : queue'[k] = n
    <3>1. CASE i = 1  BY <3>1, <2>2, <1>3
    <3>2. CASE i # 1
      <4>1. i - 1 \in 1..Len(queue') /\ (i - 1) + 1 = i  BY <3>2, <1>3
      <4>2. queue'[i - 1] = queue[i]  BY <4>1, <1>3
      <4> QED  BY <4>1, <4>2, <2>2
    <3> QED  BY <3>1, <3>2
  <2> QED  BY <2>1, <2>2, <1>2, <1>8 DEF UnitLine
<1>9. \A n \in 1..Len(stream) :
        n \in lost \/ n <= latest' \/ \E i \in 1..Len(queue') : queue'[i] = n
  BY <1>1, <1>5, <1>8
<1>10. UnitLine'
  BY <1>2, <1>6, <1>7, <1>9 DEF UnitLine
<1>11. \A n \in (latest + 1)..(latest' - 1) : n \in lost
  <2> SUFFICES ASSUME NEW n \in (latest + 1)..(latest' - 1), n \notin lost PROVE FALSE
    OBVIOUS
  <2>1. n \in 1..Len(stream) /\ ~(n <= latest) /\ n < latest'  BY <1>1, <1>5
  <2>2. PICK i \in 1..Len(queue') : queue'[i] = n  BY <2>1, <1>5, <1>8
  <2>3. latest' < n  BY <2>2, <1>6
  <2> QED  BY <2>1, <2>3, <1>5
<1>12. Len(queue) = Cap => queue' # <<>>
  <2>1. Len(queue) = Cap => Len(queue') = 1  BY <1>3 DEF Cap
  <2>2. Len(<<>>) = 0  OBVIOUS
  <2> QED  BY <2>1, <2>2
<1> QED  BY <1>5, <1>10, <1>11, <1>12

\* The hub writes a unit: it waits or is lost.
LEMMA PublishKeeps ==
  ASSUME MseInv, MseTypes', NEW kind \in Kinds, Publish(kind)
  PROVE  MseInv'
<1> DEFINE n == Len(stream) + 1
<1>1. /\ Len(queue) \in Nat /\ queue \in Seq(Nat) /\ latest \in Nat /\ Len(stream) \in Nat
      /\ \A i \in 1..Len(queue) : queue[i] \in Nat
      /\ lost \subseteq Nat \ {0} /\ LastFed \in Nat
  BY MseFacts
<1>2. MseTypes /\ UnitLine /\ Owing /\ NothingSkipped /\ latest <= Len(stream)
      /\ (\A i \in 1..Len(queue) : queue[i] <= Len(stream))
      /\ (bridge # "exit" => alive) /\ Len(queue) <= Cap
      /\ (bridge \in {"load", "drain", "send"} => latest >= 1)
  BY DEF MseInv, MseTypes
<1>3. /\ stream' = Append(stream, kind) /\ bridge' = bridge /\ fed' = fed
      /\ UNCHANGED <<latest, skipped, needKey, out, body, initialized, sent>>
      /\ \/ queue' = Append(queue, n) /\ Len(queue) < Cap /\ lost' = lost
         \/ queue' = queue /\ lost' = lost \cup {n} /\ (alive => ~(Len(queue) < Cap))
  BY DEF Publish, Slot!OfferTaken, Slot!OfferFailed, Slot!HasRoom, hand, gate, client
<1>4. Len(stream') = n /\ \A i \in 1..Len(stream) : stream'[i] = stream[i]
  <2>1. stream \in Seq(Kinds)  BY <1>2 DEF MseTypes, MseTypeOK
  <2> QED  BY <2>1, <1>3
<1>5. n \in Nat /\ n > Len(stream)  BY <1>1
<1>6. /\ FedSound' /\ LastFed' = LastFed /\ SentSound'
      /\ \A m : Paid(m) => Paid(m)'
      /\ \A m \in 1..Len(stream) : IsKey(m)' <=> IsKey(m)
  <2>1. \A m \in lost : m \in lost'  BY <1>3
  <2> QED  BY <2>1, <1>1, <1>3, <1>4, <1>5, PastKept
<1>9. bridge = "send" => (IsKey(latest)' <=> IsKey(latest))
  <2>1. bridge = "send" => latest \in 1..Len(stream)
    <3>1. bridge = "send" => latest >= 1  BY <1>2
    <3>2. latest <= Len(stream)  BY <1>2
    <3> QED  BY <3>1, <3>2, <1>1
  <2>2. bridge = "send" => stream'[latest'] = stream[latest]  BY <2>1, <1>3, <1>4
  <2> QED  BY <2>2 DEF IsKey
<1>7. CASE queue' = Append(queue, n) /\ Len(queue) < Cap /\ lost' = lost
  <2>1. /\ Len(queue') = Len(queue) + 1 /\ queue'[Len(queue) + 1] = n /\ queue' # <<>>
        /\ \A i \in 1..Len(queue) : queue'[i] = queue[i]
    BY <1>1, <1>5, <1>7
  <2>2. \A i \in 1..Len(queue') : i \in 1..Len(queue) \/ i = Len(queue) + 1
    BY <2>1, <1>1
  <2>3. UnitLine'
    <3>1. \A i \in 1..Len(queue') : latest < queue'[i]
      BY <2>1, <2>2, <1>1, <1>2, <1>5 DEF UnitLine
    <3>2. \A i, j \in 1..Len(queue') : i < j => queue'[i] < queue'[j]
      <4> SUFFICES ASSUME NEW i \in 1..Len(queue'), NEW j \in 1..Len(queue'), i < j
                   PROVE  queue'[i] < queue'[j]
        OBVIOUS
      <4>1. i \in 1..Len(queue)  BY <2>1, <1>1
      <4>2. CASE j \in 1..Len(queue)  BY <4>1, <4>2, <2>1, <1>2 DEF UnitLine
      <4>3. CASE j = Len(queue) + 1
        BY <4>1, <4>3, <2>1, <1>1, <1>2, <1>5
      <4> QED  BY <4>2, <4>3, <2>2
    <3>3. \A m \in lost' : m <= Len(stream')
      BY <1>1, <1>2, <1>4, <1>5, <1>7 DEF UnitLine
    <3>4. ASSUME bridge # "exit", NEW m \in 1..Len(stream')
          PROVE  m \in lost' \/ m <= latest \/ \E i \in 1..Len(queue') : queue'[i] = m
      <4>1. CASE m = n
        <5>1. Len(queue) + 1 \in 1..Len(queue')  BY <2>1, <1>1
        <5> QED  BY <5>1, <4>1, <2>1
      <4>2. CASE m \in 1..Len(stream)
        <5>1. m \in lost \/ m <= latest \/ \E i \in 1..Len(queue) : queue[i] = m
          BY <4>2, <3>4, <1>2 DEF UnitLine
        <5>2. \A i \in 1..Len(queue) : i \in 1..Len(queue')  BY <2>1, <1>1
        <5> QED  BY <5>1, <5>2, <2>1, <1>7
      <4> QED  BY <4>1, <4>2, <1>1, <1>4
    <3> QED  BY <3>1, <3>2, <3>3, <3>4, <1>3 DEF UnitLine
  <2>4. Owing'
    <3> SUFFICES ASSUME bridge # "exit", NEW m \in lost PROVE Paid(m)' \/ Asks'
      BY <1>3, <1>7 DEF Owing
    <3>1. CASE Paid(m)  BY <3>1, <1>6
    <3>2. CASE Asks
      <4>1. Len(queue) # Cap  BY <1>1, <1>7 DEF Cap
      <4> QED  BY <4>1, <1>9, <3>2, <2>1, <1>3 DEF Asks
    <3> QED  BY <3>1, <3>2, <1>2 DEF Owing
  <2>5. NothingSkipped'
    <3> QED  BY <1>9, <1>2, <1>3, <1>6, <1>7 DEF NothingSkipped
  <2> QED  BY <2>3, <2>4, <2>5, <1>6 DEF MseInv
<1>8. CASE queue' = queue /\ lost' = lost \cup {n} /\ (alive => ~(Len(queue) < Cap))
  <2>1. bridge # "exit" => Len(queue) = Cap
    <3>1. bridge # "exit" => alive  BY <1>2
    <3>2. alive => ~(Len(queue) < Cap)  BY <1>8
    <3>3. bridge # "exit" => ~(Len(queue) < Cap)  BY <3>1, <3>2
    <3>4. Len(queue) <= Cap  BY <1>2
    <3>5. Len(queue) \in Nat  BY <1>1
    <3>6. ASSUME bridge # "exit" PROVE Len(queue) = Cap
      <4>1. Len(queue) <= Cap /\ ~(Len(queue) < Cap)  BY <3>3, <3>4, <3>6
      <4>2. Len(queue) <= 2 /\ ~(Len(queue) < 2)  BY <4>1 DEF Cap
      <4>3. \A m \in Nat : m <= 2 /\ ~(m < 2) => m = 2  OBVIOUS
      <4>4. Len(queue) = 2  BY <4>2, <4>3, <3>5
      <4> QED  BY <4>4 DEF Cap
    <3> QED  BY <3>6
  <2>2. UnitLine'
    <3>1. \A m \in lost' : m <= Len(stream')
      <4>1. \A m \in lost : m \in Nat /\ m <= Len(stream)  BY <1>1, <1>2 DEF UnitLine
      <4>2. \A m \in lost : m <= n  BY <4>1, <1>1
      <4> QED  BY <4>2, <1>4, <1>5, <1>8
    <3>2. ASSUME bridge # "exit", NEW m \in 1..Len(stream')
          PROVE  m \in lost' \/ m <= latest \/ \E i \in 1..Len(queue) : queue[i] = m
      <4>1. CASE m = n  BY <4>1, <1>8
      <4>2. CASE m \in 1..Len(stream)
        BY <4>2, <3>2, <1>2, <1>8 DEF UnitLine
      <4> QED  BY SMTT(30), <4>1, <4>2, <1>1, <1>4
    <3> QED  BY <3>1, <3>2, <1>2, <1>3, <1>8 DEF UnitLine
  <2>3. Owing'
    <3>1. bridge # "exit" => Asks'
      <4> SUFFICES ASSUME bridge # "exit" PROVE Asks'
        OBVIOUS
      <4>1. Len(queue') = Cap /\ queue' # <<>>  BY SMTT(30), <2>1, <1>1, <1>8 DEF Cap
      <4>2. bridge' \in {"start", "recv", "load", "drain", "send"}
        BY <1>2, <1>3 DEF MseTypes, MseTypeOK
      <4> QED  BY <4>1, <4>2 DEF Asks
    <3> QED  BY <3>1, <1>3 DEF Owing
  <2>4. NothingSkipped'
    <3>1. ~(n < latest)  BY <1>1, <1>2
    <3> QED  BY <3>1, <1>9, <1>2, <1>3, <1>6, <1>8 DEF NothingSkipped
  <2> QED  BY <2>2, <2>3, <2>4, <1>6 DEF MseInv
<1> QED  BY <1>3, <1>7, <1>8

\* A step that hands nothing on changes nothing about what was handed on.
LEMMA FedKept ==
  ASSUME MseInv, UNCHANGED <<stream, lost, fed>>
  PROVE  /\ FedSound' /\ LastFed' = LastFed
         /\ \A n : Paid(n)' <=> Paid(n)
         /\ \A n : IsKey(n)' <=> IsKey(n)
<1>1. \A n : IsKey(n)' <=> IsKey(n)  BY DEF IsKey
<1>2. LastFed' = LastFed  BY DEF LastFed
<1>3. \A n : Paid(n)' <=> Paid(n)  BY DEF Paid, IsKey
<1>4. FedSound  BY DEF MseInv
<1>5. FedSound'  BY <1>4 DEF FedSound, Follows, IsKey
<1> QED  BY <1>1, <1>2, <1>3, <1>5

LEMMA SentKept ==
  ASSUME MseInv, UNCHANGED <<stream, lost, fed, out, initialized, sent>>,
         body' = "dropped" <=> body = "dropped"
  PROVE  SentSound'
<1>1. SentSound  BY DEF MseInv
<1>2. LastFed' = LastFed  BY DEF LastFed
<1> QED  BY <1>1, <1>2 DEF SentSound, Follows, IsKey

\* Steps of the hub's counter, of the client and of the bridge before it
\* drains.
LEMMA QuietKeeps ==
  ASSUME MseInv, MseTypes',
         UNCHANGED <<stream, lost, fed, out, initialized, sent, queue, latest, skipped,
                     needKey>>,
         body' = "dropped" <=> body = "dropped",
         \/ bridge' = bridge
         \/ bridge = "start" /\ bridge' = "recv"
         \/ bridge = "load" /\ bridge' = "drain"
  PROVE  MseInv'
<1>1. UnitLine /\ Owing /\ NothingSkipped  BY DEF MseInv
<1>2. /\ FedSound' /\ LastFed' = LastFed
      /\ \A n : Paid(n)' <=> Paid(n)
      /\ \A n : IsKey(n)' <=> IsKey(n)
  BY FedKept
<1>3. SentSound'  BY SentKept
<1>4. UnitLine'  BY <1>1 DEF UnitLine
<1>5. IsKey(latest)' <=> IsKey(latest)  BY DEF IsKey
<1>6. Asks => Asks'  BY <1>5 DEF Asks
<1>7. Owing'  BY <1>1, <1>2, <1>6 DEF Owing
<1>8. NothingSkipped'
  <2>1. CASE bridge' = bridge
    BY <2>1, <1>1, <1>2, <1>5 DEF NothingSkipped
  <2>2. CASE bridge = "start" /\ bridge' = "recv"
    BY <2>2, <1>1, <1>2 DEF NothingSkipped, LastFed
  <2>3. CASE bridge = "load" /\ bridge' = "drain"
    BY <2>3, <1>1, <1>2 DEF NothingSkipped
  <2> QED  BY <2>1, <2>2, <2>3
<1> QED  BY <1>2, <1>3, <1>4, <1>7, <1>8 DEF MseInv

\* The bridge takes a unit from recv.
LEMMA RecvAuKeeps ==
  ASSUME MseInv, MseTypes', RecvAu
  PROVE  MseInv'
<1>1. /\ UnitLine /\ Owing /\ NothingSkipped /\ latest \in Nat /\ LastFed \in Nat
      /\ Len(queue) \in Nat
  BY MseFacts DEF MseInv
<1>2. /\ bridge = "recv" /\ bridge' = "load" /\ queue # <<>> /\ queue' = Tail(queue)
      /\ latest' = Head(queue) /\ skipped' = 0
      /\ UNCHANGED <<stream, lost, fed, out, initialized, sent, needKey, body>>
  BY DEF RecvAu, Slot!Receive, gate, client
<1>3. /\ UnitLine' /\ latest < latest' /\ latest' \in Nat
      /\ \A n \in (latest + 1)..(latest' - 1) : n \in lost
      /\ Len(queue) = Cap => queue' # <<>>
  BY <1>2, TakeHead
<1>4. /\ FedSound' /\ LastFed' = LastFed
      /\ \A n : Paid(n)' <=> Paid(n)
  BY <1>2, FedKept
<1>5. SentSound'  BY <1>2, SentKept
<1>6. Asks => Asks'  BY <1>2, <1>3 DEF Asks
<1>7. Owing'  BY <1>1, <1>2, <1>4, <1>6 DEF Owing
<1>8. LastFed < latest'  BY <1>1, <1>3 DEF NothingSkipped
<1>9. fed # <<>> /\ ~needKey => latest = LastFed  BY <1>1, <1>2 DEF NothingSkipped
<1>10. NothingSkipped'  BY <1>1, <1>2, <1>3, <1>4, <1>8, <1>9 DEF NothingSkipped
<1> QED  BY <1>3, <1>4, <1>5, <1>7, <1>10 DEF MseInv

\* The bridge discards the unit in hand for a later one.
LEMMA DrainOneKeeps ==
  ASSUME MseInv, MseTypes', DrainOne
  PROVE  MseInv'
<1>1. /\ UnitLine /\ Owing /\ NothingSkipped /\ latest \in Nat /\ LastFed \in Nat
      /\ skipped \in Nat
  BY MseFacts DEF MseInv
<1>2. /\ bridge = "drain" /\ bridge' = "drain" /\ queue # <<>> /\ queue' = Tail(queue)
      /\ latest' = Head(queue) /\ skipped' = IF skipped < Cap THEN skipped + 1 ELSE skipped
      /\ UNCHANGED <<stream, lost, fed, out, initialized, sent, needKey, body>>
  BY DEF DrainOne, Slot!Receive, gate, client
<1>3. UnitLine' /\ latest < latest' /\ latest' \in Nat
  BY <1>2, TakeHead
<1>4. FedSound' /\ LastFed' = LastFed
  BY <1>2, FedKept
<1>5. SentSound'  BY <1>2, SentKept
<1>6. skipped' > 0 /\ skipped' # 0  BY <1>1, <1>2 DEF Cap
<1>7. Asks'  BY <1>2, <1>6 DEF Asks
<1>8. Owing'  BY <1>7 DEF Owing
<1>9. LastFed < latest'  BY <1>1, <1>3 DEF NothingSkipped
<1>10. NothingSkipped'  BY <1>1, <1>2, <1>3, <1>4, <1>6, <1>9 DEF NothingSkipped
<1> QED  BY <1>3, <1>4, <1>5, <1>8, <1>10 DEF MseInv

\* The gate decides about the unit in hand.
LEMMA DrainEndKeeps ==
  ASSUME MseInv, MseTypes', DrainEnd
  PROVE  MseInv'
<1>1. UnitLine /\ Owing /\ NothingSkipped /\ skipped \in Nat
  BY MseFacts DEF MseInv
<1>2. /\ bridge = "drain" /\ queue = <<>>
      /\ (needKey' <=> (NeedsKey /\ ~Allowed))
      /\ bridge' = IF Allowed THEN "send" ELSE "recv"
      /\ UNCHANGED <<stream, lost, fed, out, initialized, sent, body, queue, latest, skipped>>
  BY DEF DrainEnd, slot, hand, client
<1>3. /\ FedSound' /\ LastFed' = LastFed
      /\ \A n : Paid(n)' <=> Paid(n)
      /\ \A n : IsKey(n)' <=> IsKey(n)
  BY <1>2, FedKept
<1>4. SentSound'  BY <1>2, SentKept
<1>5. UnitLine'
  <2>1. bridge # "exit"  BY <1>2
  <2> QED  BY <2>1, <1>1, <1>2 DEF UnitLine
<1>6. IsKey(latest)' <=> IsKey(latest)  BY <1>2 DEF IsKey
<1>7. CASE ~Allowed
  <2>1. needKey' /\ bridge' = "recv"  BY <1>2, <1>7 DEF Allowed
  <2>2. Asks'  BY <2>1 DEF Asks
  <2>3. Owing'  BY <2>2 DEF Owing
  <2>4. NothingSkipped'  BY <2>1, <1>1, <1>2, <1>3 DEF NothingSkipped
  <2> QED  BY <2>3, <2>4, <1>3, <1>4, <1>5 DEF MseInv
<1>8. CASE Allowed /\ IsKey(latest)
  <2>1. ~needKey' /\ bridge' = "send"  BY <1>2, <1>8
  <2>2. Asks'  BY <2>1, <1>6, <1>8 DEF Asks
  <2>3. Owing'  BY <2>2 DEF Owing
  <2>4. NothingSkipped'  BY <2>1, <1>1, <1>2, <1>3, <1>6, <1>8 DEF NothingSkipped
  <2> QED  BY <2>3, <2>4, <1>3, <1>4, <1>5 DEF MseInv
<1>9. CASE Allowed /\ ~IsKey(latest)
  <2>1. ~NeedsKey  BY <1>9 DEF Allowed
  <2>2. ~needKey /\ ~(skipped > 0)  BY <2>1, <1>9 DEF NeedsKey
  <2>3. ~needKey' /\ bridge' = "send" /\ skipped = 0  BY <2>1, <2>2, <1>1, <1>2, <1>9
  <2>4. ~Asks  BY <2>2, <1>2 DEF Asks
  <2>5. \A n \in lost : Paid(n)  BY <2>4, <1>1, <1>2 DEF Owing
  <2>6. Owing'  BY <2>5, <1>2, <1>3 DEF Owing
  <2>7. fed # <<>> => \A n \in (LastFed + 1)..(latest - 1) : n \in lost
    BY <2>2, <2>3, <1>1, <1>2 DEF NothingSkipped
  <2>8. LastFed <= latest /\ LastFed < latest  BY <1>1, <1>2 DEF NothingSkipped
  <2>9. NothingSkipped'
    BY <2>3, <2>5, <2>7, <2>8, <1>2, <1>3 DEF NothingSkipped
  <2> QED  BY <2>6, <2>9, <1>3, <1>4, <1>5 DEF MseInv
<1> QED  BY <1>7, <1>8, <1>9

\* The bridge hands its unit to the generator.
LEMMA SendAuKeeps ==
  ASSUME MseInv, MseTypes', SendAu
  PROVE  MseInv'
<1> DEFINE k == Len(fed)
<1>1. /\ UnitLine /\ Owing /\ NothingSkipped /\ FedSound /\ SentSound
      /\ latest \in Nat /\ LastFed \in Nat /\ k \in Nat
      /\ fed \in Seq([au : Aus, lost : SUBSET Aus]) /\ lost \subseteq Nat \ {0}
      /\ \A i \in 1..k : fed[i].au \in Nat \ {0}
  BY MseFacts DEF MseInv
<1>2. /\ bridge = "send" /\ bridge' = "recv" /\ body # "dropped" /\ out = <<>>
      /\ out' = <<latest>> /\ fed' = Append(fed, [au |-> latest, lost |-> lost])
      /\ UNCHANGED <<stream, lost, initialized, sent, body, queue, latest, skipped, needKey>>
  BY DEF SendAu, slot, hand, gate, client
<1>3. /\ Len(fed') = k + 1 /\ fed'[k + 1] = [au |-> latest, lost |-> lost] /\ fed' # <<>>
      /\ \A i \in 1..k : fed'[i] = fed[i]
  BY <1>1, <1>2
<1>4. fed'[k + 1].au = latest /\ fed'[k + 1].lost = lost  BY <1>3
<1>5. LastFed' = latest  BY <1>3, <1>4 DEF LastFed
<1>6. \A n : IsKey(n)' <=> IsKey(n)  BY <1>2 DEF IsKey
<1>7. ASSUME NEW n, Paid(n) PROVE Paid(n)'
  <2>1. PICK j \in 1..k : IsKey(fed[j].au) /\ n \in fed[j].lost  BY <1>7 DEF Paid
  <2>2. j \in 1..Len(fed') /\ fed'[j] = fed[j]  BY <1>1, <1>3
  <2>3. stream'[fed'[j].au] # "P" /\ n \in fed'[j].lost  BY <2>1, <2>2, <1>2 DEF IsKey
  <2> QED  BY <2>2, <2>3 DEF Paid, IsKey
<1>8. ASSUME IsKey(latest), NEW n \in lost PROVE Paid(n)'
  <2>1. k + 1 \in 1..Len(fed')  BY <1>1, <1>3
  <2>2. stream'[fed'[k + 1].au] # "P" /\ n \in fed'[k + 1].lost
    BY <1>2, <1>4, <1>8 DEF IsKey
  <2> QED  BY <2>1, <2>2 DEF Paid, IsKey
<1>9. UnitLine'
  <2>1. bridge # "exit"  BY <1>2
  <2> QED  BY <2>1, <1>1, <1>2 DEF UnitLine
<1>10. Owing'
  <2> SUFFICES ASSUME NEW n \in lost PROVE Paid(n)' \/ Asks'
    BY <1>2 DEF Owing
  <2>1. CASE IsKey(latest)  BY <2>1, <1>8
  <2>2. CASE ~IsKey(latest)
    <3>1. CASE Paid(n)  BY <3>1, <1>7
    <3>2. CASE Asks  BY <3>2, <2>2, <1>2 DEF Asks
    <3>3. Paid(n) \/ Asks  BY <1>1, <1>2 DEF Owing
    <3> QED  BY <3>1, <3>2, <3>3
  <2> QED  BY <2>1, <2>2
<1>11. NothingSkipped'  BY <1>1, <1>2, <1>5 DEF NothingSkipped
<1>12. LastFed < latest  BY <1>1, <1>2 DEF NothingSkipped
<1>13. fed # <<>> => k \in 1..k /\ LastFed = fed[k].au  BY <1>1 DEF LastFed
<1>14. ASSUME k > 0
       PROVE  /\ k \in 1..k /\ fed'[k] = fed[k] /\ fed[k].au < latest
              /\ ~IsKey(latest) => \A n \in (fed[k].au + 1)..(latest - 1) : n \in lost /\ Paid(n)
  <2>1. fed # <<>>
    <3>1. Len(<<>>) = 0  OBVIOUS
    <3> QED  BY <3>1, <1>14
  <2>2. k \in 1..k /\ LastFed = fed[k].au /\ fed'[k] = fed[k]  BY <2>1, <1>13, <1>3
  <2>3. ~IsKey(latest) => \A n \in (LastFed + 1)..(latest - 1) : n \in lost
    BY <2>1, <1>1, <1>2 DEF NothingSkipped
  <2>4. ~IsKey(latest) => \A n \in lost : n < latest => Paid(n)
    BY <1>1, <1>2 DEF NothingSkipped
  <2>5. \A n \in (LastFed + 1)..(latest - 1) : n < latest  BY <1>1
  <2> QED  BY <2>2, <2>3, <2>4, <2>5, <1>12
<1>15. \A i \in 1..k : i \in 1..(k - 1) \/ (i = k /\ k > 0)  BY <1>1
<1>16. \A i \in 1..(k - 1) : i \in 1..k /\ i + 1 \in 1..k  BY <1>1
<1>17. FedSound'
  <2>1. \A i \in 1..Len(fed') : fed'[i].au <= Len(stream')
    <3>1. latest <= Len(stream)  BY DEF MseInv, MseTypes
    <3>2. \A i \in 1..Len(fed') : i \in 1..k \/ i = k + 1  BY <1>1, <1>3
    <3> QED  BY <3>1, <3>2, <1>1, <1>2, <1>3, <1>4 DEF FedSound
  <2>2. ASSUME NEW i \in 1..k
        PROVE  /\ fed'[i].au < fed'[i + 1].au
               /\ (\E n \in (fed'[i].au + 1)..(fed'[i + 1].au - 1) : n \notin lost)
                    => IsKey(fed'[i + 1].au)
    <3>1. CASE i \in 1..(k - 1)
      <4>1. Follows(fed[i].au, fed[i + 1].au)  BY <3>1, <1>1 DEF FedSound
      <4>2. fed'[i] = fed[i] /\ fed'[i + 1] = fed[i + 1]  BY <3>1, <1>16, <1>3
      <4> QED  BY <4>1, <4>2 DEF Follows
    <3>2. CASE i = k /\ k > 0  BY <3>2, <1>4, <1>14
    <3> QED  BY <3>1, <3>2, <1>15
  <2>3. ASSUME NEW i \in 1..k, NEW n \in (fed'[i].au + 1)..(fed'[i + 1].au - 1),
               ~IsKey(fed'[i + 1].au)
        PROVE  \E j \in 1..i : IsKey(fed'[j].au) /\ n \in fed'[j].lost
    <3>1. CASE i \in 1..(k - 1)
      <4>1. fed'[i] = fed[i] /\ fed'[i + 1] = fed[i + 1]  BY <3>1, <1>16, <1>3
      <4>2. PICK j \in 1..i : IsKey(fed[j].au) /\ n \in fed[j].lost
        BY <2>3, <3>1, <4>1, <1>1 DEF FedSound
      <4>3. fed'[j] = fed[j]  BY <3>1, <1>16, <1>3, <1>1
      <4> QED  BY <4>2, <4>3
    <3>2. CASE i = k /\ k > 0
      <4>1. Paid(n)  BY <3>2, <2>3, <1>4, <1>14
      <4>2. PICK j \in 1..k : IsKey(fed[j].au) /\ n \in fed[j].lost  BY <4>1 DEF Paid
      <4> QED  BY <4>2, <3>2, <1>3
    <3> QED  BY <3>1, <3>2, <1>15
  <2>4. \A i \in 1..(Len(fed') - 1) : i \in 1..k  BY <1>1, <1>3
  <2>5. \A i \in 1..(Len(fed') - 1) : Follows(fed[i].au, fed[i + 1].au)'
    BY <2>2, <2>4, <1>2, <1>6 DEF Follows, IsKey
  <2>6. ASSUME NEW i \in 1..(Len(fed') - 1),
               NEW n \in (fed'[i].au + 1)..(fed'[i + 1].au - 1),
               ~(stream'[fed'[i + 1].au] # "P")
        PROVE  \E j \in 1..i : stream'[fed'[j].au] # "P" /\ n \in fed'[j].lost
    <3>1. i \in 1..k /\ ~IsKey(fed'[i + 1].au)  BY <2>4, <2>6, <1>2 DEF IsKey
    <3>2. PICK j \in 1..i : IsKey(fed'[j].au) /\ n \in fed'[j].lost  BY <3>1, <2>3
    <3> QED  BY <3>2, <1>2 DEF IsKey
  <2> QED  BY <2>1, <2>5, <2>6 DEF FedSound, IsKey
<1>18. SentSound'
  <2>1. \A i \in 1..(Len(sent') - 1) : Follows(sent[i], sent[i + 1])'
    BY <1>1, <1>2 DEF SentSound, Follows, IsKey
  <2>2. out' # <<>> /\ out'[1] = latest  BY <1>2
  <2>3. ASSUME sent # <<>>
        PROVE  Len(fed') > 1 /\ sent[Len(sent)] = fed'[Len(fed') - 1].au
    <3>1. fed # <<>> /\ sent[Len(sent)] = LastFed  BY <2>3, <1>1, <1>2 DEF SentSound
    <3>2. k \in 1..k /\ LastFed = fed[k].au /\ fed'[k] = fed[k]  BY <3>1, <1>13, <1>3
    <3>3. Len(fed') - 1 = k /\ Len(fed') > 1  BY <3>2, <1>1, <1>3
    <3> QED  BY <3>1, <3>2, <3>3
  <2> QED  BY <2>1, <2>2, <2>3, <1>1, <1>2, <1>3, <1>5 DEF SentSound
<1> QED  BY <1>9, <1>10, <1>11, <1>17, <1>18 DEF MseInv

\* The generator takes the waiting unit.
LEMMA EmitKeeps ==
  ASSUME MseInv, MseTypes', Emit
  PROVE  MseInv'
<1> DEFINE k == Len(fed)  m == Len(sent)
<1>1. /\ UnitLine /\ Owing /\ NothingSkipped /\ FedSound /\ SentSound
      /\ k \in Nat /\ m \in Nat /\ sent \in Seq(Aus) /\ out \in Seq(Aus)
      /\ \A i \in 1..k : fed[i].au \in Nat \ {0}
  BY MseFacts DEF MseInv
<1>2. /\ body = "polled" /\ out # <<>> /\ out' = <<>>
      /\ \/ initialized' = TRUE /\ sent' = Append(sent, Head(out))
         \/ ~initialized /\ UNCHANGED <<initialized, sent>>
      /\ UNCHANGED <<stream, lost, fed, bridge, queue, latest, skipped, needKey, body>>
  BY DEF Emit, slot, hand, gate
<1>3. /\ FedSound' /\ LastFed' = LastFed
      /\ \A n : Paid(n)' <=> Paid(n)
      /\ \A n : IsKey(n)' <=> IsKey(n)
  BY <1>2, FedKept
<1>4. UnitLine'  BY <1>1, <1>2 DEF UnitLine
<1>5. IsKey(latest)' <=> IsKey(latest)  BY <1>2 DEF IsKey
<1>6. Owing'
  <2>1. Asks' <=> Asks  BY <1>2, <1>5 DEF Asks
  <2> QED  BY <2>1, <1>1, <1>2, <1>3 DEF Owing
<1>7. NothingSkipped'  BY <1>1, <1>2, <1>3, <1>5 DEF NothingSkipped
<1>8. fed # <<>> /\ Head(out) = LastFed /\ k \in 1..k /\ LastFed = fed[k].au
  <2>1. fed # <<>> /\ out[1] = LastFed  BY <1>1, <1>2 DEF SentSound
  <2>2. Head(out) = out[1]  BY <1>1, <1>2
  <2> QED  BY <2>1, <2>2, <1>1 DEF LastFed
<1>9. SentSound'
  <2>1. CASE sent' = Append(sent, Head(out)) /\ initialized' = TRUE
    <3>1. /\ Len(sent') = m + 1 /\ sent'[m + 1] = LastFed /\ sent' # <<>>
          /\ \A i \in 1..m : sent'[i] = sent[i]
      BY <2>1, <1>1, <1>8
    <3>2. \A i \in 1..(Len(sent') - 1) : \/ i \in 1..(m - 1) /\ i \in 1..m /\ i + 1 \in 1..m
                                         \/ i = m /\ m > 0 /\ m \in 1..m
      BY <3>1, <1>1
    <3>3. ASSUME NEW i \in 1..(Len(sent') - 1)
          PROVE  Follows(sent'[i], sent'[i + 1])
      <4>1. CASE i \in 1..(m - 1) /\ i \in 1..m /\ i + 1 \in 1..m
        <5>1. sent'[i] = sent[i] /\ sent'[i + 1] = sent[i + 1]  BY <4>1, <3>1
        <5> QED  BY <5>1, <4>1, <1>1 DEF SentSound
      <4>2. CASE i = m /\ m > 0 /\ m \in 1..m
        <5>0. sent # <<>>
          <6>1. Len(<<>>) = 0  OBVIOUS
          <6> QED  BY <6>1, <4>2
        <5>1. k > 1 /\ sent[m] = fed[k - 1].au
          BY <5>0, <1>1, <1>2 DEF SentSound
        <5>2. k - 1 \in 1..(k - 1) /\ (k - 1) + 1 = k  BY <5>1, <1>1
        <5>3. Follows(fed[k - 1].au, fed[k].au)  BY <5>2, <1>1 DEF FedSound
        <5> QED  BY <5>1, <5>3, <4>2, <3>1, <1>8
      <4> QED  BY <4>1, <4>2, <3>2
    <3>4. \A i \in 1..(Len(sent') - 1) : Follows(sent[i], sent[i + 1])'
      BY <3>3, <1>2 DEF Follows, IsKey
    <3>5. \A i \in 1..Len(sent') : sent'[i] <= Len(stream')
      <4>1. \A i \in 1..Len(sent') : i \in 1..m \/ i = m + 1  BY <3>1, <1>1
      <4>2. LastFed <= Len(stream)  BY <1>1, <1>8 DEF FedSound
      <4> QED  BY <4>1, <4>2, <3>1, <1>1, <1>2 DEF SentSound
    <3>6. sent'[Len(sent')] = LastFed  BY <3>1
    <3>7. initialized' <=> sent' # <<>>  BY <2>1, <3>1
    <3> QED  BY <3>1, <3>4, <3>5, <3>6, <3>7, <1>2, <1>3, <1>8 DEF SentSound
  <2>2. CASE ~initialized /\ UNCHANGED <<initialized, sent>>
    <3>1. sent = <<>> /\ sent' = <<>> /\ Len(sent') = 0  BY <2>2, <1>1 DEF SentSound
    <3>2. ~initialized'  BY <2>2
    <3> QED  BY <3>1, <3>2, <1>2 DEF SentSound
  <2> QED  BY <2>1, <2>2, <1>2
<1> QED  BY <1>3, <1>4, <1>6, <1>7, <1>9 DEF MseInv

\* The client leaves, with the unit that waited for it.
LEMMA DropBodyKeeps ==
  ASSUME MseInv, MseTypes', DropBody
  PROVE  MseInv'
<1>1. UnitLine /\ Owing /\ NothingSkipped /\ SentSound
  BY DEF MseInv
<1>2. /\ body' = "dropped" /\ out' = <<>>
      /\ UNCHANGED <<stream, lost, fed, bridge, queue, latest, skipped, needKey, initialized,
                     sent>>
  BY DEF DropBody, Slot!Unlink, slot, hand, gate
<1>3. /\ FedSound' /\ LastFed' = LastFed
      /\ \A n : Paid(n)' <=> Paid(n)
  BY <1>2, FedKept
<1>4. UnitLine'  BY <1>1, <1>2 DEF UnitLine
<1>5. IsKey(latest)' <=> IsKey(latest)  BY <1>2 DEF IsKey
<1>6. Owing'
  <2>1. Asks' <=> Asks  BY <1>2, <1>5 DEF Asks
  <2> QED  BY <2>1, <1>1, <1>2, <1>3 DEF Owing
<1>7. NothingSkipped'  BY <1>1, <1>2, <1>3, <1>5 DEF NothingSkipped
<1>8. SentSound'  BY <1>1, <1>2 DEF SentSound, Follows, IsKey
<1> QED  BY <1>3, <1>4, <1>6, <1>7, <1>8 DEF MseInv

\* The bridge gives up: the sender is gone, or the client.
LEMMA ExitKeeps ==
  ASSUME MseInv, MseTypes', RecvEnd \/ SendFails
  PROVE  MseInv'
<1>1. UnitLine /\ NothingSkipped  BY DEF MseInv
<1>2. /\ bridge' = "exit" /\ queue' = <<>>
      /\ UNCHANGED <<stream, lost, fed, latest, skipped, needKey, out, initialized, sent, body>>
  BY DEF RecvEnd, SendFails, Slot!CloseReceiver, hand, gate, client
<1>3. FedSound' /\ LastFed' = LastFed
  BY <1>2, FedKept
<1>4. SentSound'  BY <1>2, SentKept
<1>5. UnitLine'
  <2>1. Len(queue') = 0  BY <1>2
  <2> QED  BY <2>1, <1>1, <1>2 DEF UnitLine
<1>6. Owing'  BY <1>2 DEF Owing
<1>7. NothingSkipped'  BY <1>1, <1>2, <1>3 DEF NothingSkipped
<1> QED  BY <1>3, <1>4, <1>5, <1>6, <1>7 DEF MseInv

LEMMA MseStepInv == MseInv /\ [MseNext]_mseVars => MseInv'
<1> SUFFICES ASSUME MseInv, [MseNext]_mseVars PROVE MseInv'
  OBVIOUS
<1>1. MseTypes'  BY MseTypesKept
<1>2. ASSUME NEW kind \in Kinds, Publish(kind) PROVE MseInv'
  BY <1>1, <1>2, PublishKeeps
<1>3. CASE CountLoss
  BY <1>1, <1>3, QuietKeeps DEF CountLoss, Slot!CountLoss, hand, gate, client
<1>4. CASE Start
  BY <1>1, <1>4, QuietKeeps DEF Start, slot, hand, client
<1>5. CASE LoadDropped
  BY <1>1, <1>5, QuietKeeps DEF LoadDropped, slot, gate, client
<1>6. CASE Poll
  BY <1>1, <1>6, QuietKeeps DEF Poll, slot, hand, gate
<1>7. CASE UNCHANGED mseVars
  BY <1>1, <1>7, QuietKeeps DEF mseVars, slot, hand, gate, client
<1> QED
  BY <1>1, <1>2, <1>3, <1>4, <1>5, <1>6, <1>7, RecvAuKeeps, DrainOneKeeps, DrainEndKeeps,
     SendAuKeeps, EmitKeeps, DropBodyKeeps, ExitKeeps
  DEF MseNext, BridgeStep

\* A hole in what a browser was sent is behind a key frame that overtook it.
LEMMA HolePaid == MseInv => HoleOnlyBehindOvertakenKey
<1> SUFFICES ASSUME MseInv PROVE HoleOnlyBehindOvertakenKey
  OBVIOUS
<1>1. FedSound /\ SentSound  BY DEF MseInv
<1>2. ASSUME NEW p \in Adjacent PROVE Follows(p[1], p[2])
  <2>1. PICK i \in 1..(Len(sent) - 1) : p = <<sent[i], sent[i + 1]>>
    BY DEF Adjacent
  <2> QED  BY <2>1, <1>1 DEF SentSound
<1> QED  BY <1>1, <1>2 DEF HoleOnlyBehindOvertakenKey, FedSound, Follows

(* After a loss, what a browser is shown resumes at a key frame, to the    *)
(* extent the gate keeps it: units go out in order, whatever the bridge    *)
(* itself skipped is followed by a key frame, and a hole before any other  *)
(* unit was there when an older key frame passed (RealignGate and the      *)
(* drain loop of mse_response), for any number of units and any schedule   *)
(* of hub, bridge and generator.                                           *)
THEOREM HoleAlwaysPaid == MseSpec => []HoleOnlyBehindOvertakenKey
BY HolePaid, MseInitInv, MseStepInv, PTL DEF MseSpec

-----------------------------------------------------------------------------
(***************************************************************************)
(* The Annex B stream (AnnexB).                                            *)
(***************************************************************************)
Byte == 0..255

\* off[i] is the length of the first i frames of fr; d is the stream of all.
LaidAt(fr, d, off) ==
  /\ d \in Seq(Byte) /\ off \in [0 .. Len(fr) -> Nat]
  /\ off[0] = 0 /\ off[Len(fr)] = Len(d)
  /\ \A i \in 0 .. Len(fr) : off[i] <= Len(d)
  /\ \A i \in 1 .. Len(fr) :
       /\ off[i] = off[i - 1] + Len(fr[i][1]) + Len(fr[i][2])
       /\ \A j \in 1 .. Len(fr[i][1]) : d[off[i - 1] + j] = fr[i][1][j]
       /\ \A j \in 1 .. Len(fr[i][2]) : d[off[i - 1] + Len(fr[i][1]) + j] = fr[i][2][j]

LEMMA CodeIs ==
  ASSUME NEW c \in StartCodes
  PROVE  /\ c \in Seq(Byte) /\ Len(c) \in {3, 4}
         /\ Len(c) = 3 => c[1] = 0 /\ c[2] = 0 /\ c[3] = 1
         /\ Len(c) = 4 => c[1] = 0 /\ c[2] = 0 /\ c[3] = 0 /\ c[4] = 1
<1>1. CASE c = <<0, 0, 1>>
  BY <1>1 DEF Byte
<1>2. CASE c = <<0, 0, 0, 1>>
  BY <1>2 DEF Byte
<1> QED
  BY <1>1, <1>2 DEF StartCodes

LEMMA UnitIs ==
  ASSUME NEW u \in Units
  PROVE  /\ u \in Seq(Byte) /\ Len(u) \in Nat \ {0} /\ u[Len(u)] # 0
         /\ \A i \in 1 .. Len(u) - 2 : ~(u[i] = 0 /\ u[i + 1] = 0 /\ u[i + 2] = 1)
<1>1. /\ u \in Seq(Byte) /\ u # <<>> /\ u[Len(u)] # 0
      /\ \A i \in 1 .. Len(u) - 2 : ~(u[i] = 0 /\ u[i + 1] = 0 /\ u[i + 2] = 1)
  BY NalAssumption DEF Byte
<1> QED
  BY <1>1

LEMMA FramesTyped ==
  ASSUME NEW fr \in Seq(StartCodes \X Units), NEW i \in 1 .. Len(fr)
  PROVE  fr[i][1] \in StartCodes /\ fr[i][2] \in Units
<1>1. fr[i] \in StartCodes \X Units
  OBVIOUS
<1> QED
  BY <1>1

LEMMA LaidOut ==
  ASSUME NEW fr \in Seq(StartCodes \X Units)
  PROVE  \E off : LaidAt(fr, FlattenSeq([i \in DOMAIN fr |-> fr[i][1] \o fr[i][2]]), off)
<1> DEFINE N == Len(fr)
           F == [i \in DOMAIN fr |-> fr[i][1] \o fr[i][2]]
<1>1. N \in Nat /\ DOMAIN fr = 1 .. N
  OBVIOUS
<1>2. ASSUME NEW i \in 1 .. N
      PROVE  /\ fr[i][1] \in Seq(Byte) /\ fr[i][2] \in Seq(Byte)
             /\ F[i] = fr[i][1] \o fr[i][2]
  <2>1. fr[i][1] \in StartCodes /\ fr[i][2] \in Units
    BY FramesTyped
  <2> QED
    BY <1>1, <2>1, CodeIs, UnitIs
<1> HIDE DEF F
<1>3. ASSUME NEW i \in 1 .. N
      PROVE  /\ F[i] \in Seq(Byte) /\ Len(F[i]) = Len(fr[i][1]) + Len(fr[i][2])
             /\ \A j \in 1 .. Len(fr[i][1]) : F[i][j] = fr[i][1][j]
             /\ \A j \in 1 .. Len(fr[i][2]) : F[i][Len(fr[i][1]) + j] = fr[i][2][j]
  <2> DEFINE a == fr[i][1]
             b == fr[i][2]
  <2>1. a \in Seq(Byte) /\ b \in Seq(Byte) /\ F[i] = a \o b
    BY <1>2
  <2> HIDE DEF a, b
  <2>2. /\ F[i] \in Seq(Byte) /\ Len(F[i]) = Len(a) + Len(b) /\ Len(a) \in Nat /\ Len(b) \in Nat
        /\ \A j \in 1 .. Len(a) + Len(b) : F[i][j] = IF j <= Len(a) THEN a[j] ELSE b[j - Len(a)]
    BY ONLY <2>1, ConcatProperties
  <2>3. \A j \in 1 .. Len(a) : F[i][j] = a[j]
    <3>1. \A j \in 1 .. Len(a) : j \in 1 .. Len(a) + Len(b) /\ j <= Len(a)
      BY ONLY <2>2
    <3> QED
      BY <2>2, <3>1
  <2>4. ASSUME NEW j \in 1 .. Len(b) PROVE F[i][Len(a) + j] = b[j]
    <3>1. /\ Len(a) + j \in 1 .. Len(a) + Len(b)
          /\ ~(Len(a) + j <= Len(a)) /\ Len(a) + j - Len(a) = j
      BY ONLY <2>2, j \in 1 .. Len(b)
    <3>2. F[i][Len(a) + j] = b[Len(a) + j - Len(a)]
      BY <2>2, <3>1
    <3> QED
      BY <3>1, <3>2
  <2> QED
    BY <2>2, <2>3, <2>4 DEF a, b
<1>4. F \in Seq(Seq(Byte)) /\ Len(F) = N
  <2>1. F = [i \in 1 .. N |-> F[i]]
    BY <1>1 DEF F
  <2>2. \A i \in 1 .. N : F[i] \in Seq(Byte)
    BY <1>3
  <2> DEFINE X == Seq(Byte)
  <2> HIDE DEF N, X
  <2>3. [i \in 1 .. N |-> F[i]] \in Seq(X) /\ Len([i \in 1 .. N |-> F[i]]) = N
    BY ONLY <1>1, <2>2 DEF X
  <2> QED
    BY <2>1, <2>3 DEF X
<1> HIDE DEF N
<1>5. PICK c \in [0 .. N -> Seq(Byte)] :
        /\ c[0] = <<>>
        /\ \A i \in 1 .. N : c[i] = c[i - 1] \o F[i]
        /\ FlattenSeq(F) = c[N]
  <2>1. \E c \in [0 .. Len(F) -> Seq(Byte)] :
          /\ c[0] = <<>>
          /\ \A i \in 1 .. Len(F) : c[i] = c[i - 1] \o F[i]
          /\ FlattenSeq(F) = c[Len(F)]
    BY ONLY <1>4, FlattenRuns
  <2> QED
    BY <1>4, <2>1
<1>6. \A j \in 0 .. N : /\ Len(c[j]) <= Len(c[N])
                        /\ \A i \in 1 .. Len(c[j]) : c[N][i] = c[j][i]
  <2>1. Concatenates(Byte, N, c, F)
    BY <1>1, <1>3, <1>5 DEF Concatenates
  <2>2. Grows(N, c)
    BY ONLY <2>1, RunGrows
  <2> QED
    BY ONLY <2>2 DEF Grows
<1> DEFINE off == [i \in 0 .. N |-> Len(c[i])]
           d == c[N]
<1>7. /\ d \in Seq(Byte) /\ off \in [0 .. N -> Nat] /\ off[0] = 0 /\ off[N] = Len(d)
      /\ \A i \in 0 .. N : off[i] = Len(c[i]) /\ off[i] <= Len(d)
  <2>1. \A i \in 0 .. N : Len(c[i]) \in Nat
    BY <1>5
  <2>2. 0 \in 0 .. N /\ N \in 0 .. N /\ Len(c[0]) = 0
    BY <1>1, <1>5
  <2>3. d \in Seq(Byte)
    BY <1>5, <2>2
  <2> QED
    BY <1>6, <2>1, <2>2, <2>3
<1>8. ASSUME NEW i \in 1 .. N
      PROVE  /\ off[i] = off[i - 1] + Len(fr[i][1]) + Len(fr[i][2])
             /\ \A j \in 1 .. Len(fr[i][1]) : d[off[i - 1] + j] = fr[i][1][j]
             /\ \A j \in 1 .. Len(fr[i][2]) :
                  d[off[i - 1] + Len(fr[i][1]) + j] = fr[i][2][j]
  <2> DEFINE a == c[i - 1]
             b == F[i]
             l == Len(fr[i][1])
             m == Len(fr[i][2])
  <2>1. /\ i - 1 \in 0 .. N /\ i \in 0 .. N /\ l \in Nat /\ m \in Nat
        /\ a \in Seq(Byte) /\ b \in Seq(Byte) /\ c[i] = a \o b
        /\ off[i] = Len(c[i]) /\ off[i - 1] = Len(a)
    <3>1. i - 1 \in 0 .. N /\ i \in 0 .. N
      BY <1>1
    <3> HIDE DEF off
    <3>2. off[i] = Len(c[i]) /\ off[i - 1] = Len(a)
      BY <1>7, <3>1
    <3>3. a \in Seq(Byte) /\ b \in Seq(Byte) /\ c[i] = a \o b
      BY <1>3, <1>5, <3>1
    <3>4. l \in Nat /\ m \in Nat
      BY <1>2
    <3> QED
      BY ONLY <3>1, <3>2, <3>3, <3>4
  <2>2. Len(b) = l + m
    BY <1>3
  <2> HIDE DEF a, b, l, m
  <2>3. /\ Len(c[i]) = Len(a) + Len(b) /\ Len(a) \in Nat /\ Len(b) \in Nat
        /\ \A j \in 1 .. Len(a) + Len(b) : c[i][j] = IF j <= Len(a) THEN a[j] ELSE b[j - Len(a)]
    BY ONLY <2>1, ConcatProperties
  <2> HIDE DEF off, d
  <2>4. ASSUME NEW j \in 1 .. l + m PROVE d[off[i - 1] + j] = b[j]
    <3>1. /\ Len(a) + j \in 1 .. Len(a) + Len(b)
          /\ ~(Len(a) + j <= Len(a)) /\ Len(a) + j - Len(a) = j
          /\ Len(a) + j \in 1 .. Len(c[i])
      BY ONLY <2>2, <2>3, j \in 1 .. l + m
    <3>2. c[i][Len(a) + j] = b[Len(a) + j - Len(a)]
      BY <2>3, <3>1
    <3>3. d[Len(a) + j] = c[i][Len(a) + j]
      BY <1>6, <2>1, <3>1 DEF d
    <3> QED
      BY <2>1, <3>1, <3>2, <3>3
  <2>5. \A j \in 1 .. l : d[off[i - 1] + j] = fr[i][1][j]
    <3>1. \A j \in 1 .. l : j \in 1 .. l + m
      BY <2>1
    <3> QED
      BY <1>3, <2>4, <3>1 DEF b, l
  <2>6. ASSUME NEW j \in 1 .. m PROVE d[off[i - 1] + l + j] = fr[i][2][j]
    <3>1. l + j \in 1 .. l + m /\ off[i - 1] + l + j = off[i - 1] + (l + j)
      <4>1. off[i - 1] \in Nat
        BY <2>1, <2>3
      <4> QED
        BY ONLY <2>1, <4>1, j \in 1 .. m
    <3>2. d[off[i - 1] + (l + j)] = b[l + j]
      BY <2>4, <3>1
    <3>3. b[l + j] = fr[i][2][j]
      BY <1>3 DEF b, l, m
    <3> QED
      BY <3>1, <3>2, <3>3
  <2>7. off[i] = off[i - 1] + l + m
    BY ONLY <2>1, <2>2, <2>3
  <2> QED
    BY <2>5, <2>6, <2>7 DEF l, m
<1> HIDE DEF off, d
<1>9. LaidAt(fr, d, off)
  BY <1>7, <1>8 DEF LaidAt, N
<1> QED
  BY <1>5, <1>9 DEF F, d

\* With k start codes found the scan is between the end of the k-th and the
\* place where the next one shows.
Lo(fr, off, k) == IF k = 0 THEN 0 ELSE off[k - 1] + Len(fr[k][1])
Hi(fr, d, off, k) == IF k < Len(fr) THEN off[k] + Len(fr[k + 1][1]) - 3 ELSE Len(d)
Between(fr, d, off, k, s) == Lo(fr, off, k) <= s /\ s <= Hi(fr, d, off, k)
Shows(d, s) == d[s + 1] = 0 /\ d[s + 2] = 0 /\ d[s + 3] = 1
CodeAt(d, s) == IF s > 0 /\ d[s] = 0 THEN s - 1 ELSE s

LEMMA FrameAt ==
  ASSUME NEW fr \in Seq(StartCodes \X Units), NEW d, NEW off, LaidAt(fr, d, off),
         NEW i \in 1 .. Len(fr)
  PROVE  /\ off[i - 1] \in Nat /\ off[i] \in Nat /\ Len(d) \in Nat /\ off[i] <= Len(d)
         /\ Len(fr[i][1]) \in {3, 4} /\ Len(fr[i][2]) \in Nat \ {0}
         /\ off[i] = off[i - 1] + Len(fr[i][1]) + Len(fr[i][2])
         /\ fr[i][1] \in StartCodes /\ fr[i][2] \in Units
<1>1. fr[i][1] \in StartCodes /\ fr[i][2] \in Units
  BY FramesTyped
<1>2. Len(fr[i][1]) \in {3, 4} /\ Len(fr[i][2]) \in Nat \ {0}
  BY <1>1, CodeIs, UnitIs
<1>3. Len(fr) \in Nat /\ i - 1 \in 0 .. Len(fr) /\ i \in 0 .. Len(fr)
  OBVIOUS
<1>4. /\ d \in Seq(Byte) /\ off \in [0 .. Len(fr) -> Nat]
      /\ off[i] <= Len(d) /\ off[i] = off[i - 1] + Len(fr[i][1]) + Len(fr[i][2])
  BY <1>3 DEF LaidAt
<1> QED
  BY <1>1, <1>2, <1>3, <1>4

\* In a unit nothing shows.
LEMMA NothingShows ==
  ASSUME NEW fr \in Seq(StartCodes \X Units), NEW d, NEW off, LaidAt(fr, d, off),
         NEW k \in 1 .. Len(fr), NEW s \in Nat,
         off[k - 1] + Len(fr[k][1]) <= s, s < off[k]
  PROVE  ~Shows(d, s)
<1> DEFINE u == fr[k][2]
           b == off[k - 1] + Len(fr[k][1])
           L == Len(u)
           j == s - b
<1>1. /\ off[k - 1] \in Nat /\ Len(fr[k][1]) \in {3, 4} /\ L \in Nat \ {0}
      /\ off[k] = off[k - 1] + Len(fr[k][1]) + L /\ u \in Units
  BY FrameAt
<1>2. b \in Nat /\ j \in 0 .. L - 1 /\ s = b + j
  BY <1>1
<1>3. /\ u[L] # 0
      /\ \A i \in 1 .. L - 2 : ~(u[i] = 0 /\ u[i + 1] = 0 /\ u[i + 2] = 1)
  BY <1>1, UnitIs
<1>4. \A i \in 1 .. L : d[b + i] = u[i]
  BY DEF LaidAt
<1> HIDE DEF u, b, L, j
<1>5. CASE j + 1 = L
  <2>1. d[s + 1] = u[L]
    <3>1. L \in 1 .. L /\ b + L = s + 1
      BY <1>1, <1>2, <1>5
    <3> QED
      BY <3>1, <1>4
  <2> QED
    BY <2>1, <1>3 DEF Shows
<1>6. CASE j + 2 = L
  <2>1. d[s + 2] = u[L]
    <3>1. L \in 1 .. L /\ b + L = s + 2
      BY <1>1, <1>2, <1>6
    <3> QED
      BY <3>1, <1>4
  <2> QED
    BY <2>1, <1>3 DEF Shows
<1>7. CASE j + 3 <= L
  <2>1. /\ j + 1 \in 1 .. L /\ j + 2 \in 1 .. L /\ j + 3 \in 1 .. L /\ j + 1 \in 1 .. L - 2
        /\ b + (j + 1) = s + 1 /\ b + (j + 2) = s + 2 /\ b + (j + 3) = s + 3
        /\ (j + 1) + 1 = j + 2 /\ (j + 1) + 2 = j + 3
    BY <1>1, <1>2, <1>7
  <2>2. d[s + 1] = u[j + 1] /\ d[s + 2] = u[j + 2] /\ d[s + 3] = u[j + 3]
    BY <2>1, <1>4
  <2>3. ~(u[j + 1] = 0 /\ u[(j + 1) + 1] = 0 /\ u[(j + 1) + 2] = 1)
    BY <2>1, <1>3
  <2> QED
    BY <2>1, <2>2, <2>3 DEF Shows
<1> QED
  BY <1>1, <1>2, <1>5, <1>6, <1>7

\* Before the k + 1st code ends, the byte in front of it is not a zero.
LEMMA NotZeroBefore ==
  ASSUME NEW fr \in Seq(StartCodes \X Units), NEW d, NEW off, LaidAt(fr, d, off),
         NEW k \in 0 .. Len(fr), off[k] > 0
  PROVE  d[off[k]] # 0
<1>1. Len(fr) \in Nat /\ off[0] = 0
  BY DEF LaidAt
<1>2. k \in 1 .. Len(fr)
  BY <1>1
<1> DEFINE u == fr[k][2]
           b == off[k - 1] + Len(fr[k][1])
           L == Len(u)
<1>3. /\ off[k - 1] \in Nat /\ Len(fr[k][1]) \in {3, 4} /\ L \in Nat \ {0}
      /\ off[k] = off[k - 1] + Len(fr[k][1]) + L /\ u \in Units
  BY <1>2, FrameAt
<1>4. u[L] # 0
  BY <1>3, UnitIs
<1>5. \A i \in 1 .. L : d[b + i] = u[i]
  BY <1>2 DEF LaidAt
<1>6. off[k] = b + L /\ L \in 1 .. L
  BY <1>3
<1> HIDE DEF u, b, L
<1> QED
  BY <1>4, <1>5, <1>6

LEMMA NextCode ==
  ASSUME NEW fr \in Seq(StartCodes \X Units), NEW d, NEW off, LaidAt(fr, d, off),
         NEW k \in 0 .. Len(fr), NEW s \in Nat, Between(fr, d, off, k, s), s + 2 < Len(d)
  PROVE  IF Shows(d, s)
         THEN /\ k < Len(fr) /\ CodeAt(d, s) = off[k]
              /\ Between(fr, d, off, k + 1, s + 3)
         ELSE Between(fr, d, off, k, s + 1)
<1>1. /\ Len(fr) \in Nat /\ Len(d) \in Nat /\ off[Len(fr)] = Len(d) /\ off[0] = 0
      /\ off[k] \in Nat
  BY DEF LaidAt
<1>2. CASE k # 0 /\ s < off[k]
  <2>1. k \in 1 .. Len(fr) /\ off[k - 1] + Len(fr[k][1]) <= s
    BY <1>1, <1>2 DEF Between, Lo
  <2>2. ~Shows(d, s)
    BY <1>2, <2>1, NothingShows
  <2>3. s + 1 <= Hi(fr, d, off, k)
    <3>1. CASE k < Len(fr)
      <4>1. k + 1 \in 1 .. Len(fr)
        BY <3>1, <1>1
      <4>2. Len(fr[k + 1][1]) \in {3, 4}
        BY <4>1, FrameAt
      <4>3. Hi(fr, d, off, k) = off[k] + Len(fr[k + 1][1]) - 3
        BY <3>1 DEF Hi
      <4>4. \A x \in Nat, y \in {3, 4} : s < x => s + 1 <= x + y - 3
        OBVIOUS
      <4>5. off[k] \in Nat
        BY <1>1
      <4> QED
        BY ONLY <1>2, <4>2, <4>3, <4>4, <4>5
    <3>2. CASE ~(k < Len(fr))
      BY <1>1, <3>2 DEF Hi
    <3> QED
      BY <3>1, <3>2
  <2>4. Lo(fr, off, k) <= s + 1
    <3>1. off[k - 1] \in Nat /\ Len(fr[k][1]) \in {3, 4}
      BY <2>1, FrameAt
    <3> QED
      BY <3>1, <2>1, <1>2 DEF Lo
  <2> QED
    BY <2>2, <2>3, <2>4 DEF Between
<1>3. CASE ~(k # 0 /\ s < off[k])
  <2>0. s >= off[k]
    BY <1>1, <1>3
  <2>1. k < Len(fr)
    BY <1>1, <2>0
  <2> DEFINE n == k + 1
             c == fr[n][1]
             l == Len(c)
  <2>2. n \in 1 .. Len(fr) /\ n - 1 = k
    BY <1>1, <2>1
  <2>3. /\ l \in {3, 4} /\ c \in StartCodes /\ Len(fr[n][2]) \in Nat \ {0}
        /\ off[n] = off[k] + l + Len(fr[n][2]) /\ off[n] <= Len(d) /\ off[n] \in Nat
    BY <2>2, FrameAt
  <2>4. /\ l = 3 => c[1] = 0 /\ c[2] = 0 /\ c[3] = 1
        /\ l = 4 => c[1] = 0 /\ c[2] = 0 /\ c[3] = 0 /\ c[4] = 1
    BY <2>3, CodeIs
  <2>5. \A j \in 1 .. l : d[off[k] + j] = c[j]
    BY <2>2 DEF LaidAt
  <2>6. s <= off[k] + l - 3
    BY <2>1 DEF Between, Hi
  <2>7. Lo(fr, off, n) = off[k] + l
    BY <2>2 DEF Lo
  <2>8. off[k] + l <= Hi(fr, d, off, n)
    <3>1. CASE n < Len(fr)
      <4>1. n + 1 \in 1 .. Len(fr)
        BY <2>2, <3>1
      <4>2. Len(fr[n + 1][1]) \in {3, 4}
        BY <4>1, FrameAt
      <4>3. Hi(fr, d, off, n) = off[n] + Len(fr[n + 1][1]) - 3
        BY <3>1 DEF Hi
      <4>4. \A x \in Nat, y \in {3, 4} : x <= x + y - 3
        OBVIOUS
      <4>5. off[n] <= Hi(fr, d, off, n) /\ off[k] + l <= off[n] /\ Hi(fr, d, off, n) \in Nat
        <5>1. off[n] <= Hi(fr, d, off, n)
          BY ONLY <2>3, <4>2, <4>3, <4>4
        <5>2. off[k] + l <= off[n]
          BY ONLY <1>1, <2>3
        <5>3. Hi(fr, d, off, n) \in Nat
          <6>1. \A x \in Nat, y \in {3, 4} : x + y - 3 \in Nat
            OBVIOUS
          <6>2. off[n] \in Nat
            BY ONLY <2>3
          <6> QED
            BY ONLY <4>2, <4>3, <6>1, <6>2
        <5> QED
          BY <5>1, <5>2, <5>3
      <4>6. off[k] + l \in Nat /\ off[n] \in Nat
        BY ONLY <1>1, <2>3
      <4> QED
        BY ONLY <4>5, <4>6
    <3>2. CASE ~(n < Len(fr))
      <4>1. Hi(fr, d, off, n) = Len(d)
        BY <3>2 DEF Hi
      <4> QED
        BY ONLY <1>1, <2>3, <4>1
    <3> QED
      BY <3>1, <3>2
  <2> HIDE DEF c, l, n
  <2>9. CASE l = 3
    <3>1. s = off[k]
      BY <1>1, <2>0, <2>6, <2>9
    <3>2. d[s + 1] = 0 /\ d[s + 2] = 0 /\ d[s + 3] = 1
      <4>1. 1 \in 1 .. l /\ 2 \in 1 .. l /\ 3 \in 1 .. l
        BY <2>9
      <4> QED
        BY <2>4, <2>5, <2>9, <3>1, <4>1
    <3>3. CodeAt(d, s) = off[k]
      BY <3>1, NotZeroBefore DEF CodeAt
    <3>4. s + 3 = off[k] + l
      BY <1>1, <2>9, <3>1
    <3>5. Between(fr, d, off, n, s + 3)
      BY <1>1, <2>7, <2>8, <2>9, <3>4 DEF Between
    <3> QED
      BY <2>1, <3>2, <3>3, <3>5 DEF Shows, n
  <2>10. CASE l = 4
    <3>0. /\ 1 \in 1 .. l /\ 2 \in 1 .. l /\ 3 \in 1 .. l /\ 4 \in 1 .. l
          /\ d[off[k] + 1] = 0 /\ d[off[k] + 2] = 0 /\ d[off[k] + 3] = 0 /\ d[off[k] + 4] = 1
      <4>1. 1 \in 1 .. l /\ 2 \in 1 .. l /\ 3 \in 1 .. l /\ 4 \in 1 .. l
        BY <2>10
      <4> QED
        BY <2>4, <2>5, <2>10, <4>1
    <3>1. CASE s = off[k]
      <4>1. ~Shows(d, s)
        BY <3>0, <3>1 DEF Shows
      <4>2. Hi(fr, d, off, k) = off[k] + l - 3
        BY <2>1 DEF Hi, n, c, l
      <4>3. s + 1 <= Hi(fr, d, off, k)
        BY <1>1, <2>10, <3>1, <4>2
      <4>4. Lo(fr, off, k) <= s + 1
        <5>1. CASE k = 0
          BY <5>1 DEF Lo
        <5>2. CASE k # 0
          <6>1. k \in 1 .. Len(fr)
            BY <1>1, <5>2
          <6>2. off[k - 1] \in Nat /\ Len(fr[k][1]) \in {3, 4}
            BY <6>1, FrameAt
          <6> QED
            BY <5>2, <6>2 DEF Between, Lo
        <5> QED
          BY <5>1, <5>2
      <4> QED
        BY <4>1, <4>3, <4>4 DEF Between
    <3>2. CASE s # off[k]
      <4>1. s = off[k] + 1
        BY <1>1, <2>0, <2>6, <2>10, <3>2
      <4>2. /\ s + 1 = off[k] + 2 /\ s + 2 = off[k] + 3 /\ s + 3 = off[k] + 4
            /\ s > 0 /\ s - 1 = off[k]
        <5>1. \A o \in Nat : /\ (o + 1) + 1 = o + 2 /\ (o + 1) + 2 = o + 3
                             /\ (o + 1) + 3 = o + 4 /\ o + 1 > 0 /\ (o + 1) - 1 = o
          OBVIOUS
        <5>2. off[k] \in Nat
          BY <1>1
        <5> QED
          BY ONLY <4>1, <5>1, <5>2
      <4>3. Shows(d, s)
        BY <3>0, <4>2 DEF Shows
      <4>4. CodeAt(d, s) = off[k]
        BY <3>0, <4>1, <4>2 DEF CodeAt
      <4>5. Between(fr, d, off, n, s + 3)
        BY <1>1, <2>7, <2>8, <2>10, <4>2 DEF Between
      <4> QED
        BY <2>1, <4>3, <4>4, <4>5 DEF n
    <3> QED
      BY <3>1, <3>2
  <2> QED
    BY <2>3, <2>9, <2>10
<1> QED
  BY <1>2, <1>3

\* When the scan ends every code was found.
LEMMA AllFound ==
  ASSUME NEW fr \in Seq(StartCodes \X Units), NEW d, NEW off, LaidAt(fr, d, off),
         NEW k \in 0 .. Len(fr), NEW s \in Nat, Between(fr, d, off, k, s), s + 2 >= Len(d)
  PROVE  k = Len(fr)
<1>0. d \in Seq(Byte) /\ off \in [0 .. Len(fr) -> Nat]
  BY DEF LaidAt
<1>1. Len(fr) \in Nat /\ Len(d) \in Nat /\ off[k] \in Nat
  BY <1>0
<1> SUFFICES ASSUME k # Len(fr) PROVE FALSE
  OBVIOUS
<1>2. k + 1 \in 1 .. Len(fr) /\ k < Len(fr) /\ (k + 1) - 1 = k
  BY <1>1
<1>3. /\ Len(fr[k + 1][1]) \in {3, 4} /\ Len(fr[k + 1][2]) \in Nat \ {0}
      /\ off[k + 1] = off[(k + 1) - 1] + Len(fr[k + 1][1]) + Len(fr[k + 1][2])
      /\ off[k + 1] <= Len(d) /\ off[k + 1] \in Nat
  BY <1>2, FrameAt
<1>4. s <= off[k] + Len(fr[k + 1][1]) - 3
  BY <1>2 DEF Between, Hi
<1> QED
  BY <1>1, <1>2, <1>3, <1>4

\* The NAL units of the frames.
UnitsOf(fr) == [i \in DOMAIN fr |-> fr[i][2]]

LEMMA PrefixGrows ==
  ASSUME NEW S, NEW s \in Seq(S), NEW k \in 1 .. Len(s)
  PROVE  Append(SubSeq(s, 1, k - 1), s[k]) = SubSeq(s, 1, k)
<1> DEFINE a == SubSeq(s, 1, k - 1)
           b == SubSeq(s, 1, k)
           c == Append(a, s[k])
<1>1. k \in Nat /\ k - 1 \in Nat /\ k <= Len(s) /\ s[k] \in S
  OBVIOUS
<1>2. a \in Seq(S) /\ Len(a) = k - 1 /\ \A i \in 1 .. k - 1 : a[i] = s[i]
  BY <1>1
<1>3. b \in Seq(S) /\ Len(b) = k /\ \A i \in 1 .. k : b[i] = s[i]
  BY <1>1
<1> HIDE DEF a, b
<1>4. c \in Seq(S) /\ Len(c) = k /\ c[k] = s[k] /\ \A i \in 1 .. k - 1 : c[i] = a[i]
  BY <1>1, <1>2, AppendProperties
<1> HIDE DEF c
<1>5. \A i \in 1 .. k : c[i] = b[i]
  BY <1>1, <1>2, <1>3, <1>4
<1>6. c = b
  BY <1>3, <1>4, <1>5
<1> QED
  BY <1>6 DEF a, b, c

\* Sequences of one element each, flattened.
LEMMA OneByOne ==
  ASSUME NEW X, NEW s \in Seq(X), NEW t, t = [i \in 1 .. Len(s) |-> <<s[i]>>]
  PROVE  FlattenSeq(t) = s
<1> DEFINE n == Len(s)
<1>1. n \in Nat /\ \A i \in 1 .. n : s[i] \in X
  OBVIOUS
<1>2. \A i \in 1 .. n : <<s[i]>> \in Seq(X)
  BY <1>1
<1> HIDE DEF n
<1>3. t \in Seq(Seq(X)) /\ Len(t) = n /\ \A i \in 1 .. n : t[i] = <<s[i]>>
  <2> DEFINE Y == Seq(X)
             e == [i \in 1 .. n |-> <<s[i]>>]
  <2>1. \A i \in 1 .. n : <<s[i]>> \in Y
    BY <1>2
  <2> HIDE DEF Y
  <2>2. e \in Seq(Y) /\ Len(e) = n /\ \A i \in 1 .. n : e[i] = <<s[i]>>
    BY <1>1, <2>1
  <2>3. t = e
    BY DEF n
  <2> QED
    BY ONLY <2>2, <2>3 DEF Y
<1>4. PICK r \in [0 .. n -> Seq(X)] :
        /\ r[0] = <<>>
        /\ \A i \in 1 .. n : r[i] = r[i - 1] \o t[i]
        /\ FlattenSeq(t) = r[n]
  <2>1. \E r \in [0 .. Len(t) -> Seq(X)] :
          /\ r[0] = <<>>
          /\ \A i \in 1 .. Len(t) : r[i] = r[i - 1] \o t[i]
          /\ FlattenSeq(t) = r[Len(t)]
    BY ONLY <1>3, FlattenRuns
  <2> QED
    BY <1>3, <2>1
<1> DEFINE P == {i \in 0 .. n : r[i] = SubSeq(s, 1, i)}
<1>5. 0 \in P
  <2>1. SubSeq(s, 1, 0) = <<>>
    OBVIOUS
  <2> QED
    BY <1>1, <1>4, <2>1
<1>6. ASSUME NEW i \in 1 .. n, i - 1 \in P PROVE i \in P
  <2> DEFINE a == SubSeq(s, 1, i - 1)
             x == s[i]
  <2>1. r[i - 1] = a /\ i \in 0 .. n /\ x \in X
    BY <1>1, <1>6
  <2>2. a \in Seq(X)
    BY <1>1 DEF n
  <2>3. Append(a, x) = SubSeq(s, 1, i)
    BY PrefixGrows DEF n
  <2>4. r[i] = r[i - 1] \o <<x>>
    BY <1>3, <1>4
  <2> HIDE DEF a, x
  <2>5. a \o <<x>> = Append(a, x)
    BY <2>1, <2>2
  <2> QED
    BY <2>1, <2>3, <2>4, <2>5
<1> HIDE DEF P
<1>7. \A i \in 0 .. n : i \in P
  BY <1>1, <1>5, <1>6, UpTo
<1>8. r[n] = SubSeq(s, 1, n)
  <2>1. n \in P
    BY <1>1, <1>7
  <2> QED
    BY <2>1 DEF P
<1> QED
  BY <1>4, <1>8, WholeSeq DEF n

\* What parse cuts out for a start code at p, up to e.
Long(d, p) == p + 4 <= Len(d) /\ SubSeq(d, p + 1, p + 4) = <<0, 0, 0, 1>>
CutFrom(d, p, e) == SubSeq(d, p + (IF Long(d, p) THEN 4 ELSE 3) + 1, e)

LEMMA CutIsUnit ==
  ASSUME NEW fr \in Seq(StartCodes \X Units), NEW d, NEW off, LaidAt(fr, d, off),
         NEW i \in 1 .. Len(fr)
  PROVE  CutFrom(d, off[i - 1], off[i]) = fr[i][2]
<1> DEFINE p == off[i - 1]
           e == off[i]
           c == fr[i][1]
           l == Len(c)
           u == fr[i][2]
           L == Len(u)
<1>1. /\ p \in Nat /\ e \in Nat /\ Len(d) \in Nat /\ e <= Len(d)
      /\ l \in {3, 4} /\ L \in Nat \ {0} /\ e = p + l + L
      /\ c \in StartCodes /\ u \in Units
  BY FrameAt
<1>2. /\ l = 3 => c[3] = 1
      /\ l = 4 => c[1] = 0 /\ c[2] = 0 /\ c[3] = 0 /\ c[4] = 1
  BY <1>1, CodeIs
<1>3. u \in Seq(Byte)
  BY <1>1, UnitIs
<1>4. /\ d \in Seq(Byte)
      /\ \A j \in 1 .. l : d[p + j] = c[j]
      /\ \A j \in 1 .. L : d[p + l + j] = u[j]
  BY DEF LaidAt
<1> HIDE DEF p, e, c, l, u, L
<1>5. (IF Long(d, p) THEN 4 ELSE 3) = l
  <2> DEFINE s == SubSeq(d, p + 1, p + 4)
  <2>1. CASE l = 4
    <3>1. p + 4 <= Len(d)
      BY <1>1, <2>1
    <3>2. /\ s \in Seq(Byte) /\ Len(s) = 4
          /\ s[1] = d[p + 1] /\ s[2] = d[p + 2] /\ s[3] = d[p + 3] /\ s[4] = d[p + 4]
      <4> DEFINE m == p + 1
                 k == p + 4
      <4>1. m \in Int /\ k \in Int /\ m <= k /\ k - m + 1 = 4 /\ \A j \in m .. k : d[j] \in Byte
        BY <1>1, <1>4, <3>1
      <4>2. m + 1 - 1 = p + 1 /\ m + 2 - 1 = p + 2 /\ m + 3 - 1 = p + 3 /\ m + 4 - 1 = p + 4
        BY <1>1
      <4> HIDE DEF m, k
      <4>3. /\ SubSeq(d, m, k) \in Seq(Byte)
            /\ Len(SubSeq(d, m, k)) = IF m <= k THEN k - m + 1 ELSE 0
            /\ \A j \in 1 .. k - m + 1 : SubSeq(d, m, k)[j] = d[m + j - 1]
        BY ONLY <4>1, SubSeqProperties
      <4>4. SubSeq(d, m, k) = s
        BY DEF m, k
      <4> HIDE DEF s
      <4>5. s \in Seq(Byte) /\ Len(s) = 4 /\ \A j \in 1 .. 4 : s[j] = d[m + j - 1]
        BY ONLY <4>1, <4>3, <4>4
      <4>6. s[1] = d[m + 1 - 1] /\ s[2] = d[m + 2 - 1] /\ s[3] = d[m + 3 - 1] /\ s[4] = d[m + 4 - 1]
        BY ONLY <4>5
      <4> QED
        BY ONLY <4>2, <4>5, <4>6
    <3> HIDE DEF s
    <3>3. /\ 1 \in 1 .. l /\ 2 \in 1 .. l /\ 3 \in 1 .. l /\ 4 \in 1 .. l
      BY <2>1
    <3>4. s[1] = 0 /\ s[2] = 0 /\ s[3] = 0 /\ s[4] = 1
      BY <1>2, <1>4, <2>1, <3>2, <3>3
    <3>5. s = <<0, 0, 0, 1>>
      BY ONLY <3>2, <3>4 DEF Byte
    <3> QED
      BY <2>1, <3>1, <3>5 DEF Long, s
  <2>2. CASE l = 3
    <3>1. 3 \in 1 .. l /\ d[p + 3] = 1
      BY <1>2, <1>4, <2>2
    <3>2. p + 4 <= Len(d) => s[3] = d[p + 3]
      BY <1>1, <1>4
    <3> HIDE DEF s
    <3>3. s = <<0, 0, 0, 1>> => s[3] = 0
      <4>1. <<0, 0, 0, 1>>[3] = 0
        OBVIOUS
      <4> QED
        BY ONLY <4>1
    <3>5. p + 4 <= Len(d) => s # <<0, 0, 0, 1>>
      BY <3>1, <3>2, <3>3
    <3>4. ~Long(d, p)
      BY <3>5 DEF Long, s
    <3> QED
      BY <2>2, <3>4
  <2> QED
    BY <1>1, <2>1, <2>2
<1> DEFINE s == SubSeq(d, p + l + 1, e)
<1>6. s \in Seq(Byte) /\ Len(s) = L /\ \A j \in 1 .. L : s[j] = u[j]
  <2>1. p + l + 1 \in Nat /\ p + l + 1 >= 1 /\ e - (p + l + 1) + 1 = L /\ p + l + 1 <= e
    BY <1>1
  <2>2. \A j \in (p + l + 1) .. e : d[j] \in Byte
    BY <1>1, <1>4
  <2>3. /\ s \in Seq(Byte) /\ Len(s) = L
        /\ \A j \in 1 .. L : s[j] = d[(p + l + 1) + j - 1]
    <3> DEFINE m == p + l + 1
    <3>1. m \in Int /\ e \in Int /\ m <= e /\ e - m + 1 = L /\ \A j \in m .. e : d[j] \in Byte
      BY <1>1, <2>1, <2>2
    <3> HIDE DEF m
    <3>2. /\ SubSeq(d, m, e) \in Seq(Byte)
          /\ Len(SubSeq(d, m, e)) = e - m + 1
          /\ \A j \in 1 .. e - m + 1 : SubSeq(d, m, e)[j] = d[m + j - 1]
      BY ONLY <3>1, SubSeqProperties
    <3> QED
      BY <3>1, <3>2 DEF m
  <2>4. \A j \in 1 .. L : (p + l + 1) + j - 1 = p + l + j
    BY <1>1
  <2> QED
    BY <1>4, <2>3, <2>4
<1> HIDE DEF s
<1>7. s = u
  <2>1. u \in Seq(Byte) /\ Len(u) = L
    BY <1>3 DEF L
  <2> QED
    BY ONLY <1>6, <2>1
<1> QED
  BY <1>5, <1>7 DEF CutFrom, s, p, e, u

\* The offsets that were found, and what is cut there.
Offsets(at, off) == \A i \in 1 .. Len(at) : at[i] = off[i - 1]
Cuts(d, at) ==
  [i \in DOMAIN at |->
     LET cut == CutFrom(d, at[i], IF i < Len(at) THEN at[i + 1] ELSE Len(d))
     IN IF cut = <<>> THEN <<>> ELSE <<cut>>]

LEMMA CutAll ==
  ASSUME NEW fr \in Seq(StartCodes \X Units), NEW d, NEW off, LaidAt(fr, d, off),
         NEW at \in Seq(Nat), Len(at) = Len(fr),
         Offsets(at, off)
  PROVE  FlattenSeq(Cuts(d, at)) = UnitsOf(fr) /\ UnitsOf(fr) \in Seq(Units)
<1> DEFINE n == Len(fr)
           t == Cuts(d, at)
           v == UnitsOf(fr)
<1>1. n \in Nat /\ DOMAIN at = 1 .. n /\ DOMAIN fr = 1 .. n /\ Len(at) = n
      /\ \A i \in 1 .. Len(at) : at[i] = off[i - 1]
  BY DEF Offsets
<1>2. \A i \in 1 .. n : fr[i][2] \in Units /\ fr[i][2] # <<>>
  <2>1. ASSUME NEW i \in 1 .. n PROVE fr[i][2] \in Units /\ fr[i][2] # <<>>
    <3>1. fr[i][2] \in Units
      BY FramesTyped
    <3>2. Len(fr[i][2]) # 0
      BY <3>1, UnitIs
    <3> QED
      BY <3>1, <3>2
  <2> QED
    BY <2>1
<1>3. v \in Seq(Units) /\ Len(v) = n /\ \A i \in 1 .. n : v[i] = fr[i][2]
  <2>1. v = [i \in 1 .. n |-> fr[i][2]]
    BY <1>1 DEF UnitsOf
  <2> HIDE DEF v, n
  <2> QED
    BY <1>1, <1>2, <2>1
<1>4. ASSUME NEW i \in 1 .. n
      PROVE  CutFrom(d, at[i], IF i < Len(at) THEN at[i + 1] ELSE Len(d)) = fr[i][2]
  <2>1. CutFrom(d, off[i - 1], off[i]) = fr[i][2]
    BY ONLY fr \in Seq(StartCodes \X Units), LaidAt(fr, d, off), i \in 1 .. Len(fr), CutIsUnit
  <2>2. at[i] = off[i - 1]
    BY <1>1
  <2>3. (IF i < Len(at) THEN at[i + 1] ELSE Len(d)) = off[i]
    <3>1. CASE i < Len(at)
      <4>1. i + 1 \in 1 .. Len(at) /\ (i + 1) - 1 = i
        BY <1>1, <3>1
      <4>2. at[i + 1] = off[(i + 1) - 1]
        BY ONLY <1>1, <4>1
      <4> QED
        BY <3>1, <4>1, <4>2
    <3>2. CASE ~(i < Len(at))
      <4>1. i = n
        <5>1. Len(at) = n /\ n \in Nat
          BY <1>1
        <5> HIDE DEF n
        <5> QED
          BY ONLY <3>2, <5>1, i \in 1 .. n
      <4>2. off[n] = Len(d)
        BY DEF LaidAt
      <4> QED
        BY <3>2, <4>1, <4>2
    <3> QED
      BY <3>1, <3>2
  <2> QED
    BY <2>1, <2>2, <2>3
<1> HIDE DEF n, v
<1>5. t = [i \in 1 .. n |-> <<v[i]>>]
  <2>1. ASSUME NEW i \in 1 .. n
        PROVE  (LET cut == CutFrom(d, at[i], IF i < Len(at) THEN at[i + 1] ELSE Len(d))
                IN IF cut = <<>> THEN <<>> ELSE <<cut>>) = <<v[i]>>
    BY <1>2, <1>3, <1>4
  <2> QED
    BY <1>1, <2>1 DEF Cuts
<1> HIDE DEF t
<1>6. FlattenSeq(t) = v
  BY ONLY <1>3, <1>5, OneByOne
<1> QED
  BY <1>3, <1>6 DEF v, t

-----------------------------------------------------------------------------
(* A sample is read back.                                                  *)

\* A decoder: units read, the one begun, bytes it still lacks.
Reader(done, part, left) == [done |-> done, open |-> part, left |-> left]
Fresh == Reader(<<>>, <<>>, 0)
Readers == [done : Seq(Seq(Nat)), open : Seq(Nat), left : Nat]

\* g is the recursion of Decoded.
Decodes(g, bytes) ==
  g = [T \in SUBSET DOMAIN bytes |->
         IF T = {} THEN Fresh ELSE ReadByte(g[T \ {Max(T)}], bytes[Max(T)])]

LEMMA DecodedUnfolds ==
  ASSUME NEW bytes
  PROVE  Decoded(bytes) = (CHOOSE g : Decodes(g, bytes))[DOMAIN bytes]
  BY DEF Decoded, FoldLeft, MapThenFoldSet, Decodes, Fresh, Reader

LEMMA ReadTyped ==
  ASSUME NEW v \in Readers, NEW b \in Nat
  PROVE  ReadByte(v, b) \in Readers
<1> DEFINE o == Append(v.open, b)
<1>1. v.done \in Seq(Seq(Nat)) /\ v.open \in Seq(Nat) /\ v.left \in Nat
  BY DEF Readers
<1>2. o \in Seq(Nat) /\ <<>> \in Seq(Nat)
  BY <1>1, AppendProperties
<1>3. Append(v.done, o) \in Seq(Seq(Nat))
  BY <1>1, <1>2, AppendProperties
<1>4. v.left # 0 => v.left - 1 \in Nat
  BY <1>1
<1>5. ReadByte(v, b) =
        IF v.left = 0 THEN [done |-> v.done, open |-> <<>>, left |-> b]
        ELSE IF v.left = 1
               THEN [done |-> Append(v.done, o), open |-> <<>>, left |-> 0]
               ELSE [done |-> v.done, open |-> o, left |-> v.left - 1]
  BY DEF ReadByte
<1> HIDE DEF o
<1> QED
  BY <1>1, <1>2, <1>3, <1>4, <1>5 DEF Readers

\* What one byte does.
LEMMA ReadOne ==
  ASSUME NEW done, NEW part, NEW b
  PROVE  /\ ReadByte(Reader(done, part, 0), b) = Reader(done, <<>>, b)
         /\ ReadByte(Reader(done, part, 1), b) =
              Reader(Append(done, Append(part, b)), <<>>, 0)
<1>1. \A left : /\ Reader(done, part, left).done = done
                /\ Reader(done, part, left).open = part
                /\ Reader(done, part, left).left = left
  BY DEF Reader
<1>2. ASSUME NEW v
      PROVE  ReadByte(v, b) =
               IF v.left = 0 THEN Reader(v.done, <<>>, b)
               ELSE IF v.left = 1
                 THEN Reader(Append(v.done, Append(v.open, b)), <<>>, 0)
                 ELSE Reader(v.done, Append(v.open, b), v.left - 1)
  BY DEF ReadByte, Reader
<1>3. ReadByte(Reader(done, part, 0), b) = Reader(done, <<>>, b)
  BY <1>1, <1>2
<1>4. ReadByte(Reader(done, part, 1), b) = Reader(Append(done, Append(part, b)), <<>>, 0)
  BY <1>1, <1>2
<1> QED
  BY <1>3, <1>4

LEMMA ReadMore ==
  ASSUME NEW done, NEW part, NEW b, NEW left \in Nat, left > 1
  PROVE  ReadByte(Reader(done, part, left), b) = Reader(done, Append(part, b), left - 1)
<1> DEFINE v == Reader(done, part, left)
<1>1. v.done = done /\ v.open = part /\ v.left = left
  BY DEF Reader
<1>2. ReadByte(v, b) =
        IF v.left = 0 THEN Reader(v.done, <<>>, b)
        ELSE IF v.left = 1
          THEN Reader(Append(v.done, Append(v.open, b)), <<>>, 0)
          ELSE Reader(v.done, Append(v.open, b), v.left - 1)
  BY DEF ReadByte, Reader
<1> HIDE DEF v
<1>3. left # 0 /\ left # 1
  OBVIOUS
<1> QED
  BY <1>1, <1>2, <1>3 DEF v

LEMMA SeqWiden ==
  ASSUME NEW S, NEW T, S \subseteq T, NEW s \in Seq(S)
  PROVE  s \in Seq(T)
  OBVIOUS

\* A sample is read byte after byte.
LEMMA ReadRuns ==
  ASSUME NEW bytes \in Seq(Nat)
  PROVE  \E r : /\ r[0] = Fresh
                /\ \A i \in 1 .. Len(bytes) : r[i] = ReadByte(r[i - 1], bytes[i])
                /\ Decoded(bytes) = r[Len(bytes)]
<1> DEFINE n == Len(bytes)
           V == Readers
           step == [p \in V \X (1 .. n) |-> ReadByte(p[1], bytes[p[2]])]
<1>1. n \in Nat /\ DOMAIN bytes = 1 .. n /\ \A i \in 1 .. n : bytes[i] \in Nat
  OBVIOUS
<1>2. \A v \in V, i \in 1 .. n : step[<<v, i>>] = ReadByte(v, bytes[i])
  OBVIOUS
<1>3. \A v \in V, i \in 1 .. n : ReadByte(v, bytes[i]) \in V
  BY <1>1, ReadTyped
<1>4. step \in [V \X (1 .. n) -> V]
  BY <1>3
<1>5. Fresh \in V
  BY DEF Fresh, Reader, Readers
<1> HIDE DEF n, V, step
<1>6. PICK g \in [SUBSET (1 .. n) -> V] : FoldsOver(g, n, Fresh, step)
  BY <1>1, <1>4, <1>5, FoldExists
<1>7. Decodes(g, bytes)
  <2>1. ASSUME NEW T \in SUBSET (1 .. n), T # {}
        PROVE  g[T] = ReadByte(g[T \ {Max(T)}], bytes[Max(T)])
    <3>1. Max(T) \in T
      BY <1>1, <2>1, MaxIn
    <3>2. g[T] = step[<<g[T \ {Max(T)}], Max(T)>>] /\ g[T \ {Max(T)}] \in V
          /\ Max(T) \in 1 .. n
      BY <1>6, <2>1, <3>1 DEF FoldsOver
    <3> QED
      BY <1>2, <3>2
  <2>2. g[{}] = Fresh
    BY <1>6 DEF FoldsOver
  <2>3. g = [T \in SUBSET (1 .. n) |-> g[T]]
    BY <1>6
  <2> QED
    BY <1>1, <2>1, <2>2, <2>3 DEF Decodes
<1> DEFINE h == CHOOSE h : Decodes(h, bytes)
<1>8. Decodes(h, bytes)
  BY <1>7
<1>9. Decoded(bytes) = h[1 .. n]
  BY <1>1, DecodedUnfolds
<1> HIDE DEF h
<1> DEFINE r == [i \in 0 .. n |-> h[1 .. i]]
<1>10. r[0] = Fresh
  <2>1. 1 .. 0 = {}
    OBVIOUS
  <2>2. h[{}] = Fresh
    BY <1>8 DEF Decodes
  <2> QED
    BY <1>1, <2>1, <2>2
<1>11. ASSUME NEW i \in 1 .. n PROVE r[i] = ReadByte(r[i - 1], bytes[i])
  <2>1. i \in Nat \ {0} /\ i - 1 \in 0 .. n /\ i \in 0 .. n
    BY <1>1
  <2>2. Max(1 .. i) = i /\ (1 .. i) \ {i} = 1 .. (i - 1) /\ (1 .. i) # {}
    BY <2>1, MaxOfRange
  <2>3. 1 .. i \in SUBSET (1 .. n)
    BY <1>1
  <2>4. h[1 .. i] = ReadByte(h[1 .. (i - 1)], bytes[i])
    BY <1>1, <1>8, <2>2, <2>3 DEF Decodes
  <2>5. r[i] = h[1 .. i] /\ r[i - 1] = h[1 .. (i - 1)]
    BY <2>1
  <2> QED
    BY <2>4, <2>5
<1>12. r[n] = h[1 .. n]
  BY <1>1
<1> HIDE DEF r
<1> QED
  BY <1>9, <1>10, <1>11, <1>12 DEF n

\* From o on r reads a unit and its length.
Reads(r, o, u) ==
  /\ r[o + 1] = ReadByte(r[o], Len(u))
  /\ \A k \in 1 .. Len(u) : r[o + 1 + k] = ReadByte(r[o + k], u[k])

LEMMA UnitRead ==
  ASSUME NEW u \in Units, NEW done, NEW o \in Nat, NEW r,
         r[o] = Reader(done, <<>>, 0), Reads(r, o, u)
  PROVE  r[o + 1 + Len(u)] = Reader(Append(done, u), <<>>, 0)
<1> DEFINE L == Len(u)
           P == {k \in 0 .. L - 1 : r[o + 1 + k] = Reader(done, SubSeq(u, 1, k), L - k)}
<1>1. u \in Seq(Byte) /\ L \in Nat \ {0}
  BY UnitIs
<1>2. L - 1 \in Nat /\ 0 \in 0 .. L - 1 /\ L - 1 \in 0 .. L - 1 /\ L \in 1 .. L
  BY <1>1
<1>3. /\ r[o + 1] = ReadByte(r[o], L)
      /\ \A k \in 1 .. L : r[o + 1 + k] = ReadByte(r[o + k], u[k])
  BY DEF Reads
<1>4. \A k \in 1 .. L : Append(SubSeq(u, 1, k - 1), u[k]) = SubSeq(u, 1, k)
  BY <1>1, PrefixGrows
<1> HIDE DEF L
<1>5. 0 \in P
  <2>1. r[o + 1] = Reader(done, <<>>, L)
    BY <1>3, ReadOne
  <2>2. SubSeq(u, 1, 0) = <<>> /\ L - 0 = L /\ o + 1 + 0 = o + 1
    BY <1>1
  <2> QED
    BY <1>2, <2>1, <2>2
<1>6. ASSUME NEW k \in 1 .. L - 1, k - 1 \in P PROVE k \in P
  <2>1. /\ k \in 1 .. L /\ k \in 0 .. L - 1 /\ L - (k - 1) \in Nat /\ L - (k - 1) > 1
        /\ (L - (k - 1)) - 1 = L - k /\ o + 1 + (k - 1) = o + k
    BY <1>1
  <2>2. r[o + k] = Reader(done, SubSeq(u, 1, k - 1), L - (k - 1))
    <3>1. r[o + 1 + (k - 1)] = Reader(done, SubSeq(u, 1, k - 1), L - (k - 1))
      BY <1>6
    <3> QED
      BY <2>1, <3>1
  <2>3. r[o + 1 + k] = ReadByte(r[o + k], u[k])
    BY <1>3, <2>1
  <2> DEFINE a == SubSeq(u, 1, k - 1)
             l == L - (k - 1)
  <2>4. Append(a, u[k]) = SubSeq(u, 1, k)
    BY <1>4, <2>1
  <2>5. l \in Nat /\ l > 1 /\ l - 1 = L - k /\ r[o + k] = Reader(done, a, l)
    BY <2>1, <2>2
  <2> HIDE DEF a, l
  <2>6. ReadByte(Reader(done, a, l), u[k]) = Reader(done, Append(a, u[k]), l - 1)
    <3> DEFINE b == u[k]
    <3> HIDE DEF b
    <3>1. ReadByte(Reader(done, a, l), b) = Reader(done, Append(a, b), l - 1)
      BY ONLY <2>5, ReadMore
    <3> QED
      BY <3>1 DEF b
  <2> QED
    BY <2>1, <2>3, <2>4, <2>5, <2>6
<1> HIDE DEF P
<1>7. L - 1 \in P
  <2>1. \A k \in 0 .. L - 1 : k \in P
    BY <1>2, <1>5, <1>6, UpTo
  <2> QED
    BY <1>2, <2>1
<1>8. r[o + L] = Reader(done, SubSeq(u, 1, L - 1), 1)
  <2>1. r[o + 1 + (L - 1)] = Reader(done, SubSeq(u, 1, L - 1), L - (L - 1))
    BY <1>7 DEF P
  <2>2. o + 1 + (L - 1) = o + L /\ L - (L - 1) = 1
    BY <1>1
  <2> QED
    BY <2>1, <2>2
<1> DEFINE a == SubSeq(u, 1, L - 1)
<1>9. Append(a, u[L]) = u
  <2>1. Append(a, u[L]) = SubSeq(u, 1, L)
    BY <1>2, <1>4
  <2>2. SubSeq(u, 1, Len(u)) = u
    BY <1>1, WholeSeq
  <2> QED
    BY <2>1, <2>2 DEF L
<1>10. r[o + 1 + L] = ReadByte(Reader(done, a, 1), u[L])
  BY <1>2, <1>3, <1>8
<1> HIDE DEF a
<1>11. ReadByte(Reader(done, a, 1), u[L]) = Reader(Append(done, Append(a, u[L])), <<>>, 0)
  BY ReadOne
<1> QED
  BY <1>9, <1>10, <1>11 DEF L

LEMMA SampleRead ==
  ASSUME NEW units \in Seq(Units), NEW F,
         F = [i \in DOMAIN units |-> <<Len(units[i])>> \o units[i]]
  PROVE  /\ Decoded(FlattenSeq(F)) = Reader(units, <<>>, 0)
         /\ FlattenSeq(F) \in Seq(Nat)
<1> DEFINE N == Len(units)
<1>1. N \in Nat /\ DOMAIN units = 1 .. N /\ \A j \in 1 .. N : units[j] \in Units
  OBVIOUS
<1> HIDE DEF N
<1>2. ASSUME NEW j \in 1 .. N
      PROVE  /\ F[j] \in Seq(Nat) /\ Len(F[j]) = 1 + Len(units[j]) /\ Len(units[j]) \in Nat
             /\ F[j][1] = Len(units[j])
             /\ \A k \in 1 .. Len(units[j]) : F[j][1 + k] = units[j][k]
  <2> DEFINE u == units[j]
             a == <<Len(u)>>
  <2>1. u \in Seq(Byte) /\ Len(u) \in Nat
    BY <1>1, UnitIs
  <2>2. u \in Seq(Nat)
    <3>1. Byte \subseteq Nat
      BY DEF Byte
    <3> HIDE DEF u
    <3> QED
      BY ONLY <2>1, <3>1, SeqWiden
  <2>3. a \in Seq(Nat) /\ Len(a) = 1 /\ a[1] = Len(u)
    BY <2>1
  <2>4. F[j] = a \o u
    BY <1>1
  <2> HIDE DEF a, u
  <2>5. /\ F[j] \in Seq(Nat) /\ Len(F[j]) = 1 + Len(u)
        /\ \A i \in 1 .. 1 + Len(u) : F[j][i] = IF i <= 1 THEN a[i] ELSE u[i - 1]
    <3>1. /\ a \o u \in Seq(Nat) /\ Len(a \o u) = Len(a) + Len(u)
          /\ \A i \in 1 .. Len(a) + Len(u) :
               (a \o u)[i] = IF i <= Len(a) THEN a[i] ELSE u[i - Len(a)]
      BY ONLY <2>2, <2>3, ConcatProperties
    <3> QED
      BY ONLY <2>3, <2>4, <3>1
  <2>6. F[j][1] = Len(u)
    <3>1. 1 \in 1 .. 1 + Len(u)
      BY <2>1
    <3>3. 1 <= 1
      OBVIOUS
    <3>2. F[j][1] = a[1]
      BY ONLY <2>5, <3>1, <3>3
    <3> QED
      BY <2>3, <3>2
  <2>7. ASSUME NEW k \in 1 .. Len(u) PROVE F[j][1 + k] = u[k]
    <3>1. 1 + k \in 1 .. 1 + Len(u) /\ ~(1 + k <= 1) /\ (1 + k) - 1 = k
      BY <2>1
    <3>2. F[j][1 + k] = u[(1 + k) - 1]
      BY <2>5, <3>1
    <3> QED
      BY <3>1, <3>2
  <2> QED
    BY <2>1, <2>5, <2>6, <2>7 DEF u
<1>3. F \in Seq(Seq(Nat)) /\ Len(F) = N
  <2>1. F = [j \in 1 .. N |-> F[j]]
    BY <1>1
  <2>2. \A j \in 1 .. N : F[j] \in Seq(Nat)
    BY <1>2
  <2> DEFINE X == Seq(Nat)
  <2> HIDE DEF X
  <2>3. [j \in 1 .. N |-> F[j]] \in Seq(X) /\ Len([j \in 1 .. N |-> F[j]]) = N
    BY ONLY <1>1, <2>2 DEF X
  <2> QED
    BY <2>1, <2>3 DEF X
<1>4. PICK c \in [0 .. N -> Seq(Nat)] :
        /\ c[0] = <<>>
        /\ \A i \in 1 .. N : c[i] = c[i - 1] \o F[i]
        /\ FlattenSeq(F) = c[N]
  <2>1. \E c \in [0 .. Len(F) -> Seq(Nat)] :
          /\ c[0] = <<>>
          /\ \A i \in 1 .. Len(F) : c[i] = c[i - 1] \o F[i]
          /\ FlattenSeq(F) = c[Len(F)]
    BY ONLY <1>3, FlattenRuns
  <2> QED
    BY <1>3, <2>1
<1>5. c[N] \in Seq(Nat)
  BY <1>1, <1>4
<1>6. PICK r : /\ r[0] = Fresh
               /\ \A i \in 1 .. Len(c[N]) : r[i] = ReadByte(r[i - 1], c[N][i])
               /\ Decoded(c[N]) = r[Len(c[N])]
  BY <1>5, ReadRuns
<1>7. \A j \in 0 .. N : /\ Len(c[j]) <= Len(c[N])
                        /\ \A i \in 1 .. Len(c[j]) : c[N][i] = c[j][i]
  <2>1. Concatenates(Nat, N, c, F)
    BY <1>1, <1>2, <1>4 DEF Concatenates
  <2>2. Grows(N, c)
    BY ONLY <2>1, RunGrows
  <2> QED
    BY ONLY <2>2 DEF Grows
<1>8. ASSUME NEW j \in 1 .. N
      PROVE  /\ Len(c[j - 1]) \in Nat /\ Len(c[j]) = Len(c[j - 1]) + Len(F[j])
             /\ \A k \in 1 .. Len(F[j]) : c[j][Len(c[j - 1]) + k] = F[j][k]
  <2> DEFINE a == c[j - 1]
             b == F[j]
  <2>1. a \in Seq(Nat) /\ b \in Seq(Nat) /\ c[j] = a \o b
    <3>1. j - 1 \in 0 .. N
      BY <1>1
    <3> QED
      BY <1>2, <1>4, <3>1
  <2> HIDE DEF a, b
  <2>2. /\ Len(c[j]) = Len(a) + Len(b) /\ Len(a) \in Nat /\ Len(b) \in Nat
        /\ \A i \in 1 .. Len(a) + Len(b) : c[j][i] = IF i <= Len(a) THEN a[i] ELSE b[i - Len(a)]
    BY ONLY <2>1, ConcatProperties
  <2>3. ASSUME NEW k \in 1 .. Len(b) PROVE c[j][Len(a) + k] = b[k]
    <3>1. /\ Len(a) + k \in 1 .. Len(a) + Len(b)
          /\ ~(Len(a) + k <= Len(a)) /\ Len(a) + k - Len(a) = k
      BY ONLY <2>2, k \in 1 .. Len(b)
    <3>2. c[j][Len(a) + k] = b[Len(a) + k - Len(a)]
      BY <2>2, <3>1
    <3> QED
      BY <3>1, <3>2
  <2> QED
    BY <2>2, <2>3 DEF a, b
<1> DEFINE P == {j \in 0 .. N : r[Len(c[j])] = Reader(SubSeq(units, 1, j), <<>>, 0)}
<1>9. 0 \in P
  <2>1. SubSeq(units, 1, 0) = <<>> /\ Len(c[0]) = 0 /\ 0 \in 0 .. N
    BY <1>1, <1>4
  <2> QED
    BY <2>1, <1>6 DEF Fresh
<1>10. ASSUME NEW j \in 1 .. N, j - 1 \in P PROVE j \in P
  <2> DEFINE o == Len(c[j - 1])
             done == SubSeq(units, 1, j - 1)
             u == units[j]
             x == F[j]
  <2>1. /\ j \in 0 .. N /\ u \in Units /\ o \in Nat /\ Len(u) \in Nat
        /\ Len(c[j]) = o + Len(x) /\ Len(x) = 1 + Len(u)
        /\ x[1] = Len(u) /\ \A k \in 1 .. Len(u) : x[1 + k] = u[k]
        /\ r[o] = Reader(done, <<>>, 0)
    <3>1. j \in 0 .. N /\ u \in Units /\ r[o] = Reader(done, <<>>, 0)
      BY <1>1, <1>10
    <3>2. /\ Len(x) = 1 + Len(u) /\ x[1] = Len(u) /\ Len(u) \in Nat
          /\ \A k \in 1 .. Len(u) : x[1 + k] = u[k]
      BY <1>2
    <3>3. o \in Nat /\ Len(c[j]) = o + Len(x)
      BY <1>8
    <3> QED
      BY <3>1, <3>2, <3>3
  <2>2. Append(done, u) = SubSeq(units, 1, j)
    BY <1>1, PrefixGrows DEF N
  <2>3. ASSUME NEW k \in 1 .. Len(x) PROVE r[o + k] = ReadByte(r[o + k - 1], x[k])
    <3>1. Len(c[j]) <= Len(c[N]) /\ Len(c[N]) \in Nat
      <4>1. Len(c[N]) \in Nat
        BY <1>5
      <4>2. Len(c[j]) <= Len(c[N])
        BY <1>7, <2>1
      <4> QED
        BY <4>1, <4>2
    <3>2. o + k \in 1 .. Len(c[j]) /\ o + k \in 1 .. Len(c[N])
      <4>1. o \in Nat /\ Len(x) \in Nat /\ Len(c[j]) = o + Len(x)
        BY <2>1
      <4> HIDE DEF o, x
      <4> QED
        BY ONLY <3>1, <4>1, k \in 1 .. Len(x)
    <3>3. c[N][o + k] = c[j][o + k]
      BY <1>7, <2>1, <3>2
    <3>4. c[j][o + k] = x[k]
      BY <1>8
    <3>5. r[o + k] = ReadByte(r[o + k - 1], c[N][o + k])
      BY <1>6, <3>2
    <3> QED
      BY <3>3, <3>4, <3>5
  <2> HIDE DEF o, done, u, x
  <2>4. Reads(r, o, u)
    <3>1. r[o + 1] = ReadByte(r[o], Len(u))
      <4>1. 1 \in 1 .. Len(x) /\ o + 1 - 1 = o
        BY ONLY <2>1
      <4>2. r[o + 1] = ReadByte(r[o + 1 - 1], x[1])
        BY <2>3, <4>1
      <4> QED
        BY <2>1, <4>1, <4>2
    <3>2. ASSUME NEW k \in 1 .. Len(u) PROVE r[o + 1 + k] = ReadByte(r[o + k], u[k])
      <4>1. 1 + k \in 1 .. Len(x) /\ o + (1 + k) - 1 = o + k /\ o + (1 + k) = o + 1 + k
        <5>1. \A m, l, n, i \in Nat :
                n = 1 + l /\ i >= 1 /\ i <= l =>
                  /\ 1 + i \in 1 .. n /\ m + (1 + i) - 1 = m + i
                  /\ m + (1 + i) = m + 1 + i
          OBVIOUS
        <5>2. o \in Nat /\ Len(u) \in Nat /\ Len(x) \in Nat /\ Len(x) = 1 + Len(u)
          BY ONLY <2>1
        <5>3. k \in Nat /\ k >= 1 /\ k <= Len(u)
          BY ONLY <5>2, k \in 1 .. Len(u)
        <5> QED
          BY ONLY <5>1, <5>2, <5>3
      <4>2. r[o + (1 + k)] = ReadByte(r[o + (1 + k) - 1], x[1 + k])
        BY <2>3, <4>1
      <4>3. x[1 + k] = u[k]
        BY <2>1
      <4> QED
        BY <4>1, <4>2, <4>3
    <3> QED
      BY <3>1, <3>2 DEF Reads
  <2>5. r[o + 1 + Len(u)] = Reader(Append(done, u), <<>>, 0)
    BY ONLY <2>1, <2>4, UnitRead
  <2>6. o + 1 + Len(u) = Len(c[j])
    BY ONLY <2>1
  <2> QED
    BY <2>1, <2>2, <2>5, <2>6
<1> HIDE DEF P
<1>11. r[Len(c[N])] = Reader(SubSeq(units, 1, N), <<>>, 0)
  <2>1. N \in P
    <3>1. \A j \in 0 .. N : j \in P
      BY <1>1, <1>9, <1>10, UpTo
    <3> QED
      BY <1>1, <3>1
  <2> QED
    BY <2>1 DEF P
<1>12. SubSeq(units, 1, N) = units
  <2>1. SubSeq(units, 1, Len(units)) = units
    BY ONLY units \in Seq(Units), WholeSeq
  <2> QED
    BY <2>1 DEF N
<1> QED
  BY <1>4, <1>5, <1>6, <1>11, <1>12

\* What the splitter knows of the stream off lays out.
Scanned(off) ==
  /\ LaidAt(framed, data, off)
  /\ found \in Seq(Nat) /\ Len(found) <= Len(framed)
  /\ scanAt \in Nat /\ scanAt <= Len(data)
  /\ \A i \in 1 .. Len(found) : found[i] = off[i - 1]
  /\ nalStage = "scan" => Between(framed, data, off, Len(found), scanAt)
  /\ nalStage # "scan" => Len(found) = Len(framed)

NalInv ==
  /\ framed \in Seq(StartCodes \X Units)
  /\ \E off : Scanned(off)
  /\ NalTypeOK /\ UnitsArriveWhole

\* A start code is followed by a unit.
LEMMA FoundInside ==
  ASSUME NEW fr \in Seq(StartCodes \X Units), NEW d, NEW off, LaidAt(fr, d, off),
         NEW i \in 1 .. Len(fr)
  PROVE  off[i - 1] \in 0 .. Len(d) - 1
<1>1. /\ off[i - 1] \in Nat /\ off[i] \in Nat /\ Len(d) \in Nat /\ off[i] <= Len(d)
      /\ Len(fr[i][1]) \in {3, 4} /\ Len(fr[i][2]) \in Nat \ {0}
      /\ off[i] = off[i - 1] + Len(fr[i][1]) + Len(fr[i][2])
  BY FrameAt
<1>2. \A a, b, n \in Nat, y \in Nat \ {0}, x \in {3, 4} :
        b = a + x + y /\ b <= n => a \in 0 .. n - 1
  OBVIOUS
<1> QED
  BY ONLY <1>1, <1>2

LEMMA KeptTyped ==
  ASSUME NEW units \in Seq(Units)
  PROVE  Kept(units) \in Seq(Units)
<1> DEFINE n == Len(units)
           X == Seq(Units)
           t == [i \in DOMAIN units |-> IF IsAud(units[i]) THEN <<>> ELSE <<units[i]>>]
<1>1. n \in Nat /\ DOMAIN units = 1 .. n /\ \A i \in 1 .. n : units[i] \in Units
  OBVIOUS
<1>2. \A i \in 1 .. n : (IF IsAud(units[i]) THEN <<>> ELSE <<units[i]>>) \in X
  <2>1. \A i \in 1 .. n : <<>> \in X /\ <<units[i]>> \in X
    BY <1>1
  <2> QED
    BY <2>1
<1> HIDE DEF n, X
<1>3. t \in Seq(X)
  BY <1>1, <1>2
<1> HIDE DEF t
<1>4. t \in Seq(Seq(Units))
  BY <1>3 DEF X
<1>5. \E r \in [0 .. Len(t) -> Seq(Units)] : FlattenSeq(t) = r[Len(t)]
  BY ONLY <1>4, FlattenRuns
<1>6. Len(t) \in 0 .. Len(t)
  BY <1>4
<1>7. FlattenSeq(t) \in Seq(Units)
  BY ONLY <1>5, <1>6
<1> QED
  BY <1>7 DEF Kept, t

LEMMA MoofIs == Moof + 8 = 108
  BY DEF Moof, Box, FullBox

LEMMA NalInitInv == NalInit => NalInv
<1> SUFFICES ASSUME NalInit PROVE NalInv
  OBVIOUS
<1>1. PICK n \in 0 .. MaxNals : framed \in [1 .. n -> StartCodes \X Units]
  BY DEF NalInit
<1>2. framed \in Seq(StartCodes \X Units) /\ Len(framed) \in Nat
  <2> DEFINE X == StartCodes \X Units
  <2>1. n \in Nat
    BY NalAssumption
  <2> HIDE DEF X
  <2>2. framed \in [1 .. n -> X]
    BY <1>1 DEF X
  <2>3. framed \in Seq(X)
    BY <2>1, <2>2
  <2> QED
    BY <2>3 DEF X
<1>3. data = FlattenSeq([i \in DOMAIN framed |-> framed[i][1] \o framed[i][2]])
  BY DEF NalInit
<1>4. PICK off : LaidAt(framed, data, off)
  BY <1>2, <1>3, LaidOut
<1>5. /\ scanAt = 0 /\ found = <<>> /\ nals = <<>> /\ nalStage = "scan"
      /\ sample = <<>> /\ sampleSize = 0 /\ dataOffset = 0
  BY DEF NalInit
<1>6. data \in Seq(Byte) /\ off[0] = 0
  BY <1>4 DEF LaidAt
<1>7. Len(data) \in Nat
  BY <1>6
<1>8. Between(framed, data, off, 0, 0)
  <2>1. 0 <= Hi(framed, data, off, 0)
    <3>1. CASE 0 < Len(framed)
      <4>1. 1 \in 1 .. Len(framed)
        BY <1>2, <3>1
      <4>2. Len(framed[1][1]) \in {3, 4}
        BY <1>2, <1>4, <4>1, FrameAt
      <4>3. Hi(framed, data, off, 0) = 0 + Len(framed[1][1]) - 3
        BY <1>6, <3>1 DEF Hi
      <4>4. \A x \in {3, 4} : 0 <= 0 + x - 3
        OBVIOUS
      <4> QED
        BY ONLY <4>2, <4>3, <4>4
    <3>2. CASE ~(0 < Len(framed))
      BY <1>7, <3>2 DEF Hi
    <3> QED
      BY <3>1, <3>2
  <2>2. Lo(framed, off, 0) = 0
    BY DEF Lo
  <2> QED
    BY <2>1, <2>2 DEF Between
<1>9. Scanned(off)
  <2>1. found \in Seq(Nat) /\ Len(found) = 0 /\ 1 .. 0 = {}
    BY <1>5
  <2> QED
    BY <1>2, <1>4, <1>5, <1>7, <1>8, <2>1 DEF Scanned
<1>10. NalTypeOK
  <2>1. Len(found) = 0 /\ 1 .. 0 = {} /\ 0 \in 0 .. Len(data) + 1
    BY <1>5, <1>7
  <2> QED
    BY <1>5, <2>1 DEF NalTypeOK
<1>11. UnitsArriveWhole
  BY <1>5 DEF UnitsArriveWhole
<1> QED
  BY <1>2, <1>9, <1>10, <1>11 DEF NalInv

LEMMA NalNextInv == NalInv /\ [NalNext]_nalVars => NalInv'
<1> SUFFICES ASSUME NalInv, [NalNext]_nalVars PROVE NalInv'
  OBVIOUS
<1>1. framed \in Seq(StartCodes \X Units) /\ NalTypeOK /\ UnitsArriveWhole
  BY DEF NalInv
<1>2. PICK off : Scanned(off)
  BY DEF NalInv
<1>3. /\ LaidAt(framed, data, off)
      /\ found \in Seq(Nat) /\ Len(found) <= Len(framed)
      /\ scanAt \in Nat /\ scanAt <= Len(data)
      /\ \A i \in 1 .. Len(found) : found[i] = off[i - 1]
      /\ nalStage = "scan" => Between(framed, data, off, Len(found), scanAt)
      /\ nalStage # "scan" => Len(found) = Len(framed)
  BY <1>2 DEF Scanned
<1>4. Len(found) \in Nat /\ Len(framed) \in Nat /\ Len(data) \in Nat
      /\ Len(found) \in 0 .. Len(framed)
  <2>1. Len(data) \in Nat
    BY <1>3 DEF LaidAt
  <2>2. Len(found) \in Nat /\ Len(framed) \in Nat
    BY <1>1, <1>3
  <2> QED
    BY <1>3, <2>1, <2>2
<1>5. CASE ScanByte
  <2>1. /\ nalStage = "scan" /\ scanAt + 2 < Len(data) /\ nalStage' = nalStage
        /\ framed' = framed /\ data' = data /\ nals' = nals
        /\ sample' = sample /\ sampleSize' = sampleSize /\ dataOffset' = dataOffset
    BY <1>5 DEF ScanByte, Nothing3
  <2>2. IF Shows(data, scanAt)
        THEN found' = Append(found, CodeAt(data, scanAt)) /\ scanAt' = scanAt + 3
        ELSE found' = found /\ scanAt' = scanAt + 1
    <3>1. /\ scanAt + 1 + 1 = scanAt + 2 /\ scanAt + 2 + 1 = scanAt + 3
          /\ scanAt - 1 + 1 = scanAt
      BY <1>3
    <3>2. IF data[scanAt + 1] = 0 /\ data[scanAt + 1 + 1] = 0 /\ data[scanAt + 2 + 1] = 1
          THEN /\ found' = Append(found, IF scanAt > 0 /\ data[scanAt - 1 + 1] = 0
                                         THEN scanAt - 1 ELSE scanAt)
               /\ scanAt' = scanAt + 3
          ELSE scanAt' = scanAt + 1 /\ UNCHANGED found
      BY <1>5 DEF ScanByte, At0
    <3> QED
      BY <3>1, <3>2 DEF Shows, CodeAt
  <2>3. Between(framed, data, off, Len(found), scanAt)
    BY <1>3, <2>1
  <2>4. IF Shows(data, scanAt)
        THEN /\ Len(found) < Len(framed) /\ CodeAt(data, scanAt) = off[Len(found)]
             /\ Between(framed, data, off, Len(found) + 1, scanAt + 3)
        ELSE Between(framed, data, off, Len(found), scanAt + 1)
    <3> DEFINE k == Len(found)
    <3>1. /\ framed \in Seq(StartCodes \X Units) /\ LaidAt(framed, data, off)
          /\ k \in 0 .. Len(framed) /\ scanAt \in Nat
          /\ Between(framed, data, off, k, scanAt) /\ scanAt + 2 < Len(data)
      BY <1>1, <1>3, <1>4, <2>1, <2>3
    <3> HIDE DEF k
    <3>2. IF Shows(data, scanAt)
          THEN /\ k < Len(framed) /\ CodeAt(data, scanAt) = off[k]
               /\ Between(framed, data, off, k + 1, scanAt + 3)
          ELSE Between(framed, data, off, k, scanAt + 1)
      BY ONLY <3>1, NextCode
    <3> QED
      BY <3>2 DEF k
  <2>5. Scanned(off)'
    <3>1. CASE Shows(data, scanAt)
      <4> DEFINE k == Len(found)
                 s == CodeAt(data, scanAt)
                 f == Append(found, s)
      <4>1. /\ found' = f /\ scanAt' = scanAt + 3 /\ k < Len(framed) /\ s = off[k]
            /\ Between(framed, data, off, k + 1, scanAt + 3)
        BY <2>2, <2>4, <3>1
      <4>2. s \in Nat
        <5>1. k \in 0 .. Len(framed)
          BY <1>4
        <5>2. off \in [0 .. Len(framed) -> Nat]
          BY <1>3 DEF LaidAt
        <5> QED
          BY <4>1, <5>1, <5>2
      <4> HIDE DEF s
      <4>3. f \in Seq(Nat) /\ Len(f) = k + 1 /\ f[k + 1] = s /\ \A i \in 1 .. k : f[i] = found[i]
        BY <1>3, <4>2, AppendProperties
      <4>4. \A i \in 1 .. Len(f) : f[i] = off[i - 1]
        <5> SUFFICES ASSUME NEW i \in 1 .. Len(f) PROVE f[i] = off[i - 1]
          OBVIOUS
        <5> HIDE DEF f
        <5>1. CASE i = k + 1
          <6>1. i - 1 = k
            BY <1>4, <5>1
          <6> QED
            BY <4>1, <4>3, <5>1, <6>1
        <5>2. CASE i # k + 1
          <6>1. i \in 1 .. k
            BY <1>4, <4>3, <5>2
          <6> QED
            BY <1>3, <4>3, <6>1
        <5> QED
          BY <5>1, <5>2
      <4> HIDE DEF f
      <4>5. k + 1 <= Len(framed) /\ scanAt + 3 \in Nat /\ scanAt + 3 <= Len(data)
        BY <1>3, <1>4, <2>1, <4>1
      <4> QED
        BY <1>3, <2>1, <4>1, <4>3, <4>4, <4>5 DEF Scanned
    <3>2. CASE ~Shows(data, scanAt)
      <4>1. found' = found /\ scanAt' = scanAt + 1
            /\ Between(framed, data, off, Len(found), scanAt + 1)
        BY <2>2, <2>4, <3>2
      <4>2. scanAt + 1 \in Nat /\ scanAt + 1 <= Len(data)
        BY <1>3, <1>4, <2>1
      <4> QED
        BY <1>3, <2>1, <4>1, <4>2 DEF Scanned
    <3> QED
      BY <3>1, <3>2
  <2>6. UnitsArriveWhole'
    BY <2>1 DEF UnitsArriveWhole
  <2>7. (framed \in Seq(StartCodes \X Units))'
    BY <1>1, <2>1
  <2>8. NalTypeOK'
    <3>1. \A i \in 1 .. Len(found') : found'[i] \in 0 .. Len(data') - 1
      <4>1. /\ Len(found') <= Len(framed) /\ Len(found') \in Nat
            /\ \A i \in 1 .. Len(found') : found'[i] = off[i - 1]
        BY <2>1, <2>5 DEF Scanned
      <4>2. \A i \in 1 .. Len(found') : i \in 1 .. Len(framed)
        BY <1>4, <4>1
      <4>3. \A i \in 1 .. Len(framed) : off[i - 1] \in 0 .. Len(data) - 1
        BY <1>1, <1>3, FoundInside
      <4> QED
        BY <2>1, <4>1, <4>2, <4>3
    <3>2. (scanAt \in 0 .. Len(data) + 1)'
      <4>1. (scanAt \in Nat /\ scanAt <= Len(data))'
        BY <2>5 DEF Scanned
      <4>2. Len(data') \in Nat
        BY <1>4, <2>1
      <4> QED
        BY <4>1, <4>2
    <3> QED
      BY <1>1, <2>1, <3>1, <3>2 DEF NalTypeOK
  <2> QED
    BY <2>5, <2>6, <2>7, <2>8 DEF NalInv
<1>6. CASE ScanDone
  <2>1. /\ nalStage = "scan" /\ scanAt + 2 >= Len(data) /\ nalStage' = "cut"
        /\ framed' = framed /\ data' = data /\ nals' = nals /\ found' = found
        /\ scanAt' = scanAt
        /\ sample' = sample /\ sampleSize' = sampleSize /\ dataOffset' = dataOffset
    BY <1>6 DEF ScanDone, Nothing3
  <2>2. Len(found) = Len(framed)
    <3> DEFINE k == Len(found)
    <3>1. /\ framed \in Seq(StartCodes \X Units) /\ LaidAt(framed, data, off)
          /\ k \in 0 .. Len(framed) /\ scanAt \in Nat
          /\ Between(framed, data, off, k, scanAt) /\ scanAt + 2 >= Len(data)
      BY <1>1, <1>3, <1>4, <2>1
    <3> HIDE DEF k
    <3>2. k = Len(framed)
      BY ONLY <3>1, AllFound
    <3> QED
      BY <3>2 DEF k
  <2>3. Scanned(off)'
    BY <1>3, <2>1, <2>2 DEF Scanned
  <2>4. UnitsArriveWhole'
    BY <2>1 DEF UnitsArriveWhole
  <2>5. NalTypeOK'
    BY <1>1, <2>1 DEF NalTypeOK
  <2> QED
    BY <1>1, <2>1, <2>3, <2>4, <2>5 DEF NalInv
<1>7. CASE Cut
  <2>1. /\ nalStage = "cut" /\ nalStage' = "parsed"
        /\ framed' = framed /\ data' = data /\ found' = found /\ scanAt' = scanAt
        /\ sample' = sample /\ sampleSize' = sampleSize /\ dataOffset' = dataOffset
    BY <1>7 DEF Cut, Nothing3
  <2>2. nals' = FlattenSeq(Cuts(data, found))
    BY <1>7 DEF Cut, Cuts, CutFrom, Long
  <2>3. FlattenSeq(Cuts(data, found)) = UnitsOf(framed)
    <3>1. Len(found) = Len(framed) /\ Offsets(found, off) /\ found \in Seq(Nat)
          /\ LaidAt(framed, data, off) /\ framed \in Seq(StartCodes \X Units)
      BY <1>1, <1>3, <2>1 DEF Offsets
    <3> QED
      BY ONLY <3>1, CutAll
  <2>4. nals' = UnitsOf(framed)
    BY <2>2, <2>3
  <2>5. Scanned(off)'
    BY <1>3, <2>1 DEF Scanned
  <2>6. UnitsArriveWhole'
    BY <2>1, <2>4 DEF UnitsArriveWhole, UnitsOf
  <2>7. NalTypeOK'
    BY <1>1, <2>1 DEF NalTypeOK
  <2> QED
    BY <1>1, <2>1, <2>5, <2>6, <2>7 DEF NalInv
<1>8. CASE Mux
  <2> DEFINE kept == Kept(nals)
             F == [i \in DOMAIN kept |-> <<Len(kept[i])>> \o kept[i]]
  <2>1. /\ nalStage = "parsed" /\ nalStage' = "muxed"
        /\ framed' = framed /\ data' = data /\ found' = found /\ scanAt' = scanAt
        /\ nals' = nals /\ dataOffset' = 100 + 8
        /\ sample' = FlattenSeq(F) /\ sampleSize' = Len(sample') + 3 * Len(kept)
    BY <1>8 DEF Mux
  <2>2. nals = UnitsOf(framed) /\ nals \in Seq(Units)
    <3>1. nals = UnitsOf(framed)
      BY <1>1, <2>1 DEF UnitsArriveWhole, UnitsOf
    <3>2. UnitsOf(framed) = [i \in 1 .. Len(framed) |-> framed[i][2]]
      BY <1>1 DEF UnitsOf
    <3>3. \A i \in 1 .. Len(framed) : framed[i][2] \in Units
      BY <1>1, FramesTyped
    <3>4. [i \in 1 .. Len(framed) |-> framed[i][2]] \in Seq(Units)
      BY <1>4, <3>3
    <3> QED
      BY <3>1, <3>2, <3>4
  <2>3. kept \in Seq(Units)
    BY <2>2, KeptTyped
  <2>4. F = [i \in DOMAIN kept |-> <<Len(kept[i])>> \o kept[i]]
    OBVIOUS
  <2> HIDE DEF kept, F
  <2>5. /\ Decoded(FlattenSeq(F)) = Reader(kept, <<>>, 0)
        /\ FlattenSeq(F) \in Seq(Nat)
    BY ONLY <2>3, <2>4, SampleRead
  <2>6. Scanned(off)'
    BY <1>3, <2>1 DEF Scanned
  <2>7. Moof + 8 = 108
    BY MoofIs
  <2>8. UnitsArriveWhole'
    <3>1. kept = Kept([i \in DOMAIN framed |-> framed[i][2]])
      BY <2>2 DEF kept, UnitsOf
    <3>2. dataOffset' = Moof + 8
      BY <2>1, <2>7
    <3>3. Decoded(sample') = [done |-> kept, open |-> <<>>, left |-> 0]
      BY <2>1, <2>5 DEF Reader
    <3>4. nals' = [i \in DOMAIN framed |-> framed[i][2]]
      BY <2>1, <2>2 DEF UnitsOf
    <3> QED
      BY <2>1, <3>1, <3>2, <3>3, <3>4 DEF UnitsArriveWhole
  <2>9. NalTypeOK'
    <3>1. Len(sample') \in Nat /\ Len(kept) \in Nat
      BY <2>1, <2>3, <2>5
    <3>2. sampleSize' \in Nat /\ dataOffset' \in Nat
      BY <2>1, <3>1
    <3> QED
      BY <1>1, <2>1, <3>2 DEF NalTypeOK
  <2> QED
    BY <1>1, <2>1, <2>6, <2>8, <2>9 DEF NalInv
<1>9. CASE UNCHANGED nalVars
  <2>1. /\ framed' = framed /\ data' = data /\ found' = found /\ scanAt' = scanAt
        /\ nals' = nals /\ nalStage' = nalStage
        /\ sample' = sample /\ sampleSize' = sampleSize /\ dataOffset' = dataOffset
    BY <1>9 DEF nalVars
  <2>2. Scanned(off)'
    BY <1>3, <2>1 DEF Scanned
  <2>3. UnitsArriveWhole' /\ NalTypeOK'
    BY <1>1, <2>1 DEF UnitsArriveWhole, NalTypeOK
  <2> QED
    BY <1>1, <2>1, <2>2, <2>3 DEF NalInv
<1> QED
  BY <1>5, <1>6, <1>7, <1>8, <1>9 DEF NalNext

(* Whatever stream an encoder makes of its NAL units, the splitter and the *)
(* fragment bring them to the browser whole.                               *)
THEOREM UnitsAlwaysArriveWhole == NalSpec => []UnitsArriveWhole
<1>1. NalInv => UnitsArriveWhole
  BY DEF NalInv
<1> QED
  BY <1>1, NalInitInv, NalNextInv, PTL DEF NalSpec

=============================================================================
