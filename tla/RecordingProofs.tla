--------------------------- MODULE RecordingProofs ---------------------------
(***************************************************************************)
(* The recorder and its directory, for any capacities, any number of       *)
(* units, pauses, segments, sweeps, failures and restarts.                 *)
(*                                                                         *)
(* A recording is whole (Conserved, SegmentsTile).  Neither is inductive:  *)
(* what carries them is that the units between hub and writer form a line  *)
(* in the order they were written, that the line lies past everything      *)
(* recorded or passed over, and that the last unit of the open segment is  *)
(* the newest one recorded: whatever lies between it and the next unit of  *)
(* the line was lost at the hub or fell into a pause.                      *)
(*                                                                         *)
(* The directory is sound (OldestFirst, FootprintExact, CapKept and the    *)
(* rest of DirectorySound).  A sweep works on a list it read long before,  *)
(* so the invariant says what that list still tells of the index and of    *)
(* the files after any number of appends (SweepKnows), and that what the   *)
(* counter is short of or ahead of is exactly the step in between that     *)
(* has not been taken yet (FootprintExact, KeepsCap).  Its counters stay in*)
(* the range of the segments because a list in order of time is no longer  *)
(* than there are segments (StoreBounds, StoreTyped).                      *)
(***************************************************************************)
EXTENDS MCMedia, FoldFacts, FiniteSetTheorems, SequenceTheorems, TLAPS

-----------------------------------------------------------------------------
(* The inductive invariant of the writer, in parts.                        *)

Rising(s) == \A i, j \in DOMAIN s : i < j => s[i] < s[j]

\* Channel, hand and queue are one line of units, oldest first.
RecLine ==
  /\ Rising(async) /\ Rising(recQueue)
  /\ \A i \in DOMAIN async, j \in DOMAIN recQueue : async[i] < recQueue[j]
  /\ recBridge = "send" =>
       /\ \A i \in DOMAIN async : async[i] < recHand
       /\ \A j \in DOMAIN recQueue : recHand < recQueue[j]

Done == Recorded \cup PassedAus

\* The line lies past what the writer is done with; nothing is invented.
LineAhead ==
  /\ \A d \in Done, f \in InFlight : d < f
  /\ Done \cup InFlight \cup recLost \subseteq 1..Len(keys)
  /\ Recorded \cap PassedAus = {}

\* Unless the task failed, every unit written is accounted for.
AllAccounted ==
  writer # "failed" => 1..Len(keys) = recLost \cup Recorded \cup PassedAus \cup InFlight

\* A bridge that left holds nothing; a clean stop waits for it.
BridgeGone ==
  /\ recBridge = "exit" => recAlive = FALSE /\ recQueue = <<>>
  /\ writer = "stopped" => async = <<>> /\ recBridge = "exit"

\* The open segment ends with the newest unit recorded, and none was passed
\* over since for want of a key frame.
NewestLast ==
  segment # <<>> =>
    /\ \A d \in Recorded : d <= segment[Len(segment)]
    /\ \A p \in passed : p.why = "nokey" => p.au <= segment[Len(segment)]

RecTypes ==
  /\ RecTypeOK /\ Len(keys) <= RecMaxAus
  /\ recQueue \in Seq(RecAus)
  /\ recBridge = "send" => recHand \in RecAus

RecInv == RecTypes /\ RecLine /\ LineAhead /\ AllAccounted /\ BridgeGone
            /\ NewestLast /\ SegmentsTile

-----------------------------------------------------------------------------
(* Sequences of units: what Append and Tail do to the units in one.        *)

LEMMA RangeAppend ==
  ASSUME NEW S, NEW s \in Seq(S), NEW x \in S
  PROVE  Range(Append(s, x)) = Range(s) \cup {x}
<1>1. /\ DOMAIN Append(s, x) = 1..(Len(s) + 1) /\ DOMAIN s = 1..Len(s)
      /\ \A i \in 1..Len(s) : Append(s, x)[i] = s[i]
      /\ Append(s, x)[Len(s) + 1] = x /\ Len(s) \in Nat
  OBVIOUS
<1>2. ASSUME NEW y \in Range(Append(s, x)) PROVE y \in Range(s) \cup {x}
  <2>1. PICK i \in 1..(Len(s) + 1) : y = Append(s, x)[i]
    BY <1>1, <1>2 DEF Range
  <2>2. CASE i = Len(s) + 1
    BY <1>1, <2>1, <2>2
  <2>3. CASE i \in 1..Len(s)
    BY <1>1, <2>1, <2>3 DEF Range
  <2> QED
    BY <1>1, <2>2, <2>3
<1>3. ASSUME NEW y \in Range(s) \cup {x} PROVE y \in Range(Append(s, x))
  <2>1. CASE y = x
    BY <1>1, <2>1 DEF Range
  <2>2. CASE y \in Range(s)
    <3>1. PICK i \in 1..Len(s) : y = s[i]
      BY <1>1, <2>2 DEF Range
    <3> QED
      BY <1>1, <3>1 DEF Range
  <2> QED
    BY <1>3, <2>1, <2>2
<1> QED
  BY <1>2, <1>3

LEMMA RangeTail ==
  ASSUME NEW S, NEW s \in Seq(S), s # <<>>
  PROVE  /\ Tail(s) \in Seq(S) /\ Head(s) \in S
         /\ Range(s) = {Head(s)} \cup Range(Tail(s))
<1>1. /\ DOMAIN s = 1..Len(s) /\ Len(s) \in Nat \ {0}
      /\ Tail(s) \in Seq(S) /\ DOMAIN Tail(s) = 1..(Len(s) - 1)
      /\ \A i \in 1..(Len(s) - 1) : Tail(s)[i] = s[i + 1]
      /\ Head(s) = s[1] /\ Head(s) \in S
  OBVIOUS
<1>2. ASSUME NEW y \in Range(s) PROVE y \in {Head(s)} \cup Range(Tail(s))
  <2>1. PICK i \in 1..Len(s) : y = s[i]
    BY <1>1, <1>2 DEF Range
  <2>2. CASE i = 1
    BY <1>1, <2>1, <2>2
  <2>3. CASE i # 1
    <3>1. i - 1 \in 1..(Len(s) - 1) /\ Tail(s)[i - 1] = y
      BY <1>1, <2>1, <2>3
    <3> QED
      BY <1>1, <3>1 DEF Range
  <2> QED
    BY <2>2, <2>3
<1>3. ASSUME NEW y \in {Head(s)} \cup Range(Tail(s)) PROVE y \in Range(s)
  <2>1. CASE y = Head(s)
    BY <1>1, <2>1 DEF Range
  <2>2. CASE y \in Range(Tail(s))
    <3>1. PICK i \in 1..(Len(s) - 1) : y = Tail(s)[i]
      BY <1>1, <2>2 DEF Range
    <3>2. i + 1 \in 1..Len(s) /\ y = s[i + 1]
      BY <1>1, <3>1
    <3> QED
      BY <1>1, <3>2 DEF Range
  <2> QED
    BY <1>3, <2>1, <2>2
<1> QED
  BY <1>1, <1>2, <1>3

\* The head of a line is its oldest unit.
LEMMA RisingTail ==
  ASSUME NEW s \in Seq(Nat), s # <<>>, Rising(s)
  PROVE  Rising(Tail(s)) /\ \A y \in Range(Tail(s)) : Head(s) < y
<1>1. /\ DOMAIN s = 1..Len(s) /\ Len(s) \in Nat \ {0}
      /\ DOMAIN Tail(s) = 1..(Len(s) - 1)
      /\ \A i \in 1..(Len(s) - 1) : Tail(s)[i] = s[i + 1] /\ i + 1 \in 1..Len(s)
      /\ Head(s) = s[1]
  OBVIOUS
<1>2. Rising(Tail(s))
  BY <1>1 DEF Rising
<1>3. \A i \in 1..(Len(s) - 1) : Head(s) < Tail(s)[i]
  BY <1>1 DEF Rising
<1> QED
  BY <1>1, <1>2, <1>3 DEF Range

LEMMA RisingAppend ==
  ASSUME NEW s \in Seq(Nat), NEW x \in Nat, Rising(s), \A i \in DOMAIN s : s[i] < x
  PROVE  Rising(Append(s, x))
<1>1. /\ DOMAIN Append(s, x) = 1..(Len(s) + 1) /\ DOMAIN s = 1..Len(s)
      /\ \A i \in 1..Len(s) : Append(s, x)[i] = s[i]
      /\ Append(s, x)[Len(s) + 1] = x /\ Len(s) \in Nat
  OBVIOUS
<1> SUFFICES ASSUME NEW i \in 1..(Len(s) + 1), NEW j \in 1..(Len(s) + 1), i < j
             PROVE  Append(s, x)[i] < Append(s, x)[j]
  BY <1>1 DEF Rising
<1>2. i \in 1..Len(s)
  BY <1>1
<1>3. CASE j \in 1..Len(s)
  BY <1>1, <1>2, <1>3 DEF Rising
<1>4. CASE j = Len(s) + 1
  BY <1>1, <1>2, <1>4
<1> QED
  BY <1>1, <1>3, <1>4

-----------------------------------------------------------------------------
(* Tilings: SegmentsTile as a property of a sequence of segments, the key  *)
(* flags and the units a gap may consist of.                               *)

Tiles(segs, ks, gaps) ==
  /\ \A i \in DOMAIN segs :
       /\ segs[i] # <<>> /\ ks[Head(segs[i])]
       /\ \A j \in 1..(Len(segs[i]) - 1) :
            /\ segs[i][j] < segs[i][j + 1]
            /\ (segs[i][j] + 1)..(segs[i][j + 1] - 1) \subseteq gaps
  /\ \A i \in 1..(Len(segs) - 1) : segs[i][Len(segs[i])] < Head(segs[i + 1])

Segs == IF segment = <<>> THEN closed ELSE Append(closed, segment)
Gaps == recLost \cup {p.au : p \in {q \in passed : q.why = "paused"}}

LEMMA TileIsTiles == SegmentsTile <=> Tiles(Segs, keys, Gaps)
BY DEF SegmentsTile, Tiles, Segs, Gaps, Bounds, RecIsKey

LEMMA TilesLater ==
  ASSUME NEW segs, NEW ks, NEW more, NEW gaps, NEW wider,
         Tiles(segs, ks, gaps), gaps \subseteq wider,
         \A i \in DOMAIN segs : more[Head(segs[i])] = ks[Head(segs[i])]
  PROVE  Tiles(segs, more, wider)
BY DEF Tiles

LEMMA TilesFewer ==
  ASSUME NEW c \in Seq(Seq(Nat)), NEW s \in Seq(Nat), NEW ks, NEW gaps,
         Tiles(Append(c, s), ks, gaps)
  PROVE  Tiles(c, ks, gaps)
<1>1. /\ DOMAIN Append(c, s) = 1..(Len(c) + 1) /\ DOMAIN c = 1..Len(c)
      /\ Len(Append(c, s)) = Len(c) + 1 /\ Len(c) \in Nat
      /\ \A i \in 1..Len(c) : Append(c, s)[i] = c[i]
  OBVIOUS
<1>2. \A i \in 1..Len(c) : i \in DOMAIN Append(c, s)
  BY <1>1
<1>3. \A i \in 1..(Len(c) - 1) :
        i \in 1..(Len(Append(c, s)) - 1) /\ i \in 1..Len(c) /\ i + 1 \in 1..Len(c)
  BY <1>1
<1> QED
  BY <1>1, <1>2, <1>3 DEF Tiles

\* A new segment begins at a key frame behind the last unit of the others.
LEMMA TilesOpen ==
  ASSUME NEW segs \in Seq(Seq(Nat)), NEW ks, NEW gaps, NEW n \in Nat,
         Tiles(segs, ks, gaps), ks[n],
         \A i \in DOMAIN segs : segs[i][Len(segs[i])] < n
  PROVE  Tiles(Append(segs, <<n>>), ks, gaps)
<1> DEFINE new == Append(segs, <<n>>)
<1>1. /\ DOMAIN new = 1..(Len(segs) + 1) /\ DOMAIN segs = 1..Len(segs)
      /\ Len(new) = Len(segs) + 1 /\ Len(segs) \in Nat
      /\ \A i \in 1..Len(segs) : new[i] = segs[i]
      /\ new[Len(segs) + 1] = <<n>>
  OBVIOUS
<1>2. <<n>> # <<>> /\ Head(<<n>>) = n /\ Len(<<n>>) = 1
  OBVIOUS
<1> HIDE DEF new
<1>3. ASSUME NEW i \in DOMAIN new
      PROVE  /\ new[i] # <<>> /\ ks[Head(new[i])]
             /\ \A j \in 1..(Len(new[i]) - 1) :
                  /\ new[i][j] < new[i][j + 1]
                  /\ (new[i][j] + 1)..(new[i][j + 1] - 1) \subseteq gaps
  <2>1. CASE i \in 1..Len(segs)
    BY <1>1, <2>1 DEF Tiles
  <2>2. CASE i = Len(segs) + 1
    BY <1>1, <1>2, <2>2
  <2> QED
    BY SMTT(30), <1>1, <2>1, <2>2
<1>4. ASSUME NEW i \in 1..(Len(new) - 1)
      PROVE  new[i][Len(new[i])] < Head(new[i + 1])
  <2>1. i \in 1..Len(segs) /\ new[i] = segs[i]
    BY <1>1
  <2>2. CASE i = Len(segs)
    BY <1>1, <1>2, <2>1, <2>2
  <2>3. CASE i # Len(segs)
    <3>1. i \in 1..(Len(segs) - 1) /\ i + 1 \in 1..Len(segs)
      BY <1>1, <2>1, <2>3
    <3>2. new[i + 1] = segs[i + 1]
      BY <1>1, <3>1
    <3> QED
      BY <2>1, <3>1, <3>2 DEF Tiles
  <2> QED
    BY <2>2, <2>3
<1> QED
  BY <1>3, <1>4 DEF Tiles, new

\* The open segment takes a unit when the gap before it is accounted for.
LEMMA TilesExtend ==
  ASSUME NEW c \in Seq(Seq(Nat)), NEW s \in Seq(Nat), NEW ks, NEW gaps,
         NEW n \in Nat, s # <<>>, Tiles(Append(c, s), ks, gaps),
         s[Len(s)] < n, (s[Len(s)] + 1)..(n - 1) \subseteq gaps
  PROVE  Tiles(Append(c, Append(s, n)), ks, gaps)
<1> DEFINE t == Append(s, n)
           old == Append(c, s)
           new == Append(c, t)
           L == Len(c)
<1>1. /\ DOMAIN new = 1..(L + 1) /\ DOMAIN old = 1..(L + 1)
      /\ Len(new) = L + 1 /\ Len(old) = L + 1 /\ L \in Nat
      /\ \A i \in 1..L : new[i] = c[i] /\ old[i] = c[i]
      /\ new[L + 1] = t /\ old[L + 1] = s
  OBVIOUS
<1>2. /\ Len(s) \in Nat \ {0} /\ Len(t) = Len(s) + 1 /\ t # <<>>
      /\ \A j \in 1..Len(s) : t[j] = s[j]
      /\ t[Len(s) + 1] = n /\ Head(t) = s[1] /\ Head(s) = s[1]
  OBVIOUS
<1> HIDE DEF t, old, new, L
<1>3. Tiles(old, ks, gaps)
  BY DEF old
<1>4. ASSUME NEW i \in DOMAIN new
      PROVE  /\ new[i] # <<>> /\ ks[Head(new[i])]
             /\ \A j \in 1..(Len(new[i]) - 1) :
                  /\ new[i][j] < new[i][j + 1]
                  /\ (new[i][j] + 1)..(new[i][j + 1] - 1) \subseteq gaps
  <2>1. CASE i \in 1..L
    BY <1>1, <1>3, <2>1 DEF Tiles
  <2>2. CASE i = L + 1
    <3>1. L + 1 \in DOMAIN old
      BY <1>1
    <3>3. ks[Head(old[L + 1])]
      BY <1>3, <3>1, Zenon DEF Tiles
    <3>4. ks[Head(t)]
      <4>1. Head(old[L + 1]) = Head(t)
        BY <1>1, <1>2
      <4> QED
        BY <3>3, <4>1, Zenon
    <3>2. ASSUME NEW j \in 1..(Len(t) - 1)
          PROVE  t[j] < t[j + 1] /\ (t[j] + 1)..(t[j + 1] - 1) \subseteq gaps
      <4>1. CASE j = Len(s)
        BY <1>2, <4>1
      <4>2. CASE j # Len(s)
        <5>1. j \in 1..(Len(s) - 1) /\ j \in 1..Len(s) /\ j + 1 \in 1..Len(s)
          BY <1>2, <4>2
        <5>2. s[j] < s[j + 1] /\ (s[j] + 1)..(s[j + 1] - 1) \subseteq gaps
          BY <1>1, <1>3, <3>1, <5>1 DEF Tiles
        <5> QED
          BY <1>2, <5>1, <5>2
      <4> QED
        BY <4>1, <4>2
    <3> QED
      BY <1>1, <1>2, <2>2, <3>4, <3>2
  <2> QED
    BY <1>1, <2>1, <2>2
<1>5. ASSUME NEW i \in 1..(Len(new) - 1)
      PROVE  new[i][Len(new[i])] < Head(new[i + 1])
  <2>1. i \in 1..L /\ i \in 1..(Len(old) - 1) /\ new[i] = old[i]
    BY <1>1
  <2>2. Head(new[i + 1]) = Head(old[i + 1])
    <3>1. CASE i = L
      BY <1>1, <1>2, <3>1
    <3>2. CASE i # L
      <4>1. i + 1 \in 1..L
        BY <1>1, <2>1, <3>2
      <4> QED
        BY <1>1, <4>1
    <3> QED
      BY <3>1, <3>2
  <2> QED
    BY <1>3, <2>1, <2>2 DEF Tiles
<1> QED
  BY <1>4, <1>5 DEF Tiles, new, t

-----------------------------------------------------------------------------
(* The steps, as changes of the three sets a unit may be in.               *)

LEMMA RecInitInv == RecInit => RecInv
<1> SUFFICES ASSUME RecInit PROVE RecInv
  OBVIOUS
<1> USE CapAssumption, RecMaxAusAssumption, MaxTogglesAssumption DEF RecInit
<1>1. Recorded = {} /\ PassedAus = {} /\ InFlight = {} /\ Len(keys) = 0
  BY DEF Recorded, PassedAus, InFlight, Range
<1>2. RecTypeOK
  <2>1. RecSlot!SlotTypeOK
    <3>1. recAlive \in BOOLEAN /\ recOwed \in BOOLEAN
      BY Zenon
    <3>2. recLinked = "linked" /\ recQueue \in Seq(Nat) /\ recDropped \in Nat /\ recLast \in Nat
      OBVIOUS
    <3> QED
      BY <3>1, <3>2, Zenon DEF RecSlot!SlotTypeOK
  <2>2. active = ~Returned
    BY DEF Returned
  <2>3. pause \in BOOLEAN
    BY Zenon
  <2>4. keys \in Seq(BOOLEAN) /\ closed \in Seq(Seq(RecAus))
    OBVIOUS
  <2>5. /\ recBridge \in {"recv", "send", "exit"} /\ recHand \in 0..RecMaxAus
        /\ async \in Seq(RecAus) /\ Len(async) <= AsyncCap
        /\ writer \in {"run", "stopping", "stopped", "failed"}
        /\ segment \in Seq(RecAus) /\ toggles \in 0..MaxToggles
        /\ recLost \subseteq RecAus
        /\ passed \subseteq [au : RecAus, why : {"paused", "nokey"}]
    OBVIOUS
  <2> QED
    BY <2>1, <2>2, <2>3, <2>4, <2>5 DEF RecTypeOK
<1>3. RecTypes
  BY <1>2 DEF RecTypes
<1>4. RecLine /\ BridgeGone /\ NewestLast
  BY DEF RecLine, BridgeGone, NewestLast, Rising
<1>5. LineAhead /\ AllAccounted
  BY <1>1 DEF LineAhead, AllAccounted, Done
<1>6. SegmentsTile
  BY DEF SegmentsTile
<1> QED
  BY <1>3, <1>4, <1>5, <1>6 DEF RecInv

\* Units are natural numbers, wherever they are.
LEMMA RecFacts ==
  ASSUME RecTypes
  PROVE  /\ async \in Seq(RecAus) /\ recQueue \in Seq(RecAus)
         /\ async \in Seq(Nat) /\ recQueue \in Seq(Nat)
         /\ segment \in Seq(RecAus) /\ closed \in Seq(Seq(RecAus))
         /\ segment \in Seq(Nat) /\ closed \in Seq(Seq(Nat))
         /\ keys \in Seq(BOOLEAN) /\ Len(keys) \in Nat /\ Len(keys) <= RecMaxAus
         /\ \A n \in RecAus : n \in Nat
         /\ Recorded \subseteq RecAus /\ PassedAus \subseteq RecAus
         /\ InFlight \subseteq RecAus
<1> USE RecMaxAusAssumption DEF RecAus
<1>1. /\ async \in Seq(RecAus) /\ recQueue \in Seq(RecAus)
      /\ segment \in Seq(RecAus) /\ closed \in Seq(Seq(RecAus))
      /\ keys \in Seq(BOOLEAN) /\ Len(keys) \in Nat /\ Len(keys) <= RecMaxAus
  BY DEF RecTypes, RecTypeOK
<1>2. RecAus \subseteq Nat
  OBVIOUS
<1>3. Seq(RecAus) \subseteq Seq(Nat)
  BY <1>2
<1>4. Seq(Seq(RecAus)) \subseteq Seq(Seq(Nat))
  BY <1>3
<1>5. Recorded \subseteq RecAus
  <2>1. Range(segment) \subseteq RecAus
    BY <1>1 DEF Range
  <2>2. \A i \in DOMAIN closed : closed[i] \in Seq(RecAus)
    BY <1>1
  <2>3. \A i \in DOMAIN closed : Range(closed[i]) \subseteq RecAus
    BY <2>2 DEF Range
  <2> QED
    BY <2>1, <2>3 DEF Recorded
<1>6. PassedAus \subseteq RecAus
  BY DEF PassedAus, RecTypes, RecTypeOK
<1>7. InFlight \subseteq RecAus
  <2>1. Range(async) \subseteq RecAus /\ Range(recQueue) \subseteq RecAus
    BY <1>1 DEF Range
  <2> QED
    BY <2>1 DEF InFlight, RecTypes
<1> QED
  BY <1>1, <1>2, <1>3, <1>4, <1>5, <1>6, <1>7

\* What closing a segment and opening one at unit n does to the units
\* recorded.
LEMMA RecordedClosed ==
  ASSUME RecTypes, closed' = Append(closed, segment), segment' = <<>>
  PROVE  Recorded' = Recorded
<1>1. /\ DOMAIN closed = 1..Len(closed) /\ Len(closed) \in Nat
      /\ DOMAIN closed' = 1..(Len(closed) + 1)
      /\ \A i \in 1..Len(closed) : closed'[i] = closed[i]
      /\ closed'[Len(closed) + 1] = segment
  BY RecFacts
<1>2. Range(segment') = {}
  BY DEF Range
<1>3. UNION {Range(closed'[i]) : i \in DOMAIN closed'}
        = Range(segment) \cup UNION {Range(closed[i]) : i \in DOMAIN closed}
  <2>1. \A i \in DOMAIN closed' : i \in DOMAIN closed \/ i = Len(closed) + 1
    BY <1>1
  <2> QED
    BY <1>1, <2>1
<1> QED
  BY <1>2, <1>3 DEF Recorded

LEMMA RecordedOpened ==
  ASSUME RecTypes, closed' = Append(closed, segment), NEW n, segment' = <<n>>
  PROVE  Recorded' = Recorded \cup {n}
<1>1. /\ DOMAIN closed = 1..Len(closed) /\ Len(closed) \in Nat
      /\ DOMAIN closed' = 1..(Len(closed) + 1)
      /\ \A i \in 1..Len(closed) : closed'[i] = closed[i]
      /\ closed'[Len(closed) + 1] = segment
  BY RecFacts
<1>2. Range(segment') = {n}
  BY DEF Range
<1>3. UNION {Range(closed'[i]) : i \in DOMAIN closed'}
        = Range(segment) \cup UNION {Range(closed[i]) : i \in DOMAIN closed}
  <2>1. \A i \in DOMAIN closed' : i \in DOMAIN closed \/ i = Len(closed) + 1
    BY <1>1
  <2> QED
    BY <1>1, <2>1
<1> QED
  BY <1>2, <1>3 DEF Recorded

\* The writer takes the oldest unit in flight, which lies past all it is
\* done with.
LEMMA TakesOldest ==
  ASSUME RecTypes, RecLine, LineAhead, NEW n \in RecAus, Take(n),
         UNCHANGED <<recQueue, recBridge, recHand>>
  PROVE  /\ n \in InFlight /\ InFlight' = InFlight \ {n}
         /\ \A f \in InFlight' : n < f
         /\ \A d \in Done : d < n
         /\ RecLine' /\ async' \in Seq(RecAus) /\ Len(async') <= Len(async)
<1> USE RecFacts
<1>1. /\ async # <<>> /\ n = Head(async) /\ async' = Tail(async)
      /\ recQueue' = recQueue /\ recBridge' = recBridge /\ recHand' = recHand
  BY DEF Take
<1>2. Range(async) = {n} \cup Range(async') /\ async' \in Seq(RecAus)
  BY <1>1, RangeTail
<1>3. Rising(async') /\ \A y \in Range(async') : n < y
  BY <1>1, RisingTail DEF RecLine
<1>4. /\ DOMAIN async = 1..Len(async) /\ Len(async) \in Nat \ {0}
      /\ DOMAIN async' = 1..(Len(async) - 1) /\ Len(async') = Len(async) - 1
      /\ \A i \in DOMAIN async' : async'[i] = async[i + 1] /\ i + 1 \in DOMAIN async
      /\ n = async[1] /\ 1 \in DOMAIN async
  BY <1>1
<1>5. (recBridge = "send" => n < recHand) /\ \A j \in DOMAIN recQueue : n < recQueue[j]
  BY <1>4 DEF RecLine
<1>6. \A y \in Range(recQueue) : n < y
  BY <1>5 DEF Range
<1>7. n \notin Range(async') /\ n \notin Range(recQueue) /\ (recBridge = "send" => n # recHand)
  BY <1>3, <1>5, <1>6
<1>8. n \in InFlight /\ InFlight' = InFlight \ {n}
  BY <1>1, <1>2, <1>7 DEF InFlight
<1>9. \A f \in InFlight' : n < f
  BY <1>1, <1>3, <1>5, <1>6 DEF InFlight
<1>10. \A d \in Done : d < n
  BY <1>8 DEF LineAhead
<1>11. RecLine'
  BY <1>1, <1>3, <1>4 DEF RecLine
<1> QED
  BY <1>2, <1>4, <1>8, <1>9, <1>10, <1>11

\* Every step keeps the types.
LEMMA RecTypesStep == RecTypes /\ [RecNext]_recVars => RecTypes'
<1> SUFFICES ASSUME RecTypes, [RecNext]_recVars PROVE RecTypes'
  OBVIOUS
<1> USE RecFacts, CapAssumption, RecMaxAusAssumption, MaxTogglesAssumption
    DEF recSlot, bridgeVars, files, recGate
<1>0. /\ recLinked \in {"new", "linked", "unlinked"}
      /\ recAlive \in BOOLEAN /\ recOwed \in BOOLEAN
      /\ recDropped \in Nat /\ recLast \in Nat
      /\ recBridge \in {"recv", "send", "exit"} /\ recHand \in 0..RecMaxAus
      /\ Len(async) <= AsyncCap
      /\ writer \in {"run", "stopping", "stopped", "failed"}
      /\ active = ~Returned
      /\ pause \in BOOLEAN /\ toggles \in 0..MaxToggles
      /\ recLost \subseteq RecAus
      /\ passed \subseteq [au : RecAus, why : {"paused", "nokey"}]
      /\ recBridge = "send" => recHand \in RecAus
  BY DEF RecTypes, RecTypeOK, RecSlot!SlotTypeOK
\* The slot, the keys and the queue, then the rest.
<1>1. ASSUME /\ recLinked' \in {"new", "linked", "unlinked"}
             /\ recAlive' \in BOOLEAN /\ recOwed' \in BOOLEAN
             /\ recDropped' \in Nat /\ recLast' \in Nat
             /\ recQueue' \in Seq(RecAus),
             keys' \in Seq(BOOLEAN) /\ Len(keys') <= RecMaxAus /\ recLost' \subseteq RecAus,
             /\ recBridge' \in {"recv", "send", "exit"} /\ recHand' \in 0..RecMaxAus
             /\ recBridge' = "send" => recHand' \in RecAus,
             async' \in Seq(RecAus) /\ Len(async') <= AsyncCap,
             /\ writer' \in {"run", "stopping", "stopped", "failed"}
             /\ active' = ~Returned',
             segment' \in Seq(RecAus) /\ closed' \in Seq(Seq(RecAus)),
             pause' \in BOOLEAN /\ toggles' \in 0..MaxToggles,
             passed' \subseteq [au : RecAus, why : {"paused", "nokey"}]
      PROVE  RecTypes'
  <2>1. recQueue' \in Seq(Nat)
    <3>1. Seq(RecAus) \subseteq Seq(Nat)
      BY DEF RecAus
    <3> QED
      BY <1>1, <3>1
  <2>2. RecSlot!SlotTypeOK'
    BY <1>1, <2>1, Zenon DEF RecSlot!SlotTypeOK
  <2>3. RecTypeOK'
    BY <1>1, <2>2, Zenon DEF RecTypeOK
  <2> QED
    BY <1>1, <2>3, Zenon DEF RecTypes
<1>2. ASSUME NEW isKey \in BOOLEAN, RecPublish(isKey) PROVE RecTypes'
  <2>1. /\ Len(keys) + 1 \in RecAus /\ Len(keys) + 1 \in Nat
        /\ keys' = Append(keys, isKey)
        /\ UNCHANGED <<recBridge, recHand, async, writer, segment, closed, active,
                       pause, toggles, passed>>
    BY <1>2 DEF RecPublish, RecAus
  <2>2. keys' \in Seq(BOOLEAN) /\ Len(keys') <= RecMaxAus
    BY <2>1, <1>2 DEF RecPublish
  <2>3. CASE RecSlot!OfferTaken(Len(keys) + 1) /\ UNCHANGED recLost
    <3>1. /\ recQueue' = Append(recQueue, Len(keys) + 1) /\ recLast' = Len(keys) + 1
          /\ UNCHANGED <<recLinked, recAlive, recOwed, recDropped, recLost>>
      BY <2>3 DEF RecSlot!OfferTaken
    <3>2. recQueue' \in Seq(RecAus)
      BY <2>1, <3>1
    <3> QED
      BY <1>0, <1>1, <2>1, <2>2, <3>1, <3>2 DEF Returned
  <2>4. CASE /\ RecSlot!OfferFailed(Len(keys) + 1)
             /\ recLost' = recLost \cup {Len(keys) + 1}
    <3>1. /\ recOwed' = TRUE /\ recLast' = Len(keys) + 1
          /\ UNCHANGED <<recLinked, recAlive, recQueue, recDropped>>
      BY <2>4 DEF RecSlot!OfferFailed
    <3>2. recOwed' \in BOOLEAN
      BY <3>1
    <3> QED
      BY <1>0, <1>1, <2>1, <2>2, <2>4, <3>1, <3>2 DEF Returned
  <2> QED
    BY <1>2, <2>3, <2>4 DEF RecPublish
<1>3. ASSUME RecCountLoss PROVE RecTypes'
  <2>1. /\ recOwed' = FALSE /\ recDropped' = recDropped + 1
        /\ UNCHANGED <<recLinked, recAlive, recQueue, recLast, keys, recBridge, recHand,
                       async, writer, segment, closed, active, pause, toggles, recLost,
                       passed>>
    BY <1>3 DEF RecCountLoss, RecSlot!CountLoss
  <2>2. recOwed' \in BOOLEAN
    BY <2>1
  <2> QED
    BY <1>0, <1>1, <2>1, <2>2 DEF Returned
<1>4. ASSUME NEW start \in BOOLEAN, OnRecord(start) PROVE RecTypes'
  <2>1. /\ toggles < MaxToggles /\ toggles' = toggles + 1 /\ pause' = ~start
        /\ UNCHANGED <<recLinked, recAlive, recQueue, recOwed, recDropped, recLast, keys,
                       recBridge, recHand, async, writer, segment, closed, active,
                       recLost, passed>>
    BY <1>4 DEF OnRecord
  <2>2. pause' \in BOOLEAN
    BY <2>1, Zenon
  <2> QED
    BY <1>0, <1>1, <2>1, <2>2 DEF Returned
<1>5. ASSUME BridgeRecv PROVE RecTypes'
  <2>1. /\ recQueue # <<>> /\ recQueue' = Tail(recQueue) /\ recHand' = Head(recQueue)
        /\ recBridge' = "send"
        /\ UNCHANGED <<recLinked, recAlive, recOwed, recDropped, recLast, keys,
                       async, writer, segment, closed, active, pause, toggles, recLost,
                       passed>>
    BY <1>5 DEF BridgeRecv, RecSlot!Receive
  <2>2. recHand' \in RecAus /\ recQueue' \in Seq(RecAus)
    BY <2>1
  <2>3. recHand' \in 0..RecMaxAus
    BY <2>2 DEF RecAus
  <2> QED
    BY <1>0, <1>1, <2>1, <2>2, <2>3 DEF Returned
<1>6. ASSUME BridgeEnd \/ BridgeSendFails PROVE RecTypes'
  <2>1. /\ recAlive' = FALSE /\ recQueue' = <<>> /\ recBridge' = "exit"
        /\ UNCHANGED <<recLinked, recOwed, recDropped, recLast, keys, recHand,
                       async, writer, segment, closed, active, pause, toggles, recLost,
                       passed>>
    BY <1>6 DEF BridgeEnd, BridgeSendFails, RecSlot!CloseReceiver
  <2>2. recAlive' \in BOOLEAN
    BY <2>1
  <2> QED
    BY <1>0, <1>1, <2>1, <2>2 DEF Returned
<1>7. ASSUME BridgeSend PROVE RecTypes'
  <2>1. /\ recBridge = "send" /\ async' = Append(async, recHand) /\ recBridge' = "recv"
        /\ Len(async) < AsyncCap
        /\ UNCHANGED <<recLinked, recAlive, recQueue, recOwed, recDropped, recLast, keys,
                       recHand, writer, segment, closed, active, pause, toggles, recLost,
                       passed>>
    BY <1>7 DEF BridgeSend
  <2>2. async' \in Seq(RecAus) /\ Len(async') <= AsyncCap
    BY <1>0, <2>1
  <2> QED
    BY <1>0, <1>1, <2>1, <2>2 DEF Returned
<1>8. ASSUME NEW n \in RecAus, Pass(n) \/ Write(n) \/ Roll(n) \/ Fail(n) PROVE RecTypes'
  <2>1. /\ async' \in Seq(RecAus) /\ Len(async') <= AsyncCap
        /\ UNCHANGED <<recLinked, recAlive, recQueue, recOwed, recDropped, recLast, keys,
                       recBridge, recHand, pause, toggles, recLost>>
    <3>1. /\ async # <<>> /\ async' = Tail(async)
          /\ UNCHANGED <<recLinked, recAlive, recQueue, recOwed, recDropped, recLast, keys,
                         recBridge, recHand, pause, toggles, recLost>>
      BY <1>8 DEF Pass, Write, Roll, Fail, Take
    <3> QED
      BY <1>0, <3>1
  <2>2. passed' \subseteq [au : RecAus, why : {"paused", "nokey"}]
    <3>1. CASE Pass(n)
      BY <1>0, <3>1 DEF Pass
    <3>2. CASE Write(n) \/ Roll(n) \/ Fail(n)
      BY <1>0, <3>2 DEF Write, Roll, Fail
    <3> QED
      BY <1>8, <3>1, <3>2
  <2>3. segment' \in Seq(RecAus) /\ closed' \in Seq(Seq(RecAus))
    <3>1. /\ closed' \in {closed, Append(closed, segment)}
          /\ segment' \in {segment, Append(segment, n), <<n>>, <<>>}
      BY <1>8 DEF Pass, Write, Roll, Fail
    <3>2. Append(closed, segment) \in Seq(Seq(RecAus))
      OBVIOUS
    <3>3. /\ Append(segment, n) \in Seq(RecAus) /\ <<n>> \in Seq(RecAus)
          /\ <<>> \in Seq(RecAus)
      OBVIOUS
    <3>4. segment' \in Seq(RecAus)
      BY <3>1, <3>3
    <3> QED
      BY <3>1, <3>2, <3>4
  <2>4. writer' \in {"run", "stopping", "stopped", "failed"} /\ active' = ~Returned'
    <3>1. CASE Pass(n) \/ Write(n) \/ Roll(n)
      BY <1>0, <3>1 DEF Pass, Write, Roll, Returned
    <3>2. CASE Fail(n)
      BY <3>2 DEF Fail, Returned
    <3> QED
      BY <1>8, <3>1, <3>2
  <2> QED
    BY <1>0, <1>1, <2>1, <2>2, <2>3, <2>4
<1>9. ASSUME StopRequested PROVE RecTypes'
  <2>1. /\ writer = "run" /\ writer' = "stopping" /\ recLinked' = "unlinked" /\ recLast' = 0
        /\ UNCHANGED <<recAlive, recQueue, recOwed, recDropped, keys,
                       recBridge, recHand, async, segment, closed, active, pause, toggles,
                       recLost, passed>>
    BY <1>9 DEF StopRequested, RecSlot!Unlink
  <2>2. active' = ~Returned'
    BY <1>0, <2>1 DEF Returned
  <2> QED
    BY <1>0, <1>1, <2>1, <2>2
<1>10. ASSUME Finish PROVE RecTypes'
  <2>1. /\ recLinked' \in {recLinked, "unlinked"} /\ recLast' \in {recLast, 0}
        /\ UNCHANGED <<recAlive, recQueue, recOwed, recDropped>>
    BY <1>10 DEF Finish, RecSlot!Unlink
  <2>2. /\ writer' \in {"stopped", "failed"} /\ active' = FALSE /\ segment' = <<>>
        /\ UNCHANGED <<keys, recBridge, recHand, async, pause, toggles, recLost, passed>>
    BY <1>10 DEF Finish
  <2>3. closed' \in Seq(Seq(RecAus))
    <3>1. closed' \in {closed, Append(closed, segment)}
      BY <1>10 DEF Finish
    <3>2. Append(closed, segment) \in Seq(Seq(RecAus))
      OBVIOUS
    <3> QED
      BY <3>1, <3>2
  <2>4. active' = ~Returned'
    BY <2>2 DEF Returned
  <2> QED
    BY <1>0, <1>1, <2>1, <2>2, <2>3, <2>4
<1>11. CASE UNCHANGED recVars
  BY <1>0, <1>1, <1>11 DEF recVars, Returned
<1> QED
  BY <1>2, <1>3, <1>4, <1>5, <1>6, <1>7, <1>8, <1>9, <1>10, <1>11
  DEF RecNext, RecBridgeStep, WriterStep, Turn

\* What does not touch the files, the key flags of recorded units or what
\* gaps may consist of leaves the tiling alone.
LEMMA TilingStays ==
  ASSUME RecTypes, LineAhead, SegmentsTile, UNCHANGED <<segment, closed, passed>>,
         recLost \subseteq recLost',
         \A n \in 1..Len(keys) : keys'[n] = keys[n]
  PROVE  SegmentsTile'
<1>1. Tiles(Segs, keys, Gaps) /\ Segs' = Segs /\ Gaps \subseteq Gaps'
  BY TileIsTiles DEF Segs, Gaps
<1>2. ASSUME NEW i \in DOMAIN Segs PROVE keys'[Head(Segs[i])] = keys[Head(Segs[i])]
  <2>0. Append(closed, segment) \in Seq(Seq(RecAus)) /\ closed \in Seq(Seq(RecAus))
    BY RecFacts
  <2>1. Segs \in Seq(Seq(RecAus)) /\ Segs[i] # <<>>
    BY <1>1, <1>2, <2>0 DEF Tiles, Segs
  <2>2. Segs[i] \in Seq(RecAus)
    BY <1>2, <2>1
  <2>3. Head(Segs[i]) \in Range(Segs[i])
    BY <2>1, <2>2, RangeTail
  <2>4. Range(Segs[i]) \subseteq Recorded
    <3>1. /\ DOMAIN closed = 1..Len(closed) /\ Len(closed) \in Nat
          /\ DOMAIN Append(closed, segment) = 1..(Len(closed) + 1)
          /\ \A k \in 1..Len(closed) : Append(closed, segment)[k] = closed[k]
          /\ Append(closed, segment)[Len(closed) + 1] = segment
      BY RecFacts
    <3>2. CASE i \in DOMAIN closed /\ Segs[i] = closed[i]
      BY <3>2 DEF Recorded
    <3>3. CASE Segs[i] = segment
      BY <3>3 DEF Recorded
    <3> QED
      BY <1>2, <3>1, <3>2, <3>3 DEF Segs
  <2>5. Head(Segs[i]) \in 1..Len(keys)
    BY <2>3, <2>4 DEF LineAhead, Done
  <2> QED
    BY <2>5
<1>3. Tiles(Segs, keys', Gaps')
  BY <1>1, <1>2, TilesLater
<1>4. Tiles(Segs', keys', Gaps')
  BY <1>1, <1>3
<1>5. (SegmentsTile <=> Tiles(Segs, keys, Gaps))'
  BY TileIsTiles, PTL
<1> QED
  BY <1>4, <1>5

\* The newest unit is one nobody has seen, whether it is queued or lost.
LEMMA PublishKeepsRec ==
  ASSUME RecInv, RecTypes', NEW isKey \in BOOLEAN, RecPublish(isKey)
  PROVE  RecInv'
<1> DEFINE n == Len(keys) + 1
<1> USE RecFacts DEF RecInv
<1>1. /\ keys' = Append(keys, isKey) /\ Len(keys') = n /\ n \in RecAus
      /\ UNCHANGED <<recBridge, recHand, async, writer, segment, closed, passed>>
      /\ 1..Len(keys') = 1..Len(keys) \cup {n}
      /\ \A k \in 1..Len(keys) : keys'[k] = keys[k] /\ k < n
  <2>1. /\ keys' = Append(keys, isKey) /\ n \in RecAus
        /\ UNCHANGED <<recBridge, recHand, async, writer, segment, closed, passed>>
    BY RecMaxAusAssumption DEF RecPublish, bridgeVars, files, recGate, RecAus
  <2>2. Len(keys') = n /\ \A k \in 1..Len(keys) : keys'[k] = keys[k]
    BY <2>1
  <2>3. 1..n = 1..Len(keys) \cup {n} /\ \A k \in 1..Len(keys) : k < n
    OBVIOUS
  <2> HIDE DEF n
  <2> QED
    BY <2>1, <2>2, <2>3
<1>2. UNCHANGED <<Recorded, PassedAus, Done>>
  BY <1>1 DEF Recorded, PassedAus, Done
<1>3. \A x \in Done \cup InFlight \cup recLost : x \in 1..Len(keys) /\ x < n
  BY <1>1 DEF LineAhead
<1>4. CASE RecSlot!OfferTaken(n) /\ UNCHANGED recLost
  <2>1. recQueue' = Append(recQueue, n) /\ recAlive /\ UNCHANGED <<recAlive, recLost>>
    BY <1>4 DEF RecSlot!OfferTaken, RecSlot!HasRoom
  <2>2. Range(recQueue') = Range(recQueue) \cup {n}
    BY <1>1, <2>1, RangeAppend
  <2>3. InFlight' = InFlight \cup {n}
    BY <1>1, <2>2 DEF InFlight
  <2>4. LineAhead' /\ AllAccounted'
    BY <1>1, <1>2, <1>3, <2>1, <2>3 DEF LineAhead, AllAccounted
  <2>5. RecLine'
    <3>1. /\ \A j \in DOMAIN recQueue : recQueue[j] < n
          /\ \A i \in DOMAIN async : async[i] < n
          /\ recBridge = "send" => recHand < n
      BY <1>3 DEF InFlight, Range
    <3>2. Rising(recQueue')
      BY <1>1, <2>1, <3>1, RisingAppend DEF RecLine
    <3>3. /\ DOMAIN recQueue' = 1..(Len(recQueue) + 1) /\ DOMAIN recQueue = 1..Len(recQueue)
          /\ \A i \in 1..Len(recQueue) : recQueue'[i] = recQueue[i]
          /\ recQueue'[Len(recQueue) + 1] = n /\ Len(recQueue) \in Nat
      BY <2>1
    <3>4. ASSUME NEW j \in DOMAIN recQueue'
          PROVE  /\ \A i \in DOMAIN async : async[i] < recQueue'[j]
                 /\ recBridge = "send" => recHand < recQueue'[j]
      <4>1. CASE j \in DOMAIN recQueue
        BY <3>3, <4>1 DEF RecLine
      <4>2. CASE j = Len(recQueue) + 1
        BY <3>1, <3>3, <4>2
      <4>3. j \in DOMAIN recQueue \/ j = Len(recQueue) + 1
        BY <3>3
      <4> QED
        BY <4>1, <4>2, <4>3, Zenon
    <3> QED
      BY <1>1, <3>2, <3>4 DEF RecLine
  <2>6. BridgeGone'
    BY <1>1, <2>1 DEF BridgeGone
  <2> QED
    BY <1>1, <1>2, <2>1, <2>4, <2>5, <2>6, TilingStays DEF NewestLast
<1>5. CASE RecSlot!OfferFailed(n) /\ recLost' = recLost \cup {n}
  <2>1. UNCHANGED <<recQueue, recAlive>>
    BY <1>5 DEF RecSlot!OfferFailed
  <2>2. InFlight' = InFlight
    BY <1>1, <2>1 DEF InFlight
  <2>3. LineAhead' /\ AllAccounted'
    BY <1>1, <1>2, <1>3, <1>5, <2>2 DEF LineAhead, AllAccounted
  <2>4. RecLine' /\ BridgeGone'
    BY <1>1, <2>1 DEF RecLine, BridgeGone
  <2> QED
    BY <1>1, <1>2, <1>5, <2>3, <2>4, TilingStays DEF NewestLast
<1> QED
  BY <1>4, <1>5 DEF RecPublish

\* The bridge moves units along the line; what it drops when its send fails
\* is dropped after the task returned.
LEMMA BridgeKeepsRec ==
  ASSUME RecInv, RecTypes', RecBridgeStep
  PROVE  RecInv'
<1> USE RecFacts DEF RecInv
<1>1. UNCHANGED <<keys, writer, segment, closed, recLost, passed>>
  BY DEF RecBridgeStep, BridgeRecv, BridgeEnd, BridgeSend, BridgeSendFails, files, recSlot
<1>2. UNCHANGED <<Recorded, PassedAus, Done>>
  BY <1>1 DEF Recorded, PassedAus, Done
<1>3. SegmentsTile' /\ NewestLast'
  BY <1>1, <1>2, TilingStays DEF NewestLast
<1>4. ASSUME RecLine', BridgeGone', InFlight' \subseteq InFlight,
             InFlight' = InFlight \/ writer = "failed"
      PROVE  RecInv'
  <2>1. LineAhead' /\ AllAccounted'
    BY <1>1, <1>2, <1>4 DEF LineAhead, AllAccounted
  <2> QED
    BY <1>3, <1>4, <2>1
<1>5. CASE BridgeRecv
  <2>1. /\ recBridge = "recv" /\ recBridge' = "send" /\ recQueue # <<>>
        /\ recHand' = Head(recQueue) /\ recQueue' = Tail(recQueue)
        /\ UNCHANGED <<async, recAlive>>
    BY <1>5 DEF BridgeRecv, RecSlot!Receive
  <2>2. Range(recQueue) = {recHand'} \cup Range(recQueue')
    BY <2>1, RangeTail
  <2>3. Rising(recQueue') /\ \A y \in Range(recQueue') : recHand' < y
    BY <2>1, RisingTail DEF RecLine
  <2>4. /\ DOMAIN recQueue = 1..Len(recQueue) /\ Len(recQueue) \in Nat \ {0}
        /\ DOMAIN recQueue' = 1..(Len(recQueue) - 1)
        /\ \A i \in DOMAIN recQueue' : recQueue'[i] = recQueue[i + 1] /\ i + 1 \in DOMAIN recQueue
        /\ recHand' = recQueue[1] /\ 1 \in DOMAIN recQueue
    BY <2>1
  <2>5. InFlight' = InFlight
    BY <2>1, <2>2 DEF InFlight
  <2>6. RecLine'
    <3>1. \A j \in DOMAIN recQueue' : recHand' < recQueue'[j]
      BY <2>3 DEF Range
    <3> QED
      BY <2>1, <2>3, <2>4, <3>1 DEF RecLine
  <2>7. BridgeGone'
    BY <1>1, <2>1 DEF BridgeGone
  <2> QED
    BY <1>4, <2>5, <2>6, <2>7
<1>6. CASE BridgeEnd
  <2>1. /\ recBridge = "recv" /\ recBridge' = "exit" /\ recQueue = <<>> /\ recQueue' = <<>>
        /\ recAlive' = FALSE /\ UNCHANGED <<async, recHand>>
    BY <1>6 DEF BridgeEnd, RecSlot!CloseReceiver
  <2>2. InFlight' = InFlight
    BY <2>1 DEF InFlight
  <2>3. RecLine' /\ BridgeGone'
    BY <1>1, <2>1 DEF RecLine, BridgeGone
  <2> QED
    BY <1>4, <2>2, <2>3
<1>7. CASE BridgeSend
  <2>1. /\ recBridge = "send" /\ recBridge' = "recv" /\ async' = Append(async, recHand)
        /\ UNCHANGED <<recQueue, recAlive, recHand>> /\ ~Returned
    BY <1>7 DEF BridgeSend, recSlot
  <2>2. recHand \in RecAus /\ recHand \in Nat
    BY <2>1 DEF RecTypes
  <2>3. Range(async') = Range(async) \cup {recHand}
    BY <2>1, <2>2, RangeAppend
  <2>4. InFlight' = InFlight
    BY <2>1, <2>3 DEF InFlight
  <2>5. RecLine'
    <3>1. \A i \in DOMAIN async : async[i] < recHand
      BY <2>1 DEF RecLine
    <3>2. Rising(async')
      BY <2>1, <2>2, <3>1, RisingAppend DEF RecLine
    <3>3. /\ DOMAIN async' = 1..(Len(async) + 1) /\ DOMAIN async = 1..Len(async)
          /\ \A i \in 1..Len(async) : async'[i] = async[i]
          /\ async'[Len(async) + 1] = recHand /\ Len(async) \in Nat
      BY <2>1
    <3>4. \A j \in DOMAIN recQueue : recHand < recQueue[j]
      BY <2>1 DEF RecLine
    <3>5. ASSUME NEW i \in DOMAIN async', NEW j \in DOMAIN recQueue
          PROVE  async'[i] < recQueue[j]
      <4>1. CASE i \in DOMAIN async
        BY <3>3, <4>1 DEF RecLine
      <4>2. CASE i = Len(async) + 1
        BY <3>3, <3>4, <4>2
      <4> QED
        BY <3>3, <4>1, <4>2
    <3> QED
      BY <2>1, <3>2, <3>5 DEF RecLine
  <2>6. BridgeGone'
    BY <1>1, <2>1 DEF BridgeGone, Returned
  <2> QED
    BY <1>4, <2>4, <2>5, <2>6
<1>8. CASE BridgeSendFails
  <2>1. /\ recBridge = "send" /\ recBridge' = "exit" /\ recQueue' = <<>>
        /\ recAlive' = FALSE /\ UNCHANGED <<async, recHand>> /\ Returned
    BY <1>8 DEF BridgeSendFails, RecSlot!CloseReceiver
  <2>2. writer = "failed"
    BY <2>1 DEF Returned, BridgeGone
  <2>3. InFlight' \subseteq InFlight
    BY <2>1 DEF InFlight, Range
  <2>4. RecLine' /\ BridgeGone'
    BY <1>1, <2>1, <2>2 DEF RecLine, BridgeGone, Rising
  <2> QED
    BY <1>4, <2>2, <2>3, <2>4
<1> QED
  BY <1>5, <1>6, <1>7, <1>8 DEF RecBridgeStep

\* Between the open segment's last unit and the oldest one in flight there
\* is nothing but losses and pauses.
LEMMA GapExplained ==
  ASSUME RecInv, writer # "failed", segment # <<>>, NEW n \in InFlight,
         \A f \in InFlight : n <= f
  PROVE  (segment[Len(segment)] + 1)..(n - 1) \subseteq Gaps
<1> DEFINE m == segment[Len(segment)]
<1> USE RecFacts DEF RecInv
<1>1. m \in Nat /\ n \in Nat /\ n <= Len(keys)
  <2>1. segment[Len(segment)] \in RecAus
    OBVIOUS
  <2> QED
    BY <2>1 DEF LineAhead
<1> SUFFICES ASSUME NEW k \in (m + 1)..(n - 1) PROVE k \in Gaps
  OBVIOUS
<1>2. k \in 1..Len(keys) /\ m < k /\ k < n /\ k \in Nat
  BY <1>1
<1> HIDE DEF m
<1>3. k \notin InFlight
  BY <1>1, <1>2
<1>4. k \notin Recorded
  <2>1. \A d \in Recorded : d <= m /\ d \in Nat
    BY DEF NewestLast, m
  <2> QED
    BY <1>1, <1>2, <2>1
<1>5. k \in recLost \/ k \in PassedAus
  BY <1>2, <1>3, <1>4 DEF AllAccounted
<1>6. CASE k \in PassedAus
  <2>1. PICK p \in passed : p.au = k
    BY <1>6 DEF PassedAus
  <2>2. p.why \in {"paused", "nokey"}
    BY DEF RecTypes, RecTypeOK
  <2>3. p.why # "nokey"
    BY <1>1, <1>2, <2>1 DEF NewestLast, m
  <2> QED
    BY <2>1, <2>2, <2>3 DEF Gaps
<1> QED
  BY <1>5, <1>6 DEF Gaps

\* A turn of the writer's loop.
LEMMA TurnKeepsRec ==
  ASSUME RecInv, RecTypes', NEW n \in RecAus,
         Pass(n) \/ Write(n) \/ Roll(n) \/ Fail(n)
  PROVE  RecInv'
<1> USE RecFacts DEF RecInv
<1>1. /\ Take(n) /\ UNCHANGED <<keys, recAlive, recQueue, recBridge, recHand, recLost>>
      /\ ~Returned
  BY DEF Pass, Write, Roll, Fail, Take, recSlot, bridgeVars
<1>2. /\ n \in InFlight /\ InFlight' = InFlight \ {n}
      /\ \A f \in InFlight' : n < f
      /\ \A d \in Done : d < n
      /\ RecLine'
  BY <1>1, TakesOldest
<1>3. /\ \A f \in InFlight : n <= f
      /\ n \in Nat /\ n \notin Recorded /\ n \notin PassedAus
      /\ \A d \in Done : d \in Nat
      /\ \A p \in passed : p.au <= n
  <2>1. n \in Nat /\ InFlight \subseteq Nat /\ Done \subseteq Nat
    BY DEF Done
  <2>2. \A f \in InFlight : f = n \/ f \in InFlight'
    BY <1>2
  <2>3. \A f \in InFlight : n <= f
    BY <1>2, <2>1, <2>2
  <2>4. \A p \in passed : p.au \in Done
    BY DEF Done, PassedAus
  <2>5. \A d \in Done : d <= n /\ d # n
    BY <1>2, <2>1
  <2> QED
    BY <2>1, <2>3, <2>4, <2>5 DEF Done
<1>4. writer # "failed" /\ writer # "stopped"
  BY <1>1 DEF Returned
<1>5. BridgeGone'
  <2>1. writer' # "stopped"
    BY <1>4 DEF Pass, Write, Roll, Fail
  <2> QED
    BY <1>1, <2>1 DEF BridgeGone
\* The unit ends up in one of the two sets, or the task fails.
<1>6. ASSUME \/ Recorded' = Recorded \cup {n} /\ PassedAus' = PassedAus
             \/ Recorded' = Recorded /\ PassedAus' = PassedAus \cup {n}
             \/ Recorded' = Recorded /\ PassedAus' = PassedAus /\ writer' = "failed"
      PROVE  LineAhead' /\ AllAccounted'
  <2>1. Done' \subseteq Done \cup {n}
    BY <1>6 DEF Done
  <2>2. LineAhead'
    <3>1. ASSUME NEW d \in Done', NEW f \in InFlight' PROVE d < f
      BY <1>2, <2>1, <3>1 DEF LineAhead
    <3>2. Done' \cup InFlight' \cup recLost' \subseteq 1..Len(keys')
      BY <1>1, <1>2, <2>1 DEF LineAhead
    <3>3. Recorded' \cap PassedAus' = {}
      BY <1>3, <1>6 DEF LineAhead
    <3> QED
      BY <3>1, <3>2, <3>3 DEF LineAhead
  <2>3. AllAccounted'
    BY <1>1, <1>2, <1>4, <1>6 DEF AllAccounted
  <2> QED
    BY <2>2, <2>3
<1>7. CASE Pass(n)
  <2> DEFINE why == IF pause THEN "paused" ELSE "nokey"
  <2>1. /\ passed' = passed \cup {[au |-> n, why |-> why]}
        /\ UNCHANGED <<segment, closed, writer>>
        /\ segment # <<>> => why = "paused"
    BY <1>7 DEF Pass, files
  <2> HIDE DEF why
  <2>2. Recorded' = Recorded
    BY <2>1 DEF Recorded
  <2>3. PassedAus' = PassedAus \cup {n}
    <3>1. [au |-> n, why |-> why].au = n
      OBVIOUS
    <3> DEFINE entry == [au |-> n, why |-> why]
    <3>2. passed' = passed \cup {entry} /\ entry.au = n
      BY <2>1, <3>1
    <3> HIDE DEF entry
    <3> QED
      BY <3>2 DEF PassedAus
  <2>4. NewestLast'
    BY <2>1, <2>2 DEF NewestLast
  <2>5. SegmentsTile'
    <3>1. Tiles(Segs, keys, Gaps) /\ Segs' = Segs /\ Gaps \subseteq Gaps'
      BY <1>1, <2>1, TileIsTiles DEF Segs, Gaps
    <3>2. Tiles(Segs', keys', Gaps')
      BY <1>1, <3>1, TilesLater
    <3>3. (SegmentsTile <=> Tiles(Segs, keys, Gaps))'
      BY TileIsTiles, PTL
    <3> QED
      BY <3>2, <3>3
  <2> QED
    BY <1>2, <1>5, <1>6, <2>2, <2>3, <2>4, <2>5
<1>8. CASE Write(n)
  <2>1. /\ segment # <<>> /\ segment' = Append(segment, n)
        /\ UNCHANGED <<closed, passed>>
    BY <1>8 DEF Write
  <2>2. Range(segment') = Range(segment) \cup {n}
    BY <2>1, RangeAppend
  <2>3. Recorded' = Recorded \cup {n} /\ PassedAus' = PassedAus
    BY <2>1, <2>2 DEF Recorded, PassedAus
  <2>4. segment'[Len(segment')] = n /\ segment' # <<>>
    <3>1. segment \in Seq(Nat) /\ n \in Nat
      BY <1>3
    <3>2. /\ Len(Append(segment, n)) = Len(segment) + 1
          /\ Append(segment, n)[Len(segment) + 1] = n
          /\ Append(segment, n) # <<>>
      BY ONLY <3>1
    <3> QED
      BY ONLY <2>1, <3>2
  <2>5. NewestLast'
    <3>1. \A d \in Recorded' : d <= n
      BY <1>2, <1>3, <2>3 DEF Done
    <3>2. \A p \in passed : p.au <= n
      BY <1>3
    <3> QED
      BY <2>1, <2>4, <3>1, <3>2 DEF NewestLast
  <2>6. SegmentsTile'
    <3>1. Segs = Append(closed, segment) /\ Segs' = Append(closed, Append(segment, n))
      BY <2>1, <2>4 DEF Segs
    <3>2. Tiles(Append(closed, segment), keys, Gaps)
      BY <3>1, TileIsTiles
    <3>3. segment[Len(segment)] < n
      <4>1. segment[Len(segment)] \in Recorded
        BY <2>1 DEF Recorded, Range
      <4> QED
        BY <1>2, <4>1 DEF Done
    <3>4. (segment[Len(segment)] + 1)..(n - 1) \subseteq Gaps
      BY <1>2, <1>3, <1>4, <2>1, GapExplained
    <3>5. Tiles(Append(closed, Append(segment, n)), keys, Gaps)
      BY <1>3, <2>1, <3>2, <3>3, <3>4, TilesExtend
    <3>6. keys' = keys /\ Gaps' = Gaps
      BY <1>1, <2>1 DEF Gaps
    <3>7. (SegmentsTile <=> Tiles(Segs, keys, Gaps))'
      BY TileIsTiles, PTL
    <3> QED
      BY <3>1, <3>5, <3>6, <3>7
  <2> QED
    BY <1>2, <1>5, <1>6, <2>3, <2>5, <2>6
<1>9. CASE Roll(n)
  <2>1. /\ keys[n] /\ segment' = <<n>> /\ UNCHANGED passed
        /\ closed' = IF segment = <<>> THEN closed ELSE Append(closed, segment)
    BY <1>9 DEF Roll, RecIsKey
  <2>2. Recorded' = Recorded \cup {n} /\ PassedAus' = PassedAus
    <3>1. CASE segment = <<>>
      <4>1. Range(segment) = {} /\ Range(segment') = {n} /\ closed' = closed
        BY <2>1, <3>1 DEF Range
      <4> QED
        BY <2>1, <4>1 DEF Recorded, PassedAus
    <3>2. CASE segment # <<>>
      BY <2>1, <3>2, RecordedOpened DEF PassedAus
    <3> QED
      BY <3>1, <3>2
  <2>3. NewestLast'
    <3>1. \A d \in Recorded' : d <= n
      BY <1>2, <1>3, <2>2 DEF Done
    <3>2. \A p \in passed : p.au <= n
      BY <1>3
    <3>3. segment'[Len(segment')] = n
      BY <2>1
    <3> QED
      BY <2>1, <3>1, <3>2, <3>3 DEF NewestLast
  <2>4. SegmentsTile'
    <3>1. Segs' = Append(Segs, <<n>>)
      BY <2>1 DEF Segs
    <3>2. Append(closed, segment) \in Seq(Seq(Nat))
      OBVIOUS
    <3>3. Segs \in Seq(Seq(Nat)) /\ Segs \in Seq(Seq(RecAus))
      BY <3>2 DEF Segs
    <3>4. ASSUME NEW i \in DOMAIN Segs PROVE Segs[i][Len(Segs[i])] < n
      <4>1. Segs[i] # <<>>
        BY TileIsTiles DEF Tiles
      <4>2. Segs[i] \in Seq(Nat)
        BY <3>3
      <4>3. Segs[i][Len(Segs[i])] \in Range(Segs[i])
        BY <4>1, <4>2 DEF Range
      <4>4. Range(Segs[i]) \subseteq Recorded
        <5>1. /\ DOMAIN closed = 1..Len(closed) /\ Len(closed) \in Nat
              /\ DOMAIN Append(closed, segment) = 1..(Len(closed) + 1)
              /\ \A k \in 1..Len(closed) : Append(closed, segment)[k] = closed[k]
              /\ Append(closed, segment)[Len(closed) + 1] = segment
          OBVIOUS
        <5>2. CASE i \in DOMAIN closed /\ Segs[i] = closed[i]
          BY <5>2 DEF Recorded
        <5>3. CASE Segs[i] = segment
          BY <5>3 DEF Recorded
        <5> QED
          BY <3>4, <5>1, <5>2, <5>3 DEF Segs
      <4> QED
        BY <1>2, <4>3, <4>4 DEF Done
    <3>5. Tiles(Append(Segs, <<n>>), keys, Gaps)
      BY <1>3, <2>1, <3>3, <3>4, TileIsTiles, TilesOpen
    <3>6. keys' = keys /\ Gaps' = Gaps
      BY <1>1, <2>1 DEF Gaps
    <3>7. (SegmentsTile <=> Tiles(Segs, keys, Gaps))'
      BY TileIsTiles, PTL
    <3> QED
      BY <3>1, <3>5, <3>6, <3>7
  <2> QED
    BY <1>2, <1>5, <1>6, <2>2, <2>3, <2>4
<1>10. CASE Fail(n)
  <2>1. /\ writer' = "failed" /\ UNCHANGED passed
        /\ \/ UNCHANGED <<segment, closed>>
           \/ /\ segment # <<>> /\ closed' = Append(closed, segment)
              /\ segment' = <<>>
    BY <1>10 DEF Fail, files
  <2>2. Recorded' = Recorded /\ PassedAus' = PassedAus
    <3>1. CASE UNCHANGED <<segment, closed>>
      BY <2>1, <3>1 DEF Recorded, PassedAus
    <3>2. CASE closed' = Append(closed, segment) /\ segment' = <<>>
      BY <2>1, <3>2, RecordedClosed DEF PassedAus
    <3> QED
      BY <2>1, <3>1, <3>2
  <2>3. NewestLast'
    BY <2>1, <2>2 DEF NewestLast
  <2>4. Segs' = Segs /\ keys' = keys /\ Gaps' = Gaps
    BY <1>1, <2>1 DEF Segs, Gaps
  <2>5. (SegmentsTile <=> Tiles(Segs, keys, Gaps))'
    BY TileIsTiles, PTL
  <2>6. SegmentsTile'
    BY <2>4, <2>5, TileIsTiles
  <2> QED
    BY <1>2, <1>5, <1>6, <2>1, <2>2, <2>3, <2>6
<1> QED
  BY <1>7, <1>8, <1>9, <1>10

\* The loop ends: the open segment is closed, or lost with the task.
LEMMA FinishKeepsRec ==
  ASSUME RecInv, RecTypes', Finish
  PROVE  RecInv'
<1> USE RecFacts DEF RecInv
<1>1. /\ async = <<>> /\ recBridge = "exit" /\ segment' = <<>>
      /\ UNCHANGED <<keys, recBridge, recHand, async, recLost, passed, recQueue, recAlive>>
      /\ ~Returned
  BY DEF Finish, recSlot, bridgeVars, RecSlot!Unlink
<1>2. RecLine' /\ BridgeGone' /\ NewestLast'
  BY <1>1 DEF RecLine, BridgeGone, NewestLast
<1>3. InFlight' = {} /\ InFlight = {} /\ PassedAus' = PassedAus
  BY <1>1 DEF InFlight, Range, PassedAus, BridgeGone
<1>4. CASE /\ writer' = "stopped"
           /\ closed' = IF segment = <<>> THEN closed ELSE Append(closed, segment)
  <2>1. Recorded' = Recorded
    <3>1. CASE segment = <<>>
      BY <1>1, <1>4, <3>1 DEF Recorded
    <3>2. CASE segment # <<>>
      BY <1>1, <1>4, <3>2, RecordedClosed
    <3> QED
      BY <3>1, <3>2
  <2>2. LineAhead' /\ AllAccounted'
    BY <1>1, <1>3, <2>1 DEF LineAhead, AllAccounted, Done, Returned
  <2>3. Segs' = Segs /\ keys' = keys /\ Gaps' = Gaps
    BY <1>1, <1>4 DEF Segs, Gaps
  <2>4. (SegmentsTile <=> Tiles(Segs, keys, Gaps))'
    BY TileIsTiles, PTL
  <2>5. SegmentsTile'
    BY <2>3, <2>4, TileIsTiles
  <2> QED
    BY <1>2, <2>2, <2>5
<1>5. CASE writer' = "failed" /\ segment # <<>> /\ UNCHANGED closed
  <2>1. Recorded' \subseteq Recorded
    BY <1>1, <1>5 DEF Recorded, Range
  <2>2. LineAhead' /\ AllAccounted'
    BY <1>1, <1>3, <1>5, <2>1 DEF LineAhead, AllAccounted, Done
  <2>3. Segs = Append(closed, segment) /\ Segs' = closed /\ keys' = keys /\ Gaps' = Gaps
    BY <1>1, <1>5 DEF Segs, Gaps
  <2>4. Tiles(closed, keys, Gaps)
    BY <2>3, TileIsTiles, TilesFewer
  <2>5. (SegmentsTile <=> Tiles(Segs, keys, Gaps))'
    BY TileIsTiles, PTL
  <2>6. SegmentsTile'
    BY <2>3, <2>4, <2>5
  <2> QED
    BY <1>2, <2>2, <2>6
<1> QED
  BY <1>4, <1>5 DEF Finish

LEMMA RecStepInv == RecInv /\ [RecNext]_recVars => RecInv'
<1> SUFFICES ASSUME RecInv, [RecNext]_recVars PROVE RecInv'
  OBVIOUS
<1>1. RecTypes'
  BY RecTypesStep DEF RecInv
\* Steps that move no unit.
<1>2. ASSUME UNCHANGED <<keys, recAlive, recQueue, recBridge, recHand, async, segment,
                         closed, recLost, passed>>,
             writer' = writer \/ (writer = "run" /\ writer' = "stopping")
      PROVE  RecInv'
  <2>1. UNCHANGED <<Recorded, PassedAus, InFlight, Done>>
    BY <1>2 DEF Recorded, PassedAus, InFlight, Done
  <2>2. LineAhead' /\ AllAccounted'
    BY <1>2, <2>1 DEF RecInv, LineAhead, AllAccounted
  <2>3. RecLine' /\ BridgeGone' /\ NewestLast'
    BY <1>2, <2>1 DEF RecInv, RecLine, BridgeGone, NewestLast
  <2>4. SegmentsTile'
    BY <1>2, TilingStays DEF RecInv
  <2> QED
    BY <1>1, <2>2, <2>3, <2>4 DEF RecInv
<1>3. ASSUME RecCountLoss PROVE RecInv'
  BY <1>2, <1>3 DEF RecCountLoss, RecSlot!CountLoss, bridgeVars, files
<1>4. ASSUME NEW start \in BOOLEAN, OnRecord(start) PROVE RecInv'
  BY <1>2, <1>4 DEF OnRecord, recSlot, bridgeVars, files
<1>5. ASSUME StopRequested PROVE RecInv'
  BY <1>2, <1>5 DEF StopRequested, RecSlot!Unlink, bridgeVars, files
<1>6. CASE UNCHANGED recVars
  BY <1>2, <1>6 DEF recVars, recSlot, bridgeVars, files
<1> QED
  BY <1>1, <1>3, <1>4, <1>5, <1>6, PublishKeepsRec, BridgeKeepsRec, TurnKeepsRec,
     FinishKeepsRec
  DEF RecNext, WriterStep, Turn

\* A line of units that lies past everything done is a whole recording.
LEMMA WholeRecording == RecInv => RecordingsWhole
<1> SUFFICES ASSUME RecInv PROVE RecordingsWhole
  OBVIOUS
<1>1. Recorded \cap InFlight = {} /\ PassedAus \cap InFlight = {}
  <2>1. \A f \in InFlight : f \in Nat
    BY RecFacts DEF RecInv
  <2> QED
    BY <2>1 DEF RecInv, LineAhead, Done
<1>2. writer = "stopped" => InFlight = {}
  BY DEF RecInv, BridgeGone, InFlight, Range
<1> QED
  BY <1>1, <1>2 DEF RecInv, AllAccounted, LineAhead, RecordingsWhole, Conserved

(* A recording holds all it was handed: whatever the hub could queue is in *)
(* the writer's hands, recorded or passed over for a pause or a missing    *)
(* key frame, in one of the three only and, after a clean stop, no longer  *)
(* in anybody's hands; and the segments follow each other without a gap of *)
(* their own (run_inner in recording/writer.rs), for any number of units,  *)
(* pauses and segments and any capacities.                                 *)
THEOREM RecordingsWholeAlways == RecSpec => []RecordingsWhole
BY WholeRecording, RecInitInv, RecStepInv, PTL DEF RecSpec

(* Every variable of the writer keeps its type: no channel exceeds its     *)
(* bound, and RECORD_ACTIVE says at every step whether the task runs.      *)
THEOREM RecorderTypeCorrect == RecSpec => []RecTypeOK
<1>1. RecInv => RecTypeOK
  BY DEF RecInv, RecTypes
<1> QED
  BY <1>1, RecInitInv, RecStepInv, PTL DEF RecSpec

-----------------------------------------------------------------------------
(* The recording directory.  FootprintExact, IndexNamesFiles and           *)
(* OldestFirst speak of one moment each; between them a sweep works from a *)
(* copy of the index that the writer extends meanwhile.  What carries them *)
(* is that the copy stays in order, before all that was appended since,    *)
(* and that what a sweep believes of the files in it is right as long as   *)
(* no operation failed.                                                    *)

StoreTypes ==
  /\ current \in 0..MaxSegments /\ bytes \in Nat /\ deleted \in Nat /\ total \in Nat
  /\ pos \in Nat /\ crashes \in Nat /\ faults \in Nat /\ saturated \in BOOLEAN
  /\ wpc \in {"idle", "open", "synced", "indexed", "failed"}
  /\ spc \in {"idle", "age", "cap", "count", "truncate", "rewrite"}
  /\ index \in Seq(Nat) /\ aged \in Seq(Nat) /\ remaining \in Seq(Nat)

\* Only segments that were closed are listed, loaded or deleted; what the
\* sweep did not delete is there.
Closed ==
  /\ Range(index) \cup Range(aged) \cup Range(remaining) \cup removed \cup expired
       \subseteq indexed
  /\ indexed \subseteq 1..current
  /\ disk = (1..current) \ removed
  /\ wpc \in {"open", "synced"} => current > 0 /\ current \notin indexed
  /\ wpc = "indexed" => current \in indexed
  /\ Range(aged) \subseteq expired

\* A segment has its size when it is closed, and keeps it.
Sized ==
  /\ size \in [Segments -> Sizes \cup {0}]
  /\ \A s \in Segments : s > current \/ (s = current /\ wpc = "open") => size[s] = 0
  /\ wpc = "synced" => size[current] # 0
  /\ \A s \in indexed : size[s] # 0

\* The index and the sweep's copy of it are in order; the rewrite goes in
\* between what it wrote and what was appended after it had truncated.
InOrderOfTime ==
  /\ Rising(index) /\ Rising(aged) /\ Rising(remaining)
  /\ \A a \in Range(aged), x \in Range(remaining) : a < x
  /\ spc # "age" => aged = <<>>
  /\ spc \in {"age", "cap", "count", "truncate"} => pos = 0
  /\ spc = "rewrite" =>
       /\ pos <= Len(index)
       /\ \A i \in 1..Len(index), x \in Range(remaining) :
            IF i <= pos THEN index[i] < x ELSE x < index[i]

\* Files are only given up from the old end of what the sweep loaded.
OldGone ==
  faults = 0 =>
    /\ \A r \in removed, s \in disk :
         s \in Range(index) \cup Range(aged) \cup Range(remaining) => r < s
    /\ spc \in {"age", "cap"} =>
         \A s \in Range(index) \cap disk :
           \/ s \in Range(aged) \cup Range(remaining)
           \/ \A x \in Range(aged) \cup Range(remaining) : x < s

\* Without a failure and a restart the sweep knows what is on the disk.
SweepKnows ==
  Undisturbed =>
    /\ spc # "idle" => Range(remaining) \subseteq disk
    /\ spc = "age" => Range(aged) \subseteq disk
    /\ spc \in {"age", "cap"} => total = SizeOf(Range(remaining))
    /\ (spc \in {"idle", "rewrite"} \/ (spc \in {"age", "cap"} /\ deleted = 0)) =>
         Range(index) \subseteq disk

\* What a sweep means to keep fits the cap.
KeepsCap ==
  /\ spc \in {"age", "cap"} => SizeOf(Range(remaining) \cap disk) <= total
  /\ spc \in {"count", "truncate"} => SizeOf(Range(remaining) \cap disk) <= MaxTotal

\* What went before its time had to.
HadToGo ==
  Undisturbed => \A r \in removed \ expired : SizeOf({s \in indexed : r <= s}) > MaxTotal

\* The footprint is not too small, and exact until it has saturated.
Footprint ==
  LET counted == bytes + (IF wpc = "indexed" THEN size[current] ELSE 0)
      used    == SizeOf(indexed \cap disk)
                   + (IF spc \in {"age", "cap", "count"} THEN deleted ELSE 0)
  IN  Undisturbed => counted >= used /\ (~saturated => counted = used)

StoreInv ==
  StoreTypes /\ Closed /\ Sized /\ InOrderOfTime /\ OldGone /\ SweepKnows /\ KeepsCap
    /\ HadToGo /\ Footprint

\* What the sizes of segments add up to.
LEMMA Sizing ==
  ASSUME NEW f \in [Segments -> Nat]
  PROVE  /\ SumOf(f, {}) = 0
         /\ \A S \in SUBSET Segments :
              /\ SumOf(f, S) \in Nat
              /\ \A x \in S : SumOf(f, S) = f[x] + SumOf(f, S \ {x})
              /\ \A R \in SUBSET S : SumOf(f, R) <= SumOf(f, S)
<1>1. \A S : SumOf(f, S) = Sum(f, S)
  BY DEF SumOf, Sum
<1>2. IsFiniteSet(Segments)
  BY MaxSegmentsAssumption, FS_Interval DEF Segments
<1>3. \A S \in SUBSET Segments : IsFiniteSet(S) /\ \A x \in S : f[x] \in Nat
  BY <1>2, FS_Subset
<1>4. ASSUME NEW S \in SUBSET Segments
      PROVE  /\ Sum(f, S) \in Nat /\ (S = {} => Sum(f, S) = 0)
             /\ \A x \in S : Sum(f, S) = f[x] + Sum(f, S \ {x})
             /\ \A R \in SUBSET S : Sum(f, R) <= Sum(f, S)
  BY <1>3, SumTakes, SumMono
<1>5. {} \in SUBSET Segments
  OBVIOUS
<1> QED
  BY <1>1, <1>4, <1>5

LEMMA SizingSame ==
  ASSUME NEW f, NEW h, NEW S \in SUBSET Segments, \A x \in S : f[x] = h[x]
  PROVE  SumOf(f, S) = SumOf(h, S)
<1>0. IsFiniteSet(Segments)
  BY MaxSegmentsAssumption, FS_Interval DEF Segments
<1>1. IsFiniteSet(S)
  BY <1>0, FS_Subset
<1>2. SumOf(f, S) = Sum(f, S) /\ SumOf(h, S) = Sum(h, S)
  BY DEF SumOf, Sum
<1> QED
  BY <1>1, <1>2, SumSame

LEMMA StoreInitInv == StoreInit => StoreInv
<1> SUFFICES ASSUME StoreInit PROVE StoreInv
  OBVIOUS
<1>0. 0 \in 0..MaxSegments
  BY MaxSegmentsAssumption
<1>2. StoreTypes
  <2>1. saturated \in BOOLEAN  BY Zenon DEF StoreInit
  <2>2. aged \in Seq(Nat) /\ remaining \in Seq(Nat) /\ index \in Seq(Nat)  BY DEF StoreInit
  <2> QED  BY <1>0, <2>1, <2>2 DEF StoreInit, StoreTypes
<1> USE DEF StoreInit
<1>1. Range(index) = {} /\ Range(aged) = {} /\ Range(remaining) = {}
  BY DEF Range
<1>3. Closed  BY <1>1 DEF Closed
<1>4. InOrderOfTime  BY <1>1 DEF InOrderOfTime, Rising
<1>5. Sized /\ size \in [Segments -> Nat]
  BY DEF Sized, Segments
<1>6. SizeOf({}) = 0
  BY <1>5, Sizing DEF SizeOf
<1>7. OldGone /\ SweepKnows /\ KeepsCap /\ HadToGo
  BY <1>1 DEF OldGone, SweepKnows, KeepsCap, HadToGo
<1>8. Footprint
  <2>1. indexed \cap disk = {}  OBVIOUS
  <2> QED  BY <2>1, <1>6 DEF Footprint
<1> QED  BY <1>2, <1>3, <1>4, <1>5, <1>7, <1>8 DEF StoreInv

\* The facts every step starts from.
LEMMA StoreFacts ==
  ASSUME StoreInv
  PROVE  /\ StoreTypes /\ Closed /\ Sized /\ InOrderOfTime /\ OldGone /\ SweepKnows
         /\ KeepsCap /\ HadToGo /\ Footprint
         /\ Range(index) \cup Range(aged) \cup Range(remaining) \subseteq 1..current
         /\ indexed \subseteq 1..current /\ disk \subseteq 1..current
         /\ removed \subseteq 1..current /\ current \in Nat /\ current <= MaxSegments
         /\ 1..current \subseteq Segments /\ indexed \subseteq Segments
         /\ size \in [Segments -> Nat] /\ \A s \in indexed : size[s] \in Nat \ {0}
         /\ MaxTotal \in Nat /\ MaxSegments \in Nat
<1>1. StoreTypes /\ Closed /\ Sized  BY DEF StoreInv
<1>2. current \in Nat /\ current <= MaxSegments /\ MaxSegments \in Nat
  BY <1>1, MaxSegmentsAssumption DEF StoreTypes
<1>3. 1..current \subseteq Segments  BY <1>2 DEF Segments
<1>4. indexed \subseteq 1..current /\ disk \subseteq 1..current  BY <1>1 DEF Closed
<1>5. size \in [Segments -> Nat]
  <2>1. Sizes \cup {0} \subseteq Nat  BY SizesAssumption
  <2> QED  BY <1>1, <2>1 DEF Sized
<1>6. /\ Range(index) \cup Range(aged) \cup Range(remaining) \subseteq 1..current
      /\ removed \subseteq 1..current
  BY <1>1, <1>4 DEF Closed
<1>7. \A s \in indexed : size[s] \in Nat \ {0}
  BY <1>1, <1>3, <1>4, <1>5 DEF Sized
<1> QED
  BY <1>1, <1>2, <1>3, <1>4, <1>5, <1>6, <1>7, MaxTotalAssumption DEF StoreInv

\* A step that leaves files, lists and sizes as they are keeps what is said
\* of them, whatever the writer's counters do.
LEMMA SameFilesKeep ==
  ASSUME StoreInv, UNCHANGED <<current, storeFiles, sweep, indexed, expired, removed, crashes>>,
         faults' \in Nat, faults' = 0 => faults = 0
  PROVE  InOrderOfTime' /\ OldGone' /\ SweepKnows' /\ KeepsCap' /\ HadToGo'
<1>1. InOrderOfTime /\ OldGone /\ SweepKnows /\ KeepsCap /\ HadToGo
  BY StoreFacts
<1>2. UNCHANGED <<disk, size, index, spc, aged, remaining, total, deleted, pos>>
  BY DEF sweep, storeFiles
<1>3. InOrderOfTime'  BY <1>1, <1>2 DEF InOrderOfTime, Rising
<1>4. OldGone'  BY <1>1, <1>2 DEF OldGone
<1>5. SweepKnows'  BY <1>1, <1>2 DEF SweepKnows, Undisturbed, SizeOf
<1>6. KeepsCap'  BY <1>1, <1>2 DEF KeepsCap, SizeOf
<1>7. HadToGo'  BY <1>1, <1>2 DEF HadToGo, Undisturbed, SizeOf
<1> QED  BY <1>3, <1>4, <1>5, <1>6, <1>7

\* Steps of the writer that touch no file and no list.
LEMMA QuietWriterKeeps ==
  ASSUME StoreInv,
         UNCHANGED <<current, storeFiles, sweep, indexed, expired, removed, saturated, crashes>>,
         \/ wpc = "indexed" /\ wpc' = "idle" /\ bytes' = bytes + size[current] /\ faults' = faults
         \/ wpc \in {"idle", "open", "synced"} /\ wpc' = "failed" /\ bytes' = bytes
              /\ faults' = faults + 1
         \/ UNCHANGED <<wpc, bytes, faults>>
  PROVE  StoreInv'
<1>1. /\ StoreTypes /\ Closed /\ Sized /\ Footprint /\ faults \in Nat /\ bytes \in Nat
      /\ current \in Nat /\ indexed \subseteq Segments /\ size \in [Segments -> Nat]
  BY StoreFacts DEF StoreTypes
<1>2. UNCHANGED <<disk, size, index, spc, aged, remaining, total, deleted, pos>>
  BY DEF sweep, storeFiles
<1>3. faults' \in Nat /\ (faults' = 0 => faults = 0 /\ faults' = faults)  BY <1>1
<1>4. wpc = "indexed" => size[current] \in Nat
  BY <1>1 DEF Closed
<1>5. StoreTypes'  BY <1>1, <1>2, <1>3, <1>4 DEF StoreTypes
<1>6. Closed'  BY <1>1, <1>2 DEF Closed
<1>7. Sized'  BY <1>1, <1>2 DEF Sized
<1>8. InOrderOfTime' /\ OldGone' /\ SweepKnows' /\ KeepsCap' /\ HadToGo'
  BY <1>3, SameFilesKeep
<1>9. Footprint'
  <2>1. CASE wpc = "indexed" /\ wpc' = "idle" /\ bytes' = bytes + size[current] /\ faults' = faults
    BY <2>1, <1>1, <1>2, <1>4 DEF Footprint, Undisturbed, SizeOf
  <2>2. CASE faults' # 0
    BY <2>2 DEF Footprint, Undisturbed
  <2>3. CASE UNCHANGED <<wpc, bytes, faults>>
    BY <2>3, <1>1, <1>2 DEF Footprint, Undisturbed, SizeOf
  <2> QED  BY <2>1, <2>2, <2>3, <1>1
<1> QED  BY <1>5, <1>6, <1>7, <1>8, <1>9 DEF StoreInv

\* A segment gets its size before it is listed anywhere.
LEMMA SyncSegmentKeeps ==
  ASSUME StoreInv, SyncSegment
  PROVE  StoreInv'
<1>1. /\ StoreTypes /\ Closed /\ Sized /\ InOrderOfTime /\ OldGone /\ SweepKnows /\ KeepsCap
      /\ HadToGo /\ Footprint /\ indexed \subseteq Segments /\ size \in [Segments -> Nat]
      /\ 1..current \subseteq Segments /\ current \in Nat
  BY StoreFacts
<1>2. /\ wpc = "open" /\ wpc' = "synced"
      /\ UNCHANGED <<disk, index, current, spc, aged, remaining, total, deleted, pos, bytes,
                     indexed, expired, removed, saturated, crashes, faults>>
  BY DEF SyncSegment, sweep, history, bounds
<1>3. PICK n \in Sizes : size' = [size EXCEPT ![current] = n]
  BY DEF SyncSegment
<1>4. current \in Segments /\ current \notin indexed  BY <1>1, <1>2 DEF Closed
<1>5. Sized'
  BY <1>1, <1>2, <1>3, <1>4, SizesAssumption DEF Sized
<1>6. \A S \in SUBSET indexed : SumOf(size', S) = SumOf(size, S)
  BY <1>1, <1>3, <1>4, SizingSame
<1>7. StoreTypes' /\ Closed'  BY <1>1, <1>2 DEF StoreTypes, Closed
<1>8. InOrderOfTime'  BY <1>1, <1>2 DEF InOrderOfTime, Rising
<1>9. OldGone'  BY <1>1, <1>2 DEF OldGone
<1>10. Range(remaining) \in SUBSET indexed /\ Range(remaining) \cap disk \in SUBSET indexed
       /\ indexed \cap disk \in SUBSET indexed
       /\ \A r : {s \in indexed : r <= s} \in SUBSET indexed
  BY <1>1 DEF Closed
<1>11. SweepKnows'  BY <1>1, <1>2, <1>6, <1>10 DEF SweepKnows, Undisturbed, SizeOf
<1>12. KeepsCap'  BY <1>1, <1>2, <1>6, <1>10 DEF KeepsCap, SizeOf
<1>13. HadToGo'  BY <1>1, <1>2, <1>6, <1>10 DEF HadToGo, Undisturbed, SizeOf
<1>14. Footprint'  BY <1>1, <1>2, <1>6, <1>10 DEF Footprint, Undisturbed, SizeOf
<1> QED  BY <1>5, <1>7, <1>8, <1>9, <1>11, <1>12, <1>13, <1>14 DEF StoreInv

\* A segment is opened: it is newer than everything else.
LEMMA OpenSegmentKeeps ==
  ASSUME StoreInv, OpenSegment
  PROVE  StoreInv'
<1>1. /\ StoreTypes /\ Closed /\ Sized /\ InOrderOfTime /\ OldGone /\ SweepKnows /\ KeepsCap
      /\ HadToGo /\ Footprint
      /\ Range(index) \cup Range(aged) \cup Range(remaining) \subseteq 1..current
      /\ indexed \subseteq 1..current /\ disk \subseteq 1..current
      /\ removed \subseteq 1..current /\ current \in Nat /\ MaxSegments \in Nat
  BY StoreFacts
<1>2. /\ wpc = "idle" /\ wpc' = "open" /\ current' = current + 1 /\ current < MaxSegments
      /\ disk' = disk \cup {current + 1}
      /\ UNCHANGED <<size, index, spc, aged, remaining, total, deleted, pos, bytes, indexed,
                     expired, removed, saturated, crashes, faults>>
  BY DEF OpenSegment, sweep, history, bounds
<1>3. StoreTypes'  BY <1>1, <1>2 DEF StoreTypes
<1>4. current + 1 \notin 1..current /\ 1..(current + 1) = (1..current) \cup {current + 1}
  BY <1>1
<1>5. Closed'
  <2>1. disk' = (1..current') \ removed  BY <1>1, <1>2, <1>4 DEF Closed
  <2>2. indexed' \subseteq 1..current' /\ current' \notin indexed' /\ current' > 0
    BY <1>1, <1>2, <1>4
  <2> QED  BY <2>1, <2>2, <1>1, <1>2 DEF Closed
<1>6. Sized'  BY <1>1, <1>2 DEF Sized, Segments
<1>7. InOrderOfTime'  BY <1>1, <1>2 DEF InOrderOfTime, Rising
<1>8. Range(remaining) \cap disk' = Range(remaining) \cap disk
      /\ indexed \cap disk' = indexed \cap disk
      /\ (Range(index) \cup Range(aged) \cup Range(remaining)) \cap disk'
           \subseteq disk
  BY <1>1, <1>2, <1>4
<1>9. OldGone'  BY <1>1, <1>2, <1>8 DEF OldGone
<1>10. SweepKnows'  BY <1>1, <1>2 DEF SweepKnows, Undisturbed, SizeOf
<1>11. KeepsCap'  BY <1>1, <1>2, <1>8 DEF KeepsCap, SizeOf
<1>12. HadToGo'  BY <1>1, <1>2 DEF HadToGo, Undisturbed, SizeOf
<1>13. Footprint'  BY <1>1, <1>2, <1>8 DEF Footprint, Undisturbed, SizeOf
<1> QED
  BY <1>3, <1>5, <1>6, <1>7, <1>9, <1>10, <1>11, <1>12, <1>13 DEF StoreInv

\* A segment that was closed is listed after all the others.
LEMMA AppendIndexKeeps ==
  ASSUME StoreInv, AppendIndex
  PROVE  StoreInv'
<1>1. /\ StoreTypes /\ Closed /\ Sized /\ InOrderOfTime /\ OldGone /\ SweepKnows /\ KeepsCap
      /\ HadToGo /\ Footprint
      /\ Range(index) \cup Range(aged) \cup Range(remaining) \subseteq 1..current
      /\ indexed \subseteq 1..current /\ disk \subseteq 1..current
      /\ removed \subseteq 1..current /\ current \in Nat
      /\ 1..current \subseteq Segments /\ size \in [Segments -> Nat]
  BY StoreFacts
<1>2. /\ wpc = "synced" /\ wpc' = "indexed" /\ index' = Append(index, current)
      /\ indexed' = indexed \cup {current}
      /\ UNCHANGED <<disk, size, current, spc, aged, remaining, total, deleted, pos, bytes,
                     expired, removed, saturated, crashes, faults>>
  BY DEF AppendIndex, sweep, bounds
<1>3. index \in Seq(Nat)  BY <1>1 DEF StoreTypes
<1>4. /\ Range(index') = Range(index) \cup {current} /\ index' \in Seq(Nat)
      /\ Len(index') = Len(index) + 1 /\ index'[Len(index) + 1] = current
      /\ \A i \in 1..Len(index) : index'[i] = index[i]
  BY <1>1, <1>2, <1>3, RangeAppend
<1>5. current \notin indexed /\ current > 0  BY <1>1, <1>2 DEF Closed
<1>6. \A x \in indexed : x < current  BY <1>1, <1>5
<1>7. \A x \in Range(index) \cup Range(aged) \cup Range(remaining) \cup removed : x < current
  BY <1>1, <1>6 DEF Closed
<1>8. StoreTypes'  BY <1>1, <1>2, <1>4 DEF StoreTypes
<1>9. Closed'
  <2>1. current \in 1..current  BY <1>1, <1>5
  <2> QED  BY <2>1, <1>1, <1>2, <1>4 DEF Closed
<1>10. InOrderOfTime'
  <2>1. Rising(index')
    <3>1. \A i \in DOMAIN index : index[i] < current
      BY <1>3, <1>7 DEF Range
    <3> QED  BY <3>1, <1>1, <1>2, <1>3, RisingAppend DEF InOrderOfTime
  <2>2. ASSUME spc = "rewrite", NEW i \in 1..Len(index'), NEW x \in Range(remaining)
        PROVE  IF i <= pos THEN index'[i] < x ELSE x < index'[i]
    <3>1. pos \in Nat /\ Len(index) \in Nat  BY <1>1, <1>3 DEF StoreTypes
    <3>2. CASE i \in 1..Len(index)
      BY <3>2, <2>2, <1>1, <1>4 DEF InOrderOfTime
    <3>3. CASE i = Len(index) + 1
      <4>1. pos <= Len(index)  BY <2>2, <1>1 DEF InOrderOfTime
      <4>2. ~(i <= pos)  BY <4>1, <3>1, <3>3
      <4> QED  BY <4>2, <3>3, <1>4, <1>7
    <3> QED  BY <3>1, <3>2, <3>3, <1>4
  <2>3. spc = "rewrite" => pos <= Len(index')
    BY <1>1, <1>3, <1>4 DEF InOrderOfTime, StoreTypes
  <2> QED  BY <2>1, <2>2, <2>3, <1>1, <1>2 DEF InOrderOfTime, Rising
<1>11. OldGone'  BY <1>1, <1>2, <1>4, <1>7 DEF OldGone
<1>12. current \in disk /\ current \in Segments
  <2>1. current \in 1..current /\ current \notin removed  BY <1>1, <1>5, <1>7
  <2> QED  BY <2>1, <1>1 DEF Closed
<1>13. SweepKnows'  BY <1>1, <1>2, <1>4, <1>12 DEF SweepKnows, Undisturbed, SizeOf
<1>14. KeepsCap'  BY <1>1, <1>2 DEF KeepsCap, SizeOf
<1>15. size[current] \in Nat /\ size[current] # 0
  BY <1>1, <1>2, <1>12 DEF Sized
<1>16. Sized'  BY <1>1, <1>2, <1>15 DEF Sized
<1>17. indexed' \subseteq Segments  BY <1>1, <1>2, <1>12
<1>18. HadToGo'
  <2> SUFFICES ASSUME Undisturbed, NEW r \in removed \ expired
               PROVE  SumOf(size, {s \in indexed' : r <= s}) > MaxTotal
    BY <1>2 DEF HadToGo, Undisturbed, SizeOf
  <2> DEFINE I == {s \in indexed : r <= s}  J == {s \in indexed' : r <= s}
  <2>1. I \in SUBSET J /\ J \in SUBSET Segments  BY <1>2, <1>17
  <2>2. SumOf(size, I) > MaxTotal  BY <1>1 DEF HadToGo, SizeOf
  <2> HIDE DEF I, J
  <2>3. SumOf(size, I) <= SumOf(size, J) /\ SumOf(size, J) \in Nat /\ SumOf(size, I) \in Nat
    BY <2>1, <1>1, Sizing
  <2> QED  BY <2>2, <2>3, MaxTotalAssumption DEF J
<1>19. Footprint'
  <2> DEFINE I == indexed \cap disk  J == indexed' \cap disk
  <2>1. J \ {current} = I /\ current \in J /\ J \in SUBSET Segments /\ I \in SUBSET Segments
    BY <1>2, <1>5, <1>12, <1>17
  <2> HIDE DEF I, J
  <2>2. SumOf(size, J) = size[current] + SumOf(size, I) /\ SumOf(size, I) \in Nat
    BY <2>1, <1>1, Sizing
  <2> QED  BY <2>2, <1>1, <1>2, <1>15 DEF Footprint, Undisturbed, SizeOf, StoreTypes, I, J
<1> QED
  BY <1>8, <1>9, <1>10, <1>11, <1>13, <1>14, <1>16, <1>18, <1>19 DEF StoreInv

LEMMA Suffix ==
  ASSUME NEW s \in Seq(Nat), NEW n, n = Len(s), NEW cut \in 0..n,
         NEW r, r = SubSeq(s, cut + 1, n)
  PROVE  /\ r \in Seq(Nat) /\ Len(r) = n - cut /\ DOMAIN r = 1..(n - cut)
         /\ \A i \in 1..(n - cut) : r[i] = s[i + cut]
<1>1. n \in Nat /\ cut \in Nat /\ cut <= n /\ cut + 1 \in Int /\ n \in Int
  OBVIOUS
<1>2. \A i \in (cut + 1)..n : s[i] \in Nat  OBVIOUS
<1>3. /\ r \in Seq(Nat)
      /\ Len(r) = IF cut + 1 <= n THEN n - (cut + 1) + 1 ELSE 0
      /\ \A i \in 1..(n - (cut + 1) + 1) : r[i] = s[cut + 1 + i - 1]
  BY <1>1, <1>2, SubSeqProperties
<1>4. Len(r) = n - cut  BY <1>1, <1>3
<1>5. \A i \in 1..(n - cut) : /\ i \in 1..(n - (cut + 1) + 1)
                             /\ cut + 1 + i - 1 = i + cut
  BY <1>1
<1> QED  BY <1>3, <1>4, <1>5

\* Loading splits the index in the entries past their age and the others.
LEMMA Split ==
  ASSUME NEW s \in Seq(Nat), Rising(s), NEW cut \in 0..Len(s)
  PROVE  LET a == SubSeq(s, 1, cut)  r == SubSeq(s, cut + 1, Len(s))
         IN  /\ a \in Seq(Nat) /\ r \in Seq(Nat) /\ Len(r) = Len(s) - cut
             /\ Rising(a) /\ Rising(r)
             /\ Range(a) \cup Range(r) = Range(s)
             /\ \A x \in Range(a) : \E k \in 1..cut : x = s[k]
             /\ \A x \in Range(a), y \in Range(r) : x < y
<1> DEFINE a == SubSeq(s, 1, cut)  r == SubSeq(s, cut + 1, Len(s))  n == Len(s)
<1>1. n \in Nat /\ cut \in Nat /\ cut <= n /\ DOMAIN s = 1..n /\ \A i \in 1..n : s[i] \in Nat
  OBVIOUS
<1>2. \A i \in 1..cut : s[i] \in Nat  BY <1>1
<1>3. \A i \in (cut + 1)..n : s[i] \in Nat  BY <1>1
<1>4. /\ a \in Seq(Nat) /\ Len(a) = cut /\ DOMAIN a = 1..cut
      /\ \A i \in 1..cut : a[i] = s[i]
  BY <1>1, <1>2
<1>5. /\ r \in Seq(Nat) /\ Len(r) = n - cut /\ DOMAIN r = 1..(n - cut)
      /\ \A i \in 1..(n - cut) : r[i] = s[i + cut]
  BY Suffix
<1> HIDE DEF a, r
<1>6. \A i, j \in 1..n : i < j => s[i] < s[j]  BY <1>1 DEF Rising
<1>7. Rising(a)  BY <1>1, <1>4, <1>6 DEF Rising
<1>8. Rising(r)
  <2>1. \A i \in 1..(n - cut) : i + cut \in 1..n  BY <1>1
  <2>2. \A i, j \in 1..(n - cut) : i < j => i + cut < j + cut  BY <1>1
  <2> QED  BY <2>1, <2>2, <1>5, <1>6 DEF Rising
<1>9. Range(a) \cup Range(r) = Range(s)
  <2>1. ASSUME NEW x \in Range(s) PROVE x \in Range(a) \cup Range(r)
    <3>1. PICK i \in 1..n : x = s[i]  BY <2>1, <1>1 DEF Range
    <3>2. CASE i <= cut
      <4>1. i \in 1..cut  BY <3>2, <1>1
      <4> QED  BY <3>1, <4>1, <1>4 DEF Range
    <3>3. CASE ~(i <= cut)
      <4>1. i - cut \in 1..(n - cut) /\ (i - cut) + cut = i  BY <3>3, <1>1
      <4>2. r[i - cut] = x  BY <4>1, <3>1, <1>5
      <4> QED  BY <4>1, <4>2, <1>5 DEF Range
    <3> QED  BY <3>2, <3>3
  <2>2. Range(a) \subseteq Range(s)
    <3>1. \A i \in 1..cut : i \in 1..n  BY <1>1
    <3> QED  BY <3>1, <1>1, <1>4 DEF Range
  <2>3. Range(r) \subseteq Range(s)
    <3>1. \A i \in 1..(n - cut) : i + cut \in 1..n  BY <1>1
    <3> QED  BY <3>1, <1>1, <1>5 DEF Range
  <2> QED  BY <2>1, <2>2, <2>3
<1>10. \A x \in Range(a) : \E k \in 1..cut : x = s[k]  BY <1>4 DEF Range
<1>11. \A x \in Range(a), y \in Range(r) : x < y
  <2> SUFFICES ASSUME NEW i \in 1..cut, NEW j \in 1..(n - cut) PROVE a[i] < r[j]
    BY <1>4, <1>5 DEF Range
  <2>1. i \in 1..n /\ j + cut \in 1..n /\ i < j + cut  BY <1>1
  <2> QED  BY <2>1, <1>4, <1>5, <1>6
<1> QED  BY <1>4, <1>5, <1>7, <1>8, <1>9, <1>10, <1>11 DEF a, r

\* The head of what a sweep has loaded is the oldest of it.
LEMMA OldestHead ==
  ASSUME NEW s \in Seq(Nat), Rising(s), s # <<>>
  PROVE  /\ Tail(s) \in Seq(Nat) /\ Head(s) \in Nat /\ Rising(Tail(s))
         /\ Range(s) = {Head(s)} \cup Range(Tail(s)) /\ Head(s) \notin Range(Tail(s))
         /\ \A x \in Range(Tail(s)) : Head(s) < x
         /\ Len(Tail(s)) = Len(s) - 1 /\ Len(s) \in Nat \ {0}
<1>1. /\ Tail(s) \in Seq(Nat) /\ Head(s) \in Nat /\ Rising(Tail(s))
      /\ Range(s) = {Head(s)} \cup Range(Tail(s))
      /\ \A x \in Range(Tail(s)) : Head(s) < x
  BY RangeTail, RisingTail
<1>2. Len(Tail(s)) = Len(s) - 1 /\ Len(s) \in Nat \ {0}  OBVIOUS
<1>3. Head(s) \notin Range(Tail(s))  BY <1>1
<1> QED  BY <1>1, <1>2, <1>3

LEMMA LoadKeeps ==
  ASSUME StoreInv, NEW cut \in 0..MaxSegments, Load(cut)
  PROVE  StoreInv'
<1>1. /\ StoreTypes /\ Closed /\ Sized /\ InOrderOfTime /\ OldGone /\ SweepKnows /\ HadToGo
      /\ Footprint /\ index \in Seq(Nat) /\ Rising(index)
      /\ indexed \subseteq Segments /\ size \in [Segments -> Nat]
  BY StoreFacts DEF StoreTypes, InOrderOfTime
<1>2. /\ spc = "idle" /\ cut \in 0..Len(index)
      /\ aged' = SubSeq(index, 1, cut) /\ remaining' = SubSeq(index, cut + 1, Len(index))
      /\ expired' = expired \cup Range(aged') /\ total' = SumOf(size, Range(remaining'))
      /\ deleted' = 0 /\ pos' = 0 /\ spc' = "age"
      /\ UNCHANGED <<disk, size, index, wpc, current, bytes, indexed, removed, saturated, crashes,
                     faults>>
  BY DEF Load, storeFiles, segWriter, bounds, SizeOf
<1>3. /\ aged' \in Seq(Nat) /\ remaining' \in Seq(Nat) /\ Len(remaining') = Len(index) - cut
      /\ Rising(aged') /\ Rising(remaining')
      /\ Range(aged') \cup Range(remaining') = Range(index)
      /\ \A x \in Range(aged'), y \in Range(remaining') : x < y
  BY <1>1, <1>2, Split
<1>4. /\ Range(remaining') \in SUBSET Segments
      /\ Range(remaining') \cap disk \in SUBSET Range(remaining')
  BY <1>1, <1>3 DEF Closed
<1>5. total' \in Nat /\ SumOf(size, Range(remaining') \cap disk) <= total'
  BY <1>1, <1>2, <1>4, Sizing
<1>6. StoreTypes'  BY <1>1, <1>2, <1>3, <1>5 DEF StoreTypes
<1>7. Closed'  BY <1>1, <1>2, <1>3 DEF Closed
<1>8. Sized'  BY <1>1, <1>2 DEF Sized
<1>9. InOrderOfTime'  BY <1>1, <1>2, <1>3 DEF InOrderOfTime, Rising
<1>10. OldGone'  BY <1>1, <1>2, <1>3 DEF OldGone
<1>11. SweepKnows'  BY <1>1, <1>2, <1>3 DEF SweepKnows, Undisturbed, SizeOf
<1>12. KeepsCap'  BY <1>2, <1>5 DEF KeepsCap, SizeOf
<1>13. HadToGo'  BY <1>1, <1>2 DEF HadToGo, Undisturbed, SizeOf
<1>14. Footprint'  BY <1>1, <1>2 DEF Footprint, Undisturbed, SizeOf
<1> QED
  BY <1>6, <1>7, <1>8, <1>9, <1>10, <1>11, <1>12, <1>13, <1>14 DEF StoreInv

\* One file less: the disk, the counter and the sum agree.
LEMMA OneLess ==
  ASSUME StoreInv, Undisturbed, NEW s \in indexed \cap disk, spc \in {"age", "cap"}, Delete(s),
         UNCHANGED <<size, indexed, wpc, current, bytes, spc, saturated, crashes, faults>>
  PROVE  Footprint'
<1>1. /\ StoreTypes /\ Footprint /\ indexed \subseteq Segments /\ size \in [Segments -> Nat]
      /\ Closed
  BY StoreFacts
<1>2. disk' = disk \ {s} /\ deleted' = deleted + size[s]  BY DEF Delete
<1> DEFINE I == indexed \cap disk  J == indexed \cap disk'
<1>3. J = I \ {s} /\ s \in I /\ I \in SUBSET Segments /\ J \in SUBSET Segments
  BY <1>1, <1>2
<1> HIDE DEF I, J
<1>4. /\ SumOf(size, I) = size[s] + SumOf(size, J) /\ SumOf(size, J) \in Nat /\ size[s] \in Nat
  BY <1>1, <1>3, Sizing
<1>5. wpc = "indexed" => size[current] \in Nat
  BY <1>1 DEF Closed
<1> QED
  BY <1>1, <1>2, <1>4, <1>5 DEF Footprint, Undisturbed, SizeOf, StoreTypes, I, J

LEMMA DeleteAgedKeeps ==
  ASSUME StoreInv, DeleteAged
  PROVE  StoreInv'
<1> DEFINE h == Head(aged)
<1>1. /\ StoreTypes /\ Closed /\ Sized /\ InOrderOfTime /\ OldGone /\ SweepKnows /\ KeepsCap
      /\ HadToGo /\ Footprint /\ \A s \in indexed : size[s] \in Nat \ {0}
      /\ Range(index) \cup Range(aged) \cup Range(remaining) \subseteq 1..current
      /\ aged \in Seq(Nat) /\ Rising(aged)
  BY StoreFacts DEF StoreTypes, InOrderOfTime
<1>2. /\ spc = "age" /\ aged # <<>> /\ aged' = Tail(aged) /\ Delete(h)
      /\ UNCHANGED <<size, index, wpc, current, spc, remaining, total, pos, bytes, indexed,
                     expired, saturated, crashes, faults>>
  BY DEF DeleteAged, segWriter, bounds
<1>3. /\ disk' = disk \ {h} /\ removed' = removed \cup ({h} \cap disk)
      /\ deleted' = IF h \in disk THEN deleted + size[h] ELSE deleted
  BY <1>2 DEF Delete
<1>4. /\ aged' \in Seq(Nat) /\ h \in Nat /\ Rising(aged')
      /\ Range(aged) = {h} \cup Range(aged') /\ h \notin Range(aged')
      /\ \A x \in Range(aged') : h < x
  BY <1>1, <1>2, OldestHead
<1>5. \A x \in Range(remaining) : h < x  BY <1>1, <1>4 DEF InOrderOfTime
<1>6. /\ h \notin Range(remaining) /\ h \in 1..current /\ h \in indexed /\ h \in expired
      /\ size[h] \in Nat \ {0}
  BY <1>1, <1>4, <1>5 DEF Closed
<1> HIDE DEF h
<1>7. StoreTypes'  BY <1>1, <1>2, <1>3, <1>4, <1>6 DEF StoreTypes
<1>8. Closed'  BY <1>1, <1>2, <1>3, <1>4, <1>6 DEF Closed
<1>9. InOrderOfTime'  BY <1>1, <1>2, <1>4 DEF InOrderOfTime, Rising
<1>10. OldGone'
  <2> SUFFICES ASSUME faults = 0 PROVE OldGone'
    BY <1>2 DEF OldGone
  <2>1. ASSUME NEW r \in removed', NEW s \in disk',
               s \in Range(index) \cup Range(aged') \cup Range(remaining)
        PROVE  r < s
    <3>1. s \in disk /\ s # h /\ s \in Range(index) \cup Range(aged) \cup Range(remaining)
      BY <2>1, <1>3, <1>4
    <3>2. CASE r \in removed  BY <3>1, <3>2, <1>1 DEF OldGone
    <3>3. CASE r = h
      <4>1. CASE s \in Range(aged) \cup Range(remaining)  BY <4>1, <3>1, <3>3, <1>4, <1>5
      <4>2. CASE \A x \in Range(aged) \cup Range(remaining) : x < s  BY <4>2, <3>3, <1>4
      <4>3. s \in Range(aged) \cup Range(remaining)
              \/ \A x \in Range(aged) \cup Range(remaining) : x < s
        BY <3>1, <1>1, <1>2 DEF OldGone
      <4> QED  BY <4>1, <4>2, <4>3
    <3> QED  BY <3>2, <3>3, <1>3
  <2>2. ASSUME NEW s \in Range(index) \cap disk'
        PROVE  \/ s \in Range(aged') \cup Range(remaining)
               \/ \A x \in Range(aged') \cup Range(remaining) : x < s
    <3>1. s \in disk /\ s # h  BY <1>3
    <3>2. \/ s \in Range(aged) \cup Range(remaining)
          \/ \A x \in Range(aged) \cup Range(remaining) : x < s
      BY <3>1, <1>1, <1>2 DEF OldGone
    <3> QED  BY <3>1, <3>2, <1>4
  <2> QED  BY <2>1, <2>2, <1>2 DEF OldGone
<1>11. Undisturbed => h \in disk
  BY <1>1, <1>2, <1>4 DEF SweepKnows
<1>12. SweepKnows'
  <2> SUFFICES ASSUME Undisturbed PROVE SweepKnows'
    BY <1>2 DEF SweepKnows, Undisturbed
  <2>1. deleted' # 0  BY <1>1, <1>3, <1>6, <1>11 DEF StoreTypes
  <2>2. Range(remaining) \subseteq disk /\ Range(aged) \subseteq disk
        /\ total = SumOf(size, Range(remaining))
    BY <1>1, <1>2 DEF SweepKnows, SizeOf
  <2>3. Range(remaining) \subseteq disk' /\ Range(aged') \subseteq disk'
    BY <2>2, <1>3, <1>4, <1>6
  <2> QED  BY <2>1, <2>2, <2>3, <1>2 DEF SweepKnows, SizeOf
<1>13. KeepsCap'
  <2>1. Range(remaining) \cap disk' = Range(remaining) \cap disk  BY <1>3, <1>6
  <2> QED  BY <2>1, <1>1, <1>2 DEF KeepsCap, SizeOf
<1>14. Footprint'
  <2>1. CASE Undisturbed
    <3>1. h \in indexed \cap disk  BY <2>1, <1>6, <1>11
    <3> QED  BY <2>1, <3>1, <1>2, OneLess
  <2>2. CASE ~Undisturbed  BY <2>2, <1>2 DEF Footprint, Undisturbed
  <2> QED  BY <2>1, <2>2
<1>15. Sized'  BY <1>1, <1>2 DEF Sized
<1>16. HadToGo'
  <2>1. removed' \ expired' \subseteq removed \ expired  BY <1>2, <1>3, <1>6
  <2> QED  BY <2>1, <1>1, <1>2 DEF HadToGo, Undisturbed, SizeOf
<1> QED
  BY <1>7, <1>8, <1>9, <1>10, <1>12, <1>13, <1>14, <1>15, <1>16 DEF StoreInv

LEMMA DeleteOldestKeeps ==
  ASSUME StoreInv, DeleteOldest
  PROVE  StoreInv'
<1> DEFINE h == Head(remaining)
<1>1. /\ StoreTypes /\ Closed /\ Sized /\ InOrderOfTime /\ OldGone /\ SweepKnows /\ KeepsCap
      /\ HadToGo /\ Footprint /\ \A s \in indexed : size[s] \in Nat \ {0}
      /\ Range(index) \cup Range(aged) \cup Range(remaining) \subseteq 1..current
      /\ remaining \in Seq(Nat) /\ Rising(remaining)
      /\ current \in Nat /\ MaxTotal \in Nat /\ total \in Nat
      /\ indexed \subseteq Segments /\ size \in [Segments -> Nat]
  BY StoreFacts DEF StoreTypes, InOrderOfTime
<1>2. /\ spc = "cap" /\ total > MaxTotal /\ remaining # <<>> /\ remaining' = Tail(remaining)
      /\ Delete(h) /\ total' = IF h \in disk THEN Minus(total, size[h]) ELSE total
      /\ UNCHANGED <<size, index, wpc, current, spc, aged, pos, bytes, indexed, expired, saturated,
                     crashes, faults>>
  BY DEF DeleteOldest, segWriter, bounds
<1>3. /\ disk' = disk \ {h} /\ removed' = removed \cup ({h} \cap disk)
      /\ deleted' = IF h \in disk THEN deleted + size[h] ELSE deleted
  BY <1>2 DEF Delete
<1>4. /\ remaining' \in Seq(Nat) /\ h \in Nat /\ Rising(remaining')
      /\ Range(remaining) = {h} \cup Range(remaining') /\ h \notin Range(remaining')
      /\ \A x \in Range(remaining') : h < x
      /\ Len(remaining') = Len(remaining) - 1 /\ Len(remaining) \in Nat \ {0}
  BY <1>1, <1>2, OldestHead
<1>5. aged = <<>> /\ Range(aged) = {}
  <2>1. aged = <<>>  BY <1>1, <1>2 DEF InOrderOfTime
  <2> QED  BY <2>1 DEF Range
<1>6. h \in 1..current /\ h \in indexed /\ size[h] \in Nat \ {0}
  BY <1>1, <1>4 DEF Closed
<1> HIDE DEF h
<1>7. total' \in Nat  BY <1>1, <1>2, <1>6 DEF Minus
<1>8. StoreTypes'  BY <1>1, <1>2, <1>3, <1>4, <1>6, <1>7 DEF StoreTypes
<1>9. Closed'  BY <1>1, <1>2, <1>3, <1>4, <1>6 DEF Closed
<1>10. InOrderOfTime'  BY <1>1, <1>2, <1>4 DEF InOrderOfTime, Rising
<1>11. OldGone'
  <2> SUFFICES ASSUME faults = 0 PROVE OldGone'
    BY <1>2 DEF OldGone
  <2>1. ASSUME NEW r \in removed', NEW s \in disk',
               s \in Range(index) \cup Range(aged) \cup Range(remaining')
        PROVE  r < s
    <3>1. s \in disk /\ s # h /\ s \in Range(index) \cup Range(aged) \cup Range(remaining)
      BY <2>1, <1>3, <1>4
    <3>2. CASE r \in removed  BY <3>1, <3>2, <1>1 DEF OldGone
    <3>3. CASE r = h
      <4>1. CASE s \in Range(remaining)  BY <4>1, <3>1, <3>3, <1>4
      <4>2. CASE \A x \in Range(remaining) : x < s  BY <4>2, <3>3, <1>4
      <4>3. s \in Range(remaining) \/ \A x \in Range(remaining) : x < s
        BY <2>1, <3>1, <1>1, <1>2, <1>5 DEF OldGone
      <4> QED  BY <4>1, <4>2, <4>3
    <3> QED  BY <3>2, <3>3, <1>3
  <2>2. ASSUME NEW s \in Range(index) \cap disk'
        PROVE  \/ s \in Range(aged) \cup Range(remaining')
               \/ \A x \in Range(aged) \cup Range(remaining') : x < s
    <3>1. s \in disk /\ s # h  BY <1>3
    <3>2. \/ s \in Range(aged) \cup Range(remaining)
          \/ \A x \in Range(aged) \cup Range(remaining) : x < s
      BY <3>1, <1>1, <1>2 DEF OldGone
    <3> QED  BY <3>1, <3>2, <1>4
  <2> QED  BY <2>1, <2>2, <1>2 DEF OldGone
<1>12. Undisturbed => h \in disk
  BY <1>1, <1>2, <1>4 DEF SweepKnows
<1> DEFINE R == Range(remaining)  T == Range(remaining')
<1>13. R \in SUBSET Segments /\ h \in R /\ R \ {h} = T
  BY <1>1, <1>4 DEF Closed
<1>14. /\ SumOf(size, R) = size[h] + SumOf(size, T) /\ SumOf(size, T) \in Nat
       /\ SumOf(size, R) \in Nat
  <2>1. T \in SUBSET Segments  BY <1>13
  <2> HIDE DEF R, T
  <2> QED  BY <2>1, <1>1, <1>13, Sizing
<1>15. SweepKnows'
  <2> SUFFICES ASSUME Undisturbed PROVE SweepKnows'
    BY <1>2 DEF SweepKnows, Undisturbed
  <2>1. deleted' # 0  BY <1>1, <1>3, <1>6, <1>12 DEF StoreTypes
  <2>2. Range(remaining) \subseteq disk /\ total = SumOf(size, R)
    BY <1>1, <1>2 DEF SweepKnows, SizeOf
  <2>3. Range(remaining') \subseteq disk'
    BY <2>2, <1>3, <1>4
  <2>4. total' = SumOf(size, T)
    <3> HIDE DEF R, T
    <3> QED  BY <2>2, <1>2, <1>6, <1>12, <1>14 DEF Minus
  <2> QED  BY <2>1, <2>3, <2>4, <1>2 DEF SweepKnows, SizeOf
<1>16. KeepsCap'
  <2> DEFINE Q == Range(remaining) \cap disk
  <2>1. SumOf(size, Q) <= total /\ Q \in SUBSET Segments
    BY <1>1, <1>2, <1>13 DEF KeepsCap, SizeOf
  <2>2. CASE h \in disk
    <3>1. Range(remaining') \cap disk' = Q \ {h} /\ h \in Q /\ Q \ {h} \in SUBSET Segments
      BY <2>1, <2>2, <1>3, <1>4
    <3> HIDE DEF Q
    <3>2. SumOf(size, Q) = size[h] + SumOf(size, Q \ {h}) /\ SumOf(size, Q \ {h}) \in Nat
      BY <3>1, <2>1, <1>1, Sizing
    <3>3. SumOf(size, Q \ {h}) <= total'
      BY <3>2, <2>1, <2>2, <1>1, <1>2, <1>6 DEF Minus
    <3> QED  BY <3>1, <3>3, <1>2 DEF KeepsCap, SizeOf
  <2>3. CASE h \notin disk
    <3>1. Range(remaining') \cap disk' = Range(remaining) \cap disk
      BY <2>3, <1>3, <1>4
    <3> QED  BY <3>1, <2>1, <2>3, <1>2 DEF KeepsCap, SizeOf
  <2> QED  BY <2>2, <2>3
<1>17. HadToGo'
  <2> SUFFICES ASSUME Undisturbed, NEW r \in removed' \ expired
               PROVE  SumOf(size, {s \in indexed : r <= s}) > MaxTotal
    BY <1>2 DEF HadToGo, Undisturbed, SizeOf
  <2>1. CASE r \in removed
    BY <2>1, <1>1 DEF HadToGo, SizeOf
  <2>2. CASE r = h
    <3> DEFINE I == {s \in indexed : h <= s}
    <3>1. R \in SUBSET I
      <4>1. \A x \in R : x \in indexed /\ h <= x
        BY <1>1, <1>4 DEF Closed
      <4> QED  BY <4>1
    <3>2. total = SumOf(size, R) /\ I \in SUBSET Segments
      BY <1>1, <1>2 DEF SweepKnows, SizeOf
    <3> HIDE DEF R, I
    <3>3. SumOf(size, R) <= SumOf(size, I) /\ SumOf(size, I) \in Nat
      BY <3>1, <3>2, <1>1, Sizing
    <3>4. SumOf(size, I) > MaxTotal  BY <3>2, <3>3, <1>1, <1>2
    <3> QED  BY <2>2, <3>4 DEF I
  <2> QED  BY <2>1, <2>2, <1>3
<1>18. Sized'  BY <1>1, <1>2 DEF Sized
<1>19. Footprint'
  <2>1. CASE Undisturbed
    <3>1. h \in indexed \cap disk  BY <2>1, <1>6, <1>12
    <3> QED  BY <2>1, <3>1, <1>2, OneLess
  <2>2. CASE ~Undisturbed  BY <2>2, <1>2 DEF Footprint, Undisturbed
  <2> QED  BY <2>1, <2>2
<1> QED
  BY <1>8, <1>9, <1>10, <1>11, <1>15, <1>16, <1>17, <1>18, <1>19 DEF StoreInv

LEMMA DeleteFailsKeeps ==
  ASSUME StoreInv, DeleteFails
  PROVE  StoreInv'
<1>1. /\ StoreTypes /\ Closed /\ Sized /\ InOrderOfTime /\ KeepsCap
      /\ aged \in Seq(Nat) /\ Rising(aged) /\ faults \in Nat
      /\ remaining \in Seq(Nat) /\ Rising(remaining)
      /\ indexed \subseteq Segments /\ size \in [Segments -> Nat]
  BY StoreFacts DEF StoreTypes, InOrderOfTime
<1>2. /\ faults' = faults + 1
      /\ \/ spc = "age" /\ aged # <<>> /\ aged' = Tail(aged) /\ remaining' = remaining
         \/ spc = "cap" /\ remaining # <<>> /\ remaining' = Tail(remaining) /\ aged' = aged
      /\ UNCHANGED <<disk, size, index, wpc, current, spc, total, deleted, pos, bytes, indexed,
                     expired, removed, saturated, crashes>>
  BY DEF DeleteFails, storeFiles, segWriter
<1>3. faults' \in Nat /\ faults' # 0  BY <1>1, <1>2
<1>4. /\ aged' \in Seq(Nat) /\ Rising(aged') /\ Range(aged') \subseteq Range(aged)
      /\ remaining' \in Seq(Nat) /\ Rising(remaining')
      /\ Range(remaining') \subseteq Range(remaining)
  <2>1. CASE aged # <<>> /\ aged' = Tail(aged) /\ remaining' = remaining
    BY <2>1, <1>1, OldestHead
  <2>2. CASE remaining # <<>> /\ remaining' = Tail(remaining) /\ aged' = aged
    BY <2>2, <1>1, OldestHead
  <2> QED  BY <2>1, <2>2, <1>2
<1>5. StoreTypes'  BY <1>1, <1>2, <1>3, <1>4 DEF StoreTypes
<1>6. Closed'  BY <1>1, <1>2, <1>4 DEF Closed
<1>7. InOrderOfTime'  BY <1>1, <1>2, <1>4 DEF InOrderOfTime, Rising
<1>8. Sized'  BY <1>1, <1>2 DEF Sized
<1>9. OldGone' /\ SweepKnows' /\ HadToGo' /\ Footprint'
  BY <1>3 DEF OldGone, SweepKnows, HadToGo, Footprint, Undisturbed
<1>10. KeepsCap'
  <2> DEFINE Q == Range(remaining) \cap disk  T == Range(remaining') \cap disk
  <2>1. T \in SUBSET Q /\ Q \in SUBSET Segments  BY <1>1, <1>4 DEF Closed
  <2>2. SumOf(size, Q) <= total /\ total \in Nat
    BY <1>1, <1>2 DEF KeepsCap, StoreTypes, SizeOf
  <2> HIDE DEF Q, T
  <2>3. T \in SUBSET Segments  BY <2>1
  <2>4. SumOf(size, T) <= SumOf(size, Q) /\ SumOf(size, T) \in Nat /\ SumOf(size, Q) \in Nat
    BY <2>1, <2>3, <1>1, Sizing
  <2>5. SumOf(size, T) <= total  BY <2>2, <2>4
  <2> QED  BY <2>5, <1>2 DEF KeepsCap, SizeOf, T
<1> QED  BY <1>5, <1>6, <1>7, <1>8, <1>9, <1>10 DEF StoreInv

\* The phases of a sweep that touch no file but the index, and its errors.
LEMMA PhaseKeeps ==
  ASSUME StoreInv, AgeDone \/ CapDone \/ Truncate \/ TruncateFails
                     \/ RewriteFails \/ RewriteDone
  PROVE  StoreInv'
<1>1. /\ StoreTypes /\ Closed /\ Sized /\ InOrderOfTime /\ OldGone /\ SweepKnows /\ KeepsCap
      /\ HadToGo /\ Footprint /\ faults \in Nat /\ deleted \in Nat /\ MaxTotal \in Nat
      /\ total \in Nat /\ indexed \subseteq Segments /\ size \in [Segments -> Nat]
  BY StoreFacts DEF StoreInv, StoreTypes
<1>2. UNCHANGED <<disk, size, wpc, current, aged, remaining, total, deleted, pos, bytes, indexed,
                  expired, removed, saturated, crashes>>
  BY DEF AgeDone, CapDone, Truncate, TruncateFails, RewriteFails, RewriteDone, storeFiles,
         segWriter, history, bounds
<1>0. Sized'  BY <1>1, <1>2 DEF Sized
<1>9. faults' = faults => HadToGo'
  BY <1>1, <1>2 DEF HadToGo, Undisturbed, SizeOf
<1>3. CASE AgeDone
  <2>1. spc = "age" /\ spc' = "cap" /\ aged = <<>> /\ UNCHANGED <<index, faults>>
    BY <1>3 DEF AgeDone, storeFiles, history, bounds
  <2>2. StoreTypes' /\ Closed'  BY <2>1, <1>1, <1>2 DEF StoreTypes, Closed
  <2>3. InOrderOfTime'  BY <2>1, <1>1, <1>2 DEF InOrderOfTime, Rising
  <2>4. OldGone'  BY <2>1, <1>1, <1>2 DEF OldGone
  <2>5. SweepKnows'  BY <2>1, <1>1, <1>2 DEF SweepKnows, Undisturbed, SizeOf
  <2>6. KeepsCap'  BY <2>1, <1>1, <1>2 DEF KeepsCap, SizeOf
  <2>7. Footprint' /\ HadToGo'  BY <2>1, <1>1, <1>2, <1>9 DEF Footprint, Undisturbed, SizeOf
  <2> QED  BY <1>0, <2>2, <2>3, <2>4, <2>5, <2>6, <2>7 DEF StoreInv
<1>4. CASE CapDone
  <2>1. /\ spc = "cap" /\ (total <= MaxTotal \/ remaining = <<>>)
        /\ spc' = IF deleted > 0 THEN "count" ELSE "idle"
        /\ UNCHANGED <<index, faults>>
    BY <1>4 DEF CapDone, storeFiles, history, bounds
  <2>2. StoreTypes' /\ Closed'  BY <2>1, <1>1, <1>2 DEF StoreTypes, Closed
  <2>3. InOrderOfTime'  BY <2>1, <1>1, <1>2 DEF InOrderOfTime, Rising
  <2>4. OldGone'  BY <2>1, <1>1, <1>2 DEF OldGone
  <2>5. SweepKnows'  BY <2>1, <1>1, <1>2 DEF SweepKnows, Undisturbed, SizeOf
  <2>6. SumOf(size, Range(remaining) \cap disk) <= MaxTotal
    <3> DEFINE Q == Range(remaining) \cap disk
    <3>1. Q \in SUBSET Segments  BY <1>1 DEF Closed
    <3>2. SumOf(size, Q) <= total  BY <2>1, <1>1 DEF KeepsCap, SizeOf
    <3>3. remaining = <<>> => Q = {}  BY DEF Range
    <3> HIDE DEF Q
    <3>4. SumOf(size, Q) \in Nat /\ SumOf(size, {}) = 0  BY <3>1, <1>1, Sizing
    <3>5. ASSUME total <= MaxTotal PROVE SumOf(size, Q) <= MaxTotal
      BY <3>2, <3>4, <3>5, <1>1
    <3>6. ASSUME remaining = <<>> PROVE SumOf(size, Q) <= MaxTotal
      <4>1. Q = {}  BY <3>3, <3>6
      <4> QED  BY <4>1, <3>4, MaxTotalAssumption
    <3>7. SumOf(size, Q) <= MaxTotal  BY <3>5, <3>6, <2>1
    <3> QED  BY <3>7 DEF Q
  <2>7. KeepsCap'  BY <2>1, <2>6, <1>2 DEF KeepsCap, SizeOf
  <2>8. Footprint' /\ HadToGo'  BY <2>1, <1>1, <1>2, <1>9 DEF Footprint, Undisturbed, SizeOf
  <2> QED  BY <1>0, <2>2, <2>3, <2>4, <2>5, <2>7, <2>8 DEF StoreInv
<1>5. CASE Truncate
  <2>1. spc = "truncate" /\ spc' = "rewrite" /\ index' = <<>> /\ faults' = faults
    BY <1>5 DEF Truncate, history, bounds
  <2>2. Range(index') = {} /\ Len(index') = 0 /\ index' \in Seq(Nat)  BY <2>1 DEF Range
  <2>3. StoreTypes' /\ Closed'  BY <2>1, <2>2, <1>1, <1>2 DEF StoreTypes, Closed
  <2>4. InOrderOfTime'
    <3>1. Rising(index')  BY <2>1 DEF Rising
    <3>2. pos = 0  BY <2>1, <1>1 DEF InOrderOfTime
    <3> QED  BY <3>1, <3>2, <2>1, <2>2, <1>1, <1>2 DEF InOrderOfTime, Rising
  <2>5. OldGone'  BY <2>1, <2>2, <1>1, <1>2 DEF OldGone
  <2>6. SweepKnows'  BY <2>1, <2>2, <1>1, <1>2 DEF SweepKnows, Undisturbed, SizeOf
  <2>7. KeepsCap'  BY <2>1 DEF KeepsCap
  <2>8. Footprint' /\ HadToGo'  BY <2>1, <1>1, <1>2, <1>9 DEF Footprint, Undisturbed, SizeOf
  <2> QED  BY <1>0, <2>3, <2>4, <2>5, <2>6, <2>7, <2>8 DEF StoreInv
<1>6. CASE TruncateFails
  <2>1. spc = "truncate" /\ spc' = "idle" /\ faults' = faults + 1 /\ index' = index
    BY <1>6 DEF TruncateFails, storeFiles
  <2>2. faults' \in Nat /\ faults' # 0  BY <2>1, <1>1
  <2>3. StoreTypes' /\ Closed'  BY <2>1, <2>2, <1>1, <1>2 DEF StoreTypes, Closed
  <2>4. InOrderOfTime'  BY <2>1, <1>1, <1>2 DEF InOrderOfTime, Rising
  <2>5. OldGone' /\ SweepKnows' /\ HadToGo' /\ Footprint'
    BY <2>2 DEF OldGone, SweepKnows, HadToGo, Footprint, Undisturbed
  <2>6. KeepsCap'  BY <2>1 DEF KeepsCap
  <2> QED  BY <1>0, <2>3, <2>4, <2>5, <2>6 DEF StoreInv
<1>7. CASE RewriteDone
  <2>1. spc = "rewrite" /\ spc' = "idle" /\ UNCHANGED <<index, faults>>
    BY <1>7 DEF RewriteDone, storeFiles, history, bounds
  <2>2. StoreTypes' /\ Closed'  BY <2>1, <1>1, <1>2 DEF StoreTypes, Closed
  <2>3. InOrderOfTime'  BY <2>1, <1>1, <1>2 DEF InOrderOfTime, Rising
  <2>4. OldGone'  BY <2>1, <1>1, <1>2 DEF OldGone
  <2>5. SweepKnows'  BY <2>1, <1>1, <1>2 DEF SweepKnows, Undisturbed, SizeOf
  <2>6. KeepsCap'  BY <2>1 DEF KeepsCap
  <2>7. Footprint' /\ HadToGo'  BY <2>1, <1>1, <1>2, <1>9 DEF Footprint, Undisturbed, SizeOf
  <2> QED  BY <1>0, <2>2, <2>3, <2>4, <2>5, <2>6, <2>7 DEF StoreInv
<1>8. CASE RewriteFails
  <2>1. spc = "rewrite" /\ spc' = "idle" /\ faults' = faults + 1 /\ index' = index
    BY <1>8 DEF RewriteFails, storeFiles
  <2>2. faults' \in Nat /\ faults' # 0  BY <2>1, <1>1
  <2>3. StoreTypes' /\ Closed'  BY <2>1, <2>2, <1>1, <1>2 DEF StoreTypes, Closed
  <2>4. InOrderOfTime'  BY <2>1, <1>1, <1>2 DEF InOrderOfTime, Rising
  <2>5. OldGone' /\ SweepKnows' /\ HadToGo' /\ Footprint'
    BY <2>2 DEF OldGone, SweepKnows, HadToGo, Footprint, Undisturbed
  <2>6. KeepsCap'  BY <2>1 DEF KeepsCap
  <2> QED  BY <1>0, <2>3, <2>4, <2>5, <2>6 DEF StoreInv
<1> QED  BY <1>3, <1>4, <1>5, <1>6, <1>7, <1>8

\* What a sweep has deleted is in the counter, unless the writer has not
\* counted it yet.
LEMMA Overtaking ==
  ASSUME StoreInv, Undisturbed, spc = "count", deleted > bytes
  PROVE  /\ wpc = "indexed" /\ current \in removed
         /\ SumOf(size, indexed \cap disk) <= size[current] /\ size[current] \in Nat
         /\ SumOf(size, indexed \cap disk) \in Nat
<1>1. /\ StoreTypes /\ Closed /\ Footprint /\ indexed \subseteq Segments
      /\ size \in [Segments -> Nat] /\ current \in Nat
  BY StoreFacts
<1> DEFINE I == indexed \cap disk
<1>2. I \in SUBSET Segments  BY <1>1
<1>3. current \in disk \/ current \in removed \/ current \notin indexed
  BY <1>1 DEF Closed
<1>4. bytes + (IF wpc = "indexed" THEN size[current] ELSE 0) >= SumOf(size, I) + deleted
  BY <1>1 DEF Footprint, SizeOf
<1>5. current \in indexed /\ current \in disk => current \in I  OBVIOUS
<1> HIDE DEF I
<1>6. /\ SumOf(size, I) \in Nat /\ \A x \in I : SumOf(size, I) = size[x] + SumOf(size, I \ {x})
  BY <1>1, <1>2, Sizing
<1>7. bytes \in Nat /\ deleted \in Nat  BY <1>1 DEF StoreTypes
<1>8. wpc = "indexed"  BY <1>4, <1>6, <1>7
<1>9. current \in indexed /\ size[current] \in Nat  BY <1>1, <1>8 DEF Closed
<1>10. SumOf(size, I) < size[current]  BY <1>4, <1>6, <1>7, <1>8, <1>9
<1>11. current \notin I
  <2> SUFFICES ASSUME current \in I PROVE FALSE
    OBVIOUS
  <2>1. SumOf(size, I) = size[current] + SumOf(size, I \ {current})  BY <1>6
  <2>2. I \ {current} \in SUBSET Segments  BY <1>2
  <2>3. SumOf(size, I \ {current}) \in Nat  BY <2>2, <1>1, Sizing
  <2> QED  BY <2>1, <2>3, <1>6, <1>9, <1>10
<1> QED  BY <1>3, <1>5, <1>6, <1>8, <1>9, <1>10, <1>11 DEF I

LEMMA SubBytesKeeps ==
  ASSUME StoreInv, SubBytes
  PROVE  StoreInv'
<1>1. /\ StoreTypes /\ Closed /\ Sized /\ InOrderOfTime /\ OldGone /\ SweepKnows /\ KeepsCap
      /\ HadToGo /\ Footprint /\ deleted \in Nat /\ bytes \in Nat
      /\ indexed \subseteq Segments /\ size \in [Segments -> Nat]
  BY StoreFacts DEF StoreTypes
<1>2. /\ spc = "count" /\ spc' = "truncate" /\ bytes' = Minus(bytes, deleted)
      /\ saturated' = (saturated \/ deleted > bytes)
      /\ UNCHANGED <<disk, size, index, wpc, current, aged, remaining, total, deleted, pos, indexed,
                     expired, removed, crashes, faults>>
  BY DEF SubBytes, storeFiles, segWriter, bounds
<1>3. bytes' \in Nat  BY <1>1, <1>2 DEF Minus
<1>4. StoreTypes' /\ Closed'  BY <1>1, <1>2, <1>3 DEF StoreTypes, Closed
<1>5. Sized'  BY <1>1, <1>2 DEF Sized
<1>6. InOrderOfTime'  BY <1>1, <1>2 DEF InOrderOfTime, Rising
<1>7. OldGone'  BY <1>1, <1>2 DEF OldGone
<1>8. SweepKnows'  BY <1>1, <1>2 DEF SweepKnows, Undisturbed, SizeOf
<1>9. KeepsCap'  BY <1>1, <1>2 DEF KeepsCap, SizeOf
<1>10. HadToGo'  BY <1>1, <1>2 DEF HadToGo, Undisturbed, SizeOf
<1>11. Footprint'
  <2> DEFINE u == SumOf(size, indexed \cap disk)
             unsaved == IF wpc = "indexed" THEN size[current] ELSE 0
  <2>1. indexed \cap disk \in SUBSET Segments  BY <1>1
  <2>2. u \in Nat  BY <2>1, <1>1, Sizing
  <2>3. unsaved \in Nat  BY <1>1 DEF Closed
  <2> SUFFICES ASSUME Undisturbed
               PROVE  bytes' + unsaved >= u /\ (~saturated' => bytes' + unsaved = u)
    BY <1>2, <2>2 DEF Footprint, Undisturbed, SizeOf
  <2>4. CASE deleted > bytes
    <3>1. bytes' = 0 /\ saturated'  BY <2>4, <1>2 DEF Minus
    <3>2. unsaved >= u  BY <2>4, <1>2, <2>2, Overtaking
    <3> HIDE DEF u, unsaved
    <3> QED  BY <3>1, <3>2, <2>2, <2>3
  <2>5. CASE ~(deleted > bytes)
    <3>1. bytes' = bytes - deleted /\ (~saturated' => ~saturated)
      BY <2>5, <1>1, <1>2 DEF Minus
    <3>2. bytes + unsaved >= u + deleted /\ (~saturated => bytes + unsaved = u + deleted)
      BY <1>1, <1>2 DEF Footprint, SizeOf
    <3> HIDE DEF u, unsaved
    <3> QED  BY <3>1, <3>2, <2>2, <2>3, <1>1
  <2> QED  BY <2>4, <2>5
<1> QED  BY <1>4, <1>5, <1>6, <1>7, <1>8, <1>9, <1>10, <1>11 DEF StoreInv

LEMMA Overwrite ==
  ASSUME NEW s \in Seq(Nat), NEW n, n = Len(s), NEW p \in 0..n, NEW h \in Nat,
         NEW t, t = IF p < n THEN [s EXCEPT ![p + 1] = h] ELSE Append(s, h)
  PROVE  /\ t \in Seq(Nat) /\ Len(t) \in Nat /\ n <= Len(t) /\ p + 1 <= Len(t)
         /\ DOMAIN t = 1..Len(t) /\ t[p + 1] = h
         /\ \A i \in 1..n : i # p + 1 => t[i] = s[i]
         /\ \A i \in 1..Len(t) : i = p + 1 \/ (i \in 1..n /\ i # p + 1)
<1>1. n \in Nat /\ p \in Nat /\ p <= n  OBVIOUS
<1>2. CASE p < n
  <2>1. t = [s EXCEPT ![p + 1] = h] /\ p + 1 \in 1..n  BY <1>1, <1>2
  <2>2. t \in Seq(Nat) /\ Len(t) = n  BY <2>1, ExceptSeq
  <2> QED  BY <2>1, <2>2, <1>1
<1>3. CASE ~(p < n)
  <2>1. t = Append(s, h) /\ p = n  BY <1>1, <1>3
  <2> QED  BY <2>1, <1>1
<1> QED  BY <1>2, <1>3

\* A line of the rewrite goes after those written before, over whatever the
\* writer appended there meanwhile.
LEMMA RewriteLineKeeps ==
  ASSUME StoreInv, RewriteLine
  PROVE  StoreInv'
<1> DEFINE h == Head(remaining)  n == Len(index)
<1>1. /\ StoreTypes /\ Closed /\ Sized /\ InOrderOfTime /\ OldGone /\ SweepKnows /\ KeepsCap
      /\ HadToGo /\ Footprint /\ pos \in Nat /\ index \in Seq(Nat) /\ Rising(index)
      /\ remaining \in Seq(Nat) /\ Rising(remaining) /\ n \in Nat
  BY StoreFacts DEF StoreInv, StoreTypes, InOrderOfTime
<1>2. /\ spc = "rewrite" /\ remaining # <<>> /\ remaining' = Tail(remaining) /\ pos' = pos + 1
      /\ index' = IF pos < n THEN [index EXCEPT ![pos + 1] = h] ELSE Append(index, h)
      /\ UNCHANGED <<disk, size, wpc, current, spc, aged, total, deleted, bytes, indexed,
                     expired, removed, saturated, crashes, faults>>
  BY DEF RewriteLine, segWriter, history, bounds
<1>3. /\ remaining' \in Seq(Nat) /\ h \in Nat /\ Rising(remaining')
      /\ Range(remaining) = {h} \cup Range(remaining')
      /\ \A x \in Range(remaining') : h < x
  BY <1>1, <1>2, OldestHead
<1>4. /\ pos <= n
      /\ \A i \in 1..n, x \in Range(remaining) : IF i <= pos THEN index[i] < x ELSE x < index[i]
  BY <1>1, <1>2 DEF InOrderOfTime
<1>5. /\ index' \in Seq(Nat) /\ Len(index') \in Nat /\ n <= Len(index') /\ pos + 1 <= Len(index')
      /\ DOMAIN index' = 1..Len(index') /\ index'[pos + 1] = h
      /\ \A i \in 1..n : i # pos + 1 => index'[i] = index[i]
      /\ \A i \in 1..Len(index') : i = pos + 1 \/ (i \in 1..n /\ i # pos + 1)
  <2>1. pos \in 0..n  BY <1>1, <1>4
  <2> QED  BY <2>1, <1>1, <1>2, <1>3, Overwrite
<1> HIDE DEF h, n
<1>6. DOMAIN index = 1..n  BY <1>1 DEF n
<1>7. Range(index') \subseteq Range(index) \cup {h}
  <2>1. \A i \in 1..Len(index') : index'[i] = h \/ (i \in 1..n /\ index'[i] = index[i])
    BY <1>5
  <2> QED  BY <2>1, <1>5, <1>6 DEF Range
<1>8. StoreTypes'  BY <1>1, <1>2, <1>3, <1>5 DEF StoreTypes
<1>9. Closed'  BY ZenonT(60), <1>1, <1>2, <1>3, <1>7 DEF Closed
<1>10. Rising(index')
  <2> SUFFICES ASSUME NEW i \in 1..Len(index'), NEW j \in 1..Len(index'), i < j
               PROVE  index'[i] < index'[j]
    BY <1>5 DEF Rising
  <2>1. CASE i = pos + 1
    <3>1. j # pos + 1 /\ ~(j <= pos)  BY <2>1, <1>1
    <3>2. j \in 1..n /\ index'[j] = index[j]  BY <3>1, <1>5
    <3> QED  BY <3>1, <3>2, <2>1, <1>3, <1>4, <1>5
  <2>2. CASE j = pos + 1
    <3>1. i \in 1..n /\ i <= pos /\ index'[i] = index[i]  BY SMTT(30), <2>2, <1>1, <1>5
    <3> QED  BY <3>1, <2>2, <1>3, <1>4, <1>5
  <2>3. CASE i # pos + 1 /\ j # pos + 1
    <3>1. i \in 1..n /\ j \in 1..n /\ index'[i] = index[i] /\ index'[j] = index[j]
      BY <2>3, <1>5
    <3> QED  BY <3>1, <1>1, <1>6 DEF Rising
  <2> QED  BY <2>1, <2>2, <2>3
<1>11. ASSUME NEW i \in 1..Len(index'), NEW x \in Range(remaining')
       PROVE  IF i <= pos + 1 THEN index'[i] < x ELSE x < index'[i]
  <2>1. CASE i = pos + 1  BY <2>1, <1>1, <1>3, <1>5
  <2>2. CASE i \in 1..n /\ i # pos + 1
    <3>1. i <= pos + 1 <=> i <= pos  BY <2>2, <1>1
    <3>2. x \in Range(remaining)  BY <1>3
    <3> QED  BY <3>1, <3>2, <2>2, <1>4, <1>5
  <2> QED  BY <2>1, <2>2, <1>5
<1>12. InOrderOfTime'
  <2>1. \A a \in Range(aged), x \in Range(remaining') : a < x
    BY <1>1, <1>3 DEF InOrderOfTime
  <2>2. aged' = <<>> /\ Rising(aged')  BY <1>1, <1>2 DEF InOrderOfTime
  <2> QED  BY <2>1, <2>2, <1>2, <1>3, <1>5, <1>10, <1>11 DEF InOrderOfTime
<1>13. OldGone'
  <2>1. Range(index') \cup Range(aged) \cup Range(remaining')
          \subseteq Range(index) \cup Range(aged) \cup Range(remaining)
    BY <1>3, <1>7
  <2> QED  BY <2>1, <1>1, <1>2 DEF OldGone
<1>14. SweepKnows'
  <2>1. Undisturbed => Range(remaining') \subseteq disk /\ Range(index') \subseteq disk
    BY <1>1, <1>2, <1>3, <1>7 DEF SweepKnows
  <2> QED  BY <2>1, <1>1, <1>2 DEF SweepKnows, Undisturbed
<1>15. KeepsCap'  BY <1>2 DEF KeepsCap
<1>16. Footprint'  BY <1>1, <1>2 DEF Footprint, Undisturbed, SizeOf
<1>17. Sized'  BY <1>1, <1>2 DEF Sized
<1>18. HadToGo'  BY <1>1, <1>2 DEF HadToGo, Undisturbed, SizeOf
<1> QED
  BY <1>8, <1>9, <1>12, <1>13, <1>14, <1>15, <1>16, <1>17, <1>18 DEF StoreInv

\* Files stay, memory goes.
LEMMA RestartKeeps ==
  ASSUME StoreInv, Restart
  PROVE  StoreInv'
<1>1. /\ StoreTypes /\ Closed /\ Sized /\ InOrderOfTime /\ OldGone /\ crashes \in Nat
      /\ index \in Seq(Nat) /\ indexed \subseteq Segments /\ size \in [Segments -> Nat]
  BY StoreFacts DEF StoreTypes
<1>2. /\ crashes' = crashes + 1 /\ wpc' = "idle" /\ spc' = "idle"
      /\ aged' = <<>> /\ remaining' = <<>> /\ total' = 0 /\ deleted' = 0 /\ pos' = 0
      /\ bytes' = SumOf(size, Range(index))
      /\ UNCHANGED <<disk, size, index, current, indexed, expired, removed, saturated, faults>>
  BY DEF Restart, storeFiles, SizeOf
<1>3. crashes' \in Nat /\ crashes' # 0  BY <1>1, <1>2
<1>4. Range(aged') = {} /\ Range(remaining') = {}  BY <1>2 DEF Range
<1>11. bytes' \in Nat
  <2>1. Range(index) \in SUBSET Segments  BY <1>1 DEF Closed
  <2> QED  BY <2>1, <1>1, <1>2, Sizing
<1>12. Sized'  BY <1>1, <1>2 DEF Sized
<1>5. StoreTypes'  BY <1>1, <1>2, <1>3, <1>11 DEF StoreTypes
<1>6. Closed'  BY <1>1, <1>2, <1>4 DEF Closed
<1>7. InOrderOfTime'  BY <1>1, <1>2, <1>4 DEF InOrderOfTime, Rising
<1>8. OldGone'  BY <1>1, <1>2, <1>4 DEF OldGone
<1>9. SweepKnows' /\ HadToGo' /\ Footprint'
  BY <1>3 DEF SweepKnows, HadToGo, Footprint, Undisturbed
<1>10. KeepsCap'  BY <1>2 DEF KeepsCap
<1> QED  BY <1>5, <1>6, <1>7, <1>8, <1>9, <1>10, <1>12 DEF StoreInv

LEMMA StoreStepInv == StoreInv /\ [StoreNext]_storeVars => StoreInv'
<1> SUFFICES ASSUME StoreInv, [StoreNext]_storeVars PROVE StoreInv'
  OBVIOUS
<1>1. CASE SyncSegment
  BY <1>1, SyncSegmentKeeps
<1>2. CASE AddBytes
  BY <1>2, QuietWriterKeeps DEF AddBytes, history, bounds
<1>3. CASE WriterFails
  BY <1>3, QuietWriterKeeps DEF WriterFails
<1>4. CASE UNCHANGED storeVars
  BY <1>4, QuietWriterKeeps DEF storeVars, segWriter, history, bounds
<1>5. ASSUME NEW cut \in 0..MaxSegments, Load(cut) PROVE StoreInv'
  BY <1>5, LoadKeeps
<1> QED
  BY <1>1, <1>2, <1>3, <1>4, <1>5, OpenSegmentKeeps, AppendIndexKeeps, DeleteAgedKeeps,
     DeleteOldestKeeps, DeleteFailsKeeps, PhaseKeeps, SubBytesKeeps, RewriteLineKeeps,
     RestartKeeps
  DEF StoreNext, StoreWriterStep, SweepStep

\* What a sweep still knows keeps the directory sound.
LEMMA SoundDirectory == StoreInv => DirectorySound
<1> SUFFICES ASSUME StoreInv PROVE DirectorySound
  OBVIOUS
<1>1. Closed /\ OldGone /\ SweepKnows /\ KeepsCap /\ HadToGo /\ Footprint
  BY DEF StoreInv
<1>2. IndexNamesFiles
  BY <1>1 DEF SweepKnows, KeepsCap, IndexNamesFiles
<1>3. OldestFirst
  <2>1. wpc \in {"open", "synced"} => current \in disk
    <3>1. current \in 0..MaxSegments  BY DEF StoreInv, StoreTypes
    <3>2. current > 0 => current \in 1..current  BY <3>1, MaxSegmentsAssumption
    <3> QED  BY <3>2, <1>1 DEF Closed
  <2> QED  BY <2>1, <1>1 DEF OldGone, HadToGo, OldestFirst, Indexed
<1>4. FootprintExact
  BY <1>1, Overtaking DEF Footprint, FootprintExact
<1> QED  BY <1>2, <1>3, <1>4 DEF DirectorySound

(* The directory, its index and the footprint counter agree as far as the  *)
(* code keeps them, and a sweep gives up the oldest first and stops at the *)
(* cap (enforce_retention against Segment::close and DiskRecordingSource), *)
(* however writer, sweep, errors and restarts interleave, for any cap and  *)
(* any number of segments.                                                 *)
THEOREM DirectoryAlwaysSound == StoreSpec => []DirectorySound
BY SoundDirectory, StoreInitInv, StoreStepInv, PTL DEF StoreSpec

-----------------------------------------------------------------------------
(* No counter of the store leaves the range of the segments.               *)

\* A rising sequence of segments is no longer than there are segments.
LEMMA RisingFits ==
  ASSUME NEW s \in Seq(Nat), Rising(s), NEW m \in Nat, Range(s) \subseteq 1..m
  PROVE  Len(s) <= m
<1> DEFINE n == Len(s)
<1>1. n \in Nat /\ DOMAIN s = 1 .. n /\ \A i \in 1 .. n : s[i] \in Nat
  OBVIOUS
<1>2. \A i \in 1 .. n : s[i] \in 1..m
  BY <1>1 DEF Range
<1>3. \A i, j \in 1 .. n : i < j => s[i] < s[j]
  BY <1>1 DEF Rising
<1> HIDE DEF n
<1> DEFINE P == {i \in 0 .. n : i = 0 \/ i <= s[i]}
<1>4. 0 \in P
  BY <1>1
<1>5. ASSUME NEW i \in 1 .. n, i - 1 \in P PROVE i \in P
  <2>1. i \in Nat /\ s[i] \in Nat /\ s[i] >= 1 /\ i \in 0 .. n
    BY <1>1, <1>2
  <2>2. CASE i = 1
    BY <2>1, <2>2
  <2>3. CASE i # 1
    <3>1. i - 1 \in 1 .. n /\ i - 1 < i
      BY <1>1, <2>3
    <3>2. i - 1 <= s[i - 1] /\ s[i - 1] < s[i] /\ s[i - 1] \in Nat
      BY <1>1, <1>3, <1>5, <3>1
    <3>3. i <= s[i]
      BY <2>1, <3>2
    <3> QED
      BY <2>1, <3>3
  <2> QED
    BY <2>2, <2>3
<1> HIDE DEF P
<1>6. n \in P
  <2>1. \A i \in 0 .. n : i \in P
    BY <1>1, <1>4, <1>5, UpTo
  <2> QED
    BY <1>1, <2>1
<1>7. n = 0 \/ n <= s[n]
  BY <1>6 DEF P
<1>8. n # 0 => n \in 1 .. n
  BY <1>1
<1>9. n <= m
  BY <1>1, <1>2, <1>7, <1>8
<1> QED
  BY <1>9 DEF n

\* What closed segments there are is listed once at most.
LEMMA IndexFits == ASSUME StoreInv PROVE Len(index) <= current /\ Len(index) \in Nat
<1>1. index \in Seq(Nat) /\ current \in Nat /\ Rising(index) /\ Range(index) \subseteq 1..current
  BY StoreFacts DEF StoreTypes, InOrderOfTime
<1> QED
  BY <1>1, RisingFits

StoreBounds ==
  /\ crashes <= MaxCrashes /\ faults <= MaxFaults /\ pos <= MaxSegments
  /\ bytes + (IF wpc \in {"synced", "indexed"} THEN size[current] ELSE 0)
       <= SizeOf(Segments)
  /\ total <= SizeOf(Segments) /\ deleted <= SizeOf(removed)

\* What is deleted was not deleted before.
LEMMA DeleteCounts ==
  ASSUME StoreInv, NEW s \in indexed, Delete(s), deleted <= SumOf(size, removed)
  PROVE  deleted' <= SumOf(size, removed')
<1>1. /\ deleted \in Nat /\ disk = (1..current) \ removed /\ removed \subseteq indexed
      /\ indexed \subseteq Segments /\ size \in [Segments -> Nat]
  BY StoreFacts DEF StoreTypes, Closed
<1>2. CASE s \in disk
  <2>1. /\ removed' \ {s} = removed /\ s \in removed' /\ deleted' = deleted + size[s]
        /\ removed' \in SUBSET Segments /\ size[s] \in Nat
    BY <1>1, <1>2 DEF Delete
  <2>2. SumOf(size, removed') = size[s] + SumOf(size, removed)
    BY <1>1, <2>1, Sizing
  <2>3. SumOf(size, removed) \in Nat
    BY <1>1, Sizing
  <2> QED
    BY <1>1, <2>1, <2>2, <2>3
<1>3. CASE s \notin disk
  <2>1. removed' = removed /\ deleted' = deleted
    BY <1>3 DEF Delete
  <2> QED
    BY <2>1
<1> QED
  BY <1>2, <1>3

LEMMA StoreInitBounds == StoreInit => StoreBounds
<1> SUFFICES ASSUME StoreInit PROVE StoreBounds
  OBVIOUS
<1>1. size \in [Segments -> Nat]
  BY DEF StoreInit
<1>2. SumOf(size, {}) = 0 /\ SumOf(size, Segments) \in Nat
  BY <1>1, Sizing
<1> QED
  BY <1>2, MaxSegmentsAssumption, MaxCrashesAssumption, MaxFaultsAssumption
  DEF StoreInit, StoreBounds, SizeOf

LEMMA StoreStepBounds ==
  StoreInv /\ StoreInv' /\ StoreBounds /\ [StoreNext]_storeVars => StoreBounds'
<1> SUFFICES ASSUME StoreInv, StoreInv', StoreBounds, [StoreNext]_storeVars
             PROVE  StoreBounds'
  OBVIOUS
<1> USE MaxSegmentsAssumption, MaxCrashesAssumption, MaxFaultsAssumption
<1> DEFINE All == SumOf(size, Segments)  Gone == SumOf(size, removed)
<1>1. /\ bytes \in Nat /\ deleted \in Nat /\ total \in Nat /\ pos \in Nat
      /\ crashes \in Nat /\ faults \in Nat /\ current \in 0..MaxSegments
      /\ removed \subseteq indexed /\ indexed \subseteq Segments /\ Closed /\ StoreTypes /\ Sized
      /\ size \in [Segments -> Nat]
  BY StoreFacts DEF StoreTypes, Closed
<1>2. All \in Nat /\ Gone \in Nat /\ \A R \in SUBSET Segments : SumOf(size, R) <= All
  <2>1. removed \in SUBSET Segments /\ Segments \in SUBSET Segments
    BY <1>1
  <2> QED
    BY <1>1, <2>1, Sizing
<1>3. current > 0 => current \in Segments /\ size[current] \in Nat
  BY <1>1 DEF Segments
<1>4. /\ crashes <= MaxCrashes /\ faults <= MaxFaults /\ pos <= MaxSegments
      /\ bytes + (IF wpc \in {"synced", "indexed"} THEN size[current] ELSE 0) <= All
      /\ total <= All /\ deleted <= Gone
  BY DEF StoreBounds, SizeOf
<1>5. wpc \in {"open", "synced", "indexed"} => current > 0
  BY <1>1 DEF Closed
<1> HIDE DEF All, Gone
<1>6. UNCHANGED <<size, removed, crashes, faults, pos, bytes, wpc, current, total, deleted>>
        => StoreBounds'
  BY <1>4 DEF StoreBounds, SizeOf, All, Gone
<1> USE DEF storeFiles, segWriter, sweep, bounds, history
<1>7. CASE OpenSegment
  BY <1>4, <1>7 DEF OpenSegment, StoreBounds, SizeOf, All, Gone
<1>8. CASE SyncSegment
  <2>1. PICK n \in Sizes : size' = [size EXCEPT ![current] = n]
    BY <1>8 DEF SyncSegment
  <2>2. /\ wpc = "open" /\ wpc' = "synced" /\ current' = current /\ bytes' = bytes
        /\ UNCHANGED <<removed, crashes, faults, pos, total, deleted>>
    BY <1>8 DEF SyncSegment
  <2>3. /\ current \in Segments /\ size[current] = 0 /\ n \in Nat /\ size'[current] = n
        /\ size' \in [Segments -> Nat] /\ current \notin removed
        /\ \A x \in Segments \ {current} : size'[x] = size[x]
    BY <1>1, <1>3, <1>5, <2>1, <2>2, SizesAssumption DEF Closed, Sized
  <2> DEFINE Rest == Segments \ {current}
  <2>4. Rest \in SUBSET Segments /\ removed \in SUBSET Rest
    BY <1>1, <2>3
  <2>5. SumOf(size', Rest) = SumOf(size, Rest) /\ SumOf(size', removed) = SumOf(size, removed)
    BY <2>3, <2>4, SizingSame
  <2>6. SumOf(size, Segments) = size[current] + SumOf(size, Rest)
    BY <1>1, <2>3, Sizing
  <2>7. SumOf(size', Segments) = n + SumOf(size, Rest)
    BY <2>3, <2>5, Sizing
  <2>8. SumOf(size, Rest) \in Nat
    BY <1>1, <2>4, Sizing
  <2> HIDE DEF Rest
  <2>9. SumOf(size', Segments) = All + n
    BY <2>3, <2>6, <2>7, <2>8 DEF All
  <2>10. /\ bytes' + (IF wpc' \in {"synced", "indexed"} THEN size'[current'] ELSE 0) <= All + n
         /\ total' <= All + n /\ deleted' <= Gone
    BY <1>1, <1>2, <1>4, <2>2, <2>3
  <2> QED
    BY <1>4, <2>2, <2>5, <2>9, <2>10 DEF StoreBounds, SizeOf, Gone
<1>9. CASE AppendIndex
  BY <1>4, <1>9 DEF AppendIndex, StoreBounds, SizeOf, All, Gone
<1>10. CASE AddBytes
  BY <1>1, <1>2, <1>3, <1>4, <1>5, <1>10 DEF AddBytes, StoreBounds, SizeOf, All, Gone
<1>11. CASE WriterFails
  BY <1>1, <1>2, <1>3, <1>4, <1>5, <1>11 DEF WriterFails, StoreBounds, SizeOf, All, Gone
<1>12. ASSUME NEW cut \in 0..MaxSegments, Load(cut) PROVE StoreBounds'
  <2>1. /\ total' = SumOf(size, Range(remaining')) /\ deleted' = 0 /\ pos' = 0
        /\ UNCHANGED <<size, removed, crashes, faults, bytes, wpc, current>>
    BY <1>12 DEF Load, SizeOf
  <2>2. Range(remaining') \in SUBSET Segments
    <3>1. (Range(remaining) \subseteq indexed /\ indexed \subseteq Segments)'
      BY StoreFacts DEF StoreInv, Closed, StoreTypes, Segments
    <3> QED
      BY <3>1 DEF Segments
  <2> QED
    BY <1>1, <1>2, <1>4, <2>1, <2>2 DEF StoreBounds, SizeOf, All, Gone
<1>13. CASE DeleteAged
  <2>1. Head(aged) \in indexed
    BY <1>1, <1>13, OldestHead DEF DeleteAged, StoreInv, InOrderOfTime, StoreTypes, Closed
  <2>2. deleted' <= SumOf(size, removed')
    BY <1>4, <1>13, <2>1, DeleteCounts DEF DeleteAged, Gone
  <2> QED
    BY <1>4, <1>13, <2>2 DEF DeleteAged, StoreBounds, SizeOf, All
<1>14. CASE DeleteOldest
  <2>1. Head(remaining) \in indexed
    BY <1>1, <1>14, OldestHead DEF DeleteOldest, StoreInv, InOrderOfTime, StoreTypes, Closed
  <2>2. deleted' <= SumOf(size, removed')
    BY <1>4, <1>14, <2>1, DeleteCounts DEF DeleteOldest, Gone
  <2>3. total' <= All
    BY <1>1, <1>2, <1>4, <1>14, <2>1 DEF DeleteOldest, Minus
  <2> QED
    BY <1>4, <1>14, <2>2, <2>3 DEF DeleteOldest, StoreBounds, SizeOf, All
<1>15. CASE DeleteFails
  BY <1>1, <1>4, <1>15 DEF DeleteFails, StoreBounds, SizeOf, All, Gone
<1>16. CASE AgeDone \/ CapDone \/ Truncate \/ RewriteDone
  BY <1>6, <1>16 DEF AgeDone, CapDone, Truncate, RewriteDone
<1>17. CASE SubBytes
  BY <1>1, <1>2, <1>3, <1>4, <1>5, <1>17 DEF SubBytes, Minus, StoreBounds, SizeOf, All, Gone
<1>18. CASE TruncateFails \/ RewriteFails
  BY <1>1, <1>4, <1>18 DEF TruncateFails, RewriteFails, StoreBounds, SizeOf, All, Gone
<1>19. CASE RewriteLine
  <2>1. spc' = "rewrite" /\ UNCHANGED <<size, removed, crashes, faults, bytes, wpc, current, total,
                                      deleted>>
    BY <1>19 DEF RewriteLine
  <2>2. pos' <= Len(index') /\ pos' \in Nat
    BY <2>1 DEF StoreInv, InOrderOfTime, StoreTypes
  <2>3. Len(index') <= current' /\ Len(index') \in Nat /\ current' \in 0..MaxSegments
    <3>1. (index \in Seq(Nat) /\ current \in 0..MaxSegments /\ Rising(index)
             /\ Range(index) \subseteq 1..current)'
      BY DEF StoreInv, StoreTypes, Closed, InOrderOfTime
    <3> QED
      BY <3>1, RisingFits DEF Rising
  <2>4. pos' <= MaxSegments
    BY <2>2, <2>3
  <2> QED
    BY <1>4, <2>1, <2>4 DEF StoreBounds, SizeOf, All, Gone
<1>20. CASE Restart
  <2>1. Range(index) \in SUBSET Segments
    BY <1>1 DEF Closed
  <2>2. SumOf(size, Range(index)) \in Nat
    BY <1>1, <2>1, Sizing
  <2> QED
    BY <1>1, <1>2, <1>4, <1>20, <2>1, <2>2 DEF Restart, StoreBounds, SizeOf, All, Gone
<1>21. CASE UNCHANGED storeVars
  BY <1>6, <1>21 DEF storeVars
<1> QED
  BY <1>7, <1>8, <1>9, <1>10, <1>11, <1>12, <1>13, <1>14, <1>15, <1>16, <1>17, <1>18, <1>19,
     <1>20, <1>21 DEF StoreNext, StoreWriterStep, SweepStep

LEMMA StoreTyped == StoreInv /\ StoreBounds => StoreTypeOK
<1> SUFFICES ASSUME StoreInv, StoreBounds PROVE StoreTypeOK
  OBVIOUS
<1> USE MaxSegmentsAssumption, MaxCrashesAssumption, MaxFaultsAssumption
<1>1. /\ StoreTypes /\ Closed /\ Sized /\ size \in [Segments -> Nat] /\ current \in Nat
      /\ 1..current \subseteq Segments /\ indexed \subseteq Segments
  BY StoreFacts
<1>3. ASSUME NEW s \in Seq(Nat), Range(s) \subseteq 1..current PROVE s \in Seq(Segments)
  <2>1. \A i \in 1 .. Len(s) : s[i] \in Range(s)
    BY <1>3 DEF Range
  <2>2. \A i \in 1 .. Len(s) : s[i] \in Segments
    BY <1>1, <1>3, <2>1
  <2> HIDE DEF Segments
  <2> QED
    BY <1>3, <2>2
<1>4. index \in Seq(Segments) /\ aged \in Seq(Segments) /\ remaining \in Seq(Segments)
  <2>1. index \in Seq(Nat) /\ aged \in Seq(Nat) /\ remaining \in Seq(Nat)
    BY <1>1 DEF StoreTypes
  <2>2. /\ Range(index) \subseteq 1..current /\ Range(aged) \subseteq 1..current
        /\ Range(remaining) \subseteq 1..current
    BY <1>1 DEF Closed
  <2> QED
    BY <1>3, <2>1, <2>2
<1>5. disk \subseteq Segments /\ removed \subseteq Segments /\ expired \subseteq Segments
  BY <1>1 DEF Closed
<1>6. {total, deleted, bytes} \subseteq 0..SizeOf(Segments)
  <2> DEFINE All == SumOf(size, Segments)
  <2>1. removed \in SUBSET Segments /\ Segments \in SUBSET Segments
    BY <1>5
  <2>2. SumOf(size, removed) <= All /\ All \in Nat /\ SumOf(size, removed) \in Nat
    BY <1>1, <2>1, Sizing
  <2>3. wpc \in {"synced", "indexed"} => size[current] \in Nat
    BY <1>1 DEF Closed, Segments
  <2>4. /\ bytes + (IF wpc \in {"synced", "indexed"} THEN size[current] ELSE 0) <= All
        /\ total <= All /\ deleted <= SumOf(size, removed)
    BY DEF StoreBounds, SizeOf
  <2> HIDE DEF All
  <2>5. {total, deleted, bytes} \subseteq 0..All
    BY <1>1, <2>2, <2>3, <2>4 DEF StoreTypes
  <2> QED
    BY <2>5 DEF All, SizeOf
<1> QED
  BY <1>1, <1>4, <1>5, <1>6 DEF StoreTypes, Sized, StoreBounds, StoreTypeOK
=============================================================================
