---------------------------- MODULE DeviceProofs ----------------------------
(***************************************************************************)
(* Proofs about the machines around the streams.  Each machine has a part  *)
(* of its own; none of them uses another.                                  *)
(***************************************************************************)
EXTENDS MCDevice, FoldFacts

(***************************************************************************)
(* JoinableWhereAsked for every key-frame period, size and set of grids.   *)
(* What carries it over failures is that a request which was taken is      *)
(* known to the encoder whenever the thread has a sound one - a fresh      *)
(* encoder owes a key frame anyway - and that an encoder in the middle of  *)
(* a period is the one the last unit came from.                            *)
(***************************************************************************)
EncoderOK ==
  /\ encoder \in [born : 0 .. 1, since : 0 .. IPeriod - 1, force : BOOLEAN,
                  sound : BOOLEAN]
  /\ wrote \in [key : BOOLEAN, born : 0 .. 1, asked : BOOLEAN, of : 0 .. 1,
                shows : SUBSET Grids]
  /\ grid \in Grids /\ owed \in BOOLEAN /\ idrFlag \in BOOLEAN
  /\ params \in ThermalSizes /\ encThread \in {"turn", "draw", "failed", "ended"}

(* A request that was taken will be answered by this encoder's next unit,  *)
(* if it has one.                                                          *)
RequestKnown == owed /\ encThread \in {"turn", "draw"} /\ encoder.sound => Key

(* In the middle of a period the last unit is of this encoder.             *)
OneEncoderPerPeriod == encoder.since # 0 => wrote.born = encoder.born

(* An encoder in whose place another is due is one that failed.            *)
FailedIsUnsound == encThread = "failed" => ~encoder.sound

PictureInv ==
  /\ EncoderOK /\ FailedIsUnsound
  /\ RequestKnown /\ OneEncoderPerPeriod /\ JoinableWhereAsked

LEMMA PictureInitInv == PictureInit => PictureInv
<1> SUFFICES ASSUME PictureInit PROVE PictureInv
  OBVIOUS
<1>1. /\ encoder = [born |-> 0, since |-> 0, force |-> FALSE, sound |-> TRUE]
      /\ wrote = [key |-> TRUE, born |-> 0, asked |-> FALSE, of |-> 0, shows |-> {}]
      /\ owed = FALSE /\ idrFlag = FALSE /\ grid \in Grids
  BY DEF PictureInit, NewEncoder, NoUnit
<1>2. 0 \in 0 .. 1 /\ 0 \in 0 .. IPeriod - 1
  BY PeriodAssumption
<1>3. encoder \in [born : 0 .. 1, since : 0 .. IPeriod - 1, force : BOOLEAN, sound : BOOLEAN]
  BY <1>1, <1>2
<1>4. wrote \in [key : BOOLEAN, born : 0 .. 1, asked : BOOLEAN, of : 0 .. 1,
                shows : SUBSET Grids]
  BY <1>1, <1>2
<1>5. EncoderOK
  BY <1>1, <1>3, <1>4 DEF EncoderOK, PictureInit
<1>6. encoder.since = 0 /\ wrote.asked = FALSE /\ wrote.key = TRUE
  BY <1>1
<1>7. FailedIsUnsound
  BY DEF PictureInit, FailedIsUnsound
<1> QED
  BY <1>1, <1>5, <1>6, <1>7 DEF PictureInv, RequestKnown, OneEncoderPerPeriod, JoinableWhereAsked

(* The unit written, and the encoder after it.                             *)
LEMMA WritesInv == PictureInv /\ WritesUnit => PictureInv'
<1> SUFFICES ASSUME PictureInv, WritesUnit PROVE PictureInv'
  OBVIOUS
<1> USE PeriodAssumption DEF PictureInv, EncoderOK, WritesUnit
<1>1. wrote' = [key |-> Key, born |-> encoder.born, asked |-> owed,
                of |-> wrote.born, shows |-> {grid}]
  OBVIOUS
<1>2. /\ encoder'.born = encoder.born /\ encoder'.force = FALSE
      /\ encoder'.since \in 0 .. IPeriod - 1
      /\ encoder' \in [born : 0 .. 1, since : 0 .. IPeriod - 1, force : BOOLEAN, sound : BOOLEAN]
  <2>1. 1 % IPeriod \in 0 .. IPeriod - 1 /\ (encoder.since + 1) % IPeriod \in 0 .. IPeriod - 1
    OBVIOUS
  <2> QED
    BY <2>1
<1>3. Key \in BOOLEAN
  BY DEF Key
<1>4. EncoderOK'
  BY <1>1, <1>2, <1>3
<1>8. FailedIsUnsound'
  BY DEF FailedIsUnsound
<1>5. RequestKnown'
  BY DEF RequestKnown
<1>6. OneEncoderPerPeriod'
  BY <1>1, <1>2 DEF OneEncoderPerPeriod
<1>7. JoinableWhereAsked'
  <2>1. /\ wrote'.asked = owed /\ wrote'.key = Key
        /\ wrote'.of = wrote.born /\ wrote'.born = encoder.born
    BY <1>1
  <2>2. owed => Key
    BY DEF RequestKnown
  <2>3. Key \/ encoder.since # 0
    BY DEF Key
  <2>4. Key \/ wrote.born = encoder.born
    BY <2>3 DEF OneEncoderPerPeriod
  <2> QED
    BY <2>1, <2>2, <2>4 DEF JoinableWhereAsked
<1> QED
  BY <1>4, <1>5, <1>6, <1>7, <1>8

LEMMA PictureNextInv == PictureInv /\ [PictureNext]_pictureVars => PictureInv'
<1> SUFFICES ASSUME PictureInv, [PictureNext]_pictureVars PROVE PictureInv'
  OBVIOUS
<1> USE PeriodAssumption DEF PictureInv, EncoderOK, RequestKnown, OneEncoderPerPeriod,
                             JoinableWhereAsked, FailedIsUnsound, Key
<1>1. CASE GridStored \/ IFrameCmd
  <2>1. UNCHANGED <<params, encThread, encoder, wrote, owed>>
    BY <1>1 DEF GridStored, IFrameCmd
  <2>2. grid' \in Grids /\ idrFlag' \in BOOLEAN
    BY <1>1 DEF GridStored, IFrameCmd
  <2> QED
    BY <2>1, <2>2
<1>7. CASE TurnStops \/ Panics
  BY <1>7 DEF TurnStops, Panics
<1>8. CASE SkipsUnit
  BY <1>8 DEF SkipsUnit
<1>9. CASE EncodeFails
  BY <1>9 DEF EncodeFails
<1>2. CASE TurnTakes
  BY <1>2 DEF TurnTakes
<1>3. CASE WritesUnit
  BY <1>3, WritesInv
<1>4. CASE Recreates
  BY <1>4 DEF Recreates, NewEncoder
<1>5. CASE RecreateFails
  BY <1>5 DEF RecreateFails
<1>6. CASE UNCHANGED pictureVars
  BY <1>6 DEF pictureVars
<1> QED
  BY <1>1, <1>2, <1>3, <1>4, <1>5, <1>6, <1>7, <1>8, <1>9 DEF PictureNext

(* The first unit after a key frame was asked for is one, through failures *)
(* of the encoder, and no unit refers to one of an encoder that is gone    *)
(* (encode_loop in src/src/thermal/gb_stream.rs).                          *)
THEOREM JoinableAlways == PictureSpec => []JoinableWhereAsked
<1>1. PictureInv => JoinableWhereAsked
  BY DEF PictureInv
<1> QED
  BY PictureInitInv, PictureNextInv, <1>1, PTL DEF PictureSpec

(***************************************************************************)
(* PlayerSound for any number of engines, players, connections, faults and *)
(* failures to give up after.  The functions of startMse are functions of  *)
(* one engine's state, so the invariant is one of each engine by itself    *)
(* (Engine), and each function has a lemma that says what it makes of one. *)
(***************************************************************************)
Sources == {"none", "opening", "open"}
Buffers == {"none", "live", "gone"}
EngineRecord ==
  [dead : BOOLEAN, failures : Int, refetching : BOOLEAN, refetches : Int,
   rebuilds : Int, stall : BOOLEAN, watchdog : BOOLEAN, ms : Sources,
   fn : {None} \cup Closures, sb : [Closures -> Buffers],
   conns : [Conns -> {None} \cup Closures], abort : {None} \cup Conns,
   giving : BOOLEAN, gaveUp : BOOLEAN, mixed : BOOLEAN]

OpenOf(s) == {c \in Conns : s.conns[c] # None}
Lost(s) == s.gaveUp \/ s.giving

(* At most one refetch is due, and the flag says so.                       *)
RefetchDue(s) ==
  /\ s.refetches \in 0..1 /\ s.rebuilds >= 0
  /\ s.refetches = 1 => s.refetching
  /\ s.refetching /\ ~Lost(s) => s.refetches = 1

(* Until a recovery crosses another: `abort` reaches the connection there  *)
(* is, and there is none while a recovery is due or a player opens.        *)
Apart(s) ==
  ~s.mixed =>
    /\ OpenOf(s) \subseteq {s.abort} \ {None}
    /\ s.dead => OpenOf(s) = {} /\ ~s.stall /\ ~s.watchdog /\ s.ms = "none"
    /\ s.rebuilds <= 1
    /\ s.rebuilds > 0 => s.refetches = 0 /\ s.ms = "none"
    /\ s.refetches > 0 => s.ms # "opening"
    /\ (s.rebuilds > 0 \/ s.refetches > 0 \/ s.ms = "opening") => OpenOf(s) = {}

(* Something is pending, and a player that never opened is still to open.  *)
Tries(s) ==
  ~s.dead /\ ~Lost(s) =>
    s.stall \/ s.refetches > 0 \/ s.rebuilds > 0 \/ s.ms = "opening"
Opens(s) == ~s.dead /\ ~Lost(s) /\ s.fn = None => s.ms = "opening" \/ s.rebuilds > 0

Base(s) == s \in EngineRecord /\ RefetchDue(s) /\ Apart(s) /\ Opens(s)
Engine(s) == Base(s) /\ Tries(s)

-----------------------------------------------------------------------------
(* What the functions of startMse make of an engine.                       *)

LEMMA AbortMakes ==
  ASSUME NEW s \in EngineRecord
  PROVE  LET r == AbortFetch(s) IN
         /\ r \in EngineRecord /\ OpenOf(r) \subseteq OpenOf(s)
         /\ OpenOf(s) \subseteq {s.abort} \ {None} => OpenOf(r) = {}
         /\ r.dead = s.dead /\ r.refetching = s.refetching /\ r.refetches = s.refetches
         /\ r.rebuilds = s.rebuilds /\ r.stall = s.stall /\ r.watchdog = s.watchdog
         /\ r.ms = s.ms /\ r.fn = s.fn /\ r.giving = s.giving /\ r.gaveUp = s.gaveUp
         /\ r.mixed = s.mixed
<1>1. CASE s.abort = None
  BY <1>1 DEF AbortFetch, OpenOf
<1>2. CASE s.abort # None
  <2> DEFINE r == [s EXCEPT !.conns[s.abort] = None, !.abort = None]
  <2>1. AbortFetch(s) = r
    BY <1>2 DEF AbortFetch
  <2>2. /\ s.conns \in [Conns -> {None} \cup Closures] /\ s.abort \in Conns
        /\ r.conns = [s.conns EXCEPT ![s.abort] = None]
    BY <1>2 DEF EngineRecord
  <2>3. /\ r.dead = s.dead /\ r.refetching = s.refetching /\ r.refetches = s.refetches
        /\ r.rebuilds = s.rebuilds /\ r.stall = s.stall /\ r.watchdog = s.watchdog
        /\ r.ms = s.ms /\ r.fn = s.fn /\ r.giving = s.giving /\ r.gaveUp = s.gaveUp
        /\ r.mixed = s.mixed
    BY DEF EngineRecord
  <2>4. r \in EngineRecord
    BY <1>2, <2>2 DEF EngineRecord
  <2>5. \A c \in Conns : r.conns[c] # None => s.conns[c] # None /\ c # s.abort
    BY <2>2
  <2> HIDE DEF r
  <2> QED
    BY <2>1, <2>3, <2>4, <2>5 DEF OpenOf
<1> QED
  BY <1>1, <1>2

LEMMA DestroyMakes ==
  ASSUME NEW s \in EngineRecord
  PROVE  LET r == DestroyPlayer(s) IN
         /\ r \in EngineRecord /\ OpenOf(r) = OpenOf(s) /\ r.abort = s.abort
         /\ r.dead = s.dead /\ r.refetching = s.refetching /\ r.refetches = s.refetches
         /\ r.rebuilds = s.rebuilds /\ r.stall = FALSE /\ r.watchdog = FALSE
         /\ r.ms = "none" /\ r.fn = s.fn /\ r.giving = s.giving /\ r.gaveUp = s.gaveUp
         /\ r.mixed = s.mixed
<1> DEFINE b == [k \in Closures |-> IF s.sb[k] = "live" THEN "gone" ELSE s.sb[k]]
           r == [[s EXCEPT !.sb = b] EXCEPT !.stall = FALSE, !.watchdog = FALSE, !.ms = "none"]
<1>1. DestroyPlayer(s) = r
  BY DEF DestroyPlayer, Detached
<1>2. b \in [Closures -> Buffers]
  BY DEF EngineRecord, Buffers
<1> HIDE DEF b
<1>3. r \in EngineRecord
  BY <1>2 DEF EngineRecord, Sources
<1>4. /\ r.conns = s.conns /\ r.abort = s.abort
      /\ r.dead = s.dead /\ r.refetching = s.refetching /\ r.refetches = s.refetches
      /\ r.rebuilds = s.rebuilds /\ r.stall = FALSE /\ r.watchdog = FALSE
      /\ r.ms = "none" /\ r.fn = s.fn /\ r.giving = s.giving /\ r.gaveUp = s.gaveUp
      /\ r.mixed = s.mixed
  BY DEF EngineRecord
<1> HIDE DEF r
<1> QED
  BY <1>1, <1>3, <1>4 DEF OpenOf

LEMMA BuildMakes ==
  ASSUME NEW s \in EngineRecord
  PROVE  LET r == BuildPlayer(s) IN
         /\ r \in EngineRecord /\ OpenOf(r) = OpenOf(s) /\ r.abort = s.abort
         /\ r.dead = s.dead /\ r.refetching = s.refetching /\ r.refetches = s.refetches
         /\ r.rebuilds = s.rebuilds /\ r.stall = TRUE
         /\ r.ms = "opening" /\ r.fn = s.fn /\ r.giving = s.giving /\ r.gaveUp = s.gaveUp
         /\ r.mixed = s.mixed
<1> DEFINE b == [k \in Closures |-> IF s.sb[k] = "live" THEN "gone" ELSE s.sb[k]]
           r == [[s EXCEPT !.sb = b] EXCEPT !.stall = TRUE, !.watchdog = TRUE, !.ms = "opening"]
<1>1. BuildPlayer(s) = r
  BY DEF BuildPlayer, Detached
<1>2. b \in [Closures -> Buffers]
  BY DEF EngineRecord, Buffers
<1> HIDE DEF b
<1>3. r \in EngineRecord
  BY <1>2 DEF EngineRecord, Sources
<1>4. /\ r.conns = s.conns /\ r.abort = s.abort
      /\ r.dead = s.dead /\ r.refetching = s.refetching /\ r.refetches = s.refetches
      /\ r.rebuilds = s.rebuilds /\ r.stall = TRUE
      /\ r.ms = "opening" /\ r.fn = s.fn /\ r.giving = s.giving /\ r.gaveUp = s.gaveUp
      /\ r.mixed = s.mixed
  BY DEF EngineRecord
<1> HIDE DEF r
<1> QED
  BY <1>1, <1>3, <1>4 DEF OpenOf

LEMMA FailedMakes ==
  ASSUME NEW s \in EngineRecord
  PROVE  LET r == Failed(s) IN
         /\ r \in EngineRecord /\ OpenOf(r) = OpenOf(s) /\ r.abort = s.abort
         /\ r.dead = s.dead /\ r.refetching = s.refetching /\ r.refetches = s.refetches
         /\ r.rebuilds = s.rebuilds /\ r.stall = s.stall /\ r.watchdog = s.watchdog
         /\ r.ms = s.ms /\ r.fn = s.fn /\ r.giving = s.giving /\ r.gaveUp = s.gaveUp
         /\ r.mixed = s.mixed
<1> DEFINE n == IF s.failures > GiveUpAfter THEN s.failures ELSE s.failures + 1
           r == [s EXCEPT !.failures = n]
<1>1. Failed(s) = r
  BY DEF Failed
<1>2. n \in Int
  BY PlayerAssumption DEF EngineRecord
<1> HIDE DEF n
<1>3. r \in EngineRecord
  BY <1>2 DEF EngineRecord
<1>4. /\ r.conns = s.conns /\ r.abort = s.abort
      /\ r.dead = s.dead /\ r.refetching = s.refetching /\ r.refetches = s.refetches
      /\ r.rebuilds = s.rebuilds /\ r.stall = s.stall /\ r.watchdog = s.watchdog
      /\ r.ms = s.ms /\ r.fn = s.fn /\ r.giving = s.giving /\ r.gaveUp = s.gaveUp
      /\ r.mixed = s.mixed
  BY DEF EngineRecord
<1> HIDE DEF r
<1> QED
  BY <1>1, <1>3, <1>4 DEF OpenOf

LEMMA EndedMakes ==
  ASSUME NEW s \in EngineRecord, NEW c \in Conns
  PROVE  LET r == Ended(s, c) IN
         /\ r \in EngineRecord /\ OpenOf(r) = OpenOf(s) \ {c}
         /\ r.abort = IF s.abort = c THEN None ELSE s.abort
         /\ r.dead = s.dead /\ r.refetching = s.refetching /\ r.refetches = s.refetches
         /\ r.rebuilds = s.rebuilds /\ r.stall = s.stall /\ r.watchdog = s.watchdog
         /\ r.ms = s.ms /\ r.fn = s.fn /\ r.giving = s.giving /\ r.gaveUp = s.gaveUp
         /\ r.mixed = s.mixed
<1> DEFINE a == IF s.abort = c THEN None ELSE s.abort
           r == [s EXCEPT !.conns[c] = None, !.abort = a]
<1>1. Ended(s, c) = r
  BY DEF Ended, EngineRecord
<1>2. a \in {None} \cup Conns
  BY DEF EngineRecord
<1> HIDE DEF a
<1>3. /\ s.conns \in [Conns -> {None} \cup Closures]
      /\ r.conns = [s.conns EXCEPT ![c] = None]
  BY DEF EngineRecord
<1>4. r \in EngineRecord
  BY <1>2, <1>3 DEF EngineRecord
<1>5. /\ r.abort = a
      /\ r.dead = s.dead /\ r.refetching = s.refetching /\ r.refetches = s.refetches
      /\ r.rebuilds = s.rebuilds /\ r.stall = s.stall /\ r.watchdog = s.watchdog
      /\ r.ms = s.ms /\ r.fn = s.fn /\ r.giving = s.giving /\ r.gaveUp = s.gaveUp
      /\ r.mixed = s.mixed
  BY DEF EngineRecord
<1>6. \A d \in Conns : r.conns[d] # None <=> s.conns[d] # None /\ d # c
  BY <1>3
<1> HIDE DEF r
<1> QED
  BY <1>1, <1>4, <1>5, <1>6 DEF OpenOf, a

LEMMA FetchMakes ==
  ASSUME NEW s \in EngineRecord, NEW k \in Closures, CanFetch(s)
  PROVE  LET r == FetchStream(s, k) IN
         \E c \in Conns :
           /\ r \in EngineRecord /\ OpenOf(r) = OpenOf(s) \cup {c} /\ r.abort = c
           /\ r.dead = s.dead /\ r.refetching = s.refetching /\ r.refetches = s.refetches
           /\ r.rebuilds = s.rebuilds /\ r.stall = TRUE /\ r.watchdog = s.watchdog
           /\ r.ms = s.ms /\ r.fn = s.fn /\ r.giving = s.giving /\ r.gaveUp = s.gaveUp
           /\ r.mixed = s.mixed
<1> DEFINE c == CHOOSE d \in Conns : s.conns[d] = None
           r == [s EXCEPT !.conns[c] = k, !.abort = c, !.stall = TRUE]
<1>1. c \in Conns
  BY DEF CanFetch
<1>2. FetchStream(s, k) = r
  BY DEF FetchStream
<1> HIDE DEF c
<1>3. /\ s.conns \in [Conns -> {None} \cup Closures]
      /\ r.conns = [s.conns EXCEPT ![c] = k]
  BY DEF EngineRecord
<1>4. r \in EngineRecord
  BY <1>1, <1>3 DEF EngineRecord
<1>5. /\ r.abort = c
      /\ r.dead = s.dead /\ r.refetching = s.refetching /\ r.refetches = s.refetches
      /\ r.rebuilds = s.rebuilds /\ r.stall = TRUE /\ r.watchdog = s.watchdog
      /\ r.ms = s.ms /\ r.fn = s.fn /\ r.giving = s.giving /\ r.gaveUp = s.gaveUp
      /\ r.mixed = s.mixed
  BY DEF EngineRecord
<1>6. k # None
  BY DEF None, Closures
<1>7. \A d \in Conns : r.conns[d] # None <=> s.conns[d] # None \/ d = c
  BY <1>1, <1>3, <1>6
<1> HIDE DEF r
<1> QED
  BY <1>1, <1>2, <1>4, <1>5, <1>7 DEF OpenOf

-----------------------------------------------------------------------------
(* What they keep of the invariant.                                        *)

LEMMA EngineFacts ==
  ASSUME NEW s \in EngineRecord
  PROVE  /\ s.dead \in BOOLEAN /\ s.refetching \in BOOLEAN /\ s.stall \in BOOLEAN
         /\ s.watchdog \in BOOLEAN /\ s.giving \in BOOLEAN /\ s.gaveUp \in BOOLEAN
         /\ s.mixed \in BOOLEAN /\ s.refetches \in Int /\ s.rebuilds \in Int
         /\ s.ms \in Sources /\ s.fn \in {None} \cup Closures
         /\ s.abort \in {None} \cup Conns
BY DEF EngineRecord

\* Something that changes none of what the invariant speaks of.
LEMMA SameEngine ==
  ASSUME NEW s, NEW r \in EngineRecord, OpenOf(r) = OpenOf(s), r.abort = s.abort,
         r.dead = s.dead, r.refetching = s.refetching, r.refetches = s.refetches,
         r.rebuilds = s.rebuilds, r.ms = s.ms, r.fn = s.fn, r.gaveUp = s.gaveUp,
         s.giving => r.giving, r.mixed = s.mixed, Base(s),
         r.stall = s.stall \/ (r.stall = FALSE) \/ OpenOf(s) # {} \/ ~s.dead,
         r.watchdog = s.watchdog
  PROVE  Base(r) /\ (Tries(s) /\ (s.stall => r.stall) => Tries(r))
<1>1. RefetchDue(r)
  BY DEF Base, RefetchDue, Lost
<1>2. Apart(r)
  BY DEF Base, Apart
<1>3. Opens(r)
  BY DEF Base, Opens, Lost
<1>4. Tries(s) /\ (s.stall => r.stall) => Tries(r)
  BY DEF Tries, Lost
<1> QED
  BY <1>1, <1>2, <1>3, <1>4 DEF Base

LEMMA EndedKeeps ==
  ASSUME NEW s, Base(s), NEW c \in Conns
  PROVE  Base(Ended(s, c)) /\ (Tries(s) => Tries(Ended(s, c)))
<1> DEFINE r == Ended(s, c)
<1>1. /\ r \in EngineRecord /\ OpenOf(r) = OpenOf(s) \ {c}
      /\ r.abort = IF s.abort = c THEN None ELSE s.abort
      /\ r.dead = s.dead /\ r.refetching = s.refetching /\ r.refetches = s.refetches
      /\ r.rebuilds = s.rebuilds /\ r.stall = s.stall /\ r.watchdog = s.watchdog
      /\ r.ms = s.ms /\ r.fn = s.fn /\ r.giving = s.giving /\ r.gaveUp = s.gaveUp
      /\ r.mixed = s.mixed
  BY EndedMakes DEF Base
<1> HIDE DEF r
<1>2. RefetchDue(r) /\ Opens(r) /\ (Tries(s) => Tries(r))
  BY <1>1 DEF Base, RefetchDue, Opens, Tries, Lost
<1>3. Apart(r)
  BY <1>1 DEF Base, Apart
<1> QED
  BY <1>1, <1>2, <1>3 DEF Base, r

LEMMA RefetchKeeps ==
  ASSUME NEW s, Base(s), ~s.giving
  PROVE  Engine(Refetch(s)) /\ (s.gaveUp => Refetch(s).gaveUp)
         /\ Refetch(s).dead = s.dead /\ Refetch(s).gaveUp = s.gaveUp
<1> USE DEF Base
<1>1. CASE s.dead \/ s.refetching
  <2>1. Refetch(s) = s
    BY <1>1 DEF Refetch
  <2>2. Tries(s)
    BY <1>1, EngineFacts DEF Tries, RefetchDue, Lost
  <2> QED
    BY <2>1, <2>2 DEF Engine
<1>2. CASE ~s.dead /\ ~s.refetching
  <2> DEFINE a == AbortFetch(s)
             b == Failed(a)
             m0 == b.mixed \/ s.ms # "open"
             f == [b EXCEPT !.refetching = TRUE, !.stall = FALSE, !.mixed = m0]
  <2>1. /\ a \in EngineRecord /\ OpenOf(a) \subseteq OpenOf(s)
        /\ OpenOf(s) \subseteq {s.abort} \ {None} => OpenOf(a) = {}
        /\ a.dead = s.dead /\ a.refetching = s.refetching /\ a.refetches = s.refetches
        /\ a.rebuilds = s.rebuilds
        /\ a.ms = s.ms /\ a.fn = s.fn /\ a.giving = s.giving /\ a.gaveUp = s.gaveUp
        /\ a.mixed = s.mixed
    BY AbortMakes
  <2>2. Refetch(s) = IF f.failures > GiveUpAfter THEN [f EXCEPT !.giving = TRUE]
                     ELSE [f EXCEPT !.refetches = f.refetches + 1]
    BY <1>2 DEF Refetch
  <2> HIDE DEF a
  <2>3. /\ b \in EngineRecord /\ OpenOf(b) = OpenOf(a)
        /\ b.dead = a.dead /\ b.refetching = a.refetching /\ b.refetches = a.refetches
        /\ b.rebuilds = a.rebuilds
        /\ b.ms = a.ms /\ b.fn = a.fn /\ b.giving = a.giving /\ b.gaveUp = a.gaveUp
        /\ b.mixed = a.mixed
    BY <2>1, FailedMakes
  <2> HIDE DEF b
  <2>4. /\ f \in EngineRecord /\ f.conns = b.conns /\ f.mixed = m0
        /\ f.dead = b.dead /\ f.refetching = TRUE /\ f.refetches = b.refetches
        /\ f.rebuilds = b.rebuilds /\ f.ms = b.ms /\ f.fn = b.fn /\ f.giving = b.giving
        /\ f.gaveUp = b.gaveUp
    BY ZenonT(60), <2>3 DEF EngineRecord
  <2>5. OpenOf(f) = OpenOf(a)
    BY <2>3, <2>4 DEF OpenOf
  <2>6. /\ f \in EngineRecord /\ (~f.mixed => ~s.mixed /\ s.ms = "open" /\ OpenOf(f) = {})
        /\ f.dead = FALSE /\ f.refetching = TRUE /\ f.refetches = s.refetches
        /\ f.rebuilds = s.rebuilds /\ f.ms = s.ms /\ f.fn = s.fn /\ f.giving = FALSE
        /\ f.gaveUp = s.gaveUp
    <3>1. ~f.mixed => ~s.mixed /\ s.ms = "open"
      BY <2>1, <2>3, <2>4
    <3>2. ~s.mixed => OpenOf(a) = {}
      BY <2>1 DEF Apart
    <3>3. f.dead = FALSE /\ f.giving = FALSE
      BY <1>2, <2>1, <2>3, <2>4, EngineFacts
    <3> QED
      BY <2>1, <2>3, <2>4, <2>5, <3>1, <3>2, <3>3
  <2> HIDE DEF f
  <2>7. s.refetches = 0 /\ s.rebuilds \in Int /\ s.rebuilds >= 0
    BY <1>2, EngineFacts DEF RefetchDue
  <2>8. CASE f.failures > GiveUpAfter
    <3> DEFINE r == [f EXCEPT !.giving = TRUE]
    <3>1. /\ r \in EngineRecord /\ r.conns = f.conns /\ r.mixed = f.mixed
          /\ r.dead = FALSE /\ r.refetches = 0
          /\ r.rebuilds = s.rebuilds /\ r.ms = s.ms /\ r.giving = TRUE /\ r.gaveUp = s.gaveUp
      BY <2>6, <2>7 DEF EngineRecord
    <3>2. OpenOf(r) = OpenOf(f)
      BY <3>1 DEF OpenOf
    <3>3. Refetch(s) = r
      BY <2>2, <2>8
    <3> HIDE DEF r
    <3>4. RefetchDue(r) /\ Opens(r) /\ Tries(r)
      BY <2>7, <3>1 DEF RefetchDue, Opens, Tries, Lost
    <3>5. Apart(r)
      BY <2>6, <2>7, <3>1, <3>2, EngineFacts DEF Apart
    <3> QED
      BY <1>2, <3>1, <3>3, <3>4, <3>5, EngineFacts DEF Engine
  <2>9. CASE ~(f.failures > GiveUpAfter)
    <3> DEFINE r == [f EXCEPT !.refetches = f.refetches + 1]
    <3>1. /\ r \in EngineRecord /\ r.conns = f.conns /\ r.mixed = f.mixed
          /\ r.dead = FALSE /\ r.refetches = 1 /\ r.refetching = TRUE /\ r.fn = s.fn
          /\ r.rebuilds = s.rebuilds /\ r.ms = s.ms /\ r.giving = FALSE /\ r.gaveUp = s.gaveUp
      BY <2>6, <2>7 DEF EngineRecord
    <3>2. OpenOf(r) = OpenOf(f)
      BY <3>1 DEF OpenOf
    <3>3. Refetch(s) = r
      BY <2>2, <2>9
    <3> HIDE DEF r
    <3>4. RefetchDue(r) /\ Tries(r)
      BY <2>7, <3>1 DEF RefetchDue, Tries, Lost
    <3>5. Opens(r)
      BY <1>2, <3>1 DEF Opens, Lost
    <3>6. Apart(r)
      BY <2>6, <2>7, <3>1, <3>2, EngineFacts DEF Apart, Sources
    <3> QED
      BY <1>2, <3>1, <3>3, <3>4, <3>5, <3>6, EngineFacts DEF Engine
  <2> QED
    BY <2>8, <2>9
<1> QED
  BY <1>1, <1>2, EngineFacts

LEMMA HardReconnectKeeps ==
  ASSUME NEW s, Base(s), ~s.giving, ~s.dead
  PROVE  Engine(HardReconnect(s)) /\ HardReconnect(s).dead = s.dead
         /\ HardReconnect(s).gaveUp = s.gaveUp
<1> USE DEF Base
<1> DEFINE a == AbortFetch(s)
           d == DestroyPlayer(a)
           f == Failed(d)
           m == f.mixed \/ s.refetches > 0 \/ s.rebuilds > 0
<1>1. /\ a \in EngineRecord
      /\ OpenOf(s) \subseteq {s.abort} \ {None} => OpenOf(a) = {}
      /\ a.dead = s.dead /\ a.refetching = s.refetching /\ a.refetches = s.refetches
      /\ a.rebuilds = s.rebuilds /\ a.fn = s.fn /\ a.giving = s.giving
      /\ a.gaveUp = s.gaveUp /\ a.mixed = s.mixed
  BY AbortMakes
<1>2. HardReconnect(s) = IF f.failures > GiveUpAfter THEN [f EXCEPT !.giving = TRUE]
                         ELSE [f EXCEPT !.rebuilds = f.rebuilds + 1, !.mixed = m]
  BY DEF HardReconnect
<1> HIDE DEF a
<1>3. /\ d \in EngineRecord /\ OpenOf(d) = OpenOf(a)
      /\ d.dead = a.dead /\ d.refetching = a.refetching /\ d.refetches = a.refetches
      /\ d.rebuilds = a.rebuilds /\ d.ms = "none" /\ d.fn = a.fn /\ d.giving = a.giving
      /\ d.gaveUp = a.gaveUp /\ d.mixed = a.mixed
  BY <1>1, DestroyMakes
<1> HIDE DEF d
<1>4. /\ f \in EngineRecord /\ OpenOf(f) = OpenOf(a)
      /\ f.dead = FALSE /\ f.refetching = s.refetching /\ f.refetches = s.refetches
      /\ f.rebuilds = s.rebuilds /\ f.ms = "none" /\ f.fn = s.fn /\ f.giving = FALSE
      /\ f.gaveUp = s.gaveUp /\ f.mixed = s.mixed
  BY <1>1, <1>3, FailedMakes, EngineFacts
<1>5. ~s.mixed => OpenOf(f) = {}
  BY <1>1, <1>4 DEF Apart
<1>6. s.rebuilds \in Int /\ s.rebuilds >= 0 /\ s.refetches \in 0..1 /\ s.refetches \in Int
  BY EngineFacts DEF RefetchDue
<1> HIDE DEF f
<1>7. CASE f.failures > GiveUpAfter
  <2> DEFINE r == [f EXCEPT !.giving = TRUE]
  <2>1. /\ r \in EngineRecord /\ r.conns = f.conns /\ r.mixed = s.mixed
        /\ r.dead = FALSE /\ r.refetches = s.refetches /\ r.refetching = s.refetching
        /\ r.rebuilds = s.rebuilds /\ r.ms = "none" /\ r.giving = TRUE /\ r.gaveUp = s.gaveUp
    BY <1>4 DEF EngineRecord
  <2>2. OpenOf(r) = OpenOf(f)
    BY <2>1 DEF OpenOf
  <2>3. HardReconnect(s) = r
    BY <1>2, <1>7
  <2> HIDE DEF r
  <2>4. RefetchDue(r) /\ Opens(r) /\ Tries(r)
    BY <2>1 DEF RefetchDue, Opens, Tries, Lost
  <2>5. Apart(r)
    BY <1>5, <2>1, <2>2 DEF Apart
  <2> QED
    BY <2>1, <2>3, <2>4, <2>5, EngineFacts DEF Engine
<1>8. CASE ~(f.failures > GiveUpAfter)
  <2> DEFINE r == [f EXCEPT !.rebuilds = f.rebuilds + 1, !.mixed = m]
  <2>1. m \in BOOLEAN /\ f.rebuilds + 1 \in Int
    BY <1>4, <1>6, EngineFacts
  <2>2. ~m => ~s.mixed /\ ~(s.refetches > 0) /\ ~(s.rebuilds > 0)
    BY <1>4
  <2> HIDE DEF m
  <2>3. /\ r \in EngineRecord /\ r.conns = f.conns /\ r.mixed = m
        /\ r.dead = FALSE /\ r.refetches = s.refetches /\ r.refetching = s.refetching
        /\ r.rebuilds = s.rebuilds + 1 /\ r.ms = "none" /\ r.giving = FALSE
        /\ r.gaveUp = s.gaveUp
    BY <1>4, <2>1 DEF EngineRecord
  <2>4. OpenOf(r) = OpenOf(f)
    BY <2>3 DEF OpenOf
  <2>5. HardReconnect(s) = r
    BY <1>2, <1>8
  <2> HIDE DEF r
  <2>6. RefetchDue(r) /\ Opens(r) /\ Tries(r)
    BY <1>6, <2>3, EngineFacts DEF RefetchDue, Opens, Tries, Lost
  <2>7. Apart(r)
    <3>1. ~(s.refetches > 0) /\ ~(s.rebuilds > 0) => s.refetches = 0 /\ s.rebuilds = 0
      BY <1>6
    <3>3. ~r.mixed => ~s.mixed /\ s.refetches = 0 /\ s.rebuilds = 0
      BY <2>2, <2>3, <3>1
    <3>2. ~r.mixed => OpenOf(r) = {}
      BY <1>5, <2>4, <3>3
    <3> QED
      BY <1>6, <2>3, <3>2, <3>3 DEF Apart
  <2> QED
    BY <2>3, <2>5, <2>6, <2>7, EngineFacts DEF Engine
<1> QED
  BY <1>7, <1>8

LEMMA StopKeeps ==
  ASSUME NEW s, Engine(s), ~s.giving
  PROVE  Engine(StopMse(s)) /\ StopMse(s).dead /\ ~StopMse(s).giving
         /\ StopMse(s).gaveUp = s.gaveUp
<1> USE DEF Engine, Base
<1> DEFINE a == AbortFetch(s)
           d == DestroyPlayer(a)
           r == [d EXCEPT !.dead = TRUE]
<1>1. /\ a \in EngineRecord
      /\ OpenOf(s) \subseteq {s.abort} \ {None} => OpenOf(a) = {}
      /\ a.refetching = s.refetching /\ a.refetches = s.refetches
      /\ a.rebuilds = s.rebuilds /\ a.fn = s.fn /\ a.giving = s.giving
      /\ a.gaveUp = s.gaveUp /\ a.mixed = s.mixed
  BY AbortMakes
<1>2. StopMse(s) = r
  BY DEF StopMse
<1> HIDE DEF a
<1>3. /\ d \in EngineRecord /\ OpenOf(d) = OpenOf(a)
      /\ d.refetching = a.refetching /\ d.refetches = a.refetches
      /\ d.rebuilds = a.rebuilds /\ d.ms = "none" /\ d.fn = a.fn /\ d.giving = a.giving
      /\ d.gaveUp = a.gaveUp /\ d.mixed = a.mixed /\ d.stall = FALSE /\ d.watchdog = FALSE
  BY <1>1, DestroyMakes
<1> HIDE DEF d
<1>4. /\ r \in EngineRecord /\ r.conns = d.conns /\ r.dead = TRUE
      /\ r.refetching = s.refetching /\ r.refetches = s.refetches
      /\ r.rebuilds = s.rebuilds /\ r.ms = "none" /\ r.giving = s.giving
      /\ r.gaveUp = s.gaveUp /\ r.mixed = s.mixed /\ r.stall = FALSE /\ r.watchdog = FALSE
  BY ZenonT(60), <1>1, <1>3 DEF EngineRecord
<1>5. OpenOf(r) = OpenOf(a)
  BY <1>3, <1>4 DEF OpenOf
<1> HIDE DEF r
<1>6. RefetchDue(r) /\ Opens(r) /\ Tries(r)
  BY <1>4 DEF RefetchDue, Opens, Tries, Lost
<1>7. Apart(r)
  BY <1>1, <1>4, <1>5 DEF Apart
<1> QED
  BY <1>2, <1>4, <1>6, <1>7, EngineFacts

\* A rebuild that was due builds a player.
LEMMA RebuildKeeps ==
  ASSUME NEW s, Engine(s), ~s.giving, ~s.dead, s.rebuilds > 0
  PROVE  LET r == BuildPlayer([s EXCEPT !.rebuilds = s.rebuilds - 1]) IN
         Engine(r) /\ r.dead = s.dead /\ r.giving = FALSE /\ r.gaveUp = s.gaveUp
<1> USE DEF Engine, Base
<1> DEFINE t == [s EXCEPT !.rebuilds = s.rebuilds - 1]
           r == BuildPlayer(t)
<1>1. s.rebuilds \in Int /\ s.refetches \in Int
  BY EngineFacts
<1>2. /\ t \in EngineRecord /\ t.conns = s.conns /\ t.abort = s.abort /\ t.dead = s.dead
      /\ t.refetching = s.refetching /\ t.refetches = s.refetches
      /\ t.rebuilds = s.rebuilds - 1 /\ t.giving = s.giving /\ t.gaveUp = s.gaveUp
      /\ t.mixed = s.mixed
  BY <1>1 DEF EngineRecord
<1>3. OpenOf(t) = OpenOf(s)
  BY <1>2 DEF OpenOf
<1> HIDE DEF t
<1>4. /\ r \in EngineRecord /\ OpenOf(r) = OpenOf(s) /\ r.abort = s.abort
      /\ r.dead = FALSE /\ r.refetching = s.refetching /\ r.refetches = s.refetches
      /\ r.rebuilds = s.rebuilds - 1 /\ r.stall = TRUE
      /\ r.ms = "opening" /\ r.giving = FALSE /\ r.gaveUp = s.gaveUp
      /\ r.mixed = s.mixed
  BY <1>2, <1>3, BuildMakes, EngineFacts
<1> HIDE DEF r
<1>5. RefetchDue(r) /\ Opens(r) /\ Tries(r)
  BY <1>1, <1>4 DEF RefetchDue, Opens, Tries, Lost
<1>6. Apart(r)
  BY <1>1, <1>4 DEF Apart
<1>7. r.dead = s.dead
  BY <1>4, EngineFacts
<1> QED
  BY <1>4, <1>5, <1>6, <1>7 DEF r, t

LEMMA RefetchOver ==
  ASSUME NEW s \in EngineRecord
  PROVE  LET t == [s EXCEPT !.refetches = 0, !.refetching = FALSE] IN
         /\ t \in EngineRecord /\ t.conns = s.conns /\ t.abort = s.abort /\ t.dead = s.dead
         /\ t.refetching = FALSE /\ t.refetches = 0 /\ t.fn = s.fn /\ t.ms = s.ms
         /\ t.rebuilds = s.rebuilds /\ t.giving = s.giving /\ t.gaveUp = s.gaveUp
         /\ t.mixed = s.mixed /\ t.stall = s.stall /\ t.watchdog = s.watchdog
<1> DEFINE a == [s EXCEPT !.refetches = 0]
           t == [a EXCEPT !.refetching = FALSE]
<1>1. a \in EngineRecord
  BY DEF EngineRecord
<1>2. /\ a.conns = s.conns /\ a.abort = s.abort /\ a.dead = s.dead
      /\ a.refetches = 0 /\ a.fn = s.fn /\ a.ms = s.ms
      /\ a.rebuilds = s.rebuilds /\ a.giving = s.giving /\ a.gaveUp = s.gaveUp
      /\ a.mixed = s.mixed /\ a.stall = s.stall /\ a.watchdog = s.watchdog
  BY DEF EngineRecord
<1>3. t = [s EXCEPT !.refetches = 0, !.refetching = FALSE]
  OBVIOUS
<1> HIDE DEF a
<1>4. /\ t.conns = a.conns /\ t.abort = a.abort /\ t.dead = a.dead
      /\ t.refetching = FALSE /\ t.refetches = a.refetches /\ t.fn = a.fn /\ t.ms = a.ms
      /\ t.rebuilds = a.rebuilds /\ t.giving = a.giving /\ t.gaveUp = a.gaveUp
      /\ t.mixed = a.mixed /\ t.stall = a.stall /\ t.watchdog = a.watchdog
  BY <1>1 DEF EngineRecord
<1>5. t \in EngineRecord
  BY <1>1 DEF EngineRecord
<1> HIDE DEF t
<1> QED
  BY <1>2, <1>3, <1>4, <1>5

\* A refetch that was due is over.
LEMMA RefetchEnds ==
  ASSUME NEW s, Engine(s), ~s.giving, s.refetches > 0
  PROVE  LET t == [s EXCEPT !.refetches = s.refetches - 1, !.refetching = FALSE] IN
         /\ Base(t) /\ t.dead = s.dead /\ t.giving = FALSE /\ t.gaveUp = s.gaveUp
         /\ t.refetches = 0 /\ t.fn = s.fn
         /\ ~t.mixed => t.rebuilds = 0 /\ t.ms # "opening" /\ OpenOf(t) = {}
         /\ s.dead \/ s.fn = None => Engine(t)
<1> USE DEF Engine, Base
<1> DEFINE t == [s EXCEPT !.refetches = s.refetches - 1, !.refetching = FALSE]
<1>1. s.rebuilds \in Int /\ s.refetches \in Int /\ s.refetches = 1 /\ s.rebuilds >= 0
  BY EngineFacts DEF RefetchDue
<1>2. /\ t \in EngineRecord /\ t.conns = s.conns /\ t.abort = s.abort /\ t.dead = s.dead
      /\ t.refetching = FALSE /\ t.refetches = 0 /\ t.fn = s.fn /\ t.ms = s.ms
      /\ t.rebuilds = s.rebuilds /\ t.giving = s.giving /\ t.gaveUp = s.gaveUp
      /\ t.mixed = s.mixed /\ t.stall = s.stall /\ t.watchdog = s.watchdog
  <2>1. s.refetches - 1 = 0
    BY <1>1
  <2>2. t = [s EXCEPT !.refetches = 0, !.refetching = FALSE]
    BY <2>1
  <2> HIDE DEF t
  <2> QED
    BY <2>2, RefetchOver
<1>3. OpenOf(t) = OpenOf(s)
  BY <1>2 DEF OpenOf
<1> HIDE DEF t
<1>4. RefetchDue(t) /\ Opens(t)
  BY <1>1, <1>2 DEF RefetchDue, Opens, Lost
<1>5. Apart(t)
  BY <1>1, <1>2, <1>3 DEF Apart
<1>6. s.dead \/ s.fn = None => Tries(t)
  BY <1>2 DEF Tries, Opens, Lost
<1>7. ~t.mixed => t.rebuilds = 0 /\ t.ms # "opening" /\ OpenOf(t) = {}
  BY <1>1, <1>2, <1>3 DEF Apart
<1>8. t.giving = FALSE
  BY <1>2, EngineFacts
<1> QED
  BY <1>2, <1>4, <1>5, <1>6, <1>7, <1>8 DEF t

\* A fetch begins.
LEMMA FetchKeeps ==
  ASSUME NEW s, Base(s), ~s.giving, NEW k \in Closures, CanFetch(s), s.fn # None,
         ~s.mixed => ~s.dead /\ OpenOf(s) = {} /\ s.refetches = 0 /\ s.rebuilds = 0 /\ s.ms # "opening"
  PROVE  LET r == FetchStream(s, k) IN
         Engine(r) /\ r.dead = s.dead /\ r.giving = FALSE /\ r.gaveUp = s.gaveUp
<1> USE DEF Engine, Base
<1> DEFINE r == FetchStream(s, k)
<1>1. PICK c \in Conns :
           /\ r \in EngineRecord /\ OpenOf(r) = OpenOf(s) \cup {c} /\ r.abort = c
           /\ r.dead = s.dead /\ r.refetching = s.refetching /\ r.refetches = s.refetches
           /\ r.rebuilds = s.rebuilds /\ r.stall = TRUE /\ r.watchdog = s.watchdog
           /\ r.ms = s.ms /\ r.fn = s.fn /\ r.giving = s.giving /\ r.gaveUp = s.gaveUp
           /\ r.mixed = s.mixed
  BY FetchMakes
<1> HIDE DEF r
<1>2. RefetchDue(r) /\ Opens(r) /\ Tries(r)
  BY <1>1 DEF RefetchDue, Opens, Tries, Lost
<1>3. c # None
  BY DEF Conns, None
<1>4. Apart(r)
  BY <1>1, <1>3 DEF Apart
<1>5. r.giving = FALSE
  BY <1>1, EngineFacts
<1> QED
  BY <1>1, <1>2, <1>4, <1>5 DEF r

-----------------------------------------------------------------------------
(* A callback of engine e: it becomes another engine, and gives up when the*)
(* function it calls says so.                                              *)

Moves(e) ==
  \E r : /\ Engine(r) /\ r.dead = engines[e].dead /\ r.gaveUp = engines[e].gaveUp
         /\ Becomes(e, r)

LEMMA PumpMoves ==
  ASSUME NEW e, NEW s, NEW k, NEW c \in {None} \cup Conns, Engine(s), ~s.giving,
         s.dead = engines[e].dead, s.gaveUp = engines[e].gaveUp, Pump(e, s, k, c)
  PROVE  Moves(e)
<1>1. CASE Becomes(e, IF s.dead /\ c # None THEN Ended(s, c) ELSE s)
  <2>1. CASE s.dead /\ c # None
    <3>1. c \in Conns
      BY <2>1
    <3>2. Engine(Ended(s, c)) /\ Ended(s, c).dead = s.dead /\ Ended(s, c).gaveUp = s.gaveUp
      BY <3>1, EndedKeeps, EndedMakes DEF Engine, Base
    <3> QED
      BY <1>1, <2>1, <3>2 DEF Moves
  <2>2. CASE ~(s.dead /\ c # None)
    BY <1>1, <2>2 DEF Moves
  <2> QED
    BY <2>1, <2>2
<1>2. CASE Becomes(e, [s EXCEPT !.failures = 0])
  <2> DEFINE r == [s EXCEPT !.failures = 0]
  <2>1. s \in EngineRecord /\ Base(s) /\ Tries(s)
    BY DEF Engine, Base
  <2>2. /\ r \in EngineRecord /\ r.conns = s.conns /\ r.abort = s.abort /\ r.dead = s.dead
        /\ r.refetching = s.refetching /\ r.refetches = s.refetches
        /\ r.rebuilds = s.rebuilds /\ r.ms = s.ms /\ r.fn = s.fn /\ r.giving = s.giving
        /\ r.gaveUp = s.gaveUp /\ r.mixed = s.mixed /\ r.stall = s.stall
        /\ r.watchdog = s.watchdog
    BY <2>1 DEF EngineRecord
  <2>3. OpenOf(r) = OpenOf(s)
    BY <2>2 DEF OpenOf
  <2> HIDE DEF r
  <2>4. Base(r) /\ Tries(r)
    BY <2>1, <2>2, <2>3, SameEngine
  <2> QED
    BY <1>2, <2>2, <2>4 DEF Moves, Engine, r
<1>3. CASE ~s.dead /\ Becomes(e, HardReconnect(s))
  BY <1>3, HardReconnectKeeps DEF Engine, Moves
<1> QED
  BY <1>1, <1>2, <1>3 DEF Pump

\* The stall timer starts over when a chunk arrives.
LEMMA ChunkArrives ==
  ASSUME NEW s, Engine(s), ~s.giving, OpenOf(s) # {}
  PROVE  LET t == [s EXCEPT !.stall = TRUE] IN
         /\ Engine(t) /\ ~t.giving /\ t.dead = s.dead /\ t.gaveUp = s.gaveUp
         /\ t.sb = s.sb /\ t.ms = s.ms
<1> DEFINE t == [s EXCEPT !.stall = TRUE]
<1>1. s \in EngineRecord /\ Base(s) /\ Tries(s)
  BY DEF Engine, Base
<1>2. /\ t \in EngineRecord /\ t.conns = s.conns /\ t.abort = s.abort /\ t.dead = s.dead
      /\ t.refetching = s.refetching /\ t.refetches = s.refetches
      /\ t.rebuilds = s.rebuilds /\ t.ms = s.ms /\ t.fn = s.fn /\ t.giving = s.giving
      /\ t.gaveUp = s.gaveUp /\ t.mixed = s.mixed /\ t.stall = TRUE /\ t.sb = s.sb
      /\ t.watchdog = s.watchdog
  BY <1>1 DEF EngineRecord
<1>3. OpenOf(t) = OpenOf(s)
  BY <1>2 DEF OpenOf
<1> HIDE DEF t
<1>4. Base(t) /\ Tries(t)
  BY <1>1, <1>2, <1>3, SameEngine DEF Tries
<1> QED
  BY <1>2, <1>4 DEF Engine, t

LEMMA ChunkMoves ==
  ASSUME NEW e, NEW c \in Conns, Engine(engines[e]), ~engines[e].giving, Chunk(e, c)
  PROVE  Moves(e)
<1> DEFINE s == engines[e]
           k == s.conns[c]
           t == [s EXCEPT !.stall = TRUE]
<1>1. k # None /\ k \in Closures /\ OpenOf(s) # {}
  BY DEF Chunk, Engine, Base, EngineRecord, OpenOf
<1>2. /\ Engine(t) /\ ~t.giving /\ t.dead = s.dead /\ t.gaveUp = s.gaveUp
      /\ t.sb = s.sb /\ t.ms = s.ms
  BY <1>1, ChunkArrives
<1>3. \/ Pump(e, [t EXCEPT !.sb[k] = "live"], k, c)
      \/ Becomes(e, [Ended(t, c) EXCEPT !.giving = TRUE])
      \/ Pump(e, t, k, c)
  BY DEF Chunk
<1> HIDE DEF t
<1>4. t \in EngineRecord /\ Base(t) /\ Tries(t)
  BY <1>2 DEF Engine, Base
<1>5. CASE Pump(e, [t EXCEPT !.sb[k] = "live"], k, c)
  <2> DEFINE r == [t EXCEPT !.sb[k] = "live"]
  <2>1. t.sb \in [Closures -> Buffers] /\ r.sb = [t.sb EXCEPT ![k] = "live"]
    BY <1>4 DEF EngineRecord
  <2>2. r.sb \in [Closures -> Buffers]
    BY <1>1, <2>1 DEF Buffers
  <2>3. /\ r \in EngineRecord /\ r.conns = t.conns /\ r.abort = t.abort /\ r.dead = t.dead
        /\ r.refetching = t.refetching /\ r.refetches = t.refetches
        /\ r.rebuilds = t.rebuilds /\ r.ms = t.ms /\ r.fn = t.fn /\ r.giving = t.giving
        /\ r.gaveUp = t.gaveUp /\ r.mixed = t.mixed /\ r.stall = t.stall
        /\ r.watchdog = t.watchdog
    BY <1>4, <2>1, <2>2 DEF EngineRecord
  <2>4. OpenOf(r) = OpenOf(t)
    BY <2>3 DEF OpenOf
  <2> HIDE DEF r
  <2>5. Engine(r) /\ ~r.giving
    BY <1>2, <1>4, <2>3, <2>4, SameEngine DEF Engine
  <2>6. r.dead = engines[e].dead /\ r.gaveUp = engines[e].gaveUp
    BY <1>2, <2>3
  <2>7. Pump(e, r, k, c)
    BY <1>5 DEF r
  <2> HIDE DEF k
  <2> QED
    BY <2>5, <2>6, <2>7, PumpMoves
<1>6. CASE Becomes(e, [Ended(t, c) EXCEPT !.giving = TRUE])
  <2> DEFINE u == Ended(t, c)
             r == [u EXCEPT !.giving = TRUE]
  <2>1. Base(u) /\ Tries(u) /\ u.dead = t.dead /\ u.gaveUp = t.gaveUp
    BY <1>4, EndedKeeps, EndedMakes
  <2> HIDE DEF u
  <2>2. u \in EngineRecord
    BY <2>1 DEF Base
  <2>3. /\ r \in EngineRecord /\ r.conns = u.conns /\ r.abort = u.abort /\ r.dead = u.dead
        /\ r.refetching = u.refetching /\ r.refetches = u.refetches
        /\ r.rebuilds = u.rebuilds /\ r.ms = u.ms /\ r.fn = u.fn /\ r.giving = TRUE
        /\ r.gaveUp = u.gaveUp /\ r.mixed = u.mixed /\ r.stall = u.stall
        /\ r.watchdog = u.watchdog
    BY <2>2 DEF EngineRecord
  <2>4. OpenOf(r) = OpenOf(u)
    BY <2>3 DEF OpenOf
  <2>5. Becomes(e, r)
    BY <1>6 DEF u
  <2> HIDE DEF r
  <2>6. Engine(r)
    BY <2>1, <2>3, <2>4, SameEngine DEF Engine
  <2> QED
    BY <1>2, <2>1, <2>3, <2>5, <2>6 DEF Moves
<1>7. CASE Pump(e, t, k, c)
  BY <1>2, <1>7, PumpMoves
<1> QED
  BY <1>3, <1>5, <1>6, <1>7

LEMMA SourceMoves ==
  ASSUME NEW e, Engine(engines[e]), ~engines[e].giving, SourceOpens(e)
  PROVE  Moves(e)
<1> DEFINE s == engines[e]
           unused == {k \in Closures : \A c \in Conns : s.conns[c] # k}
           k == CHOOSE k \in unused : TRUE
           m == s.mixed \/ s.refetches > 0
           u == [s EXCEPT !.ms = "open", !.fn = k, !.sb[k] = "none", !.mixed = m]
<1>1. /\ s.ms = "opening" /\ CanFetch(s) /\ unused # {}
      /\ Becomes(e, FetchStream(u, k))
  BY DEF SourceOpens
<1>2. k \in Closures
  BY <1>1
<1> HIDE DEF k
<1>3. s \in EngineRecord /\ RefetchDue(s) /\ Apart(s)
  BY DEF Engine, Base
<1>4. s.sb \in [Closures -> Buffers] /\ u.sb = [s.sb EXCEPT ![k] = "none"]
  BY <1>3 DEF EngineRecord
<1>5. u.sb \in [Closures -> Buffers] /\ m \in BOOLEAN /\ (~m => ~s.mixed /\ ~(s.refetches > 0))
  BY <1>2, <1>3, <1>4, EngineFacts DEF Buffers
<1> HIDE DEF m
<1>6. u \in EngineRecord
  BY <1>2, <1>3, <1>4, <1>5 DEF EngineRecord, Sources
<1>7. /\ u.conns = s.conns /\ u.abort = s.abort /\ u.dead = s.dead
      /\ u.refetching = s.refetching /\ u.refetches = s.refetches
      /\ u.rebuilds = s.rebuilds /\ u.ms = "open" /\ u.fn = k /\ u.giving = s.giving
      /\ u.gaveUp = s.gaveUp /\ u.mixed = m
  BY <1>3 DEF EngineRecord
<1>8. OpenOf(u) = OpenOf(s) /\ CanFetch(u)
  BY <1>1, <1>7 DEF OpenOf, CanFetch
<1>9. Becomes(e, FetchStream(u, k))
  BY <1>1
<1> HIDE DEF u
<1>10. s.refetches \in 0..1 /\ s.rebuilds >= 0 /\ s.rebuilds \in Int /\ s.refetches \in Int
  BY <1>3, EngineFacts DEF RefetchDue
<1>11. ~m => ~s.mixed /\ s.refetches = 0 /\ s.rebuilds = 0 /\ ~s.dead /\ OpenOf(s) = {}
  <2>1. ~(s.rebuilds > 0) => s.rebuilds = 0
    BY <1>10
  <2>2. ~(s.refetches > 0) => s.refetches = 0
    BY <1>10
  <2> QED
    BY <1>1, <1>3, <1>5, <2>1, <2>2 DEF Apart
<1>12. k # None
  BY <1>2 DEF Closures, None
<1>13. RefetchDue(u) /\ Opens(u)
  BY <1>3, <1>7, <1>12 DEF RefetchDue, Opens, Lost
<1>14. Apart(u)
  BY <1>7, <1>8, <1>11 DEF Apart
<1>15. /\ ~u.giving /\ u.fn # None
       /\ ~u.mixed => ~u.dead /\ OpenOf(u) = {} /\ u.refetches = 0 /\ u.rebuilds = 0
                      /\ u.ms # "opening"
  BY <1>7, <1>8, <1>11, <1>12
<1>16. Base(u)
  BY <1>6, <1>13, <1>14 DEF Base
<1>17. LET r == FetchStream(u, k) IN
       Engine(r) /\ r.dead = u.dead /\ r.giving = FALSE /\ r.gaveUp = u.gaveUp
  BY <1>2, <1>8, <1>15, <1>16, FetchKeeps
<1> QED
  BY <1>7, <1>9, <1>17 DEF Moves

LEMMA TimerMoves ==
  ASSUME NEW e, Engine(engines[e]), ~engines[e].giving,
         \/ StallFires(e) \/ WatchdogFires(e) \/ RefetchFires(e) \/ RebuildFires(e)
         \/ \E c \in Conns : ConnFails(e, c)
  PROVE  Moves(e)
<1> DEFINE s == engines[e]
<1>1. s \in EngineRecord /\ Base(s) /\ Tries(s) /\ RefetchDue(s)
  BY DEF Engine, Base
<1>2. CASE StallFires(e)
  <2> DEFINE t == [s EXCEPT !.stall = FALSE]
  <2>1. Becomes(e, Refetch(t))
    BY <1>2 DEF StallFires
  <2>2. /\ t \in EngineRecord /\ t.conns = s.conns /\ t.abort = s.abort /\ t.dead = s.dead
        /\ t.refetching = s.refetching /\ t.refetches = s.refetches
        /\ t.rebuilds = s.rebuilds /\ t.ms = s.ms /\ t.fn = s.fn /\ t.giving = s.giving
        /\ t.gaveUp = s.gaveUp /\ t.mixed = s.mixed /\ t.stall = FALSE
        /\ t.watchdog = s.watchdog
    BY <1>1 DEF EngineRecord
  <2>3. OpenOf(t) = OpenOf(s)
    BY <2>2 DEF OpenOf
  <2> HIDE DEF t
  <2>4. Base(t) /\ ~t.giving
    BY <1>1, <2>2, <2>3, SameEngine
  <2>5. Engine(Refetch(t)) /\ Refetch(t).dead = t.dead /\ Refetch(t).gaveUp = t.gaveUp
    BY <2>4, RefetchKeeps
  <2> QED
    BY <2>1, <2>2, <2>5 DEF Moves
<1>3. CASE WatchdogFires(e)
  <2>1. Becomes(e, HardReconnect(s))
    BY <1>3 DEF WatchdogFires
  <2>2. CASE s.dead
    <3>1. HardReconnect(s) = s
      BY <2>2 DEF HardReconnect
    <3> QED
      BY <2>1, <3>1 DEF Moves
  <2>3. CASE ~s.dead
    BY <1>1, <2>1, <2>3, HardReconnectKeeps DEF Moves
  <2> QED
    BY <2>2, <2>3
<1>4. CASE RefetchFires(e)
  <2> DEFINE t == [s EXCEPT !.refetches = s.refetches - 1, !.refetching = FALSE]
  <2>1. /\ s.refetches > 0 /\ CanFetch(t)
        /\ Becomes(e, IF ~t.dead /\ t.fn # None THEN FetchStream(t, t.fn) ELSE t)
    BY <1>4 DEF RefetchFires
  <2>2. /\ Base(t) /\ t.dead = s.dead /\ t.giving = FALSE /\ t.gaveUp = s.gaveUp
        /\ t.refetches = 0 /\ t.fn = s.fn
        /\ ~t.mixed => t.rebuilds = 0 /\ t.ms # "opening" /\ OpenOf(t) = {}
        /\ s.dead \/ s.fn = None => Engine(t)
    BY <2>1, RefetchEnds
  <2> HIDE DEF t
  <2>3. CASE ~t.dead /\ t.fn # None
    <3>1. t.fn \in Closures
      BY <2>2, <2>3, EngineFacts DEF Base
    <3>2. LET r == FetchStream(t, t.fn) IN
          Engine(r) /\ r.dead = t.dead /\ r.giving = FALSE /\ r.gaveUp = t.gaveUp
      BY <2>1, <2>2, <2>3, <3>1, FetchKeeps
    <3> QED
      BY <2>1, <2>2, <2>3, <3>2 DEF Moves
  <2>4. CASE ~(~t.dead /\ t.fn # None)
    BY <2>1, <2>2, <2>4 DEF Moves
  <2> QED
    BY <2>3, <2>4
<1>5. CASE RebuildFires(e)
  <2> DEFINE t == [s EXCEPT !.rebuilds = s.rebuilds - 1]
  <2>1. /\ s.rebuilds > 0 /\ Becomes(e, IF t.dead THEN t ELSE BuildPlayer(t))
    BY <1>5 DEF RebuildFires
  <2>2. s.rebuilds \in Int
    BY <1>1, EngineFacts
  <2>3. /\ t \in EngineRecord /\ t.conns = s.conns /\ t.abort = s.abort /\ t.dead = s.dead
        /\ t.refetching = s.refetching /\ t.refetches = s.refetches
        /\ t.rebuilds = s.rebuilds - 1 /\ t.ms = s.ms /\ t.fn = s.fn /\ t.giving = s.giving
        /\ t.gaveUp = s.gaveUp /\ t.mixed = s.mixed /\ t.stall = s.stall
        /\ t.watchdog = s.watchdog
    BY <1>1, <2>2 DEF EngineRecord
  <2>4. CASE s.dead
    <3>1. OpenOf(t) = OpenOf(s)
      BY <2>3 DEF OpenOf
    <3>2. Becomes(e, t)
      BY <2>1, <2>3, <2>4
    <3> HIDE DEF t
    <3>3. RefetchDue(t) /\ Opens(t) /\ Tries(t)
      BY <1>1, <2>1, <2>2, <2>3, <2>4 DEF RefetchDue, Opens, Tries, Lost
    <3>4. Apart(t)
      BY <1>1, <2>1, <2>2, <2>3, <2>4, <3>1 DEF Base, Apart
    <3> QED
      BY <2>3, <3>2, <3>3, <3>4 DEF Moves, Engine, Base
  <2>5. CASE ~s.dead
    <3>1. LET r == BuildPlayer(t) IN
          Engine(r) /\ r.dead = s.dead /\ r.giving = FALSE /\ r.gaveUp = s.gaveUp
      BY <2>1, <2>5, RebuildKeeps
    <3>2. Becomes(e, BuildPlayer(t))
      BY <2>1, <2>3, <2>5
    <3> HIDE DEF t
    <3> QED
      BY <3>1, <3>2 DEF Moves
  <2> QED
    BY <2>4, <2>5
<1>6. ASSUME NEW c \in Conns, ConnFails(e, c) PROVE Moves(e)
  <2> DEFINE u == Ended(s, c)
  <2>1. Base(u) /\ ~u.giving /\ u.dead = s.dead /\ u.gaveUp = s.gaveUp
    BY <1>1, EndedKeeps, EndedMakes
  <2>2. Becomes(e, Refetch(u))
    BY <1>6 DEF ConnFails
  <2> HIDE DEF u
  <2>3. Engine(Refetch(u)) /\ Refetch(u).dead = u.dead /\ Refetch(u).gaveUp = u.gaveUp
    BY <2>1, RefetchKeeps
  <2> QED
    BY <2>1, <2>2, <2>3 DEF Moves
<1> QED
  BY <1>2, <1>3, <1>4, <1>5, <1>6

LEMMA EngineStepMoves ==
  ASSUME NEW e, Engine(engines[e]), ~engines[e].giving, EngineStep(e)
  PROVE  Moves(e)
<1>1. CASE SourceOpens(e)
  BY <1>1, SourceMoves
<1>2. CASE BufferEvent(e)
  <2>1. PICK k \in Closures : Pump(e, engines[e], k, None)
    BY <1>2 DEF BufferEvent
  <2> QED
    BY <2>1, PumpMoves
<1>3. CASE \E c \in Conns : Chunk(e, c)
  BY <1>3, ChunkMoves
<1>4. CASE \/ StallFires(e) \/ WatchdogFires(e) \/ RefetchFires(e) \/ RebuildFires(e)
           \/ \E c \in Conns : ConnFails(e, c)
  BY <1>4, TimerMoves
<1> QED
  BY <1>1, <1>2, <1>3, <1>4 DEF EngineStep

-----------------------------------------------------------------------------
(* The page.  The engines not yet made are blank; what is shown is nothing,*)
(* an engine that was made, or the MJPEG one.                              *)

PageOK ==
  /\ made \in 0..MaxEngines /\ shown \in {None, Mjpeg} \cup 1..made
  /\ DOMAIN engines = Engines
  /\ \A e \in Engines :
       IF e <= made THEN Engine(engines[e]) /\ ~engines[e].giving
       ELSE engines[e] = NewEngine
  /\ crossed \in BOOLEAN

PlayerInv == PageOK /\ OnePlays

LEMMA BlankEngine ==
  /\ NewEngine \in EngineRecord /\ ~NewEngine.gaveUp /\ ~NewEngine.giving
  /\ LET s == BuildPlayer(NewEngine) IN Engine(s) /\ ~s.giving /\ ~s.dead /\ ~s.gaveUp
<1>1. NewEngine \in EngineRecord
  BY DEF NewEngine, EngineRecord, Sources, Buffers, Closures, Conns, None
<1>2. /\ NewEngine.dead = FALSE /\ NewEngine.refetching = FALSE /\ NewEngine.refetches = 0
      /\ NewEngine.rebuilds = 0 /\ NewEngine.giving = FALSE /\ NewEngine.gaveUp = FALSE
      /\ NewEngine.mixed = FALSE /\ NewEngine.abort = None /\ OpenOf(NewEngine) = {}
  BY DEF NewEngine, OpenOf
<1> DEFINE s == BuildPlayer(NewEngine)
<1>3. /\ s \in EngineRecord /\ OpenOf(s) = {} /\ s.abort = None
      /\ s.dead = FALSE /\ s.refetching = FALSE /\ s.refetches = 0 /\ s.rebuilds = 0
      /\ s.stall = TRUE /\ s.ms = "opening" /\ s.giving = FALSE /\ s.gaveUp = FALSE
      /\ s.mixed = FALSE
  BY <1>1, <1>2, BuildMakes
<1> HIDE DEF s
<1>4. RefetchDue(s) /\ Apart(s) /\ Opens(s) /\ Tries(s)
  BY <1>3 DEF RefetchDue, Apart, Opens, Tries, Lost
<1> QED
  BY <1>1, <1>2, <1>3, <1>4 DEF Engine, Base, s

LEMMA PlayerInitInv == PlayerInit => PlayerInv
<1> SUFFICES ASSUME PlayerInit PROVE PlayerInv
  OBVIOUS
<1>1. PageOK
  <2>1. /\ made = 0 /\ shown = None /\ crossed = FALSE
        /\ engines = [e \in Engines |-> NewEngine]
    BY DEF PlayerInit
  <2>2. made \in 0..MaxEngines /\ \A e \in Engines : ~(e <= made)
    BY <2>1, PlayerAssumption DEF Engines
  <2> QED
    BY <2>1, <2>2 DEF PageOK
<1>2. OnePlays
  BY DEF PlayerInit, OnePlays, Alive, Engines
<1> QED
  BY <1>1, <1>2 DEF PlayerInv

LEMMA BecomesOf ==
  ASSUME PlayerInv, NEW e \in 1..made, Moves(e)
  PROVE  PlayerInv'
<1>1. PICK r : /\ Engine(r) /\ r.dead = engines[e].dead /\ r.gaveUp = engines[e].gaveUp
               /\ Becomes(e, r)
  BY DEF Moves
<1> DEFINE t == [r EXCEPT !.giving = FALSE, !.gaveUp = r.gaveUp \/ r.giving]
<1>2. /\ engines' = [engines EXCEPT ![e] = t] /\ UNCHANGED <<made, crossed>>
      /\ shown' = IF r.giving THEN Mjpeg ELSE shown
  BY <1>1 DEF Becomes
<1>3. r \in EngineRecord /\ Base(r) /\ Tries(r)
  BY <1>1 DEF Engine, Base
<1>4. /\ t \in EngineRecord /\ t.conns = r.conns /\ t.abort = r.abort /\ t.dead = r.dead
      /\ t.refetching = r.refetching /\ t.refetches = r.refetches
      /\ t.rebuilds = r.rebuilds /\ t.ms = r.ms /\ t.fn = r.fn /\ t.giving = FALSE
      /\ t.gaveUp = (r.gaveUp \/ r.giving) /\ t.mixed = r.mixed /\ t.stall = r.stall
      /\ t.watchdog = r.watchdog
  BY <1>3 DEF EngineRecord
<1>5. OpenOf(t) = OpenOf(r)
  BY <1>4 DEF OpenOf
<1> HIDE DEF t
<1>6. RefetchDue(t) /\ Opens(t) /\ Tries(t)
  <2>1. Lost(t) <=> Lost(r)
    BY <1>4 DEF Lost
  <2> QED
    BY <1>3, <1>4, <2>1 DEF Base, RefetchDue, Opens, Tries
<1>7. Apart(t)
  BY <1>3, <1>4, <1>5 DEF Base, Apart
<1>8. Engine(t) /\ ~t.giving
  BY <1>4, <1>6, <1>7 DEF Engine, Base
<1>9. /\ made \in 0..MaxEngines /\ e \in Engines /\ DOMAIN engines = Engines
  BY PlayerAssumption DEF PlayerInv, PageOK, Engines
<1>10. /\ engines'[e] = t /\ DOMAIN engines' = Engines
       /\ \A f \in Engines \ {e} : engines'[f] = engines[f]
  BY <1>2, <1>9
<1>11. PageOK'
  <2>1. \A f \in Engines :
          IF f <= made THEN Engine(engines'[f]) /\ ~engines'[f].giving
          ELSE engines'[f] = NewEngine
    BY <1>8, <1>9, <1>10 DEF PlayerInv, PageOK
  <2> QED
    BY <1>2, <1>10, <2>1 DEF PlayerInv, PageOK
<1>12. OnePlays'
  <2>1. ASSUME NEW f \in Engines, Alive(f)', shown' # f
        PROVE  crossed' \/ \E g \in Engines : engines'[g].gaveUp
    <3>1. CASE r.giving
      BY <1>4, <1>9, <1>10, <3>1
    <3>2. CASE ~r.giving
      <4>1. Alive(f) /\ shown # f
        BY <1>1, <1>2, <1>4, <1>10, <2>1, <3>2 DEF Alive
      <4>2. crossed \/ \E g \in Engines : engines[g].gaveUp
        BY <4>1 DEF PlayerInv, OnePlays
      <4>3. \A g \in Engines : engines[g].gaveUp => engines'[g].gaveUp
        BY <1>1, <1>4, <1>10
      <4> QED
        BY <1>2, <4>2, <4>3
    <3> QED
      BY <3>1, <3>2
  <2> QED
    BY <2>1 DEF OnePlays
<1> QED
  BY <1>11, <1>12 DEF PlayerInv

(* Leaving an engine stops it: only those that were left behind before go  *)
(* on.                                                                     *)
LEMMA StoppedAre ==
  ASSUME PlayerInv
  PROVE  /\ DOMAIN Stopped = Engines
         /\ \A e \in Engines :
              /\ IF e <= made THEN Engine(Stopped[e]) /\ ~Stopped[e].giving
                 ELSE Stopped[e] = NewEngine
              /\ Stopped[e].gaveUp = engines[e].gaveUp
              /\ ~Stopped[e].dead => ~engines[e].dead /\ shown # e
<1>1. /\ made \in 0..MaxEngines /\ DOMAIN engines = Engines
      /\ shown \in {None, Mjpeg} \cup 1..made
  BY DEF PlayerInv, PageOK
<1>2. CASE shown \in Engines
  <2>1. shown <= made /\ made \in Nat
    BY <1>1, <1>2, PlayerAssumption DEF Engines, None, Mjpeg
  <2>2. Engine(engines[shown]) /\ ~engines[shown].giving
    BY <1>2, <2>1 DEF PlayerInv, PageOK
  <2>3. Stopped = [engines EXCEPT ![shown] = StopMse(engines[shown])]
    BY <1>2 DEF Stopped
  <2>4. /\ Engine(StopMse(engines[shown])) /\ StopMse(engines[shown]).dead
        /\ ~StopMse(engines[shown]).giving
        /\ StopMse(engines[shown]).gaveUp = engines[shown].gaveUp
    BY <2>2, StopKeeps
  <2>5. Stopped[shown] = StopMse(engines[shown])
        /\ \A e \in Engines \ {shown} : Stopped[e] = engines[e]
    BY <1>1, <1>2, <2>3
  <2> QED
    BY <1>1, <2>1, <2>3, <2>4, <2>5 DEF PlayerInv, PageOK
<1>3. CASE shown \notin Engines
  BY <1>1, <1>3 DEF Stopped, PlayerInv, PageOK
<1> QED
  BY <1>2, <1>3

(* A new engine is shown, or none is: nobody but those left behind goes on.*)
LEMMA MakesKeeps ==
  ASSUME PlayerInv, NEW es, Makes(es),
         DOMAIN es = Engines,
         \A e \in Engines :
              /\ IF e <= made THEN Engine(es[e]) /\ ~es[e].giving ELSE es[e] = NewEngine
              /\ engines[e].gaveUp => es[e].gaveUp
              /\ ~es[e].dead => ~engines[e].dead,
         crossed' \in BOOLEAN,
         \A e \in Engines : e <= made /\ ~es[e].dead =>
           crossed' \/ \E f \in Engines : es[f].gaveUp
  PROVE  PlayerInv'
<1>1. made \in 0..MaxEngines /\ MaxEngines \in Nat /\ made \in Nat
  BY PlayerAssumption DEF PlayerInv, PageOK
<1>2. CASE plays = "mse"
  <2> DEFINE n == made + 1
  <2>1. /\ made' = n /\ shown' = n /\ n \in Engines
        /\ engines' = [es EXCEPT ![n] = BuildPlayer(NewEngine)]
    BY <1>1, <1>2 DEF Makes, Engines
  <2>2. /\ engines'[n] = BuildPlayer(NewEngine) /\ DOMAIN engines' = Engines
        /\ \A e \in Engines \ {n} : engines'[e] = es[e]
    BY <2>1
  <2>3. ASSUME NEW e \in Engines
        PROVE  IF e <= made' THEN Engine(engines'[e]) /\ ~engines'[e].giving
               ELSE engines'[e] = NewEngine
    <3>1. CASE e = n
      BY <1>1, <2>1, <2>2, <3>1, BlankEngine
    <3>2. CASE e # n
      BY <1>1, <2>1, <2>2, <3>2 DEF Engines
    <3> QED
      BY <3>1, <3>2
  <2>4. PageOK'
    <3>1. made' \in 0..MaxEngines /\ shown' \in {None, Mjpeg'} \cup 1..made'
      BY <1>1, <2>1 DEF Engines
    <3> QED
      BY <2>2, <2>3, <3>1 DEF PageOK, Mjpeg
  <2>5. ASSUME NEW e \in Engines, Alive(e)', shown' # e
        PROVE  crossed' \/ \E f \in Engines : engines'[f].gaveUp
    <3>1. e # n /\ e <= made /\ ~es[e].dead
      BY <1>1, <2>1, <2>2, <2>5 DEF Alive, Engines
    <3>2. ASSUME NEW f \in Engines, es[f].gaveUp
          PROVE  engines'[f].gaveUp
      <4>1. es[n] = NewEngine
        BY <1>1, <2>1
      <4>2. f # n
        BY <3>2, <4>1, BlankEngine
      <4> QED
        BY <2>2, <3>2, <4>2
    <3> QED
      BY <3>1, <3>2
  <2> QED
    BY <2>4, <2>5 DEF PlayerInv, OnePlays
<1>3. CASE plays # "mse"
  <2>1. engines' = es /\ made' = made /\ shown' \in {None, Mjpeg}
    BY <1>3 DEF Makes
  <2>2. PageOK'
    BY <1>1, <2>1 DEF PageOK, Mjpeg
  <2>3. OnePlays'
    BY <1>1, <2>1 DEF OnePlays, Alive
  <2> QED
    BY <2>2, <2>3 DEF PlayerInv
<1> QED
  BY <1>2, <1>3

LEMMA PlayerNextInv == PlayerInv /\ [PlayerNext]_playerVars => PlayerInv'
<1> SUFFICES ASSUME PlayerInv, [PlayerNext]_playerVars PROVE PlayerInv'
  OBVIOUS
<1>1. made \in 0..MaxEngines /\ MaxEngines \in Nat /\ made \in Nat /\ crossed \in BOOLEAN
  BY PlayerAssumption DEF PlayerInv, PageOK
<1>2. ASSUME NEW e \in 1..made, EngineStep(e) PROVE PlayerInv'
  <2>1. e \in Engines /\ e <= made
    BY <1>1 DEF Engines
  <2>2. Engine(engines[e]) /\ ~engines[e].giving
    BY <2>1 DEF PlayerInv, PageOK
  <2> QED
    BY <1>2, <2>2, EngineStepMoves, BecomesOf
\* Those that are alive although not shown.
<1>3. \A e \in Engines : e <= made /\ ~engines[e].dead /\ shown # e =>
        crossed \/ \E f \in Engines : engines[f].gaveUp
  BY DEF PlayerInv, OnePlays, Alive
<1>4. \A e \in Engines : e <= made /\ ~Stopped[e].dead =>
        crossed \/ \E f \in Engines : Stopped[f].gaveUp
  BY <1>3, StoppedAre
<1>5. CASE StartLive
  <2>1. CASE configKnown /\ Makes(Stopped)
    <3>1. crossed' = crossed
      BY <1>5 DEF StartLive
    <3> QED
      BY <1>1, <1>4, <2>1, <3>1, StoppedAre, MakesKeeps
  <2>2. CASE engines' = Stopped /\ shown' = None /\ UNCHANGED <<made, crossed>>
    <3>1. PageOK'
      BY <1>1, <2>2, StoppedAre DEF PageOK
    <3>2. OnePlays'
      BY <1>4, <2>2 DEF OnePlays, Alive
    <3> QED
      BY <3>1, <3>2 DEF PlayerInv
  <2> QED
    BY <1>5, <2>1, <2>2 DEF StartLive
<1>6. CASE StartResumes
  <2>1. Makes(engines) /\ crossed' = (crossed \/ shown # None)
    BY <1>6 DEF StartResumes
  <2>2. \A e \in Engines : e <= made /\ ~engines[e].dead =>
          crossed' \/ \E f \in Engines : engines[f].gaveUp
    <3>1. \A e \in Engines : e # None
      BY DEF Engines, None
    <3> QED
      BY <1>3, <2>1, <3>1
  <2>3. /\ DOMAIN engines = Engines /\ crossed' \in BOOLEAN
        /\ \A e \in Engines : IF e <= made THEN Engine(engines[e]) /\ ~engines[e].giving
                              ELSE engines[e] = NewEngine
    BY <1>1, <2>1 DEF PlayerInv, PageOK
  <2> QED
    BY <2>1, <2>2, <2>3, MakesKeeps
<1>7. CASE SettingsLoad
  BY <1>7 DEF SettingsLoad, PlayerInv, PageOK, OnePlays, Alive
<1>8. CASE StopLive
  <2>1. engines' = Stopped /\ shown' = None /\ UNCHANGED <<made, crossed>>
    BY <1>8 DEF StopLive
  <2>2. PageOK'
    BY <1>1, <2>1, StoppedAre DEF PageOK
  <2>3. OnePlays'
    BY <1>4, <2>1 DEF OnePlays, Alive
  <2> QED
    BY <2>2, <2>3 DEF PlayerInv
<1>9. CASE UNCHANGED playerVars
  BY <1>9 DEF playerVars, PlayerInv, PageOK, OnePlays, Alive
<1> QED
  BY <1>2, <1>5, <1>6, <1>7, <1>8, <1>9 DEF PlayerNext

LEMMA PlayerFromInv == PlayerInv => PlayerSound
<1> SUFFICES ASSUME PlayerInv PROVE PlayerSound
  OBVIOUS
<1>1. made \in Nat
  BY PlayerAssumption DEF PlayerInv, PageOK
<1>2. ASSUME NEW e \in Engines, e <= made
      PROVE  LET s == engines[e] IN
             /\ Tries(s) /\ Apart(s) /\ RefetchDue(s) /\ s \in EngineRecord
             /\ OpenOf(s) = Open(e) /\ ~s.giving
  BY <1>2 DEF PlayerInv, PageOK, Engine, Base, OpenOf, Open
<1>3. KeepsTrying
  <2>1. ASSUME NEW e \in Engines, Alive(e), ~engines[e].gaveUp
        PROVE  LET s == engines[e] IN
               s.stall \/ s.refetches + s.rebuilds > 0 \/ s.ms = "opening"
    <3> DEFINE s == engines[e]
    <3>1. s.stall \/ s.refetches > 0 \/ s.rebuilds > 0 \/ s.ms = "opening"
      BY <1>2, <2>1 DEF Alive, Tries, Lost
    <3>2. s.refetches \in 0..1 /\ s.rebuilds >= 0 /\ s.rebuilds \in Int
      BY <1>2, <2>1, EngineFacts DEF Alive, RefetchDue
    <3>3. s.refetches > 0 \/ s.rebuilds > 0 => s.refetches + s.rebuilds > 0
      BY <3>2
    <3> QED
      BY <3>1, <3>3
  <2> QED
    BY <2>1 DEF KeepsTrying
<1>4. OneConnection
  <2>1. ASSUME NEW e \in Engines, ~engines[e].mixed
        PROVE  LET s == engines[e] IN
               /\ Open(e) \subseteq {s.abort} \ {None}
               /\ s.dead => Open(e) = {} /\ ~s.stall /\ ~s.watchdog /\ s.ms = "none"
    <3>1. CASE e <= made
      BY <1>2, <2>1, <3>1 DEF Apart
    <3>2. CASE ~(e <= made)
      BY <3>2 DEF PlayerInv, PageOK, NewEngine, Open
    <3> QED
      BY <3>1, <3>2
  <2> QED
    BY <2>1 DEF OneConnection
<1> QED
  BY <1>3, <1>4 DEF PlayerSound, PlayerInv

(* The live view (live.js): until it gives up an engine always has         *)
(* something pending, it holds at most one connection that stop() reaches  *)
(* unless recoveries crossed, and none is left behind but by giving up or  *)
(* by two starts that crossed.                                             *)
THEOREM PlayerAlwaysSound == PlayerSpec => []PlayerSound
<1>1. PlayerInv /\ [PlayerNext]_playerVars => PlayerInv'
  BY PlayerNextInv
<1> QED
  BY <1>1, PlayerInitInv, PlayerFromInv, PTL DEF PlayerSpec

(***************************************************************************)
(* StartupSound for any set of builds.  What was started is known from     *)
(* where main is: the invariant says what each section leaves behind,      *)
(* whichever of those before it failed.                                    *)
(***************************************************************************)
UpToOnvif == {"rtsp", "camera", "ai", "onvif"}
UpToAlarms == UpToOnvif \cup {"discovery", "alarms"}
UpToGb == UpToAlarms \cup {"thermal", "gb"}

(* The camera and what is fed by it.                                       *)
CameraLeaves ==
  /\ mainAt = "camera" \/ tasks \cap {"pump", "gb", "writer"} # {} => "hub" \in handles
  /\ "yuv" \in handles => "pump" \in tasks
  /\ "subHub" \in handles <=> "subPump" \in tasks
  /\ "subHub" \in handles <=> "subProfile" \in handles
  /\ mainAt \in UpToOnvif => "onvifSub" \notin handles
  /\ mainAt \notin UpToOnvif => ("subProfile" \in handles <=> "onvifSub" \in handles)

(* The detector and the alarms.                                            *)
DetectorLeaves ==
  /\ "module" \in handles => "ai" \in tasks
  /\ "ai" \in tasks => "bus" \in handles
  /\ mainAt \notin UpToAlarms =>
       "alarmSse" \in tasks /\ ("bus" \in handles => "alarmFeed" \in tasks)

(* The thermal sensor and its channel.                                     *)
ThermalLeaves ==
  /\ "thermal" \in handles => {"thermal", "thermalPump"} \subseteq tasks
  /\ "gbThermal" \in tasks => {"thermal", "thermalEncoder"} \subseteq tasks
  /\ "tempAlarm" \in tasks => "gbThermal" \in tasks
  /\ exits["thermal"] = "watched" <=> "gbThermal" \in tasks
  /\ mainAt \in UpToGb \cup {"gbThermal"} => exits["thermal"] = "open"
  /\ mainAt \in {"recording", "web", "serving"} => exits["thermal"] # "open"

(* GB28181 and its security identity; the web server.                      *)
GbLeaves ==
  /\ exits["gb"] = "watched" <=> "gb" \in tasks
  /\ mainAt \in UpToGb => exits["gb"] = "open" /\ "gb35114" \notin enabled
  /\ mainAt \in {"gbThermal", "recording", "web", "serving"} => exits["gb"] # "open"
  /\ "gb" \in tasks /\ "gb35114" \in enabled /\ "gb35114" \in build
       => "authenticator" \in handles
  /\ mainAt = "serving" => "restart" \in handles

StartInv ==
  /\ StartTypeOK /\ CameraLeaves /\ DetectorLeaves /\ ThermalLeaves /\ GbLeaves

LEMMA StartInitInv == StartInit => StartInv
<1> SUFFICES ASSUME StartInit PROVE StartInv
  OBVIOUS
<1>1. StartTypeOK
  BY DEF StartInit, StartTypeOK, StartSections
<1>2. CameraLeaves /\ DetectorLeaves /\ ThermalLeaves /\ GbLeaves
  BY DEF StartInit, CameraLeaves, DetectorLeaves, ThermalLeaves, GbLeaves, UpToOnvif,
         UpToAlarms, UpToGb
<1> QED
  BY <1>1, <1>2 DEF StartInv

(* Every section leaves what the invariant says.                           *)
LEMMA StartNextInv == StartInv /\ [StartNext]_startVars => StartInv'
<1> SUFFICES ASSUME StartInv, [StartNext]_startVars PROVE StartInv'
  OBVIOUS
<1> USE DEF StartInv, UpToOnvif, UpToAlarms, UpToGb
<1>1. CASE StartRtsp
  <2> USE <1>1 DEF StartRtsp, Started, SwitchesKept
  <2>1. StartTypeOK'
    BY DEF StartTypeOK, StartSections, StartEnds, StartTasks, Handles
  <2>2. CameraLeaves'
    BY DEF CameraLeaves
  <2>3. DetectorLeaves'
    BY DEF DetectorLeaves
  <2>4. ThermalLeaves'
    BY DEF ThermalLeaves, StartTypeOK
  <2>5. GbLeaves'
    BY DEF GbLeaves, StartTypeOK
  <2> QED
    BY <2>1, <2>2, <2>3, <2>4, <2>5
<1>2. CASE StartCamera
  <2> USE <1>2 DEF StartCamera, Started, Camera
  <2>1. StartTypeOK'
    BY DEF StartTypeOK, StartSections, StartEnds, StartTasks, Handles
  <2>2. CameraLeaves'
    BY DEF CameraLeaves
  <2>3. DetectorLeaves'
    BY DEF DetectorLeaves
  <2>4. ThermalLeaves'
    BY DEF ThermalLeaves, StartTypeOK
  <2>5. GbLeaves'
    BY DEF GbLeaves, StartTypeOK
  <2> QED
    BY <2>1, <2>2, <2>3, <2>4, <2>5
<1>3. CASE StartAi
  <2> USE <1>3 DEF StartAi, Started
  <2>1. StartTypeOK'
    <3>1. /\ mainAt' = "onvif" /\ UNCHANGED <<build, exits>>
          /\ enabled' \subseteq enabled \cup {"ai"}
          /\ tasks' \subseteq tasks \cup {"ai", "sseBridge"}
      <4>1. \E ai \in SUBSET {"ai"} : enabled' = enabled \cup ai
        OBVIOUS
      <4>2. tasks' = tasks \cup {} \/ tasks' = tasks \cup {"ai", "sseBridge"}
        OBVIOUS
      <4>3. mainAt' = "onvif" /\ UNCHANGED <<build, exits>>
        OBVIOUS
      <4> HIDE <1>3
      <4> QED
        BY <4>1, <4>2, <4>3
    <3>2. handles' \subseteq handles \cup {"detections", "bus", "module", "loader"}
      OBVIOUS
    <3> HIDE <1>3
    <3> QED
      BY <3>1, <3>2 DEF StartTypeOK, StartSections, StartEnds, StartTasks, Handles
  <2>2. CameraLeaves'
    BY DEF CameraLeaves
  <2>3. DetectorLeaves'
    BY DEF DetectorLeaves
  <2>4. ThermalLeaves'
    BY DEF ThermalLeaves, StartTypeOK
  <2>5. GbLeaves'
    BY DEF GbLeaves, StartTypeOK
  <2> QED
    BY <2>1, <2>2, <2>3, <2>4, <2>5
<1>4. CASE StartOnvif
  <2> USE <1>4 DEF StartOnvif, Started, SwitchesKept
  <2>1. StartTypeOK'
    BY DEF StartTypeOK, StartSections, StartEnds, StartTasks, Handles
  <2>2. CameraLeaves'
    <3>1. /\ \A h \in {"hub", "yuv", "subHub", "subProfile"} : h \in handles' <=> h \in handles
          /\ "onvifSub" \in handles' <=> "onvifSub" \in handles \/ "subProfile" \in handles
      OBVIOUS
    <3>2. \A t \in {"pump", "gb", "writer", "subPump"} : t \in tasks' <=> t \in tasks
      OBVIOUS
    <3>3. mainAt = "onvif" /\ mainAt' = "discovery"
      OBVIOUS
    <3> HIDE <1>4
    <3> QED
      BY <3>1, <3>2, <3>3 DEF CameraLeaves
  <2>3. DetectorLeaves'
    BY DEF DetectorLeaves
  <2>4. ThermalLeaves'
    BY DEF ThermalLeaves, StartTypeOK
  <2>5. GbLeaves'
    BY DEF GbLeaves, StartTypeOK
  <2> QED
    BY <2>1, <2>2, <2>3, <2>4, <2>5
<1>5. CASE StartDiscovery
  <2> USE <1>5 DEF StartDiscovery, Started, SwitchesKept
  <2>1. StartTypeOK'
    BY DEF StartTypeOK, StartSections, StartEnds, StartTasks, Handles
  <2>2. CameraLeaves'
    BY DEF CameraLeaves
  <2>3. DetectorLeaves'
    BY DEF DetectorLeaves
  <2>4. ThermalLeaves'
    BY DEF ThermalLeaves, StartTypeOK
  <2>5. GbLeaves'
    BY DEF GbLeaves, StartTypeOK
  <2> QED
    BY <2>1, <2>2, <2>3, <2>4, <2>5
<1>6. CASE WireAlarms
  <2> USE <1>6 DEF WireAlarms, Started, SwitchesKept
  <2>1. StartTypeOK'
    BY DEF StartTypeOK, StartSections, StartEnds, StartTasks, Handles
  <2>2. CameraLeaves'
    BY DEF CameraLeaves
  <2>3. DetectorLeaves'
    BY DEF DetectorLeaves
  <2>4. ThermalLeaves'
    BY DEF ThermalLeaves, StartTypeOK
  <2>5. GbLeaves'
    BY DEF GbLeaves, StartTypeOK
  <2> QED
    BY <2>1, <2>2, <2>3, <2>4, <2>5
<1>7. CASE StartThermal
  <2> USE <1>7 DEF StartThermal, Started, SwitchesKept
  <2>1. StartTypeOK'
    BY DEF StartTypeOK, StartSections, StartEnds, StartTasks, Handles
  <2>2. CameraLeaves'
    BY DEF CameraLeaves
  <2>3. DetectorLeaves'
    BY DEF DetectorLeaves
  <2>4. ThermalLeaves'
    BY DEF ThermalLeaves, StartTypeOK
  <2>5. GbLeaves'
    BY DEF GbLeaves, StartTypeOK
  <2> QED
    BY <2>1, <2>2, <2>3, <2>4, <2>5
<1>8. CASE StartGb
  <2> USE <1>8 DEF StartGb, Started, Authenticators
  <2>1. StartTypeOK'
    BY ZenonT(60) DEF StartTypeOK, StartSections, StartEnds, StartTasks, Handles
  <2>6. /\ mainAt = "gb" /\ mainAt' \in {"gbThermal", "exit 1"}
        /\ \A h : h \in handles' /\ h \notin {"authenticator", "recSource"} <=>
                 h \in handles /\ h \notin {"authenticator", "recSource"}
        /\ \A t : t \in tasks' /\ t # "gb" <=> t \in tasks /\ t # "gb"
        /\ "gb" \in tasks' => "gb" \in tasks \/ "hub" \in handles
    <3>1. CASE "hub" \notin handles
      BY <3>1
    <3>2. CASE "hub" \in handles
      BY <3>2
    <3> QED
      BY <3>1, <3>2
  <2>2. CameraLeaves'
    <3> HIDE <1>8
    <3> QED
      BY <2>6 DEF CameraLeaves
  <2>3. DetectorLeaves'
    <3> HIDE <1>8
    <3> QED
      BY <2>6 DEF DetectorLeaves
  <2>4. ThermalLeaves'
    BY ZenonT(60) DEF ThermalLeaves, StartTypeOK
  <2>5. GbLeaves'
    BY DEF GbLeaves, StartTypeOK
  <2> QED
    BY <2>1, <2>2, <2>3, <2>4, <2>5
<1>9. CASE StartGbThermal
  <2> USE <1>9 DEF StartGbThermal, NoChannel, Started
  <2>1. StartTypeOK'
    BY DEF StartTypeOK, StartSections, StartEnds, StartTasks, Handles
  <2>2. CameraLeaves'
    BY DEF CameraLeaves
  <2>3. DetectorLeaves'
    BY DEF DetectorLeaves
  <2>4. ThermalLeaves'
    BY DEF ThermalLeaves, StartTypeOK
  <2>5. GbLeaves'
    BY DEF GbLeaves, StartTypeOK
  <2> QED
    BY <2>1, <2>2, <2>3, <2>4, <2>5
<1>10. CASE StartRecording
  <2> USE <1>10 DEF StartRecording, Started, SwitchesKept
  <2>1. StartTypeOK'
    BY DEF StartTypeOK, StartSections, StartEnds, StartTasks, Handles
  <2>2. CameraLeaves'
    BY DEF CameraLeaves
  <2>3. DetectorLeaves'
    BY DEF DetectorLeaves
  <2>4. ThermalLeaves'
    BY DEF ThermalLeaves, StartTypeOK
  <2>5. GbLeaves'
    BY DEF GbLeaves, StartTypeOK
  <2> QED
    BY <2>1, <2>2, <2>3, <2>4, <2>5
<1>11. CASE StartWeb
  <2> USE <1>11 DEF StartWeb, Started, SwitchesKept
  <2>1. StartTypeOK'
    BY DEF StartTypeOK, StartSections, StartEnds, StartTasks, Handles
  <2>2. CameraLeaves'
    BY DEF CameraLeaves
  <2>3. DetectorLeaves'
    BY DEF DetectorLeaves
  <2>4. ThermalLeaves'
    BY DEF ThermalLeaves, StartTypeOK
  <2>5. GbLeaves'
    BY DEF GbLeaves, StartTypeOK
  <2> QED
    BY <2>1, <2>2, <2>3, <2>4, <2>5
<1>12. CASE SaveSwitches
  <2> USE <1>12 DEF SaveSwitches
  <2>1. StartTypeOK'
    BY DEF StartTypeOK, StartSections, StartEnds, StartTasks, Handles
  <2>2. CameraLeaves'
    BY DEF CameraLeaves
  <2>3. DetectorLeaves'
    BY DEF DetectorLeaves
  <2>4. ThermalLeaves'
    BY DEF ThermalLeaves, StartTypeOK
  <2>5. GbLeaves'
    BY DEF GbLeaves, StartTypeOK
  <2> QED
    BY <2>1, <2>2, <2>3, <2>4, <2>5
<1>13. CASE UNCHANGED startVars
  BY <1>13 DEF startVars, StartTypeOK, CameraLeaves, DetectorLeaves, ThermalLeaves, GbLeaves
<1> QED
  BY <1>1, <1>2, <1>3, <1>4, <1>5, <1>6, <1>7, <1>8, <1>9, <1>10, <1>11, <1>12, <1>13 DEF StartNext

LEMMA StartFromInv == StartInv => StartupSound
<1> SUFFICES ASSUME StartInv PROVE StartupSound
  OBVIOUS
<1>1. AdvertisedRuns
  <2> SUFFICES ASSUME mainAt = "serving", NEW upload \in BOOLEAN
               PROVE  LET caps == Capabilities(upload) IN
      /\ \A c \in DOMAIN Served : c \in caps <=> Served[c]
      /\ "ai_upload" \in caps => UploadServed(upload)
      /\ "mjpeg" \in caps => "pump" \in tasks
      /\ "substream" \in caps <=> "subPump" \in tasks
      /\ "substream" \in caps <=> "onvifSub" \in handles
      /\ "ai_models" \in caps => "ai" \in tasks
      /\ "thermal.temperature" \in Events => "thermalPump" \in tasks
      /\ "alarm" \in Events /\ "ai" \in tasks => {"alarmFeed", "alarmSse"} \subseteq tasks
    BY DEF AdvertisedRuns
  <2> DEFINE caps == Capabilities(upload)
  <2>1. /\ "mjpeg" \in caps <=> "yuv" \in handles
        /\ "mse" \in caps <=> "hub" \in handles
        /\ "substream" \in caps <=> "subHub" \in handles
        /\ "thermal" \in caps <=> "thermal" \in handles
        /\ "ai_models" \in caps <=> HotSwap
        /\ "restart" \in caps
        /\ "ai_upload" \in caps <=> HotSwap /\ upload
    BY DEF Capabilities
  <2>2. /\ DOMAIN Served = {"mjpeg", "mse", "substream", "thermal", "ai_models", "restart"}
        /\ Served["mjpeg"] = LiveServed /\ Served["mse"] = StreamServed
        /\ Served["substream"] = SubServed /\ Served["thermal"] = ThermalServed
        /\ Served["ai_models"] = ActivateServed /\ Served["restart"] = RestartServed
    BY DEF Served
  <2> HIDE DEF caps
  <2>3. \A c \in DOMAIN Served : c \in caps <=> Served[c]
    BY <2>1, <2>2 DEF StartInv, GbLeaves, LiveServed, StreamServed, SubServed,
       ThermalServed, ActivateServed, RestartServed, HotSwap
  <2>4. "ai_upload" \in caps => UploadServed(upload)
    BY <2>1 DEF UploadServed, HotSwap
  <2>5. /\ "mjpeg" \in caps => "pump" \in tasks
        /\ "substream" \in caps <=> "subPump" \in tasks
        /\ "substream" \in caps <=> "onvifSub" \in handles
    BY <2>1 DEF StartInv, CameraLeaves, UpToOnvif
  <2>6. "ai_models" \in caps => "ai" \in tasks
    BY <2>1 DEF StartInv, DetectorLeaves, HotSwap
  <2>7. "thermal.temperature" \in Events => "thermalPump" \in tasks
    BY DEF Events, StartInv, ThermalLeaves
  <2>8. "ai" \in tasks => {"alarmFeed", "alarmSse"} \subseteq tasks
    BY DEF StartInv, DetectorLeaves, UpToAlarms, UpToOnvif
  <2> QED
    BY <2>3, <2>4, <2>5, <2>6, <2>7, <2>8 DEF caps
<1>2. StartedSound
  <2>1. DOMAIN exits = {"gb", "thermal"}
    BY DEF StartInv, StartTypeOK
  <2> QED
    BY <2>1 DEF StartedSound, StartInv, CameraLeaves, ThermalLeaves, GbLeaves
<1> QED
  BY <1>1, <1>2 DEF StartupSound

(* The start of the process (main.rs): whatever part fails, what the web   *)
(* API advertises is served and fed by a task that runs, and nothing runs  *)
(* without what it reads.                                                  *)
THEOREM StartupAlwaysSound == StartSpec => []StartupSound
<1>1. StartInv /\ [StartNext]_startVars => StartInv'
  BY StartNextInv
<1> QED
  BY <1>1, StartInitInv, StartFromInv, PTL DEF StartSpec

(***************************************************************************)
(* OnvifSound for every set of hosts and every width of an address.  The   *)
(* handler map is the one the registrations built, whoever asked what      *)
(* before, and the filter is the configured one until a listed peer        *)
(* changes it.                                                             *)
(***************************************************************************)

(* A power of two is the number of subsets, the empty one among them.      *)
LEMMA PowerPositive == ASSUME NEW n \in Nat PROVE 2 ^ n \in Nat \ {0}
<1>1. IsFiniteSet(1 .. n) /\ Cardinality(1 .. n) = n
  BY FS_Interval
<1>2. IsFiniteSet(SUBSET (1 .. n)) /\ Cardinality(SUBSET (1 .. n)) = 2 ^ n
  BY <1>1, FS_SUBSET
<1>3. Cardinality(SUBSET (1 .. n)) \in Nat
  BY <1>2, FS_CardinalityType
<1>4. SUBSET (1 .. n) # {}
  OBVIOUS
<1>5. Cardinality(SUBSET (1 .. n)) # 0
  BY <1>2, <1>4, FS_EmptySet
<1> QED
  BY <1>2, <1>3, <1>5

OpenActions == {"GetSystemDateAndTime", "GetServices"}
ListEntry == [addr : Int, prefix : Int]

(* What the faces share, whatever was asked of them.                       *)
SharedBy(h, n) ==
  [handlers : {Wired(h)}, open : {OpenActions}, routes : SUBSET {"events", "media2"},
   filter : [on : {ParseIpFilter(h.entries) # Nowhere}, entries : SUBSET ListEntry],
   imaging : [{"Brightness", "Contrast"} -> 0 .. 4],
   encoder : {h.encoder, 0, 1, 5}, runs : {h.encoder},
   observed : [clock : {0, 1, 5}, reboot : 0 .. n, reset : 0 .. n],
   idr : BOOLEAN]

OnvifInv ==
  /\ host \in Hosts /\ soap \in 0 .. MaxSoap /\ starts \in 1 .. MaxStarts
  /\ onvif \in SharedBy(host, soap)
  /\ ~refiltered => onvif.filter.entries = Entries(host.entries)
  /\ RoutedByShape /\ ListedPeersOnly

LEMMA ConfiguredEntries ==
  ASSUME NEW h \in Hosts
  PROVE  /\ Entries(h.entries) \subseteq [addr : Peers, prefix : 0 .. AddressBits]
         /\ Entries(h.entries) \subseteq ListEntry
         /\ (ParseIpFilter(h.entries) # Nowhere) <=> Entries(h.entries) # {}
<1>1. h.entries \in Seq(AllowEntry)
  BY HostsAssumption
<1>2. ToSet(h.entries) \subseteq AllowEntry
  BY <1>1 DEF ToSet
<1>3. Entries(h.entries) \subseteq [addr : Peers, prefix : 0 .. AddressBits]
  BY <1>2 DEF Entries, AllowEntry
<1>4. [addr : Peers, prefix : 0 .. AddressBits] \subseteq ListEntry
  BY HostsAssumption, PowerPositive DEF Peers, ListEntry
<1>5. (ParseIpFilter(h.entries) # Nowhere) <=> Entries(h.entries) # {}
  BY DEF ParseIpFilter, Entries, Nowhere
<1> QED
  BY <1>3, <1>4, <1>5

LEMMA BuiltShared ==
  ASSUME NEW h \in Hosts, NEW n \in Nat
  PROVE  /\ Built(h) \in SharedBy(h, n)
         /\ Built(h).filter.entries = Entries(h.entries)
<1> DEFINE b == Built(h)
<1>1. b.handlers = Wired(h) /\ b.open = OpenActions /\ b.routes \in SUBSET {"events", "media2"}
  BY DEF Built, OpenActions
<1>2. b.filter \in [on : {ParseIpFilter(h.entries) # Nowhere}, entries : SUBSET ListEntry]
  BY ConfiguredEntries DEF Built
<1>3. b.imaging \in [{"Brightness", "Contrast"} -> 0 .. 4]
  BY DEF Built
<1>4. b.observed \in [clock : {0, 1, 5}, reboot : 0 .. n, reset : 0 .. n]
  BY DEF Built
<1>5. b.encoder = h.encoder /\ b.runs = h.encoder /\ b.idr = FALSE
  BY DEF Built
<1>6. b = [handlers |-> b.handlers, open |-> b.open, routes |-> b.routes,
           filter |-> b.filter, imaging |-> b.imaging, encoder |-> b.encoder,
           runs |-> b.runs, observed |-> b.observed, idr |-> b.idr]
  BY DEF Built
<1> HIDE DEF b
<1>7. b \in SharedBy(h, n)
  BY <1>1, <1>2, <1>3, <1>4, <1>5, <1>6 DEF SharedBy
<1> QED
  BY <1>7 DEF b, Built

(* Which face the registrations leave at a name.                           *)
LEMMA FacesWired ==
  ASSUME NEW h \in Hosts, NEW a \in Actions
  PROVE  /\ a \in ImagingActions => Wired(h)[a].shaped = "imaging"
         /\ a \in MediaActions => Wired(h)[a].bare = "media"
         /\ a \in PtzActions \ MediaActions => Wired(h)[a].bare = "ptz"
         /\ a \in DeviceActions => Wired(h)[a].bare \in {"device", Nowhere}
         /\ a \in ImagingActions \ (PtzActions \cup MediaActions) =>
              Wired(h)[a].bare = "imaging"
         /\ Wired(h)[a].bare \in {"device", "media", "ptz", "imaging", Nowhere}
<1> DEFINE bare == [b \in Actions |-> NoFace]
           device == IF h.identity THEN Register(bare, "device", DeviceActions) ELSE bare
           ptz == Register(device, "ptz", PtzActions)
           media == Register(ptz, "media", MediaActions)
<1>1. device[a].bare = IF h.identity /\ a \in DeviceActions THEN "device" ELSE Nowhere
  BY DEF Register, NoFace
<1>2. a \in DeviceActions => a \notin PtzActions \cup MediaActions \cup ImagingActions
  BY DEF DeviceActions, PtzActions, MediaActions, ImagingActions, SharedActions
<1>3. ptz[a] = IF a \in PtzActions THEN [bare |-> "ptz", shaped |-> "ptz"] ELSE device[a]
  BY DEF Register
<1> HIDE DEF device
<1>4. media[a] = IF a \in MediaActions THEN [bare |-> "media", shaped |-> "media"] ELSE ptz[a]
  BY DEF Register
<1> HIDE DEF ptz
<1>5. Wired(h) = RegisterImaging(media)
  BY DEF Wired, device, ptz
<1> HIDE DEF media
<1>6. Wired(h)[a] = IF a \notin ImagingActions THEN media[a]
        ELSE [bare |-> IF media[a].bare = Nowhere THEN "imaging" ELSE media[a].bare,
              shaped |-> "imaging"]
  BY <1>5 DEF RegisterImaging
<1>7. a \notin MediaActions \cup PtzActions => media[a].bare = device[a].bare
  BY <1>3, <1>4
<1> QED
  BY <1>1, <1>2, <1>3, <1>4, <1>6, <1>7 DEF Nowhere

(* What an answered request changes stays what the faces share.            *)
LEMMA EffectShared ==
  ASSUME OnvifInv, NEW r \in Requests
  PROVE  Effect(r) \in SharedBy(host, soap + 1)
<1>1. onvif \in SharedBy(host, soap) /\ soap \in Nat
  BY HostsAssumption DEF OnvifInv
<1>2. onvif \in SharedBy(host, soap + 1)
  BY <1>1 DEF SharedBy
<1>3. r.value \in {0, 1, 5}
  BY DEF Requests
<1>4. [onvif EXCEPT !.observed.clock = r.value] \in SharedBy(host, soap + 1)
  BY <1>2, <1>3 DEF SharedBy
<1>5. [onvif EXCEPT !.observed.reboot = @ + 1] \in SharedBy(host, soap + 1)
  BY <1>1 DEF SharedBy
<1>6. [onvif EXCEPT !.observed.reset = @ + 1] \in SharedBy(host, soap + 1)
  BY <1>1 DEF SharedBy
<1>7. [onvif EXCEPT !.filter.entries = {[addr |-> r.value, prefix |-> AddressBits]}]
        \in SharedBy(host, soap + 1)
  <2>1. {[addr |-> r.value, prefix |-> AddressBits]} \in SUBSET ListEntry
    BY <1>3, HostsAssumption DEF ListEntry
  <2> QED
    BY <1>2, <2>1 DEF SharedBy
<1>8. InRange(r.value) => [onvif EXCEPT !.imaging.Brightness = r.value] \in SharedBy(host, soap + 1)
  BY <1>2 DEF SharedBy, InRange
<1>9. [onvif EXCEPT !.encoder = r.value] \in SharedBy(host, soap + 1)
  BY <1>2, <1>3 DEF SharedBy
<1>10. [onvif EXCEPT !.idr = TRUE] \in SharedBy(host, soap + 1)
  BY <1>2 DEF SharedBy
<1> QED
  BY <1>2, <1>4, <1>5, <1>6, <1>7, <1>8, <1>9, <1>10 DEF Effect

(* An answer that comes from a face comes from the one meant for it.       *)
LEMMA AnswerRouted ==
  ASSUME OnvifInv, NEW r \in Requests, Face(r) # Nowhere
  PROVE  Face(r) = IF r.action \in ImagingActions /\ r.shaped THEN "imaging"
                   ELSE IF r.action \in {"GetStatus", "Stop", "ContinuousMove"} THEN "ptz"
                   ELSE IF r.action \in MediaActions THEN "media"
                   ELSE IF r.action \in DeviceActions THEN "device"
                   ELSE "imaging"
<1>1. host \in Hosts /\ onvif.handlers = Wired(host)
  BY DEF OnvifInv, SharedBy
<1>2. r.action \in Actions /\ r.shaped \in BOOLEAN /\ (r.shaped => r.action \in ImagingActions)
  BY DEF Requests
<1>3. /\ {"GetStatus", "Stop", "ContinuousMove"} \subseteq PtzActions \ MediaActions
      /\ PtzActions \ MediaActions \subseteq {"GetStatus", "Stop", "ContinuousMove"}
      /\ Actions = DeviceActions \cup PtzActions \cup MediaActions \cup ImagingActions
  BY DEF PtzActions, SharedActions, MediaActions, Actions
<1>4. CASE r.shaped
  BY <1>1, <1>2, <1>4, FacesWired DEF Face
<1>5. CASE ~r.shaped
  <2>1. Face(r) = Wired(host)[r.action].bare
    BY <1>1, <1>5 DEF Face
  <2> DEFINE w == Wired(host)[r.action]
  <2>2. /\ r.action \in MediaActions => w.bare = "media"
        /\ r.action \in PtzActions \ MediaActions => w.bare = "ptz"
        /\ r.action \in DeviceActions => w.bare \in {"device", Nowhere}
        /\ r.action \in ImagingActions \ (PtzActions \cup MediaActions) => w.bare = "imaging"
    BY <1>1, <1>2, FacesWired
  <2> HIDE DEF w
  <2>3. w.bare # Nowhere
    BY <2>1 DEF w
  <2> QED
    BY <1>2, <1>3, <1>5, <2>1, <2>2, <2>3 DEF w
<1> QED
  BY <1>2, <1>4, <1>5

(* A peer the configured list lets in is covered by one of its entries.    *)
LEMMA AdmittedCovered ==
  ASSUME OnvifInv, ~refiltered, Entries(host.entries) # {}, NEW p \in Peers, Admitted(p)
  PROVE  \E e \in Entries(host.entries) : Covers(e, p)
<1>1. onvif.filter.on /\ onvif.filter.entries = Entries(host.entries)
  BY ConfiguredEntries DEF OnvifInv, SharedBy
<1>2. PICK e \in Entries(host.entries) : Matches(p, e)
  BY <1>1 DEF Admitted
<1>3. e \in [addr : Peers, prefix : 0 .. AddressBits]
  BY ConfiguredEntries DEF OnvifInv
<1>4. AddressBits - e.prefix \in Nat
  BY <1>3, HostsAssumption
<1>5. PICK m \in Nat \ {0} : m = 2 ^ (AddressBits - e.prefix)
  BY <1>4, PowerPositive
<1>6. p \div m = e.addr \div m
  BY <1>2, <1>5 DEF Matches
<1>7. p \in Nat
  BY HostsAssumption, PowerPositive DEF Peers
<1>8. p % m \in 0 .. m - 1 /\ p % m <= p /\ p = (p % m) + (p \div m) * m
  BY <1>5, <1>7, Division
<1>9. p % m \in Peers
  BY <1>7, <1>8, HostsAssumption, PowerPositive DEF Peers
<1>10. p % m < m
  BY <1>8
<1>11. p = (p % m) + (e.addr \div m) * m
  BY <1>6, <1>8
<1>12. Covers(e, p)
  BY <1>5, <1>9, <1>10, <1>11 DEF Covers
<1> QED
  BY <1>12

LEMMA ServesKeeps == OnvifInv /\ Serves => OnvifInv'
<1> SUFFICES ASSUME OnvifInv, Serves PROVE OnvifInv'
  OBVIOUS
<1>1. PICK r \in Requests :
        /\ onvif' = IF Status(r) = 200 THEN Effect(r) ELSE onvif
        /\ answer' = [action |-> r.action, shaped |-> r.shaped,
                      peer |-> r.peer, known |-> r.password = host.password,
                      status |-> Status(r),
                      face |-> IF Status(r) = 200 THEN Face(r) ELSE Nowhere]
  BY DEF Serves
<1>2. /\ soap < MaxSoap /\ soap' = soap + 1 /\ host' = host /\ starts' = starts
      /\ refiltered' = (refiltered \/ onvif'.filter # onvif.filter)
  BY DEF Serves
<1>3. soap' \in 0 .. MaxSoap
  BY <1>2, HostsAssumption DEF OnvifInv
<1>4. onvif' \in SharedBy(host, soap + 1)
  <2>1. onvif \in SharedBy(host, soap + 1)
    BY HostsAssumption DEF OnvifInv, SharedBy
  <2> QED
    BY <1>1, <2>1, EffectShared
<1>5. onvif' \in SharedBy(host, soap)'
  BY <1>2, <1>4 DEF SharedBy
<1>6. ~refiltered' => onvif'.filter.entries = Entries(host'.entries)
  BY <1>2 DEF OnvifInv
<1>7. RoutedByShape'
  <2>1. /\ answer'.action = r.action /\ answer'.shaped = r.shaped
        /\ answer'.face = IF Status(r) = 200 THEN Face(r) ELSE Nowhere
    BY <1>1
  <2> QED
    BY <2>1, AnswerRouted DEF RoutedByShape
<1>8. ListedPeersOnly'
  <2>1. /\ answer'.action = r.action /\ answer'.peer = r.peer
        /\ answer'.known = (r.password = host.password)
        /\ answer'.status = Status(r)
    BY <1>1
  <2>2. SUFFICES ASSUME Status(r) = 200
                 PROVE  /\ (Entries(host.entries) # {} /\ ~refiltered) =>
                              \E e \in Entries(host.entries) : Covers(e, r.peer)
                        /\ host.password # "" /\ r.password # host.password =>
                             r.action \in {"GetSystemDateAndTime", "GetServices"}
    BY <1>2, <2>1 DEF ListedPeersOnly
  <2>3. Admitted(r.peer) /\ Authorized(r)
    BY <2>2 DEF Status
  <2>4. r.peer \in Peers
    BY DEF Requests
  <2>5. onvif.open = OpenActions
    BY DEF OnvifInv, SharedBy
  <2>6. host.password # "" /\ r.password # host.password =>
          r.action \in {"GetSystemDateAndTime", "GetServices"}
    BY <2>3, <2>5 DEF Authorized, OpenActions
  <2> QED
    BY <2>3, <2>4, <2>6, AdmittedCovered
<1> QED
  BY <1>2, <1>3, <1>5, <1>6, <1>7, <1>8 DEF OnvifInv

LEMMA OnvifInitInv == OnvifInit => OnvifInv
<1> SUFFICES ASSUME OnvifInit PROVE OnvifInv
  OBVIOUS
<1>1. onvif \in SharedBy(host, soap) /\ onvif.filter.entries = Entries(host.entries)
  BY BuiltShared DEF OnvifInit
<1>2. RoutedByShape /\ ListedPeersOnly
  BY DEF OnvifInit, RoutedByShape, ListedPeersOnly
<1> QED
  BY <1>1, <1>2, HostsAssumption DEF OnvifInit, OnvifInv

LEMMA OnvifNextInv == OnvifInv /\ [OnvifNext]_onvifVars => OnvifInv'
<1> SUFFICES ASSUME OnvifInv, [OnvifNext]_onvifVars PROVE OnvifInv'
  OBVIOUS
<1>1. CASE Serves
  BY <1>1, ServesKeeps
<1>2. CASE TakesLatch
  <2>1. onvif' \in SharedBy(host, soap) /\ onvif'.filter = onvif.filter
    BY <1>2 DEF TakesLatch, OnvifInv, SharedBy
  <2>2. UNCHANGED <<host, soap, starts, answer, refiltered>>
    BY <1>2 DEF TakesLatch
  <2>3. onvif' \in SharedBy(host, soap)'
    BY <2>1, <2>2 DEF SharedBy
  <2>4. RoutedByShape'
    BY <2>2 DEF OnvifInv, RoutedByShape
  <2>5. ListedPeersOnly'
    BY <2>2 DEF OnvifInv, ListedPeersOnly
  <2>6. soap' \in 0 .. MaxSoap /\ starts' \in 1 .. MaxStarts
    BY <2>2 DEF OnvifInv
  <2> QED
    BY <2>1, <2>2, <2>3, <2>4, <2>5, <2>6 DEF OnvifInv
<1>3. CASE Restarts
  <2>1. /\ onvif' = Built(host) /\ soap' = 0 /\ answer' = Nothing /\ host' = host
        /\ starts < MaxStarts /\ starts' = starts + 1
    BY <1>3 DEF Restarts
  <2>2. Built(host) \in SharedBy(host, 0) /\ Built(host).filter.entries = Entries(host.entries)
    BY BuiltShared DEF OnvifInv
  <2>3. onvif' \in SharedBy(host, soap)'
    BY <2>1, <2>2 DEF SharedBy
  <2>4. RoutedByShape' /\ ListedPeersOnly'
    BY <2>1 DEF RoutedByShape, ListedPeersOnly
  <2>5. soap' \in 0 .. MaxSoap /\ starts' \in 1 .. MaxStarts
    BY <2>1, HostsAssumption DEF OnvifInv
  <2> QED
    BY <2>1, <2>2, <2>3, <2>4, <2>5 DEF OnvifInv
<1>4. CASE UNCHANGED onvifVars
  <2>1. UNCHANGED <<host, onvif, soap, starts, answer, refiltered>>
    BY <1>4 DEF onvifVars
  <2>2. onvif' \in SharedBy(host, soap)'
    BY <2>1 DEF OnvifInv, SharedBy
  <2>3. RoutedByShape'
    BY <2>1 DEF OnvifInv, RoutedByShape
  <2>4. ListedPeersOnly'
    BY <2>1 DEF OnvifInv, ListedPeersOnly
  <2> QED
    BY <2>1, <2>2, <2>3, <2>4 DEF OnvifInv
<1> QED
  BY <1>1, <1>2, <1>3, <1>4 DEF OnvifNext

(* Every answer comes from the service it is about, whatever other service *)
(* knows its name; until a listed peer changes the list, only a peer that  *)
(* a configured entry covers is answered, and only the actions needed to   *)
(* sign in without the password (wire_onvif_server in                      *)
(* src/src/onvif_glue.rs).                                                 *)
THEOREM OnvifAlwaysSound == OnvifSpec => []OnvifSound
<1>1. OnvifInv => OnvifSound
  BY DEF OnvifInv, OnvifSound
<1> QED
  BY OnvifInitInv, OnvifNextInv, <1>1, PTL DEF OnvifSpec

LEMMA OnvifTyped == OnvifInv => OnvifTypeOK
<1> SUFFICES ASSUME OnvifInv PROVE OnvifTypeOK
  OBVIOUS
<1>1. DOMAIN onvif.handlers = Actions
  <2>1. onvif.handlers = Wired(host)
    BY DEF OnvifInv, SharedBy
  <2> QED
    BY <2>1 DEF Wired, RegisterImaging
<1>2. \A p \in DOMAIN onvif.imaging : InRange(onvif.imaging[p])
  BY DEF OnvifInv, SharedBy, InRange
<1>3. onvif.observed.reboot \in 0 .. soap /\ onvif.idr \in BOOLEAN
  BY DEF OnvifInv, SharedBy
<1> QED
  BY <1>1, <1>2, <1>3, HostsAssumption DEF OnvifInv, OnvifTypeOK

(***************************************************************************)
(* ConfigSound for every set of serial numbers.                            *)
(***************************************************************************)
DeviceFields == {"name", "manufacturer", "model", "hardware_id", "serial_number"}

LEMMA SchemaSections ==
  /\ Sections = {"camera", "substream", "rtsp", "onvif", "gb28181", "web", "ai",
                 "recording", "logging", "watermark", "device", "thermal",
                 "gb28181_thermal", "others"}
  /\ Schema["camera"] = CameraSchema /\ Schema["substream"] = SubSchema
  /\ Schema["rtsp"] = RtspSchema /\ Schema["onvif"] = OnvifSchema
  /\ Schema["web"] = WebSchema /\ Schema["ai"] = AiSchema
  /\ Schema["recording"] = RecordingSchema /\ Schema["logging"] = LoggingSchema
  /\ Schema["watermark"] = WatermarkSchema /\ Schema["device"] = DeviceSchema
BY DEF Schema, Sections

LEMMA NumDefault == \A d, o : Num(d, o).default = d
BY DEF Num, Entry

LEMMA StrDefault == \A d, o : Str(d, o).default = d
BY DEF Str, Entry

LEMMA FileDefault == \A d, o : File(d, o).default = d
BY DEF File, Entry

LEMMA FileOff ==
  ASSUME NEW e, e = File(FALSE, {TRUE})
  PROVE  e.default = FALSE
BY DEF File, Entry

LEMMA NumOff ==
  ASSUME NEW e, e = Num(FALSE, {TRUE})
  PROVE  e.default = FALSE
BY DEF Num, Entry

LEMMA OffIsValid ==
  ASSUME NEW sub, ~sub["enabled"]
  PROVE  SubValid(sub)
BY DEF SubValid

LEMMA DeviceSchemaFields ==
  /\ DOMAIN DeviceSchema = DeviceFields
  /\ DeviceSchema["name"].default = "ONVIF Device" /\ DeviceSchema["name"].others = {"yard"}
  /\ DeviceSchema["manufacturer"].default = "unknown"
  /\ DeviceSchema["manufacturer"].others = {"us"}
  /\ DeviceSchema["model"].default = "unknown" /\ DeviceSchema["model"].others = {"cam"}
  /\ DeviceSchema["hardware_id"].default = "unknown" /\ DeviceSchema["hardware_id"].others = {"hw"}
  /\ DeviceSchema["serial_number"].default = "" /\ DeviceSchema["serial_number"].others = {"S1"}
BY DEF DeviceSchema, DeviceFields, Str, Entry

LEMMA PathParts ==
  ASSUME NEW p \in Paths
  PROVE  /\ p[1] \in Sections /\ p[2] \in DOMAIN Schema[p[1]] /\ p = <<p[1], p[2]>>
<1>1. p \in UNION {{s} \X DOMAIN Schema[s] : s \in Sections}
  BY DEF Paths
<1>2. PICK s \in Sections : p \in {s} \X DOMAIN Schema[s]
  BY <1>1
<1> QED
  BY <1>2

(* Before the backfill a field may hold its own placeholder, no other.     *)
Fillable(device) ==
  /\ DOMAIN device = DeviceFields
  /\ device["name"] # "unknown" /\ device["serial_number"] \notin Placeholders
  /\ \A f \in {"manufacturer", "model", "hardware_id"} : device[f] # "ONVIF Device"

Filled(device) ==
  /\ \A f \in DOMAIN device : device[f] \notin Placeholders
  /\ device["serial_number"] = "" => serial = ""

LEMMA BackfillFills ==
  ASSUME NEW device, serial \in Serials, Fillable(device)
  PROVE  /\ Fillable(Backfilled(device)) /\ Filled(Backfilled(device))
         /\ \A f \in DeviceFields :
              device[f] \notin Placeholders \cup {""} => Backfilled(device)[f] = device[f]
<1> DEFINE b == Backfilled(device)
<1>1. /\ DOMAIN b = DeviceFields
      /\ b["name"] = Identity(device["name"], "ONVIF Device", "Pi Camera V1")
      /\ b["manufacturer"] = Identity(device["manufacturer"], "unknown", "Raspberry Pi")
      /\ b["model"] = Identity(device["model"], "unknown", "OV5647")
      /\ b["hardware_id"] = Identity(device["hardware_id"], "unknown", "OV5647")
      /\ b["serial_number"] = Identity(device["serial_number"], "", serial)
  BY DEF Backfilled, Fillable, DeviceFields, Identity
<1>2. serial \notin Placeholders
  BY SerialsAssumption
<1> HIDE DEF b
<1>3. \A f \in DeviceFields : b[f] \notin Placeholders
  BY <1>1, <1>2 DEF Fillable, Identity, Placeholders, DeviceFields
<1>4. b["serial_number"] = "" => serial = ""
  BY <1>1 DEF Identity
<1>5. \A f \in DeviceFields :
              device[f] \notin Placeholders \cup {""} => b[f] = device[f]
  BY <1>1 DEF Identity, Placeholders, DeviceFields
<1>6. Fillable(b)
  BY <1>1, <1>3 DEF Fillable, Placeholders, DeviceFields
<1> QED
  BY <1>1, <1>3, <1>4, <1>5, <1>6 DEF b, Filled

LEMMA SerdeIsFillable ==
  /\ DOMAIN SerdeDefaults = Sections
  /\ \A s \in Sections : \A f \in DOMAIN Schema[s] : SerdeDefaults[s][f] = Schema[s][f].default
  /\ Fillable(SerdeDefaults["device"])
<1>1. DOMAIN SerdeDefaults = Sections
  BY DEF SerdeDefaults
<1>2. \A s \in Sections : SerdeDefaults[s] = [f \in DOMAIN Schema[s] |-> Schema[s][f].default]
  BY DEF SerdeDefaults, SectionDefaults
<1>3. "device" \in Sections
  BY SchemaSections
<1>4. Fillable(SerdeDefaults["device"])
  <2>1. /\ DOMAIN SerdeDefaults["device"] = DeviceFields
        /\ \A f \in DeviceFields : SerdeDefaults["device"][f] = DeviceSchema[f].default
    BY <1>3, SchemaSections, DeviceSchemaFields DEF SerdeDefaults, SectionDefaults
  <2> QED
    BY <2>1, DeviceSchemaFields DEF Fillable, Placeholders, DeviceFields
<1> QED
  BY <1>1, <1>2, <1>4

LEMMA DefaultsFilled ==
  ASSUME serial \in Serials
  PROVE  /\ DOMAIN Defaults = Sections
         /\ Fillable(Defaults["device"]) /\ Filled(Defaults["device"])
         /\ \A s \in Sections \ {"device"} : Defaults[s] = SerdeDefaults[s]
<1>1. /\ DOMAIN Defaults = Sections
      /\ \A s \in Sections \ {"device"} : Defaults[s] = SerdeDefaults[s]
      /\ Defaults["device"] = Backfilled(SerdeDefaults["device"])
  <2> DEFINE d == Backfilled(SerdeDefaults.device)
  <2>1. Defaults = [SerdeDefaults EXCEPT !.device = d]
    BY DEF Defaults
  <2> HIDE DEF d
  <2>2. /\ DOMAIN Defaults = Sections /\ Defaults["device"] = d
        /\ \A s \in Sections \ {"device"} : Defaults[s] = SerdeDefaults[s]
    BY <2>1, SerdeIsFillable, SchemaSections
  <2> QED
    BY <2>2 DEF d
<1> QED
  BY <1>1, SerdeIsFillable, BackfillFills

(* The configuration main falls back to passes the validation.             *)
LEMMA DefaultsValid ==
  ASSUME serial \in Serials
  PROVE  ConfigValid(Defaults)
<1>1. \A s \in Sections \ {"device"} : \A f \in DOMAIN Schema[s] :
        Defaults[s][f] = Schema[s][f].default
  BY DefaultsFilled, SerdeIsFillable
<1>2. \A f \in DOMAIN SubSchema : Defaults["substream"][f] = SubSchema[f].default
  BY <1>1, SchemaSections
<1>3. \A f \in DOMAIN CameraSchema : Defaults["camera"][f] = CameraSchema[f].default
  BY <1>1, SchemaSections
<1>4. \A f \in DOMAIN WatermarkSchema : Defaults["watermark"][f] = WatermarkSchema[f].default
  BY <1>1, SchemaSections
<1>5. /\ \A f \in DOMAIN RtspSchema : Defaults["rtsp"][f] = RtspSchema[f].default
      /\ \A f \in DOMAIN OnvifSchema : Defaults["onvif"][f] = OnvifSchema[f].default
      /\ \A f \in DOMAIN WebSchema : Defaults["web"][f] = WebSchema[f].default
      /\ \A f \in DOMAIN AiSchema : Defaults["ai"][f] = AiSchema[f].default
      /\ \A f \in DOMAIN LoggingSchema : Defaults["logging"][f] = LoggingSchema[f].default
      /\ \A f \in DOMAIN RecordingSchema : Defaults["recording"][f] = RecordingSchema[f].default
  BY <1>1, SchemaSections
<1>6. SubValid(Defaults["substream"])
  <2>1. "enabled" \in DOMAIN SubSchema /\ SubSchema["enabled"] = File(FALSE, {TRUE})
    BY DEF SubSchema
  <2>3. Defaults["substream"]["enabled"] = SubSchema["enabled"].default
    BY <1>2, <2>1
  <2>4. SubSchema["enabled"].default = FALSE
    BY <2>1, FileOff
  <2>2. ~Defaults["substream"]["enabled"]
    BY <2>3, <2>4
  <2> QED
    BY <2>2, OffIsValid
<1>7. CameraValid(Defaults["camera"])
  <2>1. /\ {"fps", "width", "height", "bitrate", "brightness", "contrast", "saturation",
            "sharpness", "codec", "encoder", "rotation"} \subseteq DOMAIN CameraSchema
        /\ CameraSchema["fps"] = Num(15, {0, 121})
        /\ CameraSchema["width"] = Num(1280, {0, 641, 7682})
        /\ CameraSchema["height"] = Num(720, {0, 4322})
        /\ CameraSchema["bitrate"] = Num(2000, {0, 200001})
        /\ CameraSchema["brightness"] = Num(0, {-11, 10, NaN})
        /\ CameraSchema["contrast"] = Num(10, {-1, 320})
        /\ CameraSchema["saturation"] = Num(10, {321})
        /\ CameraSchema["sharpness"] = Num(10, {161})
        /\ CameraSchema["codec"] = Str("h264", {"h265", "vp8"})
        /\ CameraSchema["encoder"] = Str("auto", {"software", "mjpeg"})
        /\ CameraSchema["rotation"] = File(0, {45, 90})
    BY DEF CameraSchema
  <2> DEFINE c == Defaults["camera"]
  <2>2. /\ c["fps"] = 15 /\ c["width"] = 1280 /\ c["height"] = 720 /\ c["bitrate"] = 2000
        /\ c["brightness"] = 0 /\ c["contrast"] = 10 /\ c["saturation"] = 10
        /\ c["sharpness"] = 10 /\ c["codec"] = "h264" /\ c["encoder"] = "auto"
        /\ c["rotation"] = 0
    BY <1>3, <2>1, NumDefault, StrDefault, FileDefault
  <2> HIDE DEF c
  <2>3. CameraValid(c)
    BY <2>2 DEF CameraValid
  <2> QED
    BY <2>3 DEF c
<1>8. WatermarkValid(Defaults["watermark"])
  <2>13. WatermarkSchema["font_size"] = Num(24, {11, 97})
    BY DEF WatermarkSchema
  <2>1. /\ {"font_size", "text", "enabled", "timestamp_format"} \subseteq DOMAIN WatermarkSchema
        /\ WatermarkSchema["text"] = Str("", {"yard", "129 characters"})
        /\ WatermarkSchema["timestamp_format"] = Str("strict", {"%j", "ends in %"})
    BY DEF WatermarkSchema
  <2>11. WatermarkSchema["enabled"] = Num(FALSE, {TRUE})
    BY DEF WatermarkSchema
  <2>12. WatermarkSchema["font_size"].default = 24
    BY <2>13, NumDefault
  <2>2. /\ WatermarkSchema["text"].default = ""
        /\ WatermarkSchema["timestamp_format"].default = "strict"
    BY <2>1, StrDefault
  <2>10. WatermarkSchema["enabled"].default = FALSE
    BY <2>11, NumOff
  <2> DEFINE w == Defaults["watermark"]
  <2> HIDE DEF w
  <2>7. \A f \in {"font_size", "text", "enabled", "timestamp_format"} :
          w[f] = WatermarkSchema[f].default
    BY <1>4, <2>1 DEF w
  <2>3. w["text"] = "" /\ w["timestamp_format"] = "strict"
    BY <2>2, <2>7
  <2>4. w["enabled"] = FALSE
    BY Zenon, <2>10, <2>7
  <2>8. w["font_size"] = 24
    BY <2>12, <2>7
  <2>9. w["font_size"] \in 12..96
    BY <2>8
  <2>5. w["font_size"] \in 12..96 /\ w["text"] # "129 characters"
    BY Zenon, <2>3, <2>9
  <2>6. WatermarkValid(w)
    BY Zenon, <2>3, <2>4, <2>5 DEF WatermarkValid
  <2> QED
    BY <2>6 DEF w
<1>9. ServicesValid(Defaults)
  <2>1. /\ "port" \in DOMAIN RtspSchema /\ RtspSchema["port"] = Num(8554, {0})
        /\ {"port", "ip_filter"} \subseteq DOMAIN OnvifSchema
        /\ OnvifSchema["port"] = Num(8080, {0})
        /\ OnvifSchema["ip_filter"] = Str("empty", {"lan", "bad"})
        /\ "port" \in DOMAIN WebSchema /\ WebSchema["port"] = Num(8088, {0})
    BY DEF RtspSchema, OnvifSchema, WebSchema
  <2>2. /\ "model" \in DOMAIN AiSchema
        /\ AiSchema["model"] = File("nanodet-plus-m-320", {"Not An Id"})
        /\ "level" \in DOMAIN LoggingSchema /\ LoggingSchema["level"] = Str("info", {"trace"})
        /\ "segment_secs" \in DOMAIN RecordingSchema
    BY DEF AiSchema, LoggingSchema, RecordingSchema
  <2>13. RecordingSchema["segment_secs"] = Num(600, {59})
    BY DEF RecordingSchema
  <2>3. /\ Defaults["rtsp"]["port"] > 0 /\ Defaults["onvif"]["port"] > 0
        /\ Defaults["onvif"]["ip_filter"] # "bad" /\ Defaults["web"]["port"] > 0
    BY <1>5, <2>1, NumDefault, StrDefault, FileDefault
  <2>11. AiSchema["model"].default = "nanodet-plus-m-320"
    BY <2>2, FileDefault
  <2>12. LoggingSchema["level"].default = "info"
    BY <2>2, StrDefault
  <2>9. RecordingSchema["segment_secs"].default = 600
    BY <2>13, NumDefault
  <2>5. Defaults["recording"]["segment_secs"] = 600
    BY Zenon, <1>5, <2>2, <2>9
  <2>6. Defaults["ai"]["model"] = "nanodet-plus-m-320"
    BY Zenon, <1>5, <2>2, <2>11
  <2>7. Defaults["logging"]["level"] = "info"
    BY Zenon, <1>5, <2>2, <2>12
  <2>10. Defaults["recording"]["segment_secs"] >= 60
    BY <2>5
  <2>8. "nanodet-plus-m-320" # "Not An Id" /\ "info" \in {"debug", "info", "warn", "error"}
    OBVIOUS
  <2>4. /\ Defaults["ai"]["model"] # "Not An Id"
        /\ Defaults["logging"]["level"] \in {"debug", "info", "warn", "error"}
        /\ Defaults["recording"]["segment_secs"] >= 60
    BY Zenon, <2>10, <2>6, <2>7, <2>8
  <2> QED
    BY Zenon, <2>3, <2>4 DEF ServicesValid
<1> QED
  BY <1>6, <1>7, <1>8, <1>9 DEF ConfigValid

-----------------------------------------------------------------------------
(* What a file or a variable gives a field of the device is one of its     *)
(* values.                                                                 *)
Known(g) == \A p \in DOMAIN g : p[1] = "device" => g[p] \in At(p).others

LEMMA AlsoKnown ==
  ASSUME NEW g, NEW h, Known(g), Known(h)
  PROVE  Known(Also(g, h))
BY DEF Known, Also

LEMMA WithFillable ==
  ASSUME NEW conf, NEW given,
         Fillable(conf["device"]),
         \A p \in DOMAIN given :
            p[1] = "device" => given[p] \in {At(p).default} \cup At(p).others
  PROVE  /\ DOMAIN With(conf, given) = Sections
         /\ Fillable(With(conf, given)["device"])
<1> DEFINE d == With(conf, given)["device"]
<1>1. DOMAIN With(conf, given) = Sections
  BY DEF With
<1>2. d = [f \in DeviceFields |-> IF <<"device", f>> \in DOMAIN given
                                 THEN given[<<"device", f>>] ELSE conf["device"][f]]
  BY SchemaSections, DeviceSchemaFields DEF With
<1> HIDE DEF d
<1>3. \A f \in DeviceFields : <<"device", f>> \in DOMAIN given =>
        given[<<"device", f>>] \in {DeviceSchema[f].default} \cup DeviceSchema[f].others
  <2> TAKE f \in DeviceFields
  <2> DEFINE p == <<"device", f>>
  <2>1. p[1] = "device" /\ p[2] = f
    OBVIOUS
  <2>2. At(p) = DeviceSchema[f]
    BY <2>1, SchemaSections DEF At
  <2> QED
    BY <2>1, <2>2
<1>4. \A f \in DeviceFields :
        \/ d[f] = conf["device"][f]
        \/ d[f] \in {DeviceSchema[f].default} \cup DeviceSchema[f].others
  BY <1>2, <1>3
<1>5. DOMAIN d = DeviceFields
  BY <1>2
<1>6. Fillable(d)
  <2>1. d["name"] # "unknown"
    BY <1>4, DeviceSchemaFields DEF Fillable, DeviceFields
  <2>2. d["serial_number"] \notin Placeholders
    BY <1>4, DeviceSchemaFields DEF Fillable, DeviceFields, Placeholders
  <2>3. d["manufacturer"] # "ONVIF Device"
    BY <1>4, DeviceSchemaFields DEF Fillable, DeviceFields
  <2>4. d["model"] # "ONVIF Device"
    BY <1>4, DeviceSchemaFields DEF Fillable, DeviceFields
  <2>5. d["hardware_id"] # "ONVIF Device"
    BY <1>4, DeviceSchemaFields DEF Fillable, DeviceFields
  <2> QED
    BY <1>5, <2>1, <2>2, <2>3, <2>4, <2>5 DEF Fillable
<1> QED
  BY <1>1, <1>6 DEF d

LEMMA VariablesKnown ==
  ASSUME NEW p \in Paths, NEW v \in Variables(p)
  PROVE  DOMAIN v = {p} /\ v[p] \in EnvValues(p)
BY DEF Variables

(* A variable that parses and does not itself ask for a placeholder.       *)
Counts(p) == variables[p].parses
             /\ (p[1] = "device" => variables[p].value \notin Placeholders \cup {""})

Heard(conf) == \A p \in DOMAIN variables : Counts(p) => conf[p[1]][p[2]] = variables[p].value

SchemaInv ==
  /\ SchemaTypeOK
  /\ Known(document.gives)
  /\ \A p \in DOMAIN variables : p \in Paths /\ variables[p] \in EnvValues(p)
  /\ Fillable(loading["device"])
  /\ bootAt \in {"validate", "camera", "up"} => Filled(loading["device"])
  /\ bootAt \in {"camera", "up"} => ConfigValid(loading)
  /\ bootAt \in {"backfill", "validate", "camera", "up"} /\ source = "file" => Heard(loading)
  /\ cameraUp = "started" => bootAt = "up" /\ StreamAccepted(MainStream(loading))

LEMMA GivesKnown ==
  ASSUME NEW p \in Paths, NEW g \in Gives(p)
  PROVE  Known(g)
BY DEF Gives, Known

LEMMA GivesTwoKnown ==
  ASSUME NEW g \in GivesTwo
  PROVE  Known(g)
<1>1. PICK pq \in Pairs : g \in {Also(a, b) : a \in Gives(pq[1]), b \in Gives(pq[2])}
  BY DEF GivesTwo
<1>2. PICK a \in Gives(pq[1]), b \in Gives(pq[2]) : g = Also(a, b)
  BY <1>1
<1>3. pq[1] \in Paths /\ pq[2] \in Paths
  BY DEF Pairs
<1> QED
  BY <1>2, <1>3, GivesKnown, AlsoKnown

LEMMA AllKnown ==
  ASSUME NEW ones, NEW twos, Known(NoValues),
         \A g \in ones : Known(g), \A g \in twos : Known(g)
  PROVE  \A g \in {NoValues} \cup ones \cup twos : Known(g)
OBVIOUS

LEMMA SchemaInitInv == SchemaInit => SchemaInv
<1> SUFFICES ASSUME SchemaInit PROVE SchemaInv
  OBVIOUS
<1>1. bootAt = "read" /\ serial \in Serials /\ source = "file"
      /\ loading = SerdeDefaults /\ cameraUp = "off"
  BY DEF SchemaInit
<1>2. PICK sub \in {NoValues, SubEnabled} :
         /\ document \in {[state |-> "absent", gives |-> NoValues],
                          [state |-> "torn", gives |-> NoValues]}
                  \cup {[state |-> "parses", gives |-> Also(sub, g)] :
                          g \in {NoValues} \cup (UNION {Gives(p) : p \in Paths}) \cup GivesTwo}
         /\ variables = NoValues \/ \E p \in Paths : variables \in Variables(p)
  BY DEF SchemaInit
<1>3. Known(NoValues) /\ Known(SubEnabled)
  <2>1. DOMAIN NoValues = {}
    BY DEF NoValues
  <2>2. DOMAIN SubEnabled = {<<"substream", "enabled">>}
    BY DEF SubEnabled
  <2>3. \A p \in DOMAIN SubEnabled : p[1] # "device"
    BY <2>2
  <2> QED
    BY <2>1, <2>3 DEF Known
<1>4. \A g \in {NoValues} \cup (UNION {Gives(p) : p \in Paths}) \cup GivesTwo : Known(g)
  <2>1. \A p \in Paths : \A g \in Gives(p) : Known(g)
    BY GivesKnown
  <2>2. \A g \in GivesTwo : Known(g)
    BY GivesTwoKnown
  <2>3. \A g \in UNION {Gives(p) : p \in Paths} : \E p \in Paths : g \in Gives(p)
    OBVIOUS
  <2>4. \A g \in UNION {Gives(p) : p \in Paths} : Known(g)
    BY <2>1, <2>3
  <2> QED
    BY <1>3, <2>2, <2>4, AllKnown
<1>5. Known(document.gives)
  <2>1. CASE document \in {[state |-> "absent", gives |-> NoValues],
                          [state |-> "torn", gives |-> NoValues]}
    BY <1>3, <2>1
  <2>2. CASE document \notin {[state |-> "absent", gives |-> NoValues],
                          [state |-> "torn", gives |-> NoValues]}
    <3>1. PICK g \in {NoValues} \cup (UNION {Gives(p) : p \in Paths}) \cup GivesTwo :
            document = [state |-> "parses", gives |-> Also(sub, g)]
      BY <1>2, <2>2
    <3>2. Known(sub) /\ Known(g)
      BY <1>2, <1>3, <1>4
    <3>3. document.gives = Also(sub, g)
      BY <3>1
    <3> QED
      BY <3>2, <3>3, AlsoKnown
  <2> QED
    BY <2>1, <2>2
<1>6. \A p \in DOMAIN variables : p \in Paths /\ variables[p] \in EnvValues(p)
  <2>1. CASE variables = NoValues
    <3>1. DOMAIN variables = {}
      BY <2>1 DEF NoValues
    <3> QED
      BY <3>1
  <2>2. CASE \E p \in Paths : variables \in Variables(p)
    <3>1. PICK p \in Paths : variables \in Variables(p)
      BY <2>2
    <3>2. DOMAIN variables = {p} /\ variables[p] \in EnvValues(p)
      BY <3>1, VariablesKnown
    <3> QED
      BY <3>1, <3>2
  <2> QED
    BY <1>2, <2>1, <2>2
<1>7. SchemaTypeOK
  BY <1>1, SerdeIsFillable DEF SchemaTypeOK
<1> QED
  BY <1>1, <1>5, <1>6, <1>7, SerdeIsFillable DEF SchemaInv

LEMMA FallsBack ==
  ASSUME SchemaInv, FallBack, bootAt # "up", UNCHANGED <<document, variables, serial, cameraUp>>
  PROVE  SchemaInv'
<1>1. loading' = Defaults /\ source' = "defaults" /\ bootAt' = "camera"
  BY DEF FallBack
<1>2. serial \in Serials
  BY DEF SchemaInv, SchemaTypeOK
<1>3. /\ DOMAIN loading' = Sections /\ Fillable(loading'["device"])
      /\ Filled(loading'["device"]) /\ ConfigValid(loading')
  BY <1>1, <1>2, DefaultsFilled, DefaultsValid
<1>4. Filled(loading["device"])'
  BY <1>3 DEF Filled
<1>5. SchemaTypeOK'
  BY <1>1, <1>3 DEF SchemaInv, SchemaTypeOK
<1>6. ~(source' = "file")
  BY <1>1
<1>7. /\ Known(document.gives)'
      /\ \A p \in DOMAIN variables' : p \in Paths /\ variables'[p] \in EnvValues(p)
  BY DEF SchemaInv, Known
<1>8. cameraUp' # "started"
  BY DEF SchemaInv
<1> QED
  BY <1>1, <1>3, <1>4, <1>5, <1>6, <1>7, <1>8 DEF SchemaInv

LEMMA ReadKeeps == SchemaInv /\ ReadDocument => SchemaInv'
<1> SUFFICES ASSUME SchemaInv, ReadDocument PROVE SchemaInv'
  OBVIOUS
<1>1. UNCHANGED <<document, variables, serial, cameraUp>>
  BY DEF ReadDocument
<1>2. CASE document.state # "parses"
  BY <1>1, <1>2, FallsBack DEF ReadDocument
<1>3. CASE document.state = "parses"
  <2>1. /\ loading' = Parsed(document.gives) /\ bootAt' = "override" /\ source' = source
    BY <1>3 DEF ReadDocument
  <2>2. Known(document.gives) /\ serial \in Serials
    BY DEF SchemaInv, SchemaTypeOK
  <2>3. PICK base \in {SerdeDefaults, Defaults} : loading' = With(base, document.gives)
    BY <2>1 DEF Parsed
  <2>4. Fillable(base["device"])
    BY <2>2, <2>3, SerdeIsFillable, DefaultsFilled
  <2>5. DOMAIN loading' = Sections /\ Fillable(loading'["device"])
    <3>1. \A p \in DOMAIN document.gives : p[1] = "device" =>
            document.gives[p] \in {At(p).default} \cup At(p).others
      BY <2>2 DEF Known
    <3> QED
      BY <2>3, <2>4, <3>1, WithFillable
  <2>6. SchemaTypeOK'
    BY <1>1, <2>1, <2>5 DEF SchemaInv, SchemaTypeOK
  <2>7. /\ Known(document.gives)'
        /\ \A p \in DOMAIN variables' : p \in Paths /\ variables'[p] \in EnvValues(p)
    BY <1>1 DEF SchemaInv, Known
  <2>8. cameraUp' # "started"
    BY <1>1 DEF SchemaInv, ReadDocument
  <2> QED
    BY <2>1, <2>5, <2>6, <2>7, <2>8 DEF SchemaInv
<1> QED
  BY <1>2, <1>3

(* What was taken from the variables is what With writes.                  *)
LEMMA OverrideKeeps == SchemaInv /\ OverrideEnv => SchemaInv'
<1> SUFFICES ASSUME SchemaInv, OverrideEnv PROVE SchemaInv'
  OBVIOUS
<1> DEFINE Set == {p \in DOMAIN variables :
                    variables[p].parses \/ At(p).read = "else default"}
           given == [p \in Set |-> IF variables[p].parses THEN variables[p].value
                                  ELSE At(p).default]
<1>1. /\ UNCHANGED <<document, variables, serial, cameraUp, source>>
      /\ bootAt = "override" /\ bootAt' = "backfill"
      /\ loading' = With(loading, given)
  BY DEF OverrideEnv
<1>2. \A p \in DOMAIN variables : /\ p \in Paths
                                  /\ variables[p].value \in {At(p).default} \cup At(p).others
  BY DEF SchemaInv, EnvValues
<1>3. DOMAIN given = Set /\ \A p \in Set : given[p] \in {At(p).default} \cup At(p).others
  BY <1>2
<1>4. \A p \in DOMAIN variables : Counts(p) => p \in Set /\ given[p] = variables[p].value
  BY Zenon DEF Counts
<1> HIDE DEF given
<1>5. Fillable(loading["device"])
  BY DEF SchemaInv
<1>6. DOMAIN loading' = Sections /\ Fillable(loading'["device"])
  BY <1>1, <1>3, <1>5, WithFillable
<1>7. \A p \in DOMAIN variables : Counts(p) => loading'[p[1]][p[2]] = variables[p].value
  <2> TAKE p \in DOMAIN variables
  <2> HAVE Counts(p)
  <2>1. p \in DOMAIN given /\ given[p] = variables[p].value /\ p \in Paths
    BY <1>2, <1>3, <1>4
  <2>2. p[1] \in Sections /\ p[2] \in DOMAIN Schema[p[1]] /\ p = <<p[1], p[2]>>
    BY <2>1, PathParts
  <2>3. With(loading, given)[p[1]][p[2]] =
          IF <<p[1], p[2]>> \in DOMAIN given THEN given[<<p[1], p[2]>>] ELSE loading[p[1]][p[2]]
    BY <2>2 DEF With
  <2> QED
    BY <1>1, <2>1, <2>2, <2>3
<1>8. Heard(loading)'
  BY <1>1, <1>7 DEF Heard, Counts
<1>9. SchemaTypeOK'
  BY <1>1, <1>6 DEF SchemaInv, SchemaTypeOK
<1>10. /\ Known(document.gives)'
       /\ \A p \in DOMAIN variables' : p \in Paths /\ variables'[p] \in EnvValues(p)
  BY <1>1 DEF SchemaInv, Known
<1>11. cameraUp' # "started"
  BY <1>1 DEF SchemaInv
<1> QED
  BY <1>1, <1>6, <1>8, <1>9, <1>10, <1>11 DEF SchemaInv

LEMMA BackfillKeeps == SchemaInv /\ BackfillIdentity => SchemaInv'
<1> SUFFICES ASSUME SchemaInv, BackfillIdentity PROVE SchemaInv'
  OBVIOUS
<1>1. /\ UNCHANGED <<document, variables, serial, cameraUp, source>>
      /\ bootAt = "backfill" /\ bootAt' = "validate"
      /\ loading' = [loading EXCEPT !.device = Backfilled(@)]
  BY DEF BackfillIdentity
<1>2. DOMAIN loading = Sections /\ serial \in Serials /\ Fillable(loading["device"])
  BY DEF SchemaInv, SchemaTypeOK
<1>3. /\ DOMAIN loading' = Sections
      /\ loading'["device"] = Backfilled(loading["device"])
      /\ \A s \in Sections \ {"device"} : loading'[s] = loading[s]
  <2> DEFINE d == Backfilled(loading["device"])
  <2>1. loading' = [loading EXCEPT !.device = d]
    BY <1>1
  <2> HIDE DEF d
  <2>2. /\ DOMAIN loading' = Sections /\ loading'["device"] = d
        /\ \A s \in Sections \ {"device"} : loading'[s] = loading[s]
    BY <1>2, <2>1, SchemaSections
  <2> QED
    BY <2>2 DEF d
<1>4. /\ Fillable(loading'["device"]) /\ Filled(loading'["device"])
      /\ \A f \in DeviceFields : loading["device"][f] \notin Placeholders \cup {""} =>
            loading'["device"][f] = loading["device"][f]
  BY <1>2, <1>3, BackfillFills
<1>5. Filled(loading["device"])'
  BY <1>1, <1>4 DEF Filled
<1>6. ASSUME source = "file" PROVE Heard(loading)'
  <2>1. Heard(loading)
    BY <1>1, <1>6 DEF SchemaInv
  <2>2. SUFFICES ASSUME NEW p \in DOMAIN variables, Counts(p)
                 PROVE  loading'[p[1]][p[2]] = variables[p].value
    BY <1>1 DEF Heard, Counts
  <2>3. loading[p[1]][p[2]] = variables[p].value
    BY <2>1, <2>2 DEF Heard
  <2>4. p[1] \in Sections /\ p[2] \in DOMAIN Schema[p[1]]
    BY PathParts DEF SchemaInv
  <2>5. CASE p[1] = "device"
    <3>1. p[2] \in DeviceFields
      BY <2>4, <2>5, SchemaSections, DeviceSchemaFields
    <3>2. variables[p].value \notin Placeholders \cup {""}
      BY Zenon, <2>2, <2>5 DEF Counts
    <3> QED
      BY <1>4, <2>3, <2>5, <3>1, <3>2
  <2>6. CASE p[1] # "device"
    BY <1>3, <2>3, <2>4, <2>6
  <2> QED
    BY <2>5, <2>6
<1>7. SchemaTypeOK'
  BY <1>1, <1>3 DEF SchemaInv, SchemaTypeOK
<1>8. /\ Known(document.gives)'
      /\ \A p \in DOMAIN variables' : p \in Paths /\ variables'[p] \in EnvValues(p)
  BY <1>1 DEF SchemaInv, Known
<1>9. cameraUp' # "started"
  BY <1>1 DEF SchemaInv
<1> QED
  BY <1>1, <1>4, <1>5, <1>6, <1>7, <1>8, <1>9 DEF SchemaInv

LEMMA SchemaNextInv == SchemaInv /\ [SchemaNext]_schemaVars => SchemaInv'
<1> SUFFICES ASSUME SchemaInv, [SchemaNext]_schemaVars PROVE SchemaInv'
  OBVIOUS
<1>1. CASE ReadDocument
  BY <1>1, ReadKeeps
<1>2. CASE OverrideEnv
  BY <1>2, OverrideKeeps
<1>3. CASE BackfillIdentity
  BY <1>3, BackfillKeeps
<1>4. CASE ValidateConfig
  <2>1. UNCHANGED <<document, variables, serial, cameraUp>> /\ bootAt = "validate"
    BY <1>4 DEF ValidateConfig
  <2>2. CASE ~ConfigValid(loading)
    BY <1>4, <2>1, <2>2, FallsBack DEF ValidateConfig
  <2>3. CASE ConfigValid(loading)
    <3>1. bootAt' = "camera" /\ UNCHANGED <<loading, source>>
      BY <1>4, <2>3 DEF ValidateConfig
    <3>2. ConfigValid(loading)'
      BY <2>3, <3>1
    <3>6. Filled(loading["device"])'
      BY <2>1, <3>1 DEF SchemaInv, Filled
    <3>3. SchemaTypeOK'
      BY <2>1, <3>1 DEF SchemaInv, SchemaTypeOK
    <3>7. Fillable(loading["device"])'
      BY <2>1, <3>1 DEF SchemaInv
    <3>4. source' = "file" => Heard(loading)'
      BY <2>1, <3>1 DEF SchemaInv, Heard, Counts
    <3>5. /\ Known(document.gives)'
          /\ \A p \in DOMAIN variables' : p \in Paths /\ variables'[p] \in EnvValues(p)
      BY <2>1 DEF SchemaInv, Known
    <3>8. cameraUp' # "started"
      BY <2>1 DEF SchemaInv
    <3> QED
      BY <3>1, <3>2, <3>3, <3>4, <3>5, <3>6, <3>7, <3>8 DEF SchemaInv
  <2> QED
    BY <2>2, <2>3
<1>5. CASE TryCamera
  <2>1. /\ UNCHANGED <<document, variables, serial, loading, source>>
        /\ bootAt = "camera" /\ bootAt' = "up" /\ cameraUp' \in {"started", "refused"}
        /\ cameraUp' = "started" => StreamAccepted(MainStream(loading))
    BY <1>5 DEF TryCamera
  <2>2. ConfigValid(loading)' /\ Fillable(loading["device"])'
    BY <2>1 DEF SchemaInv
  <2>6. Filled(loading["device"])'
    BY <2>1 DEF SchemaInv, Filled
  <2>3. SchemaTypeOK'
    BY <2>1 DEF SchemaInv, SchemaTypeOK
  <2>4. source' = "file" => Heard(loading)'
    BY <2>1 DEF SchemaInv, Heard, Counts
  <2>5. /\ Known(document.gives)'
        /\ \A p \in DOMAIN variables' : p \in Paths /\ variables'[p] \in EnvValues(p)
    BY <2>1 DEF SchemaInv, Known
  <2>7. cameraUp' = "started" => StreamAccepted(MainStream(loading))'
    BY <2>1
  <2> QED
    BY <2>1, <2>2, <2>3, <2>4, <2>5, <2>6, <2>7 DEF SchemaInv
<1>6. CASE UNCHANGED schemaVars
  BY <1>6 DEF schemaVars, SchemaInv, SchemaTypeOK, Known, Fillable, Filled, Heard, Counts
<1> QED
  BY <1>1, <1>2, <1>3, <1>4, <1>5, <1>6 DEF SchemaNext

LEMMA ProducesSides ==
  ASSUME NEW sub, SubProduces(sub)
  PROVE  /\ sub.width \in Widths /\ sub.height \in Heights
         /\ Even(sub.width) /\ Even(sub.height)
BY Zenon DEF SubProduces

(* A side that does not exceed another one.                                *)
LEMMA SidesArePositive == Widths \subseteq Nat \ {0} /\ Heights \subseteq Nat \ {0}
  BY DEF Widths, Heights

LEMMA SidesFit ==
  ASSUME NEW w \in Widths, NEW h \in Heights, NEW a \in Widths, NEW b \in Heights,
         w <= a, h <= b
  PROVE  w \in 1..a /\ h \in 1..b
  BY SidesArePositive

(* A substream that starts was validated and fits the picture.             *)
LEMMA SubFits == SchemaInv => SubstreamFits
<1> SUFFICES ASSUME SchemaInv, bootAt = "up", SubStarts(loading)
             PROVE  LET sub == SubStream(loading).dims IN
                      /\ Even(sub[1]) /\ Even(sub[2])
                      /\ sub[1] \in 1..Effective(loading.camera)[1]
                      /\ sub[2] \in 1..Effective(loading.camera)[2]
                      /\ SubStream(loading).fps \in 1..120
  BY DEF SubstreamFits
<1>1. SubProduces(loading.substream)
  BY Zenon DEF SchemaInv, ConfigValid, SubValid, SubStarts
<1>2. Downscales(loading) /\ StreamAccepted(SubStream(loading))
  BY DEF SubStarts
<1> DEFINE w == loading.substream.width
           h == loading.substream.height
           e == Effective(loading.camera)
<1>3. SubStream(loading).dims = <<w, h>>
  BY DEF SubStream
<1>4. w \in Widths /\ h \in Heights /\ Even(w) /\ Even(h)
  BY Zenon, <1>1, ProducesSides
<1>5. w <= e[1] /\ h <= e[2]
  BY Zenon, <1>2 DEF Downscales
<1>6. SubStream(loading).fps \in Rates
  BY Zenon, <1>2 DEF StreamAccepted
<1>7. e[1] \in Widths /\ e[2] \in Heights
  <2>1. StreamAccepted(MainStream(loading))
    BY DEF SchemaInv, SubStarts
  <2>2. MainStream(loading).dims = e
    BY DEF MainStream
  <2> HIDE DEF e
  <2> QED
    BY Zenon, <2>1, <2>2 DEF StreamAccepted
<1> HIDE DEF w, h, e
<1>8. w \in 1..e[1] /\ h \in 1..e[2]
  BY ONLY <1>4, <1>5, <1>7, SidesFit
<1>9. <<w, h>>[1] = w /\ <<w, h>>[2] = h
  OBVIOUS
<1>10. SubStream(loading).fps \in 1..120
  BY Zenon, <1>6 DEF Rates
<1>11. SubStream(loading).dims[1] = w /\ SubStream(loading).dims[2] = h
  BY <1>3, <1>9
<1> QED
  BY Zenon, <1>4, <1>8, <1>10, <1>11 DEF e

LEMMA SchemaFromInv == SchemaInv => ConfigSound
<1> SUFFICES ASSUME SchemaInv PROVE ConfigSound
  OBVIOUS
<1>1. SubstreamFits
  BY SubFits
<1>2. LoadedSound
  <2> SUFFICES ASSUME bootAt = "up" PROVE LoadedSound
    BY DEF LoadedSound
  <2>1. Filled(loading["device"]) /\ ConfigValid(loading)
    BY DEF SchemaInv
  <2>2. source = "file" =>
         \A p \in DOMAIN variables :
           /\ variables[p].parses
           /\ p[1] = "device" => variables[p].value \notin Placeholders \cup {""}
           => loading[p[1]][p[2]] = variables[p].value
    BY Zenon DEF SchemaInv, Heard, Counts
  <2> QED
    BY <2>1, <2>2 DEF LoadedSound, Filled
<1> QED
  BY <1>1, <1>2 DEF ConfigSound

(* Whatever the file and the variables say, the configuration main runs    *)
(* with is valid, under an identity the ONVIF library accepts, and heeds   *)
(* every variable that parses unless the whole document was refused; a     *)
(* substream that starts fits the picture (Config::load in                 *)
(* src/src/config/mod.rs, start_camera_pipeline in src/src/main.rs).       *)
THEOREM ConfigAlwaysSound == SchemaSpec => []ConfigSound
<1> QED
  BY SchemaInitInv, SchemaNextInv, SchemaFromInv, PTL DEF SchemaSpec

-----------------------------------------------------------------------------
(***************************************************************************)
(* RatesTellTheMachine for every work and every pass of the clock.  What   *)
(* carries it is that the reading kept is the one of the pass before,      *)
(* whole or not.                                                           *)
(***************************************************************************)
Whole == {"stat", "self", "net"}
Procs == [user : Nat, idle : Nat, iowait : Nat, lo : Nat, eth : Nat, own : Nat]
Readings == [ts : Int, cpu : [idle : Nat, total : Nat], ticks : Nat, net : Nat]
Shots == [ms : Nat, cpu : 0 .. 100, own : Nat, rx : Nat, net : Nat]

\* The reading kept is one of the machine as it was at the last pass.
KeptIsLast ==
  /\ passes = 0 <=> prevSample = NeverRead
  /\ prevSample \in Readings /\ prevSample.ts >= -1
  /\ before.full => passes > 0 /\ prevSample = ReadSample(box, Whole)

SamplerInv ==
  /\ box \in [ts : Nat, proc : Procs] /\ passes \in 0 .. MaxPasses
  /\ shot \in Shots /\ gauges \in [cpu : 0 .. 100, net : Nat]
  /\ KeptIsLast /\ RatesTellTheMachine

LEMMA SaturatingSubNat ==
  ASSUME NEW a \in Int, NEW b \in Int, b >= 0 \/ a <= 0 \/ a >= b
  PROVE  SaturatingSub(a, b) \in Nat
  BY DEF SaturatingSub

LEMMA PercentBounded ==
  ASSUME NEW b \in [idle : Nat, total : Nat], NEW n \in [idle : Nat, total : Nat]
  PROVE  CpuPercentBetween(b, n) \in 0 .. 100
<1> DEFINE t == SaturatingSub(n.total, b.total)
           i == SaturatingSub(n.idle, b.idle)
           x == (t - i) % Wrap
<1>1. t \in Nat /\ i \in Nat
  BY DEF SaturatingSub
<1>2. CASE t = 0
  BY <1>2 DEF CpuPercentBetween
<1>3. CASE t # 0
  <2>1. Wrap \in Nat \ {0}
    BY PowerPositive DEF Wrap
  <2>2. x \in Nat
    <3> HIDE DEF t, i
    <3> QED
      BY <1>1, <2>1
  <2>3. CpuPercentBetween(b, n) = Percent((x * 100) \div t)
    BY <1>3 DEF CpuPercentBetween
  <2> HIDE DEF t, i, x
  <2>4. (x * 100) \div t \in Nat
    <3>1. x * 100 \in Nat /\ t \in Nat \ {0}
      BY <1>1, <1>3, <2>2
    <3> QED
      BY ONLY <3>1, Division
  <2>5. ASSUME NEW y \in Nat PROVE Percent(y) \in 0 .. 100
    BY <2>5 DEF Percent
  <2> QED
    BY <2>3, <2>4, <2>5
<1> QED
  BY <1>2, <1>3

\* Between two whole readings nothing is lost in the arithmetic.
LEMMA PercentExact ==
  ASSUME NEW p \in Procs, NEW w \in Work
  PROVE  LET n == Counted(p, w)
             all == AllTicks(n) - AllTicks(p)
         IN CpuPercentBetween(ParseCpuStat(p), ParseCpuStat(n))
              = IF all = 0 THEN 0 ELSE ((n.user - p.user) * 100) \div all
<1>1. w.user \in 0 .. Wrap - 1 /\ w.idle \in Nat /\ w.iowait \in Nat /\ w.user \in Nat
  <2>1. Wrap \in Nat \ {0}
    BY PowerPositive DEF Wrap
  <2> QED
    BY <2>1, SamplerAssumption
<1>2. p.user \in Nat /\ p.idle \in Nat /\ p.iowait \in Nat
  BY DEF Procs
<1> DEFINE n == Counted(p, w)
           rest == w.idle + w.iowait
           t == w.user + rest
<1>3. n.user = p.user + w.user /\ n.idle = p.idle + w.idle /\ n.iowait = p.iowait + w.iowait
  BY DEF Counted
<1>4. /\ ParseCpuStat(p).total = p.user + p.idle + p.iowait
      /\ ParseCpuStat(p).idle = p.idle + p.iowait
      /\ ParseCpuStat(n).total = n.user + n.idle + n.iowait
      /\ ParseCpuStat(n).idle = n.idle + n.iowait
  BY DEF ParseCpuStat, AllTicks, Idle
<1>5. AllTicks(n) - AllTicks(p) = t
  BY <1>1, <1>2, <1>3 DEF AllTicks
<1>6. n.user - p.user = w.user
  BY <1>1, <1>2, <1>3
<1> HIDE DEF n
<1>7. SaturatingSub(ParseCpuStat(n).total, ParseCpuStat(p).total) = t
  BY <1>1, <1>2, <1>3, <1>4 DEF SaturatingSub
<1>8. SaturatingSub(ParseCpuStat(n).idle, ParseCpuStat(p).idle) = rest
  BY <1>1, <1>2, <1>3, <1>4 DEF SaturatingSub
<1>9. t - rest = w.user /\ t \in Nat
  BY <1>1
<1>10. w.user % Wrap = w.user
  <2>1. Wrap \in Nat \ {0}
    BY PowerPositive DEF Wrap
  <2> QED
    BY <1>1, <2>1
<1>11. CpuPercentBetween(ParseCpuStat(p), ParseCpuStat(n))
         = IF t = 0 THEN 0 ELSE Percent((w.user * 100) \div t)
  <2> HIDE DEF t, rest
  <2> QED
    BY <1>7, <1>8, <1>9, <1>10 DEF CpuPercentBetween
<1>12. ASSUME t # 0 PROVE Percent((w.user * 100) \div t) = (w.user * 100) \div t
  <2>1. w.user <= t
    BY <1>1
  <2> DEFINE q == (w.user * 100) \div t
             r == (w.user * 100) % t
  <2>2. w.user * 100 \in Nat /\ t \in Nat \ {0}
    BY <1>1, <1>9, <1>12
  <2> HIDE DEF t
  <2>3. q \in Nat /\ r \in Nat /\ w.user * 100 = r + q * t
    <3>1. /\ (w.user * 100) \div t \in Nat /\ (w.user * 100) % t \in 0 .. t - 1
          /\ w.user * 100 = ((w.user * 100) % t) + ((w.user * 100) \div t) * t
      BY ONLY <2>2, Division
    <3> QED
      BY <2>2, <3>1
  <2> HIDE DEF q, r
  <2>4. q <= 100
    <3>1. SUFFICES ASSUME q >= 101 PROVE FALSE
      BY <2>3
    <3>2. q * t >= 101 * t
      BY <2>2, <2>3, <3>1
    <3> QED
      BY <1>1, <2>1, <2>2, <2>3, <3>2
  <2> QED
    BY <2>3, <2>4 DEF Percent, q
<1> QED
  BY <1>5, <1>6, <1>11, <1>12 DEF n

LEMMA ReadingTyped ==
  ASSUME NEW m \in [ts : Nat, proc : Procs], NEW readable
  PROVE  /\ ReadSample(m, readable) \in Readings
         /\ ReadSample(m, readable).ts = m.ts
         /\ ReadSample(m, readable) # NeverRead
<1>1. m.ts \in Nat /\ m.proc \in Procs
  OBVIOUS
<1>2. /\ m.proc.user \in Nat /\ m.proc.idle \in Nat /\ m.proc.iowait \in Nat
      /\ m.proc.own \in Nat /\ m.proc.eth \in Nat
  BY <1>1 DEF Procs
<1>3. ParseCpuStat(m.proc) \in [idle : Nat, total : Nat] /\ ParseNetDev(m.proc) \in Nat
  BY <1>2 DEF ParseCpuStat, ParseNetDev, Idle, AllTicks
<1>4. [idle |-> 0, total |-> 0] \in [idle : Nat, total : Nat]
  OBVIOUS
<1>5. ReadSample(m, readable).ts = m.ts
  BY DEF ReadSample
<1>6. ReadSample(m, readable) \in Readings
  BY <1>1, <1>2, <1>3, <1>4 DEF ReadSample, Readings
<1> QED
  BY <1>1, <1>5, <1>6 DEF NeverRead

LEMMA SamplerInitInv == SamplerInit => SamplerInv
<1> SUFFICES ASSUME SamplerInit PROVE SamplerInv
  OBVIOUS
<1>1. box \in [ts : Nat, proc : Procs]
  BY DEF SamplerInit, NoCounters, Procs
<1>2. shot \in Shots /\ gauges \in [cpu : 0 .. 100, net : Nat]
  BY DEF SamplerInit, Shots
<1>3. KeptIsLast
  BY DEF SamplerInit, KeptIsLast, NeverRead, Readings
<1>4. RatesTellTheMachine
  BY DEF SamplerInit, RatesTellTheMachine
<1>5. passes \in 0 .. MaxPasses
  BY SamplerAssumption DEF SamplerInit
<1> QED
  BY <1>1, <1>2, <1>3, <1>4, <1>5 DEF SamplerInv

LEMMA RenderedTyped ==
  ASSUME SamplerInv, NEW n \in Readings, n.ts >= 0
  PROVE  /\ Rendered(prevSample, n) \in Shots
         /\ prevSample # NeverRead => Rendered(prevSample, n).ms >= 1
<1>1. shot \in Shots /\ prevSample \in Readings /\ prevSample.ts >= -1
  BY DEF SamplerInv, KeptIsLast
<1>2. /\ n.ts \in Int /\ n.ticks \in Nat /\ n.net \in Nat /\ n.cpu \in [idle : Nat, total : Nat]
      /\ prevSample.ts \in Int /\ prevSample.ticks \in Nat /\ prevSample.net \in Nat
      /\ prevSample.cpu \in [idle : Nat, total : Nat]
  BY <1>1 DEF Readings
<1>3. CASE prevSample = NeverRead
  <2>1. Rendered(prevSample, n) = [shot EXCEPT !.ms = 0, !.net = n.net]
    BY <1>3, Zenon DEF Rendered
  <2>2. [shot EXCEPT !.ms = 0] \in Shots
    BY <1>1 DEF Shots
  <2>3. ASSUME NEW s \in Shots PROVE [s EXCEPT !.net = n.net] \in Shots
    BY <1>2 DEF Shots
  <2>4. [shot EXCEPT !.ms = 0, !.net = n.net] \in Shots
    BY <2>2, <2>3, Zenon
  <2> QED
    BY <1>3, <2>1, <2>4, Zenon
<1>4. CASE prevSample # NeverRead
  <2>1. Elapsed(prevSample, n) \in Nat /\ Elapsed(prevSample, n) >= 1
    BY <1>2 DEF Elapsed, SaturatingSub
  <2>2. CpuPercentBetween(prevSample.cpu, n.cpu) \in 0 .. 100
    BY <1>2, PercentBounded
  <2>3. SaturatingSub(n.ticks, prevSample.ticks) \in Nat /\ SaturatingSub(n.net, prevSample.net) \in Nat
    BY <1>2 DEF SaturatingSub
  <2> QED
    BY <1>2, <1>4, <2>1, <2>2, <2>3 DEF Rendered, Shots
<1> QED
  BY <1>3, <1>4

LEMMA SamplerNextInv == SamplerInv /\ [SamplerNext]_samplerVars => SamplerInv'
<1> SUFFICES ASSUME SamplerInv, [SamplerNext]_samplerVars PROVE SamplerInv'
  OBVIOUS
<1>1. CASE UNCHANGED samplerVars
  BY <1>1 DEF samplerVars, SamplerInv, KeptIsLast, RatesTellTheMachine
<1>2. CASE Pass
  <2>0. PICK w \in Work, dt \in Steps,
             readable \in {{"stat", "self", "net"}, {"stat", "self"}, {}} :
          LET m   == [ts |-> IF box.ts + dt < 0 THEN 0 ELSE box.ts + dt,
                      proc |-> Counted(box.proc, w)]
              now == ReadSample(m, readable)
          IN /\ box' = m
             /\ prevSample' = Kept(prevSample, now)
             /\ shot' = Rendered(prevSample, now)
             /\ gauges' = [cpu |-> shot'.cpu,
                           net |-> IF shot'.net > gauges.net THEN shot'.net
                                   ELSE gauges.net]
             /\ before' = [at |-> box, all |-> before.full,
                           full |-> readable = {"stat", "self", "net"}]
    BY <1>2, Zenon DEF Pass
  <2>1. /\ box' = [ts |-> IF box.ts + dt < 0 THEN 0 ELSE box.ts + dt,
                   proc |-> Counted(box.proc, w)]
        /\ prevSample' = Kept(prevSample, ReadSample(box', readable))
        /\ shot' = Rendered(prevSample, ReadSample(box', readable))
        /\ gauges' = [cpu |-> shot'.cpu,
                      net |-> IF shot'.net > gauges.net THEN shot'.net ELSE gauges.net]
        /\ before' = [at |-> box, all |-> before.full,
                      full |-> readable = {"stat", "self", "net"}]
    BY <2>0, Zenon
  <2>2. passes < MaxPasses /\ passes' = passes + 1 /\ passes \in 0 .. MaxPasses
    BY <1>2 DEF Pass, SamplerInv
  <2>3. box.ts \in Nat /\ box.proc \in Procs
    BY DEF SamplerInv
  <2>4. Counted(box.proc, w) \in Procs
    <3>1. /\ w.user \in Nat /\ w.idle \in Nat /\ w.iowait \in Nat /\ w.lo \in Nat
          /\ w.eth \in Nat /\ w.own \in Nat
      <4>1. Wrap \in Nat \ {0}
        BY PowerPositive DEF Wrap
      <4> QED
        BY <4>1, SamplerAssumption
    <3> QED
      BY <2>3, <3>1 DEF Counted, Procs
  <2>5. box' \in [ts : Nat, proc : Procs]
    <3>1. dt \in Int
      BY SamplerAssumption
    <3>2. (IF box.ts + dt < 0 THEN 0 ELSE box.ts + dt) \in Nat
      BY <2>3, <3>1
    <3> QED
      BY <2>1, <2>4, <3>2
  <2> DEFINE now == ReadSample(box', readable)
  <2>6. now \in Readings /\ now.ts = box'.ts /\ now # NeverRead /\ now.ts >= 0
    BY <2>5, ReadingTyped
  <2>7. shot' = Rendered(prevSample, now) /\ prevSample' = now
    BY <2>1 DEF Kept
  <2>8. shot' \in Shots /\ (prevSample # NeverRead => shot'.ms >= 1)
    BY <2>6, <2>7, RenderedTyped
  <2>9. gauges' \in [cpu : 0 .. 100, net : Nat]
    BY <2>1, <2>8 DEF SamplerInv, Shots
  <2>10. /\ passes' \in 0 .. MaxPasses /\ passes' # 0 /\ passes' > 0
         /\ (passes' > 1 => passes # 0)
    BY <2>2, SamplerAssumption
  <2>11. before'.at = box /\ before'.all = before.full
         /\ (before'.full <=> readable = Whole)
    BY <2>1 DEF Whole
  <2>12. KeptIsLast'
    <3>1. before'.full => prevSample' = ReadSample(box', Whole)
      BY <2>7, <2>11
    <3>2. (before.full => passes > 0 /\ prevSample = ReadSample(box, Whole))'
      BY <2>10, <3>1 DEF ReadSample, ParseCpuStat, ParseNetDev, Idle, AllTicks, Whole
    <3>3. (prevSample = NeverRead)' <=> FALSE
      BY <2>6, <2>7 DEF NeverRead
    <3> QED
      BY <2>6, <2>7, <2>10, <3>2, <3>3 DEF KeptIsLast, Readings
  <2>13. RatesTellTheMachine'
    <3>1. passes' > 1 => shot'.ms >= 1
      BY <2>8, <2>10 DEF SamplerInv, KeptIsLast
    <3>2. ASSUME passes' > 1, before.full, readable = Whole
          PROVE  /\ shot'.rx = box'.proc.eth - box.proc.eth
                 /\ shot'.own = box'.proc.own - box.proc.own
                 /\ shot'.cpu = IF AllTicks(box'.proc) - AllTicks(box.proc) = 0 THEN 0
                                ELSE ((box'.proc.user - box.proc.user) * 100)
                                       \div (AllTicks(box'.proc) - AllTicks(box.proc))
                 /\ box'.ts > box.ts => shot'.ms = box'.ts - box.ts
      <4>1. prevSample # NeverRead /\ prevSample = ReadSample(box, Whole)
        BY <2>10, <3>2 DEF SamplerInv, KeptIsLast
      <4>2. now = ReadSample(box', Whole)
        BY <3>2
      <4>3. /\ now.ts = box'.ts /\ now.cpu = ParseCpuStat(box'.proc)
            /\ now.ticks = box'.proc.own /\ now.net = box'.proc.eth
        BY <4>2 DEF ReadSample, Whole, ParseNetDev
      <4>4. /\ prevSample.ts = box.ts /\ prevSample.cpu = ParseCpuStat(box.proc)
            /\ prevSample.ticks = box.proc.own /\ prevSample.net = box.proc.eth
        BY <4>1 DEF ReadSample, Whole, ParseNetDev
      <4>5. /\ shot'.ms = Elapsed(prevSample, now)
            /\ shot'.cpu = CpuPercentBetween(prevSample.cpu, now.cpu)
            /\ shot'.own = SaturatingSub(now.ticks, prevSample.ticks)
            /\ shot'.rx = SaturatingSub(now.net, prevSample.net)
        <5> HIDE DEF now
        <5> QED
          BY <2>7, <4>1 DEF Rendered
      <4> HIDE DEF now
      <4>6. box'.proc = Counted(box.proc, w)
        BY <2>1
      <4>7. /\ box'.proc.eth = box.proc.eth + w.eth /\ box'.proc.own = box.proc.own + w.own
            /\ w.eth \in Nat /\ w.own \in Nat /\ box.proc.eth \in Nat /\ box.proc.own \in Nat
        BY <2>3, <4>6, SamplerAssumption DEF Counted, Procs
      <4>8. shot'.own = box'.proc.own - box.proc.own /\ shot'.rx = box'.proc.eth - box.proc.eth
        BY <4>3, <4>4, <4>5, <4>7 DEF SaturatingSub
      <4>9. box'.ts > box.ts => shot'.ms = box'.ts - box.ts
        BY <2>3, <2>5, <4>3, <4>4, <4>5 DEF Elapsed, SaturatingSub
      <4>10. CpuPercentBetween(ParseCpuStat(box.proc), ParseCpuStat(box'.proc))
               = IF AllTicks(box'.proc) - AllTicks(box.proc) = 0 THEN 0
                 ELSE ((box'.proc.user - box.proc.user) * 100)
                        \div (AllTicks(box'.proc) - AllTicks(box.proc))
        BY <2>3, <4>6, PercentExact
      <4> QED
        BY <4>3, <4>4, <4>5, <4>8, <4>9, <4>10
    <3> HIDE DEF now
    <3> QED
      BY <2>11, <3>1, <3>2 DEF RatesTellTheMachine, AllTicks
  <2> QED
    BY <2>5, <2>8, <2>9, <2>10, <2>12, <2>13 DEF SamplerInv
<1> QED
  BY <1>1, <1>2 DEF SamplerNext

(* The summary tells what happened between the two readings it is made     *)
(* from, and no rate is a quotient by nothing (record_sample,              *)
(* src/src/web/observe.rs).                                                *)
THEOREM RatesAlwaysTell == SamplerSpec => []RatesTellTheMachine
<1>1. SamplerInv => RatesTellTheMachine
  BY DEF SamplerInv
<1> QED
  BY <1>1, SamplerInitInv, SamplerNextInv, PTL DEF SamplerSpec

LEMMA SamplerTyped == SamplerInv => SamplerTypeOK
  BY DEF SamplerInv, KeptIsLast, SamplerTypeOK, Shots

-----------------------------------------------------------------------------
(***************************************************************************)
(* ObservedSound: what Keeping computes, then the rings.                   *)
(***************************************************************************)
\* g is the recursion of Keeping.
Keeps(g, s, liked) ==
  g = [T \in SUBSET DOMAIN s |->
         IF T = {} THEN <<>>
         ELSE IF s[Max(T)] \in liked THEN Append(g[T \ {Max(T)}], s[Max(T)])
              ELSE g[T \ {Max(T)}]]

LEMMA KeepingUnfolds ==
  ASSUME NEW s, NEW liked
  PROVE  Keeping(s, liked) = (CHOOSE g : Keeps(g, s, liked))[DOMAIN s]
  BY DEF Keeping, FoldLeft, MapThenFoldSet, Keeps

\* Keeping is the end of a run along the sequence.
LEMMA KeepingRuns ==
  ASSUME NEW X, NEW s \in Seq(X), NEW liked
  PROVE  \E r : /\ r[0] = <<>>
                /\ \A i \in 1 .. Len(s) :
                     r[i] = IF s[i] \in liked THEN Append(r[i - 1], s[i]) ELSE r[i - 1]
                /\ Keeping(s, liked) = r[Len(s)]
<1> DEFINE n == Len(s)
           V == Seq(X)
           step == [p \in V \X (1 .. n) |->
                      IF s[p[2]] \in liked THEN Append(p[1], s[p[2]]) ELSE p[1]]
<1>1. n \in Nat /\ DOMAIN s = 1 .. n /\ \A i \in 1 .. n : s[i] \in X
  OBVIOUS
<1>2. \A v \in V, i \in 1 .. n :
        step[<<v, i>>] = IF s[i] \in liked THEN Append(v, s[i]) ELSE v
  OBVIOUS
<1>3. \A v \in V, i \in 1 .. n : Append(v, s[i]) \in V
  BY <1>1
<1>4. step \in [V \X (1 .. n) -> V]
  BY <1>3
<1>5. <<>> \in V
  OBVIOUS
<1> HIDE DEF n, V, step
<1>6. PICK g \in [SUBSET (1 .. n) -> V] : FoldsOver(g, n, <<>>, step)
  BY <1>1, <1>4, <1>5, FoldExists
<1>7. Keeps(g, s, liked)
  <2>1. \A T \in SUBSET (1 .. n) : T # {} =>
          g[T] = IF s[Max(T)] \in liked THEN Append(g[T \ {Max(T)}], s[Max(T)])
                 ELSE g[T \ {Max(T)}]
    <3>1. ASSUME NEW T \in SUBSET (1 .. n), T # {}
          PROVE  g[T] = step[<<g[T \ {Max(T)}], Max(T)>>] /\ g[T \ {Max(T)}] \in V
                 /\ Max(T) \in 1 .. n
      <4>1. Max(T) \in T
        BY <1>1, <3>1, MaxIn
      <4> QED
        BY <1>6, <3>1, <4>1 DEF FoldsOver
    <3> QED
      BY <1>2, <3>1
  <2>2. g[{}] = <<>>
    BY <1>6 DEF FoldsOver
  <2>3. g = [T \in SUBSET (1 .. n) |-> g[T]]
    BY <1>6
  <2> QED
    BY <1>1, <2>1, <2>2, <2>3 DEF Keeps
<1> DEFINE h == CHOOSE h : Keeps(h, s, liked)
<1>8. Keeps(h, s, liked)
  BY <1>7
<1>9. Keeping(s, liked) = h[1 .. n]
  BY <1>1, KeepingUnfolds
<1> HIDE DEF h
<1> DEFINE r == [i \in 0 .. n |-> h[1 .. i]]
<1>10. r[0] = <<>>
  <2>1. 1 .. 0 = {}
    OBVIOUS
  <2>2. h[{}] = <<>>
    BY <1>8 DEF Keeps
  <2> QED
    BY <1>1, <2>1, <2>2
<1>11. ASSUME NEW i \in 1 .. n
       PROVE  r[i] = IF s[i] \in liked THEN Append(r[i - 1], s[i]) ELSE r[i - 1]
  <2>1. i \in Nat \ {0} /\ i - 1 \in 0 .. n /\ i \in 0 .. n
    BY <1>1
  <2>2. Max(1 .. i) = i /\ (1 .. i) \ {i} = 1 .. (i - 1) /\ (1 .. i) # {}
    BY <2>1, MaxOfRange
  <2>3. 1 .. i \in SUBSET (1 .. n)
    BY <1>1
  <2>4. h[1 .. i] = IF s[i] \in liked THEN Append(h[1 .. (i - 1)], s[i])
                    ELSE h[1 .. (i - 1)]
    BY <1>1, <1>8, <2>2, <2>3 DEF Keeps
  <2>5. r[i] = h[1 .. i] /\ r[i - 1] = h[1 .. (i - 1)]
    BY <2>1
  <2> QED
    BY <2>4, <2>5
<1>12. r[n] = h[1 .. n]
  BY <1>1
<1> QED
  BY <1>9, <1>10, <1>11, <1>12 DEF n

\* Every wanted element is kept, and nothing else.
LEMMA KeepingCounts ==
  ASSUME NEW X, NEW s \in Seq(X), NEW liked
  PROVE  /\ Keeping(s, liked) \in Seq(X)
         /\ Len(Keeping(s, liked)) = Cardinality({i \in 1 .. Len(s) : s[i] \in liked})
         /\ \A i \in 1 .. Len(Keeping(s, liked)) : Keeping(s, liked)[i] \in liked
<1> DEFINE n == Len(s)
           H(i) == {j \in 1 .. i : s[j] \in liked}
<1>1. PICK r : /\ r[0] = <<>>
               /\ \A i \in 1 .. n :
                    r[i] = IF s[i] \in liked THEN Append(r[i - 1], s[i]) ELSE r[i - 1]
               /\ Keeping(s, liked) = r[n]
  BY KeepingRuns
<1> DEFINE P == {i \in 0 .. n : /\ r[i] \in Seq(X) /\ Len(r[i]) = Cardinality(H(i))
                                /\ \A j \in 1 .. Len(r[i]) : r[i][j] \in liked}
<1>2. n \in Nat /\ \A i \in 1 .. n : s[i] \in X
  OBVIOUS
<1>3. 0 \in P
  <2>1. H(0) = {}
    OBVIOUS
  <2>2. Cardinality(H(0)) = 0
    BY <2>1, FS_EmptySet
  <2> HIDE DEF H
  <2>3. r[0] \in Seq(X) /\ Len(r[0]) = 0 /\ 0 \in 0 .. n
    BY <1>1, <1>2
  <2>4. \A j \in 1 .. Len(r[0]) : r[0][j] \in liked
    BY <2>3
  <2> QED
    BY <2>2, <2>3, <2>4
<1>4. ASSUME NEW i \in 1 .. n, i - 1 \in P PROVE i \in P
  <2>1. i \in 0 .. n /\ i - 1 \in Nat
    BY <1>2
  <2>2. /\ r[i - 1] \in Seq(X) /\ Len(r[i - 1]) = Cardinality(H(i - 1))
        /\ \A j \in 1 .. Len(r[i - 1]) : r[i - 1][j] \in liked
    BY <1>4
  <2>3. IsFiniteSet(H(i - 1)) /\ Cardinality(H(i - 1)) \in Nat
    <3>1. IsFiniteSet(1 .. (i - 1)) /\ H(i - 1) \subseteq 1 .. (i - 1)
      BY <2>1, FS_Interval
    <3> QED
      BY <3>1, FS_Subset, FS_CardinalityType
  <2>4. CASE s[i] \in liked
    <3>1. H(i) = H(i - 1) \cup {i}
      BY <2>1, <2>4
    <3>2. i \notin H(i - 1)
      BY <2>1
    <3> HIDE DEF H
    <3>3. Cardinality(H(i)) = Cardinality(H(i - 1)) + 1
      BY <2>3, <3>1, <3>2, FS_AddElement
    <3>4. r[i] = Append(r[i - 1], s[i])
      BY <1>1, <2>4
    <3>5. r[i] \in Seq(X) /\ Len(r[i]) = Len(r[i - 1]) + 1
      BY <1>2, <2>2, <3>4
    <3>6. ASSUME NEW j \in 1 .. Len(r[i]) PROVE r[i][j] \in liked
      <4>1. CASE j = Len(r[i])
        BY <2>2, <2>4, <3>4, <3>5, <4>1
      <4>2. CASE j # Len(r[i])
        <5>1. j \in 1 .. Len(r[i - 1])
          BY <2>2, <3>5, <4>2
        <5> QED
          BY <2>2, <3>4, <5>1
      <4> QED
        BY <4>1, <4>2
    <3> QED
      BY <2>1, <2>2, <3>3, <3>5, <3>6
  <2>5. CASE s[i] \notin liked
    <3>1. H(i) = H(i - 1)
      BY <2>1, <2>5
    <3>2. r[i] = r[i - 1]
      BY <1>1, <2>5
    <3> HIDE DEF H
    <3> QED
      BY <2>1, <2>2, <3>1, <3>2
  <2> QED
    BY <2>4, <2>5
<1> HIDE DEF P
<1>5. n \in P
  <2> HIDE DEF n
  <2>1. \A i \in 1 .. n : i - 1 \in P => i \in P
    BY <1>4
  <2>2. \A i \in 0 .. n : i \in P
    BY <1>2, <1>3, <2>1, UpTo
  <2> QED
    BY <1>2, <2>2
<1> QED
  BY <1>1, <1>5 DEF P

(* ObservedSound for any handlers, capacities and number of requests.      *)

Lines == [level : DOMAIN Severity, id : Nat]
Flights == [id : Nat, at : {"idle", "handling", "answered"}, api : BOOLEAN]

\* Who is in flight has an identity of its own, answered or not.
IdsApart ==
  /\ \A h \in Handlers : inFlight[h].at = "idle" => inFlight[h] = NotHandling
  /\ \A h \in Handlers : inFlight[h].at # "idle" => inFlight[h].id < nextId
  /\ \A h, k \in Handlers :
       (inFlight[h].at # "idle" /\ inFlight[k].at # "idle" /\ inFlight[h].id = inFlight[k].id)
         => h = k
  /\ \A h \in Handlers : inFlight[h].at = "handling" =>
        ~ Contains(answered, inFlight[h].id)
  /\ \A h \in Handlers : inFlight[h].at = "answered" =>
        Contains(answered, inFlight[h].id)
  /\ \A i \in 1 .. Len(answered) : answered[i] < nextId

EndOf(ring, all, cap) ==
  /\ ring = SubSeq(all, Len(all) - Len(ring) + 1, Len(all))
  /\ Len(ring) = Clamp(Len(all), 0, cap)

ObserveInv ==
  /\ nextId \in 1 .. MaxRequests + 1 /\ others \in 0 .. MaxOther
  /\ inFlight \in [Handlers -> Flights]
  /\ answered \in Seq(Nat) /\ requestRing \in Seq(Nat)
  /\ logRing \in Seq(Lines) /\ Len(logRing) <= LogCap
  /\ IdsApart
  /\ EndOf(requestRing, answered, RequestCap)
  /\ IsInjective(answered)
  /\ \A i \in 1 .. Len(logRing) : logRing[i].id = 0 \/ Contains(answered, logRing[i].id)

\* Pushing keeps a ring within its capacity and made of what it held.
LEMMA PushTyped ==
  ASSUME NEW X, NEW ring \in Seq(X), NEW x \in X, NEW cap \in Nat \ {0}, Len(ring) <= cap
  PROVE  /\ Push(ring, x, cap) \in Seq(X) /\ Len(Push(ring, x, cap)) <= cap
         /\ Len(Push(ring, x, cap)) = IF Len(ring) = cap THEN cap ELSE Len(ring) + 1
         /\ Push(ring, x, cap)[Len(Push(ring, x, cap))] = x
         /\ \A i \in 1 .. Len(Push(ring, x, cap)) - 1 :
              Push(ring, x, cap)[i] = IF Len(ring) = cap THEN ring[i + 1] ELSE ring[i]
<1> DEFINE n == Len(ring)
<1>1. n \in Nat
  OBVIOUS
<1>2. CASE n = cap
  <2>1. Push(ring, x, cap) = Append(Tail(ring), x)
    BY <1>2 DEF Push
  <2>2. ring # <<>>
    BY <1>2
  <2>3. /\ Tail(ring) \in Seq(X) /\ Len(Tail(ring)) = n - 1
        /\ \A i \in 1 .. Len(Tail(ring)) : Tail(ring)[i] = ring[i + 1]
    BY <2>2, HeadTailProperties
  <2> QED
    BY <1>1, <1>2, <2>1, <2>3, AppendProperties
<1>3. CASE n # cap
  <2>1. Push(ring, x, cap) = Append(ring, x)
    BY <1>3 DEF Push
  <2> QED
    BY <1>1, <1>3, <2>1, AppendProperties
<1> QED
  BY <1>2, <1>3

LEMMA PushKeepsTheEnd ==
  ASSUME NEW X, NEW ring \in Seq(X), NEW all \in Seq(X), NEW x \in X,
         NEW cap \in Nat \ {0}, EndOf(ring, all, cap)
  PROVE  EndOf(Push(ring, x, cap), Append(all, x), cap)
<1> DEFINE n == Len(ring)
           l == Len(all)
           r == Push(ring, x, cap)
           a == Append(all, x)
<1>1. n \in Nat /\ l \in Nat
  OBVIOUS
<1>2. n = IF l > cap THEN cap ELSE l
  BY <1>1 DEF EndOf, Clamp
<1>3. \A i \in 1 .. n : ring[i] = all[l - n + i]
  <2>1. \A i \in (l - n + 1) .. l : all[i] \in X
    BY <1>1, <1>2
  <2>2. ring = SubSeq(all, l - n + 1, l)
    BY DEF EndOf
  <2>3. \A i \in 1 .. l - (l - n + 1) + 1 : SubSeq(all, l - n + 1, l)[i] = all[(l - n + 1) + i - 1]
    BY <1>1, <2>1, SubSeqProperties
  <2> HIDE DEF n, l
  <2> QED
    BY <1>1, <2>2, <2>3
<1>4. /\ r \in Seq(X) /\ Len(r) = (IF n = cap THEN cap ELSE n + 1) /\ r[Len(r)] = x
      /\ \A i \in 1 .. Len(r) - 1 : r[i] = IF n = cap THEN ring[i + 1] ELSE ring[i]
  <2>1. n <= cap
    BY <1>1, <1>2
  <2> QED
    BY <1>1, <2>1, PushTyped
<1>5. /\ a \in Seq(X) /\ Len(a) = l + 1 /\ a[l + 1] = x
      /\ \A i \in 1 .. l : a[i] = all[i]
  BY AppendProperties
<1> DEFINE m == Len(r)
<1>6. m \in Nat /\ m = IF l + 1 > cap THEN cap ELSE l + 1
  BY <1>1, <1>2, <1>4
<1> HIDE DEF n, l, r, a, m
<1>7. \A i \in 1 .. m : r[i] = a[l + 1 - m + i]
  <2>1. ASSUME NEW i \in 1 .. m, i = m PROVE r[i] = a[l + 1 - m + i]
    BY <1>1, <1>4, <1>5, <1>6, <2>1 DEF m
  <2>2. ASSUME NEW i \in 1 .. m, i # m PROVE r[i] = a[l + 1 - m + i]
    <3>1. i \in 1 .. m - 1
      BY <1>6, <2>2
    <3>2. CASE n = cap
      <4>0. m = cap /\ i + 1 \in 1 .. n
        BY <1>1, <1>2, <1>6, <3>1, <3>2
      <4>1. r[i] = ring[i + 1]
        BY <1>4, <3>1, <3>2 DEF m
      <4>2. ring[i + 1] = all[l - n + (i + 1)]
        BY <1>3, <4>0
      <4>3. l - n + (i + 1) = l + 1 - m + i /\ l - n + (i + 1) \in 1 .. l
        BY <1>1, <1>2, <1>6, <3>1, <3>2
      <4> QED
        BY <1>5, <4>1, <4>2, <4>3
    <3>3. CASE n # cap
      <4>1. r[i] = ring[i] /\ i \in 1 .. n
        BY <1>1, <1>2, <1>4, <1>6, <3>1, <3>3 DEF m
      <4>2. ring[i] = all[l - n + i]
        BY <1>3, <4>1
      <4>3. l - n + i = l + 1 - m + i /\ l - n + i \in 1 .. l
        BY <1>1, <1>2, <1>6, <3>1, <3>3
      <4> QED
        BY <1>5, <4>1, <4>2, <4>3
    <3> QED
      BY <3>2, <3>3
  <2> QED
    BY <2>1, <2>2
<1> DEFINE e == SubSeq(a, l + 1 - m + 1, l + 1)
<1>8. e \in Seq(X) /\ Len(e) = m /\ \A i \in 1 .. m : e[i] = a[l + 1 - m + i]
  <2>1. \A i \in (l + 1 - m + 1) .. (l + 1) : a[i] \in X
    BY <1>1, <1>5, <1>6
  <2>2. /\ e \in Seq(X)
        /\ Len(e) = IF l + 1 - m + 1 <= l + 1 THEN (l + 1) - (l + 1 - m + 1) + 1 ELSE 0
        /\ \A i \in 1 .. (l + 1) - (l + 1 - m + 1) + 1 : e[i] = a[(l + 1 - m + 1) + i - 1]
    BY <1>1, <1>6, <2>1, SubSeqProperties
  <2> HIDE DEF e
  <2> QED
    BY <1>1, <1>6, <2>2
<1> HIDE DEF e
<1>9. r = e
  BY <1>4, <1>7, <1>8, SeqEqual DEF m
<1>10. Len(r) = Clamp(Len(a), 0, cap)
  BY <1>1, <1>5, <1>6 DEF Clamp, m
<1>11. e = SubSeq(a, Len(a) - Len(r) + 1, Len(a))
  <2>1. Len(a) = l + 1
    BY <1>5
  <2>2. m = Len(r)
    BY DEF m
  <2>3. e = SubSeq(a, l + 1 - m + 1, l + 1)
    BY DEF e
  <2>4. l + 1 - m + 1 = Len(a) - Len(r) + 1
    BY <1>1, <1>6, <2>1, <2>2
  <2> QED
    BY <2>1, <2>3, <2>4
<1> QED
  BY <1>9, <1>10, <1>11 DEF EndOf, r, a

LEMMA ObserveInitInv == ObserveInit => ObserveInv
<1> SUFFICES ASSUME ObserveInit PROVE ObserveInv
  OBVIOUS
<1>1. /\ logRing = <<>> /\ requestRing = <<>> /\ answered = <<>>
      /\ nextId = 1 /\ others = 0 /\ inFlight = [h \in Handlers |-> NotHandling]
  BY DEF ObserveInit
<1>2. NotHandling \in Flights /\ NotHandling.at = "idle"
  BY DEF NotHandling, Flights
<1>3. EndOf(requestRing, answered, RequestCap)
  <2>1. Clamp(0, 0, RequestCap) = 0
    BY ObserveCaps DEF Clamp
  <2> QED
    BY <1>1, <2>1 DEF EndOf
<1>4. nextId \in 1 .. MaxRequests + 1 /\ others \in 0 .. MaxOther /\ Len(logRing) <= LogCap
  BY <1>1, ObserveCaps
<1>5. IsInjective(answered)
  BY <1>1 DEF IsInjective
<1>6. IdsApart
  BY <1>1, <1>2 DEF IdsApart
<1>7. inFlight \in [Handlers -> Flights]
  BY <1>1, <1>2
<1> QED
  BY <1>1, <1>3, <1>4, <1>5, <1>6, <1>7 DEF ObserveInv

\* One more line: it is typed, fits, and tells of what was answered.
LEMMA LogKeeps ==
  ASSUME ObserveInv, NEW level \in DOMAIN Severity, NEW id \in Nat, Log(level, id),
         id = 0 \/ Contains(answered, id)
  PROVE  /\ logRing' \in Seq(Lines) /\ Len(logRing') <= LogCap
         /\ \A i \in 1 .. Len(logRing') :
              logRing'[i].id = 0 \/ Contains(answered, logRing'[i].id)
<1>1. /\ logRing \in Seq(Lines) /\ Len(logRing) <= LogCap
      /\ \A i \in 1 .. Len(logRing) : logRing[i].id = 0 \/ Contains(answered, logRing[i].id)
  BY DEF ObserveInv
<1> DEFINE x == [level |-> level, id |-> id]
<1>2. x \in Lines /\ x.id = id
  BY DEF Lines
<1>3. logRing' = logRing \/ logRing' = Push(logRing, x, LogCap)
  BY DEF Log
<1> HIDE DEF x
<1>4. CASE logRing' = Push(logRing, x, LogCap)
  <2> DEFINE r == logRing'
             n == Len(logRing)
  <2>1. /\ r \in Seq(Lines) /\ Len(r) <= LogCap
        /\ Len(r) = (IF n = LogCap THEN LogCap ELSE n + 1) /\ r[Len(r)] = x
        /\ \A i \in 1 .. Len(r) - 1 : r[i] = IF n = LogCap THEN logRing[i + 1] ELSE logRing[i]
    <3> DEFINE p == Push(logRing, x, LogCap)
    <3>1. LogCap \in Nat \ {0} /\ x \in Lines /\ logRing \in Seq(Lines) /\ Len(logRing) <= LogCap
      BY <1>1, <1>2, ObserveCaps
    <3>2. /\ p \in Seq(Lines) /\ Len(p) <= LogCap
          /\ Len(p) = (IF Len(logRing) = LogCap THEN LogCap ELSE Len(logRing) + 1)
          /\ p[Len(p)] = x
          /\ \A i \in 1 .. Len(p) - 1 :
               p[i] = IF Len(logRing) = LogCap THEN logRing[i + 1] ELSE logRing[i]
      BY ONLY <3>1, PushTyped
    <3>3. r = p
      BY <1>4
    <3> HIDE DEF p, r
    <3> QED
      BY <3>2, <3>3
  <2>2. n \in Nat /\ Len(r) \in Nat
    BY <1>1, <2>1
  <2>3. ASSUME NEW i \in 1 .. Len(r) PROVE r[i].id = 0 \/ Contains(answered, r[i].id)
    <3>1. CASE i = Len(r)
      BY <1>2, <2>1, <3>1
    <3>2. CASE i # Len(r) /\ n = LogCap
      <4>1. r[i] = logRing[i + 1] /\ i + 1 \in 1 .. n
        BY <2>1, <2>2, <3>2, ObserveCaps
      <4> QED
        BY <1>1, <4>1
    <3>3. CASE i # Len(r) /\ n # LogCap
      <4>1. r[i] = logRing[i] /\ i \in 1 .. n
        BY <2>1, <2>2, <3>3
      <4> QED
        BY <1>1, <4>1
    <3> QED
      BY <3>1, <3>2, <3>3
  <2> QED
    BY <2>1, <2>3
<1> QED
  BY <1>1, <1>3, <1>4

\* What the invariant says of the handlers carries over when nothing is
\* answered and nobody gets an identity.
LEMMA HandlerLeaves ==
  ASSUME ObserveInv, NEW h \in Handlers, UNCHANGED <<nextId, answered>>,
         inFlight' = [inFlight EXCEPT ![h] = NotHandling]
  PROVE  IdsApart' /\ inFlight' \in [Handlers -> Flights]
<1>1. /\ NotHandling \in Flights /\ NotHandling.at = "idle"
      /\ inFlight \in [Handlers -> Flights] /\ IdsApart
  BY DEF NotHandling, Flights, ObserveInv
<1>2. \A k \in Handlers : inFlight'[k] = IF k = h THEN NotHandling ELSE inFlight[k]
  BY <1>1
<1>3. inFlight' \in [Handlers -> Flights]
  BY <1>1
<1> QED
  BY <1>1, <1>2, <1>3 DEF IdsApart

\* What is said of the logger's ring does not depend on the handlers.
LinesOfAnswered ==
  /\ logRing \in Seq(Lines) /\ Len(logRing) <= LogCap
  /\ \A i \in 1 .. Len(logRing) : logRing[i].id = 0 \/ Contains(answered, logRing[i].id)

LEMMA ArrivesKeeps ==
  ASSUME ObserveInv, NEW h \in Handlers, Arrives(h)
  PROVE  ObserveInv'
<1>1. PICK api \in BOOLEAN :
        inFlight' = [inFlight EXCEPT ![h] = [id |-> nextId, at |-> "handling", api |-> api]]
  BY DEF Arrives
<1>2. /\ inFlight[h] = NotHandling /\ nextId <= MaxRequests /\ nextId' = nextId + 1
      /\ logRing' = logRing /\ requestRing' = requestRing /\ others' = others
      /\ answered' = answered
  BY DEF Arrives
<1> DEFINE f == [id |-> nextId, at |-> "handling", api |-> api]
<1>3. /\ inFlight \in [Handlers -> Flights] /\ IdsApart
      /\ nextId \in 1 .. MaxRequests + 1 /\ answered \in Seq(Nat)
  BY DEF ObserveInv
<1>4. f \in Flights /\ f.at = "handling" /\ f.id = nextId
  BY <1>3, ObserveCaps DEF Flights
<1>5. inFlight' = [inFlight EXCEPT ![h] = f]
  BY <1>1
<1> HIDE DEF f
<1>6. \A k \in Handlers : inFlight'[k] = IF k = h THEN f ELSE inFlight[k]
  BY <1>3, <1>5
<1>7. inFlight' \in [Handlers -> Flights]
  BY <1>3, <1>4, <1>5
<1>8. ~ Contains(answered, nextId)
  <2>1. \A i \in 1 .. Len(answered) : answered[i] # nextId
    BY <1>3, ObserveCaps DEF IdsApart
  <2> QED
    BY <1>3, <2>1 DEF Contains
<1>9. IdsApart'
  <2>1. \A k \in Handlers : inFlight[k].id \in Nat
    BY <1>3 DEF Flights
  <2>2. \A i \in 1 .. Len(answered) : answered[i] \in Nat
    BY <1>3
  <2>3. (\A k \in Handlers : inFlight[k].at = "idle" => inFlight[k] = NotHandling)'
    BY <1>3, <1>4, <1>6 DEF IdsApart
  <2>4. (\A k \in Handlers : inFlight[k].at # "idle" => inFlight[k].id < nextId)'
    BY <1>2, <1>3, <1>4, <1>6, <2>1, ObserveCaps DEF IdsApart
  <2>5. (\A k, j \in Handlers :
           (inFlight[k].at # "idle" /\ inFlight[j].at # "idle" /\ inFlight[k].id = inFlight[j].id)
             => k = j)'
    <3>1. \A k \in Handlers : k # h => inFlight'[k] = inFlight[k]
      BY <1>6
    <3>2. inFlight'[h].id = nextId
      BY <1>4, <1>6
    <3>3. \A k \in Handlers : inFlight[k].at # "idle" => inFlight[k].id # nextId
      BY <1>3, <2>1, ObserveCaps DEF IdsApart
    <3>4. \A k, j \in Handlers :
            (inFlight[k].at # "idle" /\ inFlight[j].at # "idle" /\ inFlight[k].id = inFlight[j].id)
              => k = j
      BY <1>3 DEF IdsApart
    <3>5. ASSUME NEW k \in Handlers, NEW j \in Handlers, inFlight'[k].at # "idle",
                 inFlight'[j].at # "idle", inFlight'[k].id = inFlight'[j].id
          PROVE  k = j
      <4>1. CASE k # h /\ j # h
        BY <3>1, <3>4, <3>5, <4>1
      <4>2. CASE k = h /\ j # h
        BY <3>1, <3>2, <3>3, <3>5, <4>2
      <4>3. CASE k # h /\ j = h
        BY <3>1, <3>2, <3>3, <3>5, <4>3
      <4> QED
        BY <4>1, <4>2, <4>3
    <3> QED
      BY <3>5
  <2>6. (\A k \in Handlers : inFlight[k].at = "handling" =>
           ~ Contains(answered, inFlight[k].id))'
    BY <1>2, <1>3, <1>4, <1>6, <1>8 DEF IdsApart
  <2>7. (\A k \in Handlers : inFlight[k].at = "answered" =>
           Contains(answered, inFlight[k].id))'
    BY <1>2, <1>3, <1>4, <1>6 DEF IdsApart
  <2>8. (\A i \in 1 .. Len(answered) : answered[i] < nextId)'
    BY <1>2, <1>3, <2>2, ObserveCaps DEF IdsApart
  <2> QED
    BY <2>3, <2>4, <2>5, <2>6, <2>7, <2>8 DEF IdsApart
<1>10. nextId' \in 1 .. MaxRequests + 1
  BY <1>2, <1>3, ObserveCaps
<1> QED
  BY <1>2, <1>7, <1>9, <1>10 DEF ObserveInv, EndOf

LEMMA AnswersKeeps ==
  ASSUME ObserveInv, NEW h \in Handlers, Answers(h), inFlight[h].api
  PROVE  ObserveInv'
<1> DEFINE x == inFlight[h].id
           f == [inFlight[h] EXCEPT !.at = "answered"]
<1>1. /\ inFlight[h].at = "handling"
      /\ requestRing' = Push(requestRing, x, RequestCap)
      /\ answered' = Append(answered, x)
      /\ inFlight' = [inFlight EXCEPT ![h] = f]
      /\ logRing' = logRing /\ nextId' = nextId /\ others' = others
  BY DEF Answers
<1>2. /\ inFlight \in [Handlers -> Flights] /\ IdsApart
      /\ nextId \in 1 .. MaxRequests + 1 /\ answered \in Seq(Nat) /\ requestRing \in Seq(Nat)
      /\ EndOf(requestRing, answered, RequestCap) /\ IsInjective(answered)
  BY DEF ObserveInv
<1>3. x \in Nat /\ f \in Flights /\ f.at = "answered" /\ f.id = x
  BY <1>2 DEF Flights
<1>4. x < nextId /\ ~ Contains(answered, x)
  BY <1>1, <1>2 DEF IdsApart
<1> HIDE DEF x, f
<1>5. /\ answered' \in Seq(Nat) /\ Len(answered') = Len(answered) + 1
      /\ answered'[Len(answered) + 1] = x
      /\ \A i \in 1 .. Len(answered) : answered'[i] = answered[i]
  BY <1>1, <1>2, <1>3, AppendProperties
<1>6. \A k \in Handlers : inFlight'[k] = IF k = h THEN f ELSE inFlight[k]
  BY <1>1, <1>2
<1>7. inFlight' \in [Handlers -> Flights]
  BY <1>1, <1>2, <1>3
<1>8. \A y : Contains(answered', y) <=> Contains(answered, y) \/ y = x
  <2>0. Len(answered) \in Nat
    BY <1>2
  <2>1. ASSUME NEW y PROVE Contains(answered', y) <=> Contains(answered, y) \/ y = x
    <3>1. Contains(answered', y) <=> \E i \in 1 .. Len(answered) + 1 : answered'[i] = y
      BY <1>5 DEF Contains
    <3>2. Contains(answered, y) <=> \E i \in 1 .. Len(answered) : answered[i] = y
      BY DEF Contains
    <3> QED
      BY <1>5, <2>0, <3>1, <3>2
  <2> QED
    BY <2>1
<1>9. IdsApart'
  <2>3. (\A k \in Handlers : inFlight[k].at = "idle" => inFlight[k] = NotHandling)'
    BY <1>2, <1>3, <1>6 DEF IdsApart
  <2>4. (\A k \in Handlers : inFlight[k].at # "idle" => inFlight[k].id < nextId)'
    BY <1>1, <1>2, <1>3, <1>4, <1>6 DEF IdsApart
  <2>5. (\A k, j \in Handlers :
           (inFlight[k].at # "idle" /\ inFlight[j].at # "idle" /\ inFlight[k].id = inFlight[j].id)
             => k = j)'
    <3>1. \A k \in Handlers : inFlight'[k].id = inFlight[k].id
                              /\ (inFlight'[k].at # "idle" => inFlight[k].at # "idle")
      BY <1>1, <1>3, <1>6 DEF x
    <3>2. \A k, j \in Handlers :
            (inFlight[k].at # "idle" /\ inFlight[j].at # "idle" /\ inFlight[k].id = inFlight[j].id)
              => k = j
      BY <1>2 DEF IdsApart
    <3> QED
      BY <3>1, <3>2
  <2>6. (\A k \in Handlers : inFlight[k].at = "handling" =>
           ~ Contains(answered, inFlight[k].id))'
    <3>1. ASSUME NEW k \in Handlers, k # h, inFlight[k].at = "handling"
          PROVE  inFlight[k].id # x
      BY <1>1, <1>2, <3>1 DEF IdsApart, x
    <3> QED
      BY <1>2, <1>3, <1>6, <1>8, <3>1 DEF IdsApart
  <2>7. (\A k \in Handlers : inFlight[k].at = "answered" =>
           Contains(answered, inFlight[k].id))'
    BY <1>2, <1>3, <1>6, <1>8 DEF IdsApart
  <2>8. (\A i \in 1 .. Len(answered) : answered[i] < nextId)'
    BY <1>1, <1>2, <1>4, <1>5 DEF IdsApart
  <2> QED
    BY <2>3, <2>4, <2>5, <2>6, <2>7, <2>8 DEF IdsApart
<1>10. /\ EndOf(requestRing, answered, RequestCap)' /\ requestRing' \in Seq(Nat)
  <2>0. RequestCap \in Nat \ {0}
    BY ObserveCaps
  <2>1. EndOf(Push(requestRing, x, RequestCap), Append(answered, x), RequestCap)
    BY <1>2, <1>3, <2>0, PushKeepsTheEnd
  <2>2. Len(requestRing) <= RequestCap
    <3>1. Len(answered) \in Nat
      BY <1>2
    <3> QED
      BY <1>2, <2>0, <3>1 DEF EndOf, Clamp
  <2>3. Push(requestRing, x, RequestCap) \in Seq(Nat)
    BY <1>2, <1>3, <2>0, <2>2, PushTyped
  <2> QED
    BY <1>1, <2>1, <2>3
<1>11. IsInjective(answered)'
  <2>1. \A i \in 1 .. Len(answered) : answered[i] # x
    BY <1>2, <1>4 DEF Contains
  <2>2. \A i, j \in 1 .. Len(answered) : answered[i] = answered[j] => i = j
    BY <1>2 DEF IsInjective
  <2>3. Len(answered) \in Nat
    BY <1>2
  <2>4. \A i, j \in 1 .. Len(answered) + 1 : answered'[i] = answered'[j] => i = j
    BY <1>5, <2>1, <2>2, <2>3
  <2>5. DOMAIN answered' = 1 .. Len(answered) + 1
    BY <1>5
  <2> QED
    BY <2>4, <2>5 DEF IsInjective
<1>12. LinesOfAnswered'
  BY <1>1, <1>8 DEF LinesOfAnswered, ObserveInv
<1> QED
  BY <1>1, <1>2, <1>5, <1>7, <1>9, <1>10, <1>11, <1>12 DEF ObserveInv, LinesOfAnswered

LEMMA ObserveStep == ObserveInv /\ [ObserveNext]_observeVars => ObserveInv'
<1> SUFFICES ASSUME ObserveInv, [ObserveNext]_observeVars PROVE ObserveInv'
  OBVIOUS
<1>1. ASSUME NEW h \in Handlers, Arrives(h) PROVE ObserveInv'
  BY <1>1, ArrivesKeeps
<1>2. ASSUME NEW h \in Handlers, Answers(h) PROVE ObserveInv'
  <2>1. CASE inFlight[h].api
    BY <1>2, <2>1, AnswersKeeps
  <2>2. CASE ~ inFlight[h].api
    <3>1. /\ inFlight' = [inFlight EXCEPT ![h] = NotHandling]
          /\ UNCHANGED <<logRing, requestRing, nextId, others, answered>>
      BY <1>2, <2>2 DEF Answers
    <3>2. IdsApart' /\ inFlight' \in [Handlers -> Flights]
      BY <3>1, HandlerLeaves
    <3> QED
      BY <3>1, <3>2 DEF ObserveInv, EndOf
  <2> QED
    BY <2>1, <2>2
<1>3. ASSUME NEW h \in Handlers, LogsOutcome(h) PROVE ObserveInv'
  <2>1. /\ inFlight' = [inFlight EXCEPT ![h] = NotHandling]
        /\ UNCHANGED <<requestRing, nextId, others, answered>>
        /\ Log("info", inFlight[h].id) /\ inFlight[h].at = "answered"
    BY <1>3 DEF LogsOutcome
  <2>2. IdsApart' /\ inFlight' \in [Handlers -> Flights]
    BY <2>1, HandlerLeaves
  <2>3. inFlight[h].id \in Nat /\ Contains(answered, inFlight[h].id) /\ "info" \in DOMAIN Severity
    BY <2>1 DEF ObserveInv, IdsApart, Flights, Severity
  <2>4. /\ logRing' \in Seq(Lines) /\ Len(logRing') <= LogCap
        /\ \A i \in 1 .. Len(logRing') :
             logRing'[i].id = 0 \/ Contains(answered, logRing'[i].id)
    BY <2>1, <2>3, LogKeeps
  <2> QED
    BY <2>1, <2>2, <2>4 DEF ObserveInv, EndOf
<1>4. ASSUME NEW h \in Handlers, Dropped(h) PROVE ObserveInv'
  <2>1. /\ inFlight' = [inFlight EXCEPT ![h] = NotHandling]
        /\ UNCHANGED <<logRing, requestRing, nextId, others, answered>>
    BY <1>4 DEF Dropped
  <2>2. IdsApart' /\ inFlight' \in [Handlers -> Flights]
    BY <2>1, HandlerLeaves
  <2> QED
    BY <2>1, <2>2 DEF ObserveInv, EndOf
<1>5. ASSUME OtherLogs PROVE ObserveInv'
  <2>1. PICK level \in DOMAIN Severity : Log(level, 0)
    BY <1>5 DEF OtherLogs
  <2>2. /\ others < MaxOther /\ others' = others + 1
        /\ UNCHANGED <<requestRing, nextId, inFlight, answered>>
    BY <1>5 DEF OtherLogs
  <2>3. /\ logRing' \in Seq(Lines) /\ Len(logRing') <= LogCap
        /\ \A i \in 1 .. Len(logRing') :
             logRing'[i].id = 0 \/ Contains(answered, logRing'[i].id)
    BY <2>1, LogKeeps
  <2>4. others' \in 0 .. MaxOther
    BY <2>2, ObserveCaps DEF ObserveInv
  <2> QED
    BY <2>2, <2>3, <2>4 DEF ObserveInv, EndOf, IdsApart
<1>6. CASE UNCHANGED observeVars
  BY <1>6 DEF ObserveInv, EndOf, IdsApart, observeVars
<1> QED
  BY <1>1, <1>2, <1>3, <1>4, <1>5, <1>6 DEF ObserveNext

LEMMA ObserveHolds == ObserveSpec => []ObserveInv
  BY ObserveInitInv, ObserveStep, PTL DEF ObserveSpec

\* The rank of a level, and whom a question for a level asks for.
LEMMA Ranks ==
  /\ DOMAIN Severity = {"trace", "debug", "info", "warn", "error"}
  /\ LevelRank("trace") = -1 /\ LevelRank("debug") = 0 /\ LevelRank("info") = 1
  /\ LevelRank("warn") = 2 /\ LevelRank("error") = 3
<1>1. DOMAIN Severity = {"trace", "debug", "info", "warn", "error"}
  BY DEF Severity
<1>2. /\ Severity["debug"] = 1 /\ Severity["info"] = 2
      /\ Severity["warn"] = 3 /\ Severity["error"] = 4
  BY DEF Severity
<1> QED
  BY <1>1, <1>2 DEF LevelRank

\* Cutting a sequence off.
LEMMA TakeProperties ==
  ASSUME NEW X, NEW s \in Seq(X), NEW n \in Nat
  PROVE  /\ Len(Take(s, n)) = IF Len(s) < n THEN Len(s) ELSE n
         /\ \A i \in 1 .. Len(Take(s, n)) : i \in 1 .. Len(s) /\ Take(s, n)[i] = s[i]
<1> DEFINE m == IF n < Len(s) THEN n ELSE Len(s)
<1>1. Len(s) \in Nat /\ m \in Nat /\ m <= Len(s)
  OBVIOUS
<1>2. \A i \in 1 .. m : s[i] \in X
  BY <1>1
<1>3. Take(s, n) = SubSeq(s, 1, m)
  BY DEF Take
<1>4. /\ Len(SubSeq(s, 1, m)) = IF 1 <= m THEN m - 1 + 1 ELSE 0
      /\ \A i \in 1 .. m - 1 + 1 : SubSeq(s, 1, m)[i] = s[1 + i - 1]
  BY <1>1, <1>2, SubSeqProperties
<1>5. m = IF Len(s) < n THEN Len(s) ELSE n
  BY <1>1
<1> HIDE DEF m
<1>6. Len(Take(s, n)) = m
  BY <1>1, <1>3, <1>4
<1>7. ASSUME NEW i \in 1 .. m PROVE Take(s, n)[i] = s[i] /\ i \in 1 .. Len(s)
  BY <1>1, <1>3, <1>4
<1> QED
  BY <1>5, <1>6, <1>7

\* Where the wanted elements of a sequence stand.
Places(s, liked) == {i \in 1 .. Len(s) : s[i] \in liked}

\* As many elements are liked in the order of the ring as in the other.
LEMMA TurnedRound ==
  ASSUME NEW X, NEW s \in Seq(X), NEW liked
  PROVE  /\ NewestFirst(s) \in Seq(X)
         /\ Cardinality(Places(NewestFirst(s), liked)) = Cardinality(Places(s, liked))
         /\ Cardinality(Places(s, liked)) \in Nat
<1> DEFINE n == Len(s)
           r == NewestFirst(s)
           A == {i \in 1 .. n : s[i] \in liked}
           B == {i \in 1 .. n : r[i] \in liked}
           f == [i \in A |-> n - i + 1]
<1>1. n \in Nat /\ \A i \in 1 .. n : s[i] \in X
  OBVIOUS
<1>2. r = [i \in 1 .. n |-> s[n - i + 1]]
  BY DEF NewestFirst, Reverse
<1>3. r \in Seq(X) /\ Len(r) = n
  BY <1>1, <1>2
<1>4. \A i \in 1 .. n : r[i] = s[n - i + 1] /\ n - i + 1 \in 1 .. n
  BY <1>1, <1>2
<1>5. f \in Bijection(A, B)
  <2>1. f \in [A -> B]
    <3>1. ASSUME NEW i \in A PROVE n - i + 1 \in B
      <4>1. n - i + 1 \in 1 .. n /\ n - (n - i + 1) + 1 = i
        BY <1>1
      <4>2. r[n - i + 1] = s[n - (n - i + 1) + 1]
        BY <1>4, <4>1
      <4> QED
        BY <4>1, <4>2
    <3> QED
      BY <3>1
  <2>2. \A i, j \in A : f[i] = f[j] => i = j
    BY <1>1
  <2>3. \A k \in B : \E i \in A : f[i] = k
    <3>1. ASSUME NEW k \in B PROVE \E i \in A : f[i] = k
      <4>1. n - k + 1 \in A
        BY <1>4
      <4>2. f[n - k + 1] = k
        BY <1>1, <4>1
      <4> QED
        BY <4>1, <4>2
    <3> QED
      BY <3>1
  <2> HIDE DEF f, A, B
  <2> QED
    BY <2>1, <2>2, <2>3 DEF Bijection, Injection, Surjection, IsInjective
<1>6. IsFiniteSet(A) /\ IsFiniteSet(B)
  <2>1. IsFiniteSet(1 .. n)
    BY <1>1, FS_Interval
  <2> QED
    BY <2>1, FS_Subset
<1> HIDE DEF f
<1>7. Cardinality(A) = Cardinality(B) /\ Cardinality(A) \in Nat
  <2> HIDE DEF A, B
  <2>1. ExistsBijection(A, B)
    BY <1>5 DEF ExistsBijection
  <2> QED
    BY <1>6, <2>1, FS_Bijection, FS_CardinalityType
<1>8. A = Places(s, liked) /\ B = Places(r, liked)
  BY <1>3 DEF Places
<1> QED
  BY <1>3, <1>7, <1>8

LEMMA QuestionsAnswered == ObserveInv => LevelsNotCrowdedOut
<1> SUFFICES ASSUME ObserveInv, NEW level \in {"info", "warn", "error"},
                    NEW limit \in 1 .. LogCap
             PROVE  /\ Len(LogsAnswer(logRing, limit, level))
                         = (IF Cardinality({i \in DOMAIN logRing :
                                             LevelRank(logRing[i].level) >= LevelRank(level)}) < limit
                              THEN Cardinality({i \in DOMAIN logRing :
                                             LevelRank(logRing[i].level) >= LevelRank(level)})
                              ELSE limit)
                    /\ \A i \in DOMAIN LogsAnswer(logRing, limit, level) :
                         LevelRank(LogsAnswer(logRing, limit, level)[i].level) >= LevelRank(level)
  BY DEF LevelsNotCrowdedOut
<1> DEFINE least == LevelRank(level)
           liked == {e \in ToSet(logRing) :
                        (IF e.level = "trace" THEN 0 ELSE LevelRank(e.level)) >= least}
           r == NewestFirst(logRing)
           kept == Keeping(r, liked)
           hits == {i \in DOMAIN logRing : LevelRank(logRing[i].level) >= least}
           a == LogsAnswer(logRing, limit, level)
<1>1. least \in 1 .. 3 /\ level \in DOMAIN Severity /\ level # "trace"
  BY Ranks
<1>2. logRing \in Seq(Lines) /\ Len(logRing) \in Nat
  BY DEF ObserveInv
<1>3. Clamp(limit, 1, LogCap) = limit /\ limit \in Nat
  BY ObserveCaps DEF Clamp
<1>4. a = Take(kept, limit)
  BY <1>1, <1>3, Zenon DEF LogsAnswer
<1>5. \A e \in Lines : (IF e.level = "trace" THEN 0 ELSE LevelRank(e.level)) >= least
                         <=> LevelRank(e.level) >= least
  <2>1. ASSUME NEW e \in Lines
        PROVE  (IF e.level = "trace" THEN 0 ELSE LevelRank(e.level)) >= least
                 <=> LevelRank(e.level) >= least
    BY <1>1, Ranks DEF Lines
  <2> QED
    BY <2>1
<1> HIDE DEF least
<1>6. \A i \in 1 .. Len(logRing) :
        logRing[i] \in liked <=> LevelRank(logRing[i].level) >= least
  <2>1. ASSUME NEW i \in 1 .. Len(logRing)
        PROVE  logRing[i] \in liked <=> LevelRank(logRing[i].level) >= least
    <3>1. logRing[i] \in Lines /\ logRing[i] \in ToSet(logRing)
      BY <1>2 DEF ToSet
    <3> QED
      BY <1>5, <3>1
  <2> QED
    BY <2>1
<1>7. \A e \in liked : LevelRank(e.level) >= least
  <2>1. ASSUME NEW e \in liked PROVE LevelRank(e.level) >= least
    <3>1. PICK i \in 1 .. Len(logRing) : e = logRing[i]
      BY <1>2 DEF ToSet
    <3> QED
      BY <1>6, <3>1
  <2> QED
    BY <2>1
<1>8. hits = {i \in 1 .. Len(logRing) : logRing[i] \in liked}
  <2>1. DOMAIN logRing = 1 .. Len(logRing)
    BY <1>2
  <2> HIDE DEF liked
  <2> QED
    BY <1>6, <2>1
<1> HIDE DEF liked, r, kept, hits, a
<1>9. r \in Seq(Lines) /\ Cardinality(Places(r, liked)) = Cardinality(hits)
      /\ Cardinality(hits) \in Nat
  <2>1. logRing \in Seq(Lines)
    BY <1>2
  <2> DEFINE q == NewestFirst(logRing)
  <2>2. /\ q \in Seq(Lines) /\ Cardinality(Places(q, liked)) = Cardinality(Places(logRing, liked))
        /\ Cardinality(Places(logRing, liked)) \in Nat
    BY ONLY <2>1, TurnedRound
  <2>3. hits = Places(logRing, liked)
    BY <1>8 DEF Places
  <2>4. r = q
    BY DEF r
  <2> HIDE DEF q
  <2> QED
    BY <2>2, <2>3, <2>4
<1>10. /\ kept \in Seq(Lines) /\ Len(kept) = Cardinality(hits)
       /\ \A i \in 1 .. Len(kept) : kept[i] \in liked
  BY <1>9, KeepingCounts DEF kept, Places
<1>11. /\ Len(a) = IF Len(kept) < limit THEN Len(kept) ELSE limit
       /\ \A i \in 1 .. Len(a) : i \in 1 .. Len(kept) /\ a[i] = kept[i]
  BY <1>3, <1>4, <1>10, TakeProperties
<1>12. DOMAIN a = 1 .. Len(a)
  <2>1. a \in Seq(Lines)
    BY <1>3, <1>4, <1>10 DEF Take
  <2> QED
    BY <2>1
<1>13. Len(a) = IF Cardinality(hits) < limit THEN Cardinality(hits) ELSE limit
  BY <1>10, <1>11
<1>14. \A i \in DOMAIN a : LevelRank(a[i].level) >= least
  BY <1>7, <1>10, <1>11, <1>12
<1> QED
  BY <1>13, <1>14, Zenon DEF a, hits, least

LEMMA RingsFollow == ObserveInv => RingsKeepTheEnd
<1> SUFFICES ASSUME ObserveInv PROVE RingsKeepTheEnd
  OBVIOUS
<1>1. DOMAIN logRing = 1 .. Len(logRing)
  BY DEF ObserveInv
<1> QED
  BY <1>1 DEF ObserveInv, EndOf, RingsKeepTheEnd

(* The answer about the recent past is the recent past: the rings end with *)
(* what came last, and no line below the level in force crowds out one at  *)
(* it (handle_logs, handle_requests in src/src/web/observe.rs).            *)
THEOREM RecentPastAnswered == ObserveSpec => []ObservedSound
<1>1. ObserveInv => ObservedSound
  BY QuestionsAnswered, RingsFollow DEF ObservedSound
<1> QED
  BY <1>1, ObserveHolds, PTL

(***************************************************************************)
(* MotionSound for every grid, threshold, cooldown and set of pictures.    *)
(* What carries it is that the frame kept is the last one compared, and    *)
(* that no event is later than the detector's last.                        *)
(***************************************************************************)
Lumas == [Pixels -> 0 .. 255]

FrameKept ==
  /\ seen \in Seq(Lumas) /\ Len(seen) <= 2
  /\ motion.prevFrame # Missing =>
       seen # <<>> /\ motion.prevFrame = seen[Len(seen)] /\ motion.prevFrame \in Lumas

LastIsLast ==
  /\ raised \subseteq 0 .. motionTime
  /\ \A t \in raised : motion.lastEvent # -1 /\ t <= motion.lastEvent

MotionInv ==
  /\ motion \in [sensitivity : 0 .. 4, lastEvent : -1 .. MaxMotionTime,
                 prevFrame : {Missing} \cup Lumas]
  /\ motionTime \in 0 .. MaxMotionTime
  /\ FrameKept /\ LastIsLast /\ MotionSound

LEMMA NoDistance == ASSUME NEW a \in Int PROVE Max({a, a}) - Min({a, a}) = 0
<1>1. Max({a, a}) = a
  BY DEF Max
<1>2. Min({a, a}) = a
  BY DEF Min
<1> QED
  BY <1>1, <1>2

\* A changed pixel is a different one, and there are finitely many.
LEMMA ChangedDiffer ==
  ASSUME MotionInv, NEW a \in Lumas, NEW b \in Lumas
  PROVE  /\ IsFiniteSet({i \in Pixels : a[i] # b[i]})
         /\ Changed(a, b) \subseteq {i \in Pixels : a[i] # b[i]}
         /\ Cardinality(Changed(a, b)) <= Cardinality({i \in Pixels : a[i] # b[i]})
         /\ Cardinality(Changed(a, b)) \in Nat /\ Cardinality({i \in Pixels : a[i] # b[i]}) \in Nat
<1> DEFINE D == {i \in Pixels : a[i] # b[i]}
           threshold == ((4 - motion.sensitivity) * 255) \div 4
<1>1. threshold \in Nat
  <2>1. (4 - motion.sensitivity) * 255 \in Nat
    BY DEF MotionInv
  <2> QED
    BY <2>1
<1>2. Changed(a, b) = {i \in Pixels : Max({a[i], b[i]}) - Min({a[i], b[i]}) > threshold}
  BY DEF Changed
<1> HIDE DEF threshold
<1>3. Changed(a, b) \subseteq D
  <2>1. ASSUME NEW i \in Pixels, Max({a[i], b[i]}) - Min({a[i], b[i]}) > threshold, a[i] = b[i]
        PROVE  FALSE
    <3>1. a[i] \in Int
      BY DEF Lumas
    <3>2. Max({a[i], b[i]}) - Min({a[i], b[i]}) = 0
      BY <2>1, <3>1, NoDistance
    <3> QED
      BY <1>1, <2>1, <3>2
  <2> QED
    BY <1>2, <2>1
<1>4. IsFiniteSet(Pixels)
  <2>1. DetectWidth * DetectHeight - 1 \in Int
    BY MotionAssumption
  <2> QED
    BY <2>1, FS_Interval DEF Pixels
<1>5. IsFiniteSet(D) /\ IsFiniteSet(Changed(a, b))
  BY <1>3, <1>4, FS_Subset
<1> HIDE DEF D
<1>6. Cardinality(Changed(a, b)) <= Cardinality(D)
      /\ Cardinality(Changed(a, b)) \in Nat /\ Cardinality(D) \in Nat
  BY <1>3, <1>5, FS_Subset, FS_CardinalityType
<1> QED
  BY <1>3, <1>5, <1>6 DEF D

LEMMA DownscaledIsLuma ==
  ASSUME NEW pic \in Pictures, Len(pic.y) >= pic.width * pic.height
  PROVE  DownscaleYPlane(pic) \in Lumas
<1> DEFINE w == pic.width
           h == pic.height
           stepX == w \div DetectWidth
           stepY == h \div DetectHeight
           from(i) == IF stepX = 0 \/ stepY = 0 THEN i
                      ELSE (i \div DetectWidth) * stepY * w + (i % DetectWidth) * stepX
<1>1. /\ DetectWidth \in Nat \ {0} /\ DetectHeight \in Nat \ {0} /\ w \in Nat /\ h \in Nat
      /\ pic.y \in Seq(0 .. 255)
  BY MotionAssumption
<1>2. stepX \in Nat /\ stepY \in Nat
  BY ONLY <1>1, Division
<1>3. DownscaleYPlane(pic) = [i \in Pixels |-> IF from(i) < w * h THEN pic.y[from(i) + 1] ELSE 0]
  BY DEF DownscaleYPlane
<1>4. w * h \in Nat
  BY <1>1
<1>5. Len(pic.y) >= w * h
  OBVIOUS
<1> HIDE DEF w, h, stepX, stepY
<1>6. ASSUME NEW i \in Pixels PROVE from(i) \in Nat
  <2>1. i \in Nat
    BY <1>6 DEF Pixels
  <2> DEFINE q == i \div DetectWidth
             m == i % DetectWidth
  <2>2. q \in Nat /\ m \in Nat
    <3>1. DetectWidth \in Nat \ {0}
      BY <1>1
    <3>2. i \div DetectWidth \in Nat /\ i % DetectWidth \in 0 .. DetectWidth - 1
      BY ONLY <2>1, <3>1, Division
    <3> QED
      BY <3>1, <3>2
  <2> HIDE DEF q, m
  <2>3. q * stepY \in Nat /\ m * stepX \in Nat
    BY <1>2, <2>2
  <2>4. q * stepY * w \in Nat
    BY <1>1, <2>3
  <2>5. q * stepY * w + m * stepX \in Nat
    BY <2>3, <2>4
  <2> QED
    BY <2>1, <2>5 DEF q, m
<1> HIDE DEF from
<1>7. ASSUME NEW i \in Pixels
      PROVE  (IF from(i) < w * h THEN pic.y[from(i) + 1] ELSE 0) \in 0 .. 255
  <2>1. from(i) \in Nat
    BY <1>6
  <2>2. CASE from(i) < w * h
    <3>1. from(i) + 1 \in 1 .. Len(pic.y)
      BY <1>1, <1>4, <1>5, <2>1, <2>2
    <3>2. \A k \in 1 .. Len(pic.y) : pic.y[k] \in 0 .. 255
      <4> DEFINE y == pic.y
      <4> DEFINE S == 0 .. 255
      <4>1. y \in Seq(S)
        BY <1>1
      <4> HIDE DEF y, S
      <4>2. \A k \in 1 .. Len(y) : y[k] \in S
        BY <4>1
      <4> QED
        BY <4>2 DEF y, S
    <3>3. pic.y[from(i) + 1] \in 0 .. 255
      BY <3>1, <3>2
    <3> QED
      BY <2>2, <3>3
  <2> QED
    BY <2>2
<1> QED
  BY <1>3, <1>7 DEF Lumas

LEMMA MotionInitInv == MotionInit => MotionInv
<1> SUFFICES ASSUME MotionInit PROVE MotionInv
  OBVIOUS
<1>1. /\ motion.sensitivity \in 0 .. 4 /\ motion.lastEvent = -1 /\ motion.prevFrame = Missing
      /\ motion = [sensitivity |-> motion.sensitivity, lastEvent |-> motion.lastEvent,
                   prevFrame |-> motion.prevFrame]
      /\ motionTime = 0 /\ event = Missing /\ seen = <<>> /\ raised = {}
  BY DEF MotionInit
<1>2. MaxMotionTime \in Nat
  BY MotionAssumption
<1>3. motion \in [sensitivity : 0 .. 4, lastEvent : -1 .. MaxMotionTime,
                  prevFrame : {Missing} \cup Lumas]
  BY <1>1, <1>2
<1>4. FrameKept /\ LastIsLast /\ MotionSound
  BY <1>1 DEF FrameKept, LastIsLast, MotionSound
<1> QED
  BY <1>1, <1>2, <1>3, <1>4 DEF MotionInv

\* A frame that is compared: kept, and an event only if it may be one.
LEMMA ComparedKeeps ==
  ASSUME MotionInv, NEW cur \in Lumas, UNCHANGED motionTime,
         seen' = (IF seen = <<>> THEN <<>> ELSE <<seen[Len(seen)]>>) \o <<cur>>
  PROVE  /\ seen' \in Seq(Lumas) /\ Len(seen') <= 2 /\ seen' # <<>>
         /\ seen'[Len(seen')] = cur
         /\ motion.prevFrame # Missing => Len(seen') = 2 /\ seen'[1] = motion.prevFrame
<1>1. seen \in Seq(Lumas) /\ (seen # <<>> => seen[Len(seen)] \in Lumas)
  BY DEF MotionInv, FrameKept
<1>2. CASE seen = <<>>
  <2>1. seen' = <<cur>>
    BY <1>2
  <2>2. motion.prevFrame = Missing
    BY <1>2 DEF MotionInv, FrameKept
  <2> QED
    BY <2>1, <2>2
<1>3. CASE seen # <<>>
  <2> DEFINE last == seen[Len(seen)]
  <2>0. seen' = <<last>> \o <<cur>>
    BY <1>3
  <2> HIDE DEF last
  <2>1. seen' = <<last, cur>>
    <3>1. last \in Lumas
      BY <1>1, <1>3 DEF last
    <3>2. <<last>> \in Seq(Lumas) /\ <<cur>> \in Seq(Lumas) /\ Len(<<last>>) = 1 /\ Len(<<cur>>) = 1
      BY <3>1
    <3> DEFINE b == <<last>> \o <<cur>>
    <3>4. /\ b \in Seq(Lumas) /\ Len(b) = 2
          /\ \A i \in 1 .. 2 : b[i] = IF i <= 1 THEN <<last>>[i] ELSE <<cur>>[i - 1]
      BY <3>2, ConcatProperties
    <3> HIDE DEF b
    <3>5. b[1] = last /\ b[2] = cur
      BY <3>4
    <3>3. b = <<last, cur>>
      BY <3>4, <3>5
    <3> QED
      BY <2>0, <3>3 DEF b
  <2> USE DEF last
  <2> QED
    BY <1>1, <1>3, <2>1 DEF MotionInv, FrameKept
<1> QED
  BY <1>2, <1>3

LEMMA FrameKeeps == MotionInv /\ ProcessFrame => MotionInv'
<1> SUFFICES ASSUME MotionInv, ProcessFrame PROVE MotionInv'
  OBVIOUS
<1>1. PICK pic \in Pictures :
        IF pic.width * pic.height = 0 \/ Len(pic.y) < pic.width * pic.height
        THEN event' = Missing /\ UNCHANGED <<motion, seen, raised>>
        ELSE LET cur     == DownscaleYPlane(pic)
                 changed == Changed(motion.prevFrame, cur)
             IN
         /\ seen' = (IF seen = <<>> THEN <<>> ELSE <<seen[Len(seen)]>>) \o <<cur>>
         /\ \/ /\ motion.prevFrame = Missing
               /\ motion' = [motion EXCEPT !.prevFrame = cur]
               /\ event' = Missing /\ UNCHANGED raised
            \/ /\ motion.prevFrame # Missing
               /\ Cardinality(changed) >= MinArea /\ Cooled
               /\ motion' = [motion EXCEPT !.prevFrame = Stored(cur, changed),
                                           !.lastEvent = motionTime]
               /\ event' = <<Bbox(changed), Cardinality(changed)>>
               /\ raised' = raised \cup {motionTime}
            \/ /\ motion.prevFrame # Missing
               /\ Cardinality(changed) < MinArea \/ ~Cooled
               /\ motion' = [motion EXCEPT !.prevFrame = Stored(cur, changed)]
               /\ event' = Missing /\ UNCHANGED raised
  BY Zenon DEF ProcessFrame
<1>2. UNCHANGED motionTime
  BY DEF ProcessFrame
<1>3. CASE pic.width * pic.height = 0 \/ Len(pic.y) < pic.width * pic.height
  BY <1>1, <1>2, <1>3 DEF MotionInv, FrameKept, LastIsLast, MotionSound
<1>4. CASE ~ (pic.width * pic.height = 0 \/ Len(pic.y) < pic.width * pic.height)
  <2> DEFINE cur == DownscaleYPlane(pic)
             changed == Changed(motion.prevFrame, cur)
  <2>1. cur \in Lumas
    <3>1. pic.width * pic.height \in Int /\ Len(pic.y) \in Int
      BY MotionAssumption
    <3>2. Len(pic.y) >= pic.width * pic.height
      BY <1>4, <3>1
    <3> QED
      BY <3>2, DownscaledIsLuma
  <2>2. seen' = (IF seen = <<>> THEN <<>> ELSE <<seen[Len(seen)]>>) \o <<cur>>
    BY <1>1, <1>4
  <2>3. \/ /\ motion' = [motion EXCEPT !.prevFrame = cur]
           /\ event' = Missing /\ UNCHANGED raised
        \/ /\ motion.prevFrame # Missing /\ Cardinality(changed) >= MinArea /\ Cooled
           /\ motion' = [motion EXCEPT !.prevFrame = cur, !.lastEvent = motionTime]
           /\ event' = <<Bbox(changed), Cardinality(changed)>>
           /\ raised' = raised \cup {motionTime}
    BY <1>1, <1>4, Zenon DEF Stored
  <2> HIDE DEF cur, changed
  <2>4. /\ seen' \in Seq(Lumas) /\ Len(seen') <= 2 /\ seen' # <<>>
        /\ seen'[Len(seen')] = cur
        /\ motion.prevFrame # Missing => Len(seen') = 2 /\ seen'[1] = motion.prevFrame
    BY <1>2, <2>1, <2>2, ComparedKeeps
  <2>5. /\ motion \in [sensitivity : 0 .. 4, lastEvent : -1 .. MaxMotionTime,
                       prevFrame : {Missing} \cup Lumas]
        /\ motionTime \in 0 .. MaxMotionTime /\ LastIsLast
        /\ \A s, t \in raised : s < t => t - s >= EventGap
        /\ motion.prevFrame # Missing => motion.prevFrame \in Lumas
    BY DEF MotionInv, FrameKept, MotionSound
  <2>6. CASE /\ motion' = [motion EXCEPT !.prevFrame = cur]
             /\ event' = Missing /\ UNCHANGED raised
    <3>1. /\ motion' \in [sensitivity : 0 .. 4, lastEvent : -1 .. MaxMotionTime,
                          prevFrame : {Missing} \cup Lumas]
          /\ motion'.prevFrame = cur /\ motion'.lastEvent = motion.lastEvent
      BY <2>1, <2>5, <2>6
    <3>2. FrameKept'
      BY <2>1, <2>4, <3>1 DEF FrameKept
    <3>3. LastIsLast'
      BY <1>2, <2>5, <2>6, <3>1 DEF LastIsLast
    <3>4. MotionSound'
      BY <2>5, <2>6 DEF MotionSound
    <3> QED
      BY <1>2, <2>5, <3>1, <3>2, <3>3, <3>4 DEF MotionInv
  <2>7. CASE /\ motion.prevFrame # Missing /\ Cardinality(changed) >= MinArea /\ Cooled
             /\ motion' = [motion EXCEPT !.prevFrame = cur, !.lastEvent = motionTime]
             /\ event' = <<Bbox(changed), Cardinality(changed)>>
             /\ raised' = raised \cup {motionTime}
    <3>1. /\ motion' \in [sensitivity : 0 .. 4, lastEvent : -1 .. MaxMotionTime,
                          prevFrame : {Missing} \cup Lumas]
          /\ motion'.prevFrame = cur /\ motion'.lastEvent = motionTime
          /\ motion'.sensitivity = motion.sensitivity
      <4>1. motionTime \in -1 .. MaxMotionTime
        BY <2>5
      <4> QED
        BY <2>1, <2>5, <2>7, <4>1
    <3>2. FrameKept'
      BY <2>1, <2>4, <3>1 DEF FrameKept
    <3>3. LastIsLast'
      <4>1. \A t \in raised : t \in 0 .. motionTime
        BY <2>5 DEF LastIsLast
      <4>2. \A t \in raised' : t \in 0 .. motionTime
        BY <2>5, <2>7, <4>1
      <4> QED
        BY <1>2, <2>5, <3>1, <4>2 DEF LastIsLast
    <3>4. Len(seen') = 2 /\ seen'[1] = motion.prevFrame /\ seen'[2] = cur
      BY <2>4, <2>7
    <3>5. Cardinality({i \in Pixels : motion.prevFrame[i] # cur[i]}) >= MinArea
      <4>1. Cardinality(changed) <= Cardinality({i \in Pixels : motion.prevFrame[i] # cur[i]})
            /\ Cardinality(changed) \in Nat
            /\ Cardinality({i \in Pixels : motion.prevFrame[i] # cur[i]}) \in Nat
        BY <2>1, <2>5, <2>7, ChangedDiffer DEF changed
      <4> QED
        BY <2>7, <4>1, MotionAssumption
    <3>6. Changed(seen[1], seen[2])' = changed
      BY <3>1, <3>4 DEF Changed, changed
    <3>7. event'[2] = Cardinality(changed)
      BY <2>7
    <3>8. \A s, t \in raised' : s < t => t - s >= EventGap
      <4>1. \A t \in raised : t \in 0 .. motionTime /\ t <= motion.lastEvent /\ motion.lastEvent # -1
        BY <2>5 DEF LastIsLast
      <4>2. raised # {} => motionTime - motion.lastEvent >= EventGap
        BY <2>7, <4>1 DEF Cooled
      <4>3. motion.lastEvent \in Int /\ EventGap \in Int /\ motionTime \in Int
        BY <2>5, MotionAssumption
      <4>4. ASSUME NEW s \in raised PROVE motionTime - s >= EventGap
        BY <4>1, <4>2, <4>3
      <4>5. ASSUME NEW s \in raised', NEW t \in raised', s < t PROVE t - s >= EventGap
        <5>1. CASE s \in raised /\ t \in raised
          BY <2>5, <4>5, <5>1
        <5>2. CASE s \in raised /\ t = motionTime
          BY <4>4, <5>2
        <5>3. CASE s = motionTime
          <6>1. t \in 0 .. motionTime
            BY <2>5, <2>7, <4>1
          <6> QED
            BY <4>3, <4>5, <5>3, <6>1
        <5> QED
          BY <2>7, <5>1, <5>2, <5>3
      <4> QED
        BY <4>5
    <3>9. MotionSound'
      BY <3>4, <3>5, <3>6, <3>7, <3>8 DEF MotionSound
    <3> QED
      BY <1>2, <2>5, <3>1, <3>2, <3>3, <3>9 DEF MotionInv
  <2> QED
    BY <2>3, <2>6, <2>7
<1> QED
  BY <1>3, <1>4

LEMMA MotionNextInv == MotionInv /\ [MotionNext]_motionVars => MotionInv'
<1> SUFFICES ASSUME MotionInv, [MotionNext]_motionVars PROVE MotionInv'
  OBVIOUS
<1>1. CASE ProcessFrame
  BY <1>1, FrameKeeps
<1>2. CASE SetSensitivity
  <2>1. PICK s \in {0, 3, 4} : motion' = [motion EXCEPT !.sensitivity = s]
    BY <1>2 DEF SetSensitivity
  <2>2. event' = Missing /\ UNCHANGED <<motionTime, seen, raised>>
    BY <1>2 DEF SetSensitivity
  <2>3. /\ motion' \in [sensitivity : 0 .. 4, lastEvent : -1 .. MaxMotionTime,
                        prevFrame : {Missing} \cup Lumas]
        /\ motion'.prevFrame = motion.prevFrame /\ motion'.lastEvent = motion.lastEvent
    BY <2>1 DEF MotionInv
  <2> QED
    BY <2>2, <2>3 DEF MotionInv, FrameKept, LastIsLast, MotionSound
<1>3. CASE ResetMotion
  <2>1. /\ motion' = [motion EXCEPT !.prevFrame = Missing, !.lastEvent = -1]
        /\ event' = Missing /\ seen' = <<>> /\ raised' = {} /\ UNCHANGED motionTime
    BY <1>3 DEF ResetMotion
  <2>2. /\ motion' \in [sensitivity : 0 .. 4, lastEvent : -1 .. MaxMotionTime,
                        prevFrame : {Missing} \cup Lumas]
        /\ motion'.prevFrame = Missing
    <3>1. -1 \in -1 .. MaxMotionTime
      BY MotionAssumption
    <3>2. Missing \in {Missing} \cup Lumas
      OBVIOUS
    <3> DEFINE K == {Missing} \cup Lumas
    <3>3. motion \in [sensitivity : 0 .. 4, lastEvent : -1 .. MaxMotionTime, prevFrame : K]
      BY DEF MotionInv
    <3> HIDE DEF K, Missing
    <3> QED
      BY <2>1, <3>1, <3>2, <3>3 DEF K
  <2> QED
    BY <2>1, <2>2 DEF MotionInv, FrameKept, LastIsLast, MotionSound
<1>4. CASE MotionTimePasses
  <2>1. /\ motionTime < MaxMotionTime /\ motionTime' = motionTime + 1
        /\ event' = Missing /\ UNCHANGED <<motion, seen, raised>>
    BY <1>4 DEF MotionTimePasses
  <2>2. motionTime' \in 0 .. MaxMotionTime /\ \A t \in raised : t \in 0 .. motionTime'
    BY <2>1, MotionAssumption DEF MotionInv, LastIsLast
  <2> QED
    BY <2>1, <2>2 DEF MotionInv, FrameKept, LastIsLast, MotionSound
<1>5. CASE UNCHANGED motionVars
  BY <1>5 DEF MotionInv, FrameKept, LastIsLast, MotionSound, Changed, motionVars
<1> QED
  BY <1>1, <1>2, <1>3, <1>4, <1>5 DEF MotionNext

(* An event tells of two frames that followed each other, and events keep  *)
(* the cooldown (process_frame, src/src/motion/detector.rs).               *)
THEOREM MotionAlwaysSound == MotionSpec => []MotionSound
<1>1. MotionInv => MotionSound
  BY DEF MotionInv
<1> QED
  BY <1>1, MotionInitInv, MotionNextInv, PTL DEF MotionSpec

LEMMA MotionTyped == MotionInv => MotionTypeOK
  BY DEF MotionInv, FrameKept, MotionTypeOK, Lumas

(***************************************************************************)
(* ParamsReadBack for any ranges of the controls and any number of parts:  *)
(* rounding misses by half a step of the control at most, and never leaves *)
(* its range.                                                              *)
(***************************************************************************)
LEMMA RoundNear ==
  ASSUME NEW n \in Int, NEW d \in Nat \ {0}
  PROVE  Round(n, d) \in Int /\ 2 * (Round(n, d) * d - n) \in -d .. d
<1>0. 2 * d \in Nat \ {0}
  OBVIOUS
<1>1. CASE n >= 0
  <2> DEFINE q == (2 * n + d) \div (2 * d)
             m == (2 * n + d) % (2 * d)
  <2>1. 2 * n + d \in Nat
    BY <1>1
  <2>2. q \in Nat /\ m \in 0 .. 2 * d - 1 /\ 2 * n + d = m + q * (2 * d)
    BY ONLY <1>0, <2>1, Division
  <2>3. Round(n, d) = q
    BY <1>1 DEF Round
  <2> HIDE DEF q, m
  <2>4. q * (2 * d) = 2 * (q * d)
    BY <2>2
  <2>5. q * d \in Int
    BY <2>2
  <2> DEFINE x == q * d
  <2>6. 2 * n + d = m + 2 * x /\ x \in Int
    BY <2>2, <2>4, <2>5
  <2> HIDE DEF x
  <2>7. 2 * (x - n) \in -d .. d
    BY <2>2, <2>6
  <2> QED
    BY <2>2, <2>3, <2>7 DEF x
<1>2. CASE n < 0
  <2> DEFINE q == (d - 2 * n) \div (2 * d)
             m == (d - 2 * n) % (2 * d)
  <2>1. d - 2 * n \in Nat
    BY <1>2
  <2>2. q \in Nat /\ m \in 0 .. 2 * d - 1 /\ d - 2 * n = m + q * (2 * d)
    BY ONLY <1>0, <2>1, Division
  <2>3. Round(n, d) = -q
    BY <1>2 DEF Round
  <2> HIDE DEF q, m
  <2>4. q * (2 * d) = 2 * (q * d) /\ (-q) * d = -(q * d)
    BY <2>2
  <2>5. q * d \in Int
    BY <2>2
  <2> DEFINE x == q * d
  <2>6. d - 2 * n = m + 2 * x /\ x \in Int
    BY <2>2, <2>4, <2>5
  <2> HIDE DEF x
  <2>7. 2 * (-x - n) \in -d .. d
    BY <2>2, <2>6
  <2> QED
    BY <2>2, <2>3, <2>4, <2>7 DEF x
<1> QED
  BY <1>1, <1>2

LEMMA RoundWithin ==
  ASSUME NEW n \in Int, NEW d \in Nat \ {0}, NEW lo \in Int, NEW hi \in Int,
         lo * d <= n, n <= hi * d
  PROVE  Round(n, d) \in lo .. hi
<1> DEFINE r == Round(n, d)
<1>1. r \in Int /\ 2 * (r * d - n) \in -d .. d
  BY RoundNear
<1> HIDE DEF r
<1>2. r * d \in Int /\ lo * d \in Int /\ hi * d \in Int
  BY <1>1
<1>3. ~ (r > hi)
  <2>1. SUFFICES ASSUME r > hi PROVE FALSE
    OBVIOUS
  <2>2. r * d >= hi * d + d
    BY <1>1, <2>1, Closest
  <2> QED
    BY <1>1, <1>2, <2>2
<1>4. ~ (lo > r)
  <2>1. SUFFICES ASSUME lo > r PROVE FALSE
    OBVIOUS
  <2>2. lo * d >= r * d + d
    BY <1>1, <2>1, Closest
  <2> QED
    BY <1>1, <1>2, <2>2
<1> QED
  BY <1>1, <1>3, <1>4 DEF r

LEMMA RoundExact ==
  ASSUME NEW c \in Int, NEW d \in Nat \ {0}
  PROVE  Round(c * d, d) = c
<1> DEFINE n == c * d
<1>0. n \in Int /\ c * d <= n /\ n <= c * d
  OBVIOUS
<1> HIDE DEF n
<1>1. Round(n, d) \in c .. c
  BY <1>0, RoundWithin
<1> QED
  BY <1>1 DEF n

LEMMA ParamNumbers ==
  ASSUME NEW name \in Names
  PROVE  /\ ParamDefs[name].min \in Int /\ ParamDefs[name].max \in Int
         /\ ParamDefs[name].default \in ParamDefs[name].min .. ParamDefs[name].max
         /\ Span(ParamDefs[name]) \in Nat
         /\ Span(ParamDefs[name]) = ParamDefs[name].max - ParamDefs[name].min
<1>1. /\ ParamDefs[name].min \in Int /\ ParamDefs[name].max \in Int
      /\ ParamDefs[name].default \in ParamDefs[name].min .. ParamDefs[name].max
  BY ParamAssumption DEF Names
<1> QED
  BY <1>1 DEF Span

\* What was set is within half a step of what the control got.
SetNear(name) ==
  wanted[name] # Untouched =>
    /\ controls[name] \in ParamDefs[name].min .. ParamDefs[name].max
    /\ 2 * ((controls[name] - ParamDefs[name].min) * Parts - wanted[name] * Span(ParamDefs[name]))
         \in -Parts .. Parts

ParamInv ==
  /\ controls \in [Names -> Int] /\ controlOps \in 0 .. MaxControlOps
  /\ wanted \in [Names -> 0 .. Parts \cup {Untouched}]
  /\ \A name \in Names : SetNear(name)

LEMMA Normalized ==
  ASSUME NEW name \in Names, NEW value \in 0 .. Parts
  PROVE  LET r == ParamDefs[name]
             v == NormalizedToV4l2(value, r)
         IN v \in r.min .. r.max /\ 2 * ((v - r.min) * Parts - value * Span(r)) \in -Parts .. Parts
<1> DEFINE r == ParamDefs[name]
           v == NormalizedToV4l2(value, r)
           lo == r.min
           hi == r.max
           s == Span(r)
           n == lo * Parts + value * s
<1>1. lo \in Int /\ hi \in Int /\ s \in Nat /\ s = hi - lo /\ Parts \in Nat \ {0}
  BY ParamNumbers, ParamAssumption
<1>2. v = Round(n, Parts)
  BY DEF NormalizedToV4l2
<1> HIDE DEF r, v, lo, hi, s, n
<1>3. lo * Parts \in Int /\ hi * Parts \in Int /\ value * s \in Nat /\ s * Parts \in Int
      /\ value \in Nat /\ (Parts - value) * s \in Nat
  <2>1. Parts - value \in Nat /\ value \in Nat
    BY <1>1
  <2> QED
    BY <1>1, <2>1
<1>4. n \in Int /\ lo * Parts <= n
  BY <1>3 DEF n
<1>5. n <= hi * Parts
  <2>1. (Parts - value) * s = s * Parts - value * s
    BY <1>1, <1>3
  <2>2. hi * Parts = lo * Parts + s * Parts
    BY <1>1
  <2> QED
    BY <1>3, <2>1, <2>2 DEF n
<1>6. v \in lo .. hi
  BY <1>1, <1>2, <1>4, <1>5, RoundWithin
<1>7. 2 * (v * Parts - n) \in -Parts .. Parts
  BY <1>1, <1>2, <1>4, RoundNear
<1>8. v * Parts - n = (v - lo) * Parts - value * s
  <2>1. (v - lo) * Parts = v * Parts - lo * Parts
    BY <1>1, <1>6
  <2>2. v * Parts \in Int
    BY <1>1, <1>6
  <2> QED
    BY <1>3, <2>1, <2>2 DEF n
<1> QED
  BY <1>6, <1>7, <1>8 DEF r, v, lo, hi, s

LEMMA ParamInitInv == ParamInit => ParamInv
<1> SUFFICES ASSUME ParamInit PROVE ParamInv
  OBVIOUS
<1>1. /\ controls = [n \in Names |-> ParamDefs[n].default]
      /\ wanted = [n \in Names |-> Untouched] /\ controlOps = 0
  BY DEF ParamInit
<1>2. \A n \in Names : ParamDefs[n].default \in Int
  BY ParamNumbers
<1> QED
  BY <1>1, <1>2, ParamAssumption DEF ParamInv, SetNear

LEMMA ParamNextInv == ParamInv /\ [ParamNext]_paramVars => ParamInv'
<1> SUFFICES ASSUME ParamInv, [ParamNext]_paramVars PROVE ParamInv'
  OBVIOUS
<1>0. /\ controls \in [Names -> Int] /\ controlOps \in 0 .. MaxControlOps
      /\ wanted \in [Names -> 0 .. Parts \cup {Untouched}]
      /\ \A name \in Names : SetNear(name)
  BY DEF ParamInv
<1>1. CASE ParamNext /\ SetParam
  <2>0. controlOps' \in 0 .. MaxControlOps
    BY <1>0, <1>1, ParamAssumption DEF ParamNext
  <2>1. PICK name \in Names, value \in -1 .. Parts + 1 :
          IF value \in 0 .. Parts
          THEN /\ controls' = [controls EXCEPT ![name] = NormalizedToV4l2(value, ParamDefs[name])]
               /\ wanted' = [wanted EXCEPT ![name] = value]
          ELSE UNCHANGED <<controls, wanted>>
    BY <1>1 DEF SetParam
  <2>2. CASE value \notin 0 .. Parts
    BY <1>0, <2>0, <2>1, <2>2 DEF ParamInv, SetNear
  <2>3. CASE value \in 0 .. Parts
    <3> DEFINE v == NormalizedToV4l2(value, ParamDefs[name])
               r == ParamDefs[name]
    <3>1. v \in r.min .. r.max /\ 2 * ((v - r.min) * Parts - value * Span(r)) \in -Parts .. Parts
          /\ r.min \in Int /\ r.max \in Int
      BY <2>3, Normalized, ParamNumbers
    <3>2. /\ controls' = [controls EXCEPT ![name] = v]
          /\ wanted' = [wanted EXCEPT ![name] = value]
      BY <2>1, <2>3
    <3> HIDE DEF v
    <3>3. v \in Int
      BY <3>1
    <3>4. controls' \in [Names -> Int] /\ wanted' \in [Names -> 0 .. Parts \cup {Untouched}]
      BY <1>0, <2>3, <3>2, <3>3
    <3>5. ASSUME NEW k \in Names PROVE SetNear(k)'
      <4>1. CASE k = name
        <5>1. controls'[k] = v /\ wanted'[k] = value
          BY <1>0, <3>2, <4>1
        <5> QED
          BY <3>1, <4>1, <5>1 DEF SetNear
      <4>2. CASE k # name
        <5>1. controls'[k] = controls[k] /\ wanted'[k] = wanted[k]
          BY <1>0, <3>2, <4>2
        <5> QED
          BY <1>0, <5>1 DEF SetNear
      <4> QED
        BY <4>1, <4>2
    <3> QED
      BY <2>0, <3>4, <3>5 DEF ParamInv
  <2> QED
    BY <2>2, <2>3
<1>2. CASE ParamNext /\ SetRaw
  <2>0. controlOps' \in 0 .. MaxControlOps
    BY <1>0, <1>2, ParamAssumption DEF ParamNext
  <2>1. PICK name \in Names : \E value \in {ParamDefs[name].min - 1, ParamDefs[name].max} :
          /\ controls' = [controls EXCEPT ![name] = value]
          /\ wanted' = [wanted EXCEPT ![name] = Untouched]
    BY <1>2 DEF SetRaw
  <2>2. PICK value \in {ParamDefs[name].min - 1, ParamDefs[name].max} :
          /\ controls' = [controls EXCEPT ![name] = value]
          /\ wanted' = [wanted EXCEPT ![name] = Untouched]
    BY <2>1
  <2>3. value \in Int
    BY ParamNumbers
  <2>4. controls' \in [Names -> Int] /\ wanted' \in [Names -> 0 .. Parts \cup {Untouched}]
    BY <1>0, <2>2, <2>3
  <2>5. \A k \in Names : SetNear(k)'
    BY <1>0, <2>2 DEF SetNear
  <2> QED
    BY <2>0, <2>4, <2>5 DEF ParamInv
<1>3. CASE UNCHANGED paramVars
  BY <1>0, <1>3 DEF ParamInv, SetNear, paramVars
<1> QED
  BY <1>1, <1>2, <1>3 DEF ParamNext

LEMMA ParamFromInv == ParamInv => ParamsReadBack
<1> SUFFICES ASSUME ParamInv, NEW name \in Names
             PROVE  LET r == ParamDefs[name] IN
    /\ wanted[name] # Untouched /\ Span(r) # 0 =>
         /\ 2 * (GetParam(name) * Parts - wanted[name] * Span(r)) \in -Parts .. Parts
         /\ wanted[name] = 0 => GetParam(name) = 0
         /\ wanted[name] = Parts => GetParam(name) = Span(r)
    /\ controls[name] \in r.min .. r.max =>
         Round(r.min * Denominator(r) + GetParam(name) * Span(r), Denominator(r))
           = controls[name]
  BY DEF ParamsReadBack
<1> DEFINE r == ParamDefs[name]
           c == controls[name]
           g == GetParam(name)
           lo == r.min
           hi == r.max
           s == Span(r)
           d == Denominator(r)
           want == wanted[name]
<1>1. /\ lo \in Int /\ hi \in Int /\ s \in Nat /\ s = hi - lo /\ Parts \in Nat \ {0}
      /\ c \in Int /\ want \in 0 .. Parts \cup {Untouched}
  BY ParamNumbers, ParamAssumption DEF ParamInv
<1>2. want # Untouched => c \in lo .. hi /\ 2 * ((c - lo) * Parts - want * s) \in -Parts .. Parts
  BY DEF ParamInv, SetNear
<1>3. c \in lo .. hi /\ s # 0 => g = c - lo
  BY <1>1 DEF GetParam, V4l2ToNormalized
<1>6. s = 0 => g = 1 /\ d = 2
  BY DEF GetParam, V4l2ToNormalized, Denominator
<1>7. s # 0 => d = s
  BY DEF Denominator
<1> HIDE DEF r, c, g, lo, hi, s, d, want
<1>4. ASSUME want # Untouched, s # 0
      PROVE  /\ 2 * (g * Parts - want * s) \in -Parts .. Parts
             /\ want = 0 => g = 0
             /\ want = Parts => g = s
  <2>1. g = c - lo /\ 2 * (g * Parts - want * s) \in -Parts .. Parts /\ g \in 0 .. s
    BY <1>1, <1>2, <1>3, <1>4
  <2>2. g \in Int /\ g * Parts \in Int
    BY <1>1, <2>1
  <2>3. want = 0 => g = 0
    <3>1. SUFFICES ASSUME want = 0, g > 0 PROVE FALSE
      BY <1>1, <2>1
    <3>2. g * Parts >= 0 * Parts + Parts
      BY <1>1, <2>2, <3>1, Closest
    <3> QED
      BY <1>1, <2>1, <2>2, <3>1, <3>2
  <2>4. want = Parts => g = s
    <3>1. SUFFICES ASSUME want = Parts, s > g PROVE FALSE
      BY <1>1, <2>1
    <3>2. s * Parts >= g * Parts + Parts
      BY <1>1, <2>2, <3>1, Closest
    <3>3. want * s = s * Parts /\ s * Parts \in Int
      BY <1>1, <3>1
    <3> QED
      BY <1>1, <2>1, <2>2, <3>2, <3>3
  <2> QED
    BY <2>1, <2>3, <2>4
<1>5. c \in lo .. hi => Round(lo * d + g * s, d) = c
  <2>1. SUFFICES ASSUME c \in lo .. hi PROVE Round(lo * d + g * s, d) = c
    OBVIOUS
  <2>2. d \in Nat \ {0} /\ lo * d + g * s = c * d
    <3>1. CASE s = 0
      <4>1. d = 2 /\ g = 1 /\ c = lo
        BY <1>1, <1>6, <2>1, <3>1
      <4> QED
        BY <1>1, <3>1, <4>1
    <3>2. CASE s # 0
      BY <1>1, <1>3, <1>7, <2>1, <3>2
    <3> QED
      BY <3>1, <3>2
  <2>3. Round(c * d, d) = c
    BY <1>1, <2>2, RoundExact
  <2> QED
    BY <2>2, <2>3
<1> QED
  BY <1>4, <1>5 DEF r, c, g, lo, hi, s, d, want

(* What was set is read back to half a step, and writing back what was     *)
(* read changes nothing (set_param, get_param, src/src/camera/params.rs).  *)
THEOREM ParamsAlwaysReadBack == ParamSpec => []ParamsReadBack
  BY ParamInitInv, ParamNextInv, ParamFromInv, PTL DEF ParamSpec

LEMMA ParamTyped == ParamInv => ParamTypeOK
  BY DEF ParamInv, ParamTypeOK

(***************************************************************************)
(* PictureReads for every size there is room in and every grid: geometry,  *)
(* with the sides of a cell as the only quotients.                         *)
(***************************************************************************)
LEMMA LesserOf ==
  ASSUME NEW a \in Int, NEW b \in Int
  PROVE  Min({a, b}) = IF a <= b THEN a ELSE b
  BY DEF Min

LEMMA GreaterOf ==
  ASSUME NEW a \in Int, NEW b \in Int
  PROVE  Max({a, b}) = IF a >= b THEN a ELSE b
  BY DEF Max

HasRoom(w, h) == w \in Nat /\ h \in Nat /\ w >= 96 /\ h >= 72 /\ w <= 4 * h

LEMMA BoxFacts ==
  ASSUME NEW w \in Nat, NEW n \in 1 .. 7
  PROVE  /\ Scale(w) = IF w >= 480 THEN 2 ELSE 1
         /\ TextBox(n, Scale(w)).w = (6 * n + 2) * Scale(w)
         /\ TextBox(n, Scale(w)).w \in 1 .. 44 * Scale(w)
         /\ TextBox(n, Scale(w)).h = 11 * Scale(w)
<1>1. Scale(w) = IF w >= 480 THEN 2 ELSE 1
  BY DEF Scale
<1>2. CASE Scale(w) = 1
  BY <1>1, <1>2 DEF TextBox
<1>3. CASE Scale(w) = 2
  BY <1>1, <1>3 DEF TextBox
<1> QED
  BY <1>1, <1>2, <1>3

\* Where there is room, a text is pulled back until it is whole.
LEMMA TextWhole ==
  ASSUME NEW w, NEW h, HasRoom(w, h), NEW n \in 1 .. 7, NEW x \in Nat, NEW y \in Nat
  PROVE  LET b == TextBox(n, Scale(w))
             t == DrawText(w, h, x, y, n, Scale(w))
         IN /\ t.whole /\ t.w = b.w /\ t.h = b.h
            /\ t.x = (IF x <= w - b.w - 6 THEN x ELSE w - b.w - 6)
            /\ t.y = (IF y <= h - b.h - 6 THEN y ELSE h - b.h - 6)
<1> DEFINE b == TextBox(n, Scale(w))
           bw == b.w
           bh == b.h
           left == Min({x, LeftOver(w, b.w + 6)})
           top == Min({y, LeftOver(h, b.h + 6)})
           t == DrawText(w, h, x, y, n, Scale(w))
<1>1. w \in Nat /\ h \in Nat /\ w >= 96 /\ h >= 72 /\ w <= 4 * h
  BY DEF HasRoom
<1>2. /\ bw \in Nat /\ bh \in Nat /\ bw + 6 < w /\ bh + 6 < h
  BY <1>1, BoxFacts
<1>3. LeftOver(w, bw + 6) = w - bw - 6 /\ LeftOver(h, bh + 6) = h - bh - 6
  <2> HIDE DEF b, bw, bh
  <2> QED
    BY <1>1, <1>2 DEF LeftOver
<1>4. t = [x |-> left, y |-> top, w |-> Min({bw, w - left}), h |-> Min({bh, h - top}),
           whole |-> bw <= w - left /\ bh <= h - top]
  BY DEF DrawText
<1> HIDE DEF t
<1>5. /\ left = (IF x <= w - bw - 6 THEN x ELSE w - bw - 6)
      /\ top = (IF y <= h - bh - 6 THEN y ELSE h - bh - 6)
  <2> HIDE DEF b
  <2>1. w - bw - 6 \in Int /\ h - bh - 6 \in Int
    <3> HIDE DEF bw, bh
    <3> QED
      BY <1>1, <1>2
  <2>2. left = Min({x, w - bw - 6}) /\ top = Min({y, h - bh - 6})
    BY <1>3
  <2> QED
    BY <2>1, <2>2, LesserOf
<1> HIDE DEF b, bw, bh, left, top
<1>6. left \in Nat /\ top \in Nat /\ bw <= w - left /\ bh <= h - top
  BY <1>1, <1>2, <1>5
<1>7. Min({bw, w - left}) = bw /\ Min({bh, h - top}) = bh
  <2>1. w - left \in Int /\ h - top \in Int
    BY <1>1, <1>6
  <2> QED
    BY <1>2, <1>6, <2>1, LesserOf
<1>8. t.x = left /\ t.y = top /\ t.w = bw /\ t.h = bh /\ t.whole
  BY <1>4, <1>6, <1>7
<1> QED
  BY <1>5, <1>8 DEF b, bw, bh, t

LEMMA BracketSeen ==
  ASSUME NEW w \in Nat, NEW h \in Nat, NEW cx \in 0 .. w - 1, NEW cy \in 0 .. h - 1,
         NEW s \in Nat, s + 1 <= w, s + 1 <= h
  PROVE  Brackets(w, h, cx, cy, s) # {}
<1> DEFINE half == s \div 2
           Arm(sx, sy, d) == {<<cx + sx * half, cy + sy * (half + d)>>,
                              <<cx + sx * (half + d), cy + sy * half>>}
           Arms == UNION {Arm(sx, sy, d) :
                           sx \in {-1, 1}, sy \in {-1, 1}, d \in 0 .. Min({half + 1, 6}) - 1}
<1>1. half \in Nat /\ 2 * half <= s
  OBVIOUS
<1>2. Brackets(w, h, cx, cy, s) = {p \in Arms : p[1] \in 0 .. w - 1 /\ p[2] \in 0 .. h - 1}
  BY DEF Brackets
<1> HIDE DEF half
<1>3. PICK sx \in {-1, 1} : cx + sx * half \in 0 .. w - 1
  <2>1. CASE cx >= half
    <3>1. cx + (-1) * half \in 0 .. w - 1
      BY <1>1, <2>1
    <3> QED
      BY <3>1
  <2>2. CASE cx < half
    <3>1. cx + 1 * half \in 0 .. w - 1
      BY <1>1, <2>2
    <3> QED
      BY <3>1
  <2> QED
    BY <1>1, <2>1, <2>2
<1>4. PICK sy \in {-1, 1} : cy + sy * half \in 0 .. h - 1
  <2>1. CASE cy >= half
    <3>1. cy + (-1) * half \in 0 .. h - 1
      BY <1>1, <2>1
    <3> QED
      BY <3>1
  <2>2. CASE cy < half
    <3>1. cy + 1 * half \in 0 .. h - 1
      BY <1>1, <2>2
    <3> QED
      BY <3>1
  <2> QED
    BY <1>1, <2>1, <2>2
<1>5. 0 \in 0 .. Min({half + 1, 6}) - 1
  <2>1. Min({half + 1, 6}) = IF half + 1 <= 6 THEN half + 1 ELSE 6
    BY <1>1, LesserOf
  <2> QED
    BY <1>1, <2>1
<1> DEFINE p == <<cx + sx * half, cy + sy * half>>
<1>6. p \in Arms
  <2>1. p \in Arm(sx, sy, 0)
    BY <1>1
  <2> HIDE DEF Arm, p
  <2> QED
    BY <1>5, <2>1
<1>7. p[1] \in 0 .. w - 1 /\ p[2] \in 0 .. h - 1
  BY <1>3, <1>4
<1> HIDE DEF p, Arms
<1> QED
  BY <1>2, <1>6, <1>7

\* A cell's middle lies within the picture, and within the cell.
LEMMA MiddleWithin ==
  ASSUME NEW side \in Nat, NEW cells \in {24, 32}, side >= 2 * cells, NEW c \in 0 .. cells - 1
  PROVE  LET cs == side \div cells
             m == c * cs + cs \div 2
         IN /\ m \in 0 .. side - 1 /\ cs >= 2
            /\ m + cs <= side - 1 + cs
            /\ side % cells = 0 => NearestCell(m, cells, side) = c
<1> DEFINE cs == side \div cells
           half == cs \div 2
           m == c * cs + half
           r == side % cells
<1>1. cs \in Nat /\ r \in 0 .. cells - 1 /\ side = cells * cs + r
  BY Division
<1>2. cs >= 2
  BY <1>1
<1>3. c \in Nat
  OBVIOUS
<1> HIDE DEF cs
<1>4. half \in Nat /\ (cs = 2 * half \/ cs = 2 * half + 1)
  BY <1>1
<1> HIDE DEF half, r
<1>5. c * cs \in Nat /\ c * cs + cs <= cells * cs
  <2>1. cells - 1 - c \in Nat
    OBVIOUS
  <2>2. (cells - 1 - c) * cs \in Nat /\ c * cs \in Nat
    BY <1>1, <1>3, <2>1
  <2>3. (cells - 1 - c) * cs = cells * cs - cs - c * cs
    BY <1>1, <1>3
  <2>4. cells * cs \in Nat
    BY <1>1
  <2> QED
    BY <1>1, <2>2, <2>3, <2>4
<1>6. m \in 0 .. side - 1
  BY <1>1, <1>2, <1>4, <1>5
<1>7. ASSUME r = 0 PROVE NearestCell(m, cells, side) = c
  <2> DEFINE n == (2 * m + 1) * cells
             d == 2 * side
             e == (2 * half + 1) * cells
  <2>1. side = cells * cs
    BY <1>1, <1>7
  <2>2. d \in Nat \ {0} /\ d = 2 * cells * cs
    <3>1. d \in Nat \ {0}
      OBVIOUS
    <3>2. 2 * cells * cs = 2 * (cells * cs)
      BY <1>1
    <3> QED
      BY <2>1, <3>1, <3>2
  <2>3. n = c * d + e
    <3>1. n = 2 * (c * cs) * cells + e
      BY <1>1, <1>3, <1>4
    <3>2. c * d = 2 * (c * cs) * cells
      BY <1>1, <1>3, <2>2
    <3> QED
      BY <3>1, <3>2
  <2>4. e \in 0 .. d - 1
    BY <1>1, <1>2, <1>4, <2>2
  <2> HIDE DEF n, d, e
  <2>5. n \div d = c
    BY <1>3, <2>2, <2>3, <2>4, QuotientIs
  <2>6. Max({0, c}) = c /\ Min({cells - 1, c}) = c
    <3>1. cells - 1 \in Int /\ c <= cells - 1 /\ c >= 0 /\ c \in Int
      OBVIOUS
    <3> QED
      BY <3>1, LesserOf, GreaterOf
  <2> QED
    BY <2>5, <2>6 DEF NearestCell, n, d
<1> QED
  BY <1>2, <1>6, <1>7, <1>1 DEF cs, half, r

\* What PictureReads asks of a mark.
Readable(w, h, m) ==
  /\ m.frame # {} /\ m.label.whole
  /\ m.at[2] \notin m.label.y .. m.label.y + m.label.h - 1
  /\ w % GridW = 0 /\ h % GridH = 0 =>
       m.cell = NearestCell(m.at[2], GridH, h) * GridW + NearestCell(m.at[1], GridW, w)

LEMMA MarkReads ==
  ASSUME NEW w, NEW h, HasRoom(w, h), NEW n \in 1 .. 7, NEW cell \in 0 .. GridW * GridH - 1
  PROVE  Readable(w, h, Mark(w, h, cell, n))
<1> DEFINE cw == CellW(w)
           ch == CellH(h)
           gx == cell % GridW
           gy == cell \div GridW
           cx == gx * cw + cw \div 2
           cy == gy * ch + ch \div 2
           b == TextBox(n, Scale(w))
           below == cy + ch
           y == IF below + b.h + 4 <= h THEN below ELSE LeftOver(cy, ch + b.h)
           x == LeftOver(cx, b.w \div 2)
           m == Mark(w, h, cell, n)
<1>1. w \in Nat /\ h \in Nat /\ w >= 96 /\ h >= 72 /\ w <= 4 * h
  BY DEF HasRoom
<1>2. gx \in 0 .. 31 /\ gy \in 0 .. 23 /\ cell = gy * 32 + gx
  BY DEF GridW, GridH
<1>3. /\ cx \in 0 .. w - 1 /\ cw >= 2
      /\ w % GridW = 0 => NearestCell(cx, GridW, w) = gx
  <2>1. w \in Nat /\ 32 \in {24, 32} /\ w >= 2 * 32 /\ gx \in 0 .. 32 - 1
    BY <1>1, <1>2
  <2>2. LET cs == w \div 32
            mid == gx * cs + cs \div 2
        IN /\ mid \in 0 .. w - 1 /\ cs >= 2
           /\ w % 32 = 0 => NearestCell(mid, 32, w) = gx
    <3> HIDE DEF gx
    <3> QED
      BY ONLY <2>1, MiddleWithin
  <2>3. cw = w \div 32
    BY DEF CellW, GridW
  <2> HIDE DEF gx, cw
  <2> QED
    BY <2>2, <2>3 DEF GridW
<1>4. /\ cy \in 0 .. h - 1
      /\ h % GridH = 0 => NearestCell(cy, GridH, h) = gy
  <2>1. h \in Nat /\ 24 \in {24, 32} /\ h >= 2 * 24 /\ gy \in 0 .. 24 - 1
    BY <1>1, <1>2
  <2>2. LET cs == h \div 24
            mid == gy * cs + cs \div 2
        IN /\ mid \in 0 .. h - 1 /\ cs >= 2
           /\ h % 24 = 0 => NearestCell(mid, 24, h) = gy
    <3> HIDE DEF gy
    <3> QED
      BY ONLY <2>1, MiddleWithin
  <2>3. ch = h \div 24
    BY DEF CellH, GridH
  <2> HIDE DEF gy, ch
  <2> QED
    BY <2>2, <2>3 DEF GridH
<1>5. /\ cw \in Nat /\ 32 * cw <= w /\ ch \in Nat /\ ch >= 3 /\ 24 * ch <= h /\ h <= 24 * ch + 23
  BY <1>1 DEF CellW, CellH, GridW, GridH
<1>6. m = [cell |-> cell, at |-> <<cx, cy>>,
           frame |-> Brackets(w, h, cx, cy, Max({(cw * 3) \div 2, 6})),
           label |-> DrawText(w, h, x, y, n, Scale(w))]
  BY DEF Mark
<1> HIDE DEF cw, ch, gx, gy, cx, cy, m
<1>7. m.frame # {}
  <2> DEFINE k == (cw * 3) \div 2
             s == Max({k, 6})
  <2>1. k \in Nat /\ 2 * k <= 3 * cw
    BY <1>5
  <2>2. s = IF k >= 6 THEN k ELSE 6
    <3> HIDE DEF k
    <3> QED
      BY <2>1, GreaterOf
  <2>3. m.frame = Brackets(w, h, cx, cy, s)
    BY <1>6
  <2> HIDE DEF k, s
  <2>4. s \in Nat /\ s + 1 <= w /\ s + 1 <= h
    BY <1>1, <1>5, <2>1, <2>2
  <2> QED
    BY <1>1, <1>3, <1>4, <2>3, <2>4, BracketSeen
<1>8. b.h = 11 * Scale(w) /\ Scale(w) = (IF w >= 480 THEN 2 ELSE 1) /\ b.w \in Nat
  BY <1>1, BoxFacts
<1>9. x \in Nat /\ y \in Nat
  <2> DEFINE q == b.w \div 2
             bh == b.h
  <2>1. q \in Nat /\ bh \in Nat
    BY <1>8
  <2>2. x = LeftOver(cx, q) /\ y = IF below + bh + 4 <= h THEN below ELSE LeftOver(cy, ch + bh)
    OBVIOUS
  <2> HIDE DEF q, bh, x, y
  <2> QED
    BY <1>3, <1>4, <1>5, <2>1, <2>2 DEF LeftOver
<1> DEFINE t == DrawText(w, h, x, y, n, Scale(w))
           bh == b.h
<1>10. /\ t.whole /\ t.h = bh
       /\ t.y = (IF y <= h - bh - 6 THEN y ELSE h - bh - 6)
  <2> HIDE DEF x, y
  <2> QED
    BY <1>9, TextWhole
<1>11. m.label = t
  BY <1>6
<1>12. y = IF below + bh + 4 <= h THEN below ELSE LeftOver(cy, ch + bh)
  OBVIOUS
<1>13. bh = IF w >= 480 THEN 22 ELSE 11
  BY <1>8
<1> HIDE DEF b, bh, t, x, y
<1>14. cy \notin t.y .. t.y + t.h - 1
  <2>1. CASE below + bh + 4 <= h
    BY <1>1, <1>4, <1>5, <1>10, <1>12, <1>13, <2>1
  <2>2. CASE ~ (below + bh + 4 <= h)
    <3>1. cy > ch + bh
      BY <1>1, <1>4, <1>5, <1>13, <2>2
    <3>2. y = cy - ch - bh
      BY <1>4, <1>5, <1>12, <1>13, <2>2, <3>1 DEF LeftOver
    <3> QED
      BY <1>1, <1>4, <1>5, <1>10, <1>13, <3>1, <3>2
  <2> QED
    BY <2>1, <2>2
<1>15. m.at = <<cx, cy>> /\ m.at[1] = cx /\ m.at[2] = cy /\ m.cell = cell
  BY <1>6
<1>16. w % GridW = 0 /\ h % GridH = 0 =>
         m.cell = NearestCell(m.at[2], GridH, h) * GridW + NearestCell(m.at[1], GridW, w)
  BY <1>2, <1>3, <1>4, <1>15 DEF GridW
<1> QED
  BY <1>7, <1>10, <1>11, <1>14, <1>15, <1>16 DEF Readable, m

LEMMA CentreReads ==
  ASSUME NEW w, NEW h, HasRoom(w, h), NEW n \in 1 .. 7
  PROVE  Readable(w, h, Centre(w, h, n))
<1> DEFINE cw == CellW(w)
           ch == CellH(h)
           cx == w \div 2
           cy == h \div 2
           b == TextBox(n, Scale(w))
           bw == b.w
           bh == b.h
           x == LeftOver(cx, bw \div 2)
           y == Min({cy + ch, LeftOver(h, bh + 6)})
           s == Max({cw, 6})
           t == DrawText(w, h, x, y, n, Scale(w))
           m == Centre(w, h, n)
<1>1. w \in Nat /\ h \in Nat /\ w >= 96 /\ h >= 72 /\ w <= 4 * h
  BY DEF HasRoom
<1>2. /\ cw \in Nat /\ 32 * cw <= w /\ cw >= 3 /\ ch \in Nat /\ ch >= 3 /\ 24 * ch <= h
      /\ cx \in 0 .. w - 1 /\ cy \in 0 .. h - 1 /\ 2 * cy <= h
  BY <1>1 DEF CellW, CellH, GridW, GridH
<1>3. bh = (IF w >= 480 THEN 22 ELSE 11) /\ bw \in Nat
  BY <1>1, BoxFacts
<1>4. m = [cell |-> 12 * 32 + 16, at |-> <<cx, cy>>, frame |-> Brackets(w, h, cx, cy, s),
           label |-> t]
  <2>1. (GridH \div 2) * GridW + GridW \div 2 = 12 * 32 + 16
    BY DEF GridW, GridH
  <2> QED
    BY <2>1 DEF Centre
<1>5. w % 32 = 0 => NearestCell(cx, 32, w) = 16
  <2>1. SUFFICES ASSUME w % 32 = 0 PROVE NearestCell(cx, 32, w) = 16
    OBVIOUS
  <2>2. w = 32 * cw
    BY <1>1, <2>1 DEF CellW, GridW
  <2> HIDE DEF cw
  <2>3. cx = 16 * cw
    BY <1>2, <2>2
  <2>4. (2 * cx + 1) * 32 = 16 * (2 * w) + 32
    BY <1>2, <2>2, <2>3
  <2>5. 32 \in 0 .. 2 * w - 1 /\ 2 * w \in Nat \ {0}
    BY <1>1
  <2>6. (16 * (2 * w) + 32) \div (2 * w) = 16
    BY <2>5, QuotientIs
  <2>7. Max({0, 16}) = 16 /\ Min({32 - 1, 16}) = 16
    BY LesserOf, GreaterOf
  <2> QED
    BY <2>4, <2>6, <2>7 DEF NearestCell
<1>6. h % 24 = 0 => NearestCell(cy, 24, h) = 12
  <2>1. SUFFICES ASSUME h % 24 = 0 PROVE NearestCell(cy, 24, h) = 12
    OBVIOUS
  <2>2. h = 24 * ch
    BY <1>1, <2>1 DEF CellH, GridH
  <2> HIDE DEF ch
  <2>3. cy = 12 * ch
    BY <1>2, <2>2
  <2>4. (2 * cy + 1) * 24 = 12 * (2 * h) + 24
    BY <1>2, <2>2, <2>3
  <2>5. 24 \in 0 .. 2 * h - 1 /\ 2 * h \in Nat \ {0}
    BY <1>1
  <2>6. (12 * (2 * h) + 24) \div (2 * h) = 12
    BY <2>5, QuotientIs
  <2>7. Max({0, 12}) = 12 /\ Min({24 - 1, 12}) = 12
    BY LesserOf, GreaterOf
  <2> QED
    BY <2>4, <2>6, <2>7 DEF NearestCell
<1> HIDE DEF cw, ch, cx, cy, b, m, s
<1>7. Brackets(w, h, cx, cy, s) # {}
  <2>1. s = IF cw >= 6 THEN cw ELSE 6
    BY <1>2, GreaterOf DEF s
  <2>2. s \in Nat /\ s + 1 <= w /\ s + 1 <= h
    BY <1>1, <1>2, <2>1
  <2> QED
    BY <1>1, <1>2, <2>2, BracketSeen
<1> HIDE DEF bw, bh
<1>8. x \in Nat /\ y \in Nat /\ y = IF cy + ch <= h - bh - 6 THEN cy + ch ELSE h - bh - 6
  <2>1. bw \div 2 \in Nat
    BY <1>3
  <2>2. x \in Nat
    <3> DEFINE q == bw \div 2
    <3> HIDE DEF q
    <3> QED
      BY <1>2, <2>1 DEF LeftOver, q
  <2>3. LeftOver(h, bh + 6) = h - bh - 6 /\ h - bh - 6 \in Nat
    BY <1>1, <1>3 DEF LeftOver
  <2>4. cy + ch \in Int
    BY <1>2
  <2>5. y = IF cy + ch <= h - bh - 6 THEN cy + ch ELSE h - bh - 6
    BY <2>3, <2>4, LesserOf
  <2> HIDE DEF x, y
  <2> QED
    BY <1>2, <2>2, <2>3, <2>4, <2>5
<1> HIDE DEF x, y
<1>9. t.whole /\ t.h = bh /\ t.y = (IF y <= h - bh - 6 THEN y ELSE h - bh - 6)
  <2> DEFINE room == h - TextBox(n, Scale(w)).h - 6
  <2>1. x \in Nat /\ y \in Nat
    BY <1>8
  <2>2. t.whole /\ t.h = TextBox(n, Scale(w)).h /\ t.y = (IF y <= room THEN y ELSE room)
    BY <2>1, TextWhole
  <2> QED
    BY ONLY <2>2 DEF b, bh
<1> HIDE DEF t
<1>10. cy \notin t.y .. t.y + t.h - 1
  BY <1>1, <1>2, <1>3, <1>8, <1>9
<1>11. m.at[1] = cx /\ m.at[2] = cy /\ m.cell = 12 * 32 + 16 /\ m.label = t
       /\ m.frame = Brackets(w, h, cx, cy, s)
  BY <1>4
<1>12. w % GridW = 0 /\ h % GridH = 0 =>
         m.cell = NearestCell(m.at[2], GridH, h) * GridW + NearestCell(m.at[1], GridW, w)
  BY <1>5, <1>6, <1>11 DEF GridW, GridH
<1> QED
  BY <1>7, <1>9, <1>10, <1>11, <1>12 DEF Readable, m

LEMMA BarReads ==
  ASSUME NEW w, NEW h, HasRoom(w, h), NEW letters, \A i \in 1 .. 3 : letters[i] \in 1 .. 7
  PROVE  /\ \A i \in 1 .. 3 : /\ BarLabels(w, h, letters)[i].whole
                              /\ BarLabels(w, h, letters)[i].x + BarLabels(w, h, letters)[i].w
                                   <= BarX(w)
         /\ \A i \in 1 .. 2 : BarLabels(w, h, letters)[i].y + BarLabels(w, h, letters)[i].h
                                <= BarLabels(w, h, letters)[i + 1].y
<1> DEFINE bh == IF w >= 480 THEN 22 ELSE 11
           tick(i) == BarTicks(h)[i]
           y(i) == LeftOver(tick(i), bh \div 2)
           l(i) == BarLabels(w, h, letters)[i]
<1>0. HasRoom(w, h)
  OBVIOUS
<1>1. w \in Nat /\ h \in Nat /\ w >= 96 /\ h >= 72 /\ w <= 4 * h
  BY DEF HasRoom
<1>2. BarX(w) = IF w >= 480 THEN w - 26 ELSE w - 22
  <2>1. Max({Scale(w) * 8, 12}) = IF w >= 480 THEN 16 ELSE 12
    <3>1. Scale(w) * 8 \in Int /\ Scale(w) * 8 = IF w >= 480 THEN 16 ELSE 8
      BY <1>1 DEF Scale
    <3> QED
      BY <3>1, GreaterOf
  <2> QED
    BY <1>1, <2>1 DEF BarX, LeftOver
<1>3. /\ tick(1) = (h - BarH(h)) \div 2 /\ tick(2) = tick(1) + BarH(h) \div 2
      /\ tick(3) = tick(1) + BarH(h) /\ BarH(h) = (h * 2) \div 3
  BY DEF BarTicks, BarH
<1>4. /\ \A i \in 1 .. 3 : tick(i) \in Nat /\ tick(i) <= h
      /\ tick(1) >= 12 /\ tick(2) >= tick(1) + 24 /\ tick(3) >= tick(2) + 24
      /\ h >= 120 => tick(1) >= 20 /\ tick(2) >= tick(1) + 40 /\ tick(3) >= tick(2) + 40
      /\ tick(3) <= h - 12 /\ 6 * tick(3) >= 5 * h - 9 /\ 2 * tick(2) <= h + 2
  <2> HIDE DEF tick
  <2>1. BarH(h) \in Nat /\ 3 * BarH(h) <= 2 * h /\ 2 * h <= 3 * BarH(h) + 2
    BY <1>1, <1>3
  <2>2. tick(1) \in Nat /\ 2 * tick(1) <= h - BarH(h) /\ h - BarH(h) <= 2 * tick(1) + 1
    BY <1>1, <1>3, <2>1
  <2>3. tick(2) \in Nat /\ 2 * (tick(2) - tick(1)) <= BarH(h) /\ BarH(h) <= 2 * (tick(2) - tick(1)) + 1
    BY <1>3, <2>1, <2>2
  <2>4. tick(3) = tick(1) + BarH(h)
    BY <1>3
  <2>5. \A i \in 1 .. 3 : i = 1 \/ i = 2 \/ i = 3
    OBVIOUS
  <2>6. tick(1) \in Nat /\ tick(2) \in Nat /\ tick(3) \in Nat /\ tick(1) <= h /\ tick(2) <= h /\ tick(3) <= h
    BY <1>1, <2>1, <2>2, <2>3, <2>4
  <2>7. tick(1) >= 12 /\ tick(2) >= tick(1) + 24 /\ tick(3) >= tick(2) + 24
    BY <1>1, <2>1, <2>2, <2>3, <2>4
  <2>8. h >= 120 => tick(1) >= 20 /\ tick(2) >= tick(1) + 40 /\ tick(3) >= tick(2) + 40
    BY <1>1, <2>1, <2>2, <2>3, <2>4
  <2>9. tick(3) <= h - 12 /\ 6 * tick(3) >= 5 * h - 9 /\ 2 * tick(2) <= h + 2
    BY <1>1, <2>1, <2>2, <2>3, <2>4
  <2> QED
    BY <2>5, <2>6, <2>7, <2>8, <2>9
<1> HIDE DEF tick
<1>5. \A i \in 1 .. 3 : y(i) = tick(i) - bh \div 2 /\ y(i) \in Nat
  <2>1. \A i \in 1 .. 3 : i = 1 \/ i = 2 \/ i = 3
    OBVIOUS
  <2> QED
    BY <1>1, <1>4, <2>1 DEF LeftOver
<1> HIDE DEF y
<1>6. ASSUME NEW i \in 1 .. 3
      PROVE  /\ l(i).whole /\ l(i).h = bh /\ l(i).x + l(i).w <= BarX(w)
             /\ l(i).y = IF y(i) <= h - bh - 6 THEN y(i) ELSE h - bh - 6
  <2> DEFINE n == letters[i]
             b == TextBox(n, Scale(w))
             bw == b.w
             x == LeftOver(BarX(w), bw + 6)
  <2>1. n \in 1 .. 7
    OBVIOUS
  <2> HIDE DEF n
  <2>2. b.h = bh /\ bw \in Nat /\ bw <= (IF w >= 480 THEN 88 ELSE 44)
    BY <1>1, <2>1, BoxFacts
  <2>3. l(i) = DrawText(w, h, x, LeftOver(tick(i), b.h \div 2), n, Scale(w))
    BY DEF BarLabels, tick, n
  <2>4. l(i) = DrawText(w, h, x, y(i), n, Scale(w))
    BY <2>2, <2>3 DEF y
  <2> HIDE DEF b, l, bh, bw
  <2>5. x \in Nat /\ x = BarX(w) - bw - 6
    BY <1>1, <1>2, <2>2 DEF LeftOver
  <2> HIDE DEF x
  <2>6. /\ l(i).whole /\ l(i).w = bw /\ l(i).h = b.h
        /\ l(i).x = (IF x <= w - bw - 6 THEN x ELSE w - bw - 6)
        /\ l(i).y = (IF y(i) <= h - b.h - 6 THEN y(i) ELSE h - b.h - 6)
    <3> DEFINE yy == y(i)
    <3>0. x \in Nat
      BY <2>5
    <3>1. yy \in Nat
      BY <1>5
    <3>2. l(i) = DrawText(w, h, x, yy, n, Scale(w))
      BY <2>4
    <3> HIDE DEF yy
    <3>3. LET bb == TextBox(n, Scale(w))
              t == DrawText(w, h, x, yy, n, Scale(w))
          IN /\ t.whole /\ t.w = bb.w /\ t.h = bb.h
             /\ t.x = (IF x <= w - bb.w - 6 THEN x ELSE w - bb.w - 6)
             /\ t.y = (IF yy <= h - bb.h - 6 THEN yy ELSE h - bb.h - 6)
      BY ONLY <1>0, <2>1, <3>0, <3>1, TextWhole, ZenonT(60)
    <3> QED
      BY <3>2, <3>3 DEF b, bw, yy
  <2>7. l(i).x + l(i).w <= BarX(w)
    BY <1>1, <1>2, <2>2, <2>5, <2>6
  <2> QED
    BY <2>2, <2>6, <2>7
<1> HIDE DEF l
<1>7. l(1).y + l(1).h <= l(2).y
  BY <1>1, <1>4, <1>5, <1>6
<1>8. l(2).y + l(2).h <= l(3).y
  BY <1>1, <1>4, <1>5, <1>6
<1>9. \A i \in 1 .. 2 : i = 1 \/ i = 2
  OBVIOUS
<1>10. 1 + 1 = 2 /\ 2 + 1 = 3
  OBVIOUS
<1>11. \A i \in 1 .. 2 : l(i).y + l(i).h <= l(i + 1).y
  BY <1>7, <1>8, <1>9, <1>10
<1> QED
  BY <1>6, <1>11 DEF l

LEMMA ShownReads == PictureInv /\ params \in ThermalSizes => PictureReads
<1> SUFFICES ASSUME PictureInv, params \in ThermalSizes, Roomy, NEW g \in wrote.shows
             PROVE  LET w == params[1]  h == params[2]  o == Overlay(w, h, g) IN
    /\ \A m \in o.marks : Readable(w, h, m)
    /\ \A i \in 1 .. 3 : o.bar[i].whole /\ o.bar[i].x + o.bar[i].w <= BarX(w)
    /\ \A i \in 1 .. 2 : o.bar[i].y + o.bar[i].h <= o.bar[i + 1].y
  BY DEF PictureReads, Readable
<1> DEFINE w == params[1]
           h == params[2]
           o == Overlay(w, h, g)
<1>1. HasRoom(w, h)
  BY GridsAssumption DEF Roomy, HasRoom
<1>2. g \in Grids
  BY DEF PictureInv, EncoderOK
<1>3. /\ g.hot \in 0 .. GridW * GridH - 1 /\ g.cold \in 0 .. GridW * GridH - 1
      /\ g.letters.hot \in 1 .. 7 /\ g.letters.cold \in 1 .. 7 /\ g.letters.centre \in 1 .. 7
      /\ \A i \in 1 .. 3 : g.letters.bar[i] \in 1 .. 7
  BY <1>2, GridsAssumption
<1> HIDE DEF w, h
<1>4. /\ o.marks = {Mark(w, h, g.hot, g.letters.hot), Mark(w, h, g.cold, g.letters.cold),
                    Centre(w, h, g.letters.centre)}
      /\ o.bar = BarLabels(w, h, g.letters.bar)
  BY DEF Overlay
<1> HIDE DEF o
<1>5. \A m \in o.marks : Readable(w, h, m)
  <2>1. Readable(w, h, Mark(w, h, g.hot, g.letters.hot))
    BY <1>1, <1>3, MarkReads
  <2>2. Readable(w, h, Mark(w, h, g.cold, g.letters.cold))
    BY <1>1, <1>3, MarkReads
  <2>3. Readable(w, h, Centre(w, h, g.letters.centre))
    BY <1>1, <1>3, CentreReads
  <2> QED
    BY <1>4, <2>1, <2>2, <2>3
<1>6. /\ \A i \in 1 .. 3 : o.bar[i].whole /\ o.bar[i].x + o.bar[i].w <= BarX(w)
      /\ \A i \in 1 .. 2 : o.bar[i].y + o.bar[i].h <= o.bar[i + 1].y
  BY <1>1, <1>3, <1>4, BarReads
<1> QED
  BY <1>5, <1>6 DEF o, w, h

(* With room for it every picture can be read, and the stream can be       *)
(* joined where it was asked to be, for every size, grid and key-frame     *)
(* period (src/src/thermal/gb_stream.rs, src/src/thermal/render.rs).       *)
THEOREM ThermalAlwaysSound == PictureSpec => []ThermalPictureSound
<1>1. PictureInv => ThermalPictureSound
  BY ShownReads DEF PictureInv, EncoderOK, ThermalPictureSound
<1> QED
  BY PictureInitInv, PictureNextInv, <1>1, PTL DEF PictureSpec

LEMMA PictureTyped == PictureInv => PictureTypeOK
  BY DEF PictureInv, EncoderOK, PictureTypeOK

(***************************************************************************)
(* WatermarkSound for every font, text, position, margin and picture.  The *)
(* mask that is kept is always the one of its line, and every picture the  *)
(* blit of the mask of its moment; the rest is geometry.                   *)
(***************************************************************************)

\* The largest of 0 and n numbers.
LEMMA LargestIsNat ==
  ASSUME NEW n \in Nat, NEW f \in [1 .. n -> Int]
  PROVE  Max({0} \cup {f[i] : i \in 1 .. n}) \in Nat
<1> DEFINE S == {0} \cup {f[i] : i \in 1 .. n}
<1>1. \E M \in Nat : \A i \in 1 .. n : f[i] <= M
  <2> DEFINE P == {k \in 0 .. n : \E M \in Nat : \A i \in 1 .. k : f[i] <= M}
  <2>1. 0 \in P
    OBVIOUS
  <2>2. ASSUME NEW k \in 1 .. n, k - 1 \in P PROVE k \in P
    <3>1. PICK M \in Nat : \A i \in 1 .. k - 1 : f[i] <= M
      BY <2>2
    <3> DEFINE N == IF f[k] <= M THEN M ELSE f[k]
    <3>2. N \in Nat /\ M <= N /\ f[k] <= N
      OBVIOUS
    <3>3. \A i \in 1 .. k : i \in 1 .. k - 1 \/ i = k
      OBVIOUS
    <3>4. \A i \in 1 .. k : f[i] <= N
      BY <3>1, <3>2, <3>3
    <3> QED
      BY <3>2, <3>4
  <2> HIDE DEF P
  <2>3. \A k \in 0 .. n : k \in P
    BY ONLY n \in Nat, <2>1, <2>2, UpTo
  <2>4. n \in P
    BY <2>3
  <2> QED
    BY <2>4 DEF P
<1>2. PICK M \in Nat : \A i \in 1 .. n : f[i] <= M
  BY <1>1
<1>3. \A s \in S : s \in Int /\ s <= M
  BY <1>2
<1>4. 0 \in S
  OBVIOUS
<1> HIDE DEF S
<1> DEFINE below == {M - s : s \in S}
<1>5. \A s \in S : M - s \in below
  OBVIOUS
<1>6. \A k \in below : \E s \in S : k = M - s
  OBVIOUS
<1> HIDE DEF below
<1>7. below \subseteq Nat /\ below # {}
  <2>1. \A k \in below : k \in Nat
    BY <1>3, <1>6
  <2> QED
    BY <1>4, <1>5, <2>1
<1>8. PICK k \in below : \A m \in below : k <= m
  BY <1>7, Least
<1>9. PICK x \in S : k = M - x
  BY <1>6
<1>10. \A y \in S : x >= y
  BY <1>3, <1>5, <1>8, <1>9
<1>11. Max(S) \in S /\ \A y \in S : Max(S) >= y
  BY <1>10 DEF Max
<1> QED
  BY <1>3, <1>4, <1>11 DEF S

MarkLines == Seq(DOMAIN Font)

LEMMA PairOf ==
  ASSUME NEW S, NEW a \in S
  PROVE  <<a, a>> \in Seq(S) /\ Len(<<a, a>>) = 2
  OBVIOUS

LEMMA LineTyped ==
  ASSUME mark.text \in MarkTexts, NEW t \in Clocks
  PROVE  /\ Line(t) \in MarkLines
         /\ Line(t) # <<>> => Line(t)[1] # " " /\ Line(t)[Len(Line(t))] # " "
<1> DEFINE x == mark.text
           F == DOMAIN Font
           G == Glyphs
<1>1. x \in Seq(G) /\ t \in Seq(G) /\ t # <<>>
  BY MarkAssumption
<1>0. G \subseteq F /\ " " \in F /\ " " \notin G
  BY MarkAssumption DEF Glyphs
<1> HIDE DEF x, F, G
<1>3. ASSUME NEW s \in Seq(G)
      PROVE  /\ s \in Seq(F) /\ Len(s) \in Nat
             /\ s # <<>> => Len(s) >= 1 /\ s[1] \in G /\ s[Len(s)] \in G
  <2>1. Len(s) \in Nat /\ \A i \in 1 .. Len(s) : s[i] \in G
    BY <1>3
  <2>2. \A i \in 1 .. Len(s) : s[i] \in F
    BY <1>0, <2>1
  <2>3. s \in Seq(F)
    BY <1>3, <2>2, SeqDef, ElementOfSeq, LenProperties
  <2>4. s # <<>> => Len(s) >= 1
    BY <1>3, <2>1, EmptySeq
  <2> QED
    BY <2>1, <2>3, <2>4
<1>4. /\ x \in Seq(F) /\ t \in Seq(F) /\ Len(t) >= 1 /\ t[1] \in G /\ t[Len(t)] \in G
      /\ x # <<>> => Len(x) >= 1 /\ x[1] \in G /\ x[Len(x)] \in G
  BY <1>1, <1>3
<1>5. CASE ~ mark.stamp
  <2>1. Line(t) = x \o <<>>
    BY <1>5 DEF Line, x
  <2>2. x \o <<>> = x
    BY <1>4, ConcatEmptySeq
  <2> QED
    BY <1>0, <1>4, <2>1, <2>2 DEF MarkLines, F
<1>6. CASE mark.stamp /\ x = <<>>
  <2>1. Line(t) = <<>> \o t
    BY <1>6 DEF Line, x
  <2>2. <<>> \o t = t
    BY <1>4, ConcatEmptySeq
  <2> QED
    BY <1>0, <1>4, <2>1, <2>2 DEF MarkLines, F
<1>7. CASE mark.stamp /\ x # <<>>
  <2> DEFINE b == <<" ", " ">>
             ends == b \o t
             l == (x \o b) \o t
  <2>0. Line(t) = IF mark.text = <<>> \/ t = <<>> THEN mark.text \o t
                  ELSE mark.text \o <<" ", " ">> \o t
    BY <1>7 DEF Line
  <2>1. Line(t) = l
    <3>1. mark.text # <<>> /\ t # <<>>
      BY <1>1, <1>7 DEF x
    <3>2. Line(t) = mark.text \o <<" ", " ">> \o t
      BY <2>0, <3>1
    <3> QED
      BY <3>2 DEF x
  <2>2. b \in Seq(F) /\ Len(b) = 2
    <3>1. " " \in F
      BY <1>0
    <3> QED
      BY ONLY <3>1, PairOf
  <2> HIDE DEF b
  <2>3. ends \in Seq(F) /\ Len(ends) = Len(t) + 2 /\ ends[Len(t) + 2] = t[Len(t)]
    <3>1. ends \in Seq(F) /\ Len(ends) = Len(b) + Len(t)
      BY <1>4, <2>2, ConcatProperties
    <3>2. \A i \in 1 .. Len(b) + Len(t) : ends[i] = IF i <= Len(b) THEN b[i] ELSE t[i - Len(b)]
      BY <1>4, <2>2, ConcatProperties
    <3>3. Len(t) \in Nat
      BY <1>4
    <3> QED
      BY <1>4, <2>2, <3>1, <3>2, <3>3
  <2>9. x \in Seq(F) /\ t \in Seq(F)
    BY <1>4
  <2>4. l = x \o ends
    BY ONLY <2>2, <2>9, ConcatAssociative
  <2> HIDE DEF ends, l
  <2>5. /\ l \in Seq(F) /\ Len(l) = Len(x) + Len(ends)
        /\ \A i \in 1 .. Len(x) + Len(ends) :
             l[i] = IF i <= Len(x) THEN x[i] ELSE ends[i - Len(x)]
    BY <1>4, <2>3, <2>4, ConcatProperties
  <2>6. Len(x) \in Nat /\ Len(t) \in Nat
    BY <1>4
  <2> DEFINE n == Len(x)
             k == Len(t)
  <2>7. n \in Nat /\ n >= 1 /\ k \in Nat /\ Len(l) = n + k + 2
    BY <1>4, <1>7, <2>3, <2>5, <2>6
  <2>10. l[1] = x[1]
    BY <2>3, <2>5, <2>7
  <2>11. l[n + k + 2] = ends[k + 2]
    <3>1. n + k + 2 \in 1 .. n + (k + 2) /\ ~ (n + k + 2 <= n) /\ n + k + 2 - n = k + 2
      BY <2>7
    <3> QED
      BY <2>3, <2>5, <3>1
  <2>12. l # <<>> /\ l[1] \in G /\ l[Len(l)] \in G
    BY <1>4, <1>7, <2>3, <2>5, <2>7, <2>10, <2>11
  <2> QED
    BY <1>0, <2>1, <2>5, <2>12 DEF MarkLines, F
<1> QED
  BY <1>5, <1>6, <1>7

LEMMA PenIsNat ==
  ASSUME NEW line \in MarkLines, NEW i \in 0 .. Len(line)
  PROVE  Pen(line, i) \in Nat
<1> DEFINE Is(f) == f = [k \in 0 .. i |-> IF k = 0 THEN 0
                                          ELSE f[k - 1] + Font[line[k]].advance]
           step == [p \in Nat \X (1 .. i) |-> p[1] + Font[line[p[2]]].advance]
<1>1. \A k \in 1 .. i : Font[line[k]].advance \in Nat
  <2> DEFINE F == DOMAIN Font
  <2>1. \A c \in F : Font[c].advance \in Nat
    BY MarkAssumption
  <2>2. line \in Seq(F)
    BY DEF MarkLines
  <2> HIDE DEF F
  <2>3. \A k \in 1 .. i : line[k] \in F
    BY <2>2
  <2> QED
    BY <2>1, <2>3
<1>2. step \in [Nat \X (1 .. i) -> Nat]
  BY <1>1
<1>3. \A v \in Nat, k \in 1 .. i : step[<<v, k>>] = v + Font[line[k]].advance
  OBVIOUS
<1> HIDE DEF step
<1>a. i \in Nat /\ 0 \in Nat
  BY DEF MarkLines
<1>4. PICK g \in [SUBSET (1 .. i) -> Nat] : FoldsOver(g, i, 0, step)
  BY ONLY <1>2, <1>a, FoldExists
<1> DEFINE h == [k \in 0 .. i |-> g[1 .. k]]
<1>5. h[0] = 0
  <2>1. 1 .. 0 = {}
    OBVIOUS
  <2>2. g[{}] = 0
    BY <1>4 DEF FoldsOver
  <2> QED
    BY <2>1, <2>2
<1>6. ASSUME NEW k \in 1 .. i PROVE h[k] = h[k - 1] + Font[line[k]].advance
  <2> DEFINE T == 1 .. k
  <2>1. Max(T) = k /\ T \ {k} = 1 .. (k - 1) /\ T # {}
    BY MaxOfRange
  <2>2. T \in SUBSET (1 .. i) /\ 1 .. (k - 1) \in SUBSET (1 .. i)
    OBVIOUS
  <2> HIDE DEF T
  <2>3. g[T] = step[<<g[T \ {Max(T)}], Max(T)>>]
    BY <1>4, <2>1, <2>2 DEF FoldsOver
  <2>4. g[T] = step[<<g[1 .. (k - 1)], k>>]
    BY <2>1, <2>3
  <2>5. g[1 .. (k - 1)] \in Nat
    BY <2>2
  <2> QED
    BY <1>3, <2>4, <2>5 DEF T
<1>7. h = [k \in 0 .. i |-> h[k]]
  OBVIOUS
<1> HIDE DEF h
<1>8. Is(h)
  <2>1. \A k \in 0 .. i : h[k] = IF k = 0 THEN 0 ELSE h[k - 1] + Font[line[k]].advance
    <3>1. \A k \in 0 .. i : k = 0 \/ k \in 1 .. i
      OBVIOUS
    <3>2. \A k \in 1 .. i : k # 0
      OBVIOUS
    <3> QED
      BY <1>5, <1>6, <3>1, <3>2
  <2> QED
    BY <1>7, <2>1, Zenon
<1> DEFINE upto == CHOOSE f : Is(f)
<1>9. Is(upto)
  <2> HIDE DEF Is
  <2> QED
    BY <1>8
<1>10. Pen(line, i) = upto[i]
  BY DEF Pen
<1> HIDE DEF upto
<1> DEFINE P == {k \in 0 .. i : upto[k] \in Nat}
<1>11. 0 \in P
  BY <1>9
<1>12. ASSUME NEW k \in 1 .. i, k - 1 \in P PROVE k \in P
  <2>1. upto[k] = upto[k - 1] + Font[line[k]].advance
    BY <1>9
  <2> QED
    BY <1>1, <1>12, <2>1
<1> HIDE DEF P
<1>b. \A k \in 0 .. i : k \in P
  BY ONLY <1>a, <1>11, <1>12, UpTo
<1>13. i \in P
  BY <1>a, <1>b
<1> QED
  BY <1>10, <1>13 DEF P

\* The mask of a line: its size, and the pixels it is of.
LEMMA MaskSized ==
  ASSUME NEW line \in MarkLines
  PROVE  LET m == RasterizeLine(line)
         IN /\ m.line = line /\ m.w \in Nat /\ m.h \in Nat
            /\ DOMAIN m.fill = (0 .. m.h - 1) \X (0 .. m.w - 1)
<1> DEFINE n == Len(line)
           m == RasterizeLine(line)
           up == [i \in 1 .. n |-> -Font[line[i]].ymin]
           down == [i \in 1 .. n |-> Font[line[i]].ymin + Font[line[i]].height]
<1>1. n \in Nat /\ DOMAIN line = 1 .. n /\ \A i \in 1 .. n : line[i] \in DOMAIN Font
  <2> DEFINE F == DOMAIN Font
  <2>1. line \in Seq(F)
    BY DEF MarkLines
  <2> HIDE DEF F
  <2>2. n \in Nat /\ DOMAIN line = 1 .. n /\ \A i \in 1 .. n : line[i] \in F
    BY <2>1
  <2> QED
    BY <2>2 DEF F
<1>2. up \in [1 .. n -> Int] /\ down \in [1 .. n -> Int]
  <2> DEFINE F == DOMAIN Font
  <2>1. \A c \in F : Font[c].ymin \in Int /\ Font[c].height \in Nat
    BY MarkAssumption
  <2>2. \A i \in 1 .. n : line[i] \in F
    BY <1>1
  <2> HIDE DEF F, n
  <2>3. \A i \in 1 .. n : -Font[line[i]].ymin \in Int
                          /\ Font[line[i]].ymin + Font[line[i]].height \in Int
    BY <2>1, <2>2
  <2> QED
    BY <2>3
<1>3. /\ {-Font[line[i]].ymin : i \in DOMAIN line} = {up[i] : i \in 1 .. n}
      /\ {Font[line[i]].ymin + Font[line[i]].height : i \in DOMAIN line}
           = {down[i] : i \in 1 .. n}
  BY <1>1
<1> HIDE DEF up, down
<1>4. Max({0} \cup {up[i] : i \in 1 .. n}) \in Nat /\ Max({0} \cup {down[i] : i \in 1 .. n}) \in Nat
  <2> HIDE DEF n
  <2> QED
    BY <1>1, <1>2, LargestIsNat
<1>5. Ascent(line) \in Nat /\ Descent(line) \in Nat
  BY <1>3, <1>4 DEF Ascent, Descent
<1>6. Pen(line, n) \in Nat
  BY <1>1, PenIsNat
<1>7. m.line = line /\ m.w = Pen(line, n) /\ m.h = Ascent(line) + Descent(line)
  BY DEF RasterizeLine
<1>8. DOMAIN m.fill = (0 .. (Ascent(line) + Descent(line)) - 1) \X (0 .. Pen(line, n) - 1)
  <2> DEFINE w == Pen(line, Len(line))
             h == Ascent(line) + Descent(line)
             pixels == (0 .. h - 1) \X (0 .. w - 1)
             Stamped(p, i) == LET g == Font[line[i]]
                                  a == p[1] - GlyphY(line, i)
                                  c == p[2] - GlyphX(line, i)
                              IN IF a \in 0 .. g.height - 1 /\ c \in 0 .. g.width - 1
                                 THEN g.rows[a + 1][c + 1] ELSE 0
             fill == [p \in pixels |-> Max({0} \cup {Stamped(p, i) : i \in DOMAIN line})]
             out == [p \in pixels |-> Max({fill[q] : q \in
                      {q \in pixels : q[1] - p[1] \in -1 .. 1 /\ q[2] - p[2] \in -1 .. 1}})]
  <2>1. m = [line |-> line, w |-> w, h |-> h, fill |-> fill, outline |-> out]
    BY Zenon DEF RasterizeLine
  <2>2. DOMAIN fill = pixels
    <3> HIDE DEF pixels, Stamped
    <3> QED
      OBVIOUS
  <2> HIDE DEF m, fill, out, Stamped
  <2>3. m.fill = fill
    BY <2>1
  <2>5. pixels = (0 .. (Ascent(line) + Descent(line)) - 1) \X (0 .. Pen(line, n) - 1)
    OBVIOUS
  <2> HIDE DEF pixels, n
  <2> QED
    BY <2>2, <2>3, <2>5
<1> HIDE DEF m
<1> QED
  BY <1>5, <1>6, <1>7, <1>8 DEF m

\* A spot of a picture has one place in its buffer.
LEMMA SpotIs ==
  ASSUME NEW w \in Nat \ {0}, NEW h \in Nat, NEW y \in 0 .. h - 1, NEW x \in 0 .. w - 1
  PROVE  /\ y * w + x \in 0 .. w * h - 1
         /\ (y * w + x) \div w = y /\ (y * w + x) % w = x
<1> DEFINE i == y * w + x
<1>1. i \div w = y
  BY QuotientIs
<1>2. y * w \in Nat /\ h * w = w * h /\ w * h \in Int
  OBVIOUS
<1>3. h * w >= y * w + w
  <2>1. h \in Int /\ y \in Int /\ h > y
    OBVIOUS
  <2> QED
    BY ONLY w \in Nat \ {0}, <2>1, Closest
<1>4. i \in Nat /\ i <= w * h - 1 /\ i = x + y * w
  BY <1>2, <1>3
<1>5. i % w \in Nat /\ i = (i % w) + (i \div w) * w
  <2> HIDE DEF i
  <2>1. i % w \in 0 .. w - 1 /\ i = (i % w) + (i \div w) * w
    BY ONLY w \in Nat \ {0}, <1>4, Division
  <2> QED
    BY <2>1
<1> HIDE DEF i
<1>6. i % w = x
  BY <1>1, <1>2, <1>4, <1>5
<1> QED
  BY <1>1, <1>4, <1>6 DEF i

Sized(m) ==
  /\ m.w \in Nat \ {0} /\ m.h \in Nat \ {0}
  /\ DOMAIN m.fill = (0 .. m.h - 1) \X (0 .. m.w - 1)

\* Where a line of length l begins on a side of length s, near or far.
LEMMA Begins ==
  ASSUME NEW s \in Nat \ {0}, NEW l \in Nat \ {0}, NEW near \in BOOLEAN
  PROVE  LET b == Min({Saturating(s, 1), IF near THEN Margin ELSE Saturating(s, l + Margin)})
         IN /\ b \in 0 .. s - 1
            /\ l + 2 * Margin <= s => b \in Margin .. s - l - Margin
<1> DEFINE far == IF near THEN Margin ELSE Saturating(s, l + Margin)
           last == Saturating(s, 1)
<1>1. Margin \in Nat
  BY MarkAssumption
<1>2. last = s - 1
  BY DEF Saturating
<1>3. far = IF near THEN Margin ELSE IF s > l + Margin THEN s - (l + Margin) ELSE 0
  BY DEF Saturating
<1> HIDE DEF far, last
<1>4. far \in Nat /\ last \in Nat
  BY <1>1, <1>2, <1>3
<1>5. Min({last, far}) = IF last <= far THEN last ELSE far
  BY <1>4, LesserOf
<1>6. /\ Min({last, far}) \in 0 .. s - 1
      /\ l + 2 * Margin <= s => Min({last, far}) \in Margin .. s - l - Margin
  BY <1>1, <1>2, <1>3, <1>4, <1>5
<1> QED
  BY <1>6 DEF far, last

LEMMA OriginIs ==
  ASSUME NEW w \in Nat \ {0}, NEW h \in Nat \ {0}, NEW m, Sized(m), NEW position
  PROVE  LET o == Origin(position, w, h, m)
         IN /\ o = <<o[1], o[2]>> /\ o[1] \in 0 .. w - 1 /\ o[2] \in 0 .. h - 1
            /\ m.w + 2 * Margin <= w => o[1] \in Margin .. w - m.w - Margin
            /\ m.h + 2 * Margin <= h => o[2] \in Margin .. h - m.h - Margin
<1> DEFINE left == position \in {"top-left", "bottom-left"}
           above == position \in {"top-left", "top-right"}
           ox == Min({Saturating(w, 1), IF left THEN Margin ELSE Saturating(w, m.w + Margin)})
           oy == Min({Saturating(h, 1), IF above THEN Margin ELSE Saturating(h, m.h + Margin)})
<1>1. left \in BOOLEAN /\ above \in BOOLEAN
  OBVIOUS
<1>2. Origin(position, w, h, m) = <<ox, oy>>
  BY DEF Origin
<1>3. m.w \in Nat \ {0} /\ m.h \in Nat \ {0}
  BY DEF Sized
<1> HIDE DEF left, above
<1>4. /\ ox \in 0 .. w - 1
      /\ m.w + 2 * Margin <= w => ox \in Margin .. w - m.w - Margin
  BY ONLY w \in Nat \ {0}, <1>1, <1>3, Begins
<1>5. /\ oy \in 0 .. h - 1
      /\ m.h + 2 * Margin <= h => oy \in Margin .. h - m.h - Margin
  BY ONLY h \in Nat \ {0}, <1>1, <1>3, Begins
<1> HIDE DEF ox, oy
<1> QED
  BY <1>2, <1>4, <1>5

\* The pixels of a mask that fall into the picture, and their places in it.
Falls(w, h, m, o) ==
  {p \in DOMAIN m.fill : Ink(m, p) /\ o[2] + p[1] < h /\ o[1] + p[2] < w}
Place(w, o, p) == (o[2] + p[1]) * w + o[1] + p[2]

LEMMA LumaIs ==
  ASSUME NEW w, NEW h, NEW m, NEW o
  PROVE  BlitLuma(w, h, m, o) = {Place(w, o, p) : p \in Falls(w, h, m, o)}
  BY Zenon DEF BlitLuma, Place, Falls

LEMMA PlaceIs ==
  ASSUME NEW w \in Nat \ {0}, NEW h \in Nat \ {0}, NEW m, Sized(m),
         NEW o, o[1] \in 0 .. w - 1, o[2] \in 0 .. h - 1, NEW p \in Falls(w, h, m, o)
  PROVE  /\ p = <<p[1], p[2]>> /\ p[1] \in 0 .. m.h - 1 /\ p[2] \in 0 .. m.w - 1
         /\ o[2] + p[1] \in 0 .. h - 1 /\ o[1] + p[2] \in 0 .. w - 1
         /\ Place(w, o, p) \in 0 .. w * h - 1
         /\ Place(w, o, p) \div w = o[2] + p[1] /\ Place(w, o, p) % w = o[1] + p[2]
<1> DEFINE y == o[2] + p[1]
           x == o[1] + p[2]
<1>1. p \in (0 .. m.h - 1) \X (0 .. m.w - 1) /\ y < h /\ x < w
  BY DEF Falls, Sized
<1>2. m.w \in Nat /\ m.h \in Nat
  BY DEF Sized
<1>3. p = <<p[1], p[2]>> /\ p[1] \in 0 .. m.h - 1 /\ p[2] \in 0 .. m.w - 1
  BY <1>1
<1>4. y \in 0 .. h - 1 /\ x \in 0 .. w - 1
  BY <1>1, <1>2, <1>3
<1>5. Place(w, o, p) = y * w + x
  <2>1. y * w \in Int /\ o[1] \in Int /\ p[2] \in Int
    BY <1>3, <1>4
  <2> QED
    BY <2>1 DEF Place
<1> HIDE DEF y, x
<1>6. y * w + x \in 0 .. w * h - 1 /\ (y * w + x) \div w = y /\ (y * w + x) % w = x
  BY <1>4, SpotIs
<1> QED
  BY <1>3, <1>4, <1>5, <1>6 DEF y, x

\* The cells the brightness of a picture is painted in.
InkedCells(w, luma) == {<<(i \div w) \div 2, (i % w) \div 2>> : i \in luma}

\* A pixel of a cell that the mask reaches is of the mask or next to its edge.
LEMMA Reaches ==
  ASSUME NEW s \in Nat \ {0}, NEW l \in Nat \ {0}, NEW o \in 0 .. s - 1,
         NEW c \in o \div 2 .. CellsUpTo(Min({o + l, s})) - 1, NEW d \in 2 * c .. 2 * c + 1,
         d < s, Saturating(d, o) <= l - 1
  PROVE  /\ Saturating(d, o) \in Nat /\ o + Saturating(d, o) < s
         /\ (o + Saturating(d, o)) \div 2 = c
<1>1. Saturating(d, o) = IF d > o THEN d - o ELSE 0
  BY DEF Saturating
<1>2. c \in Nat /\ c >= o \div 2
  OBVIOUS
<1>3. d \in Nat
  BY <1>2
<1>4. CASE d > o
  BY <1>1, <1>2, <1>3, <1>4
<1>5. CASE d <= o
  BY <1>1, <1>2, <1>3, <1>5
<1> QED
  BY <1>3, <1>4, <1>5

LineOn(s, l, o, k, d) ==
  s \in Nat \ {0} /\ l \in Nat \ {0} /\ o \in 0 .. s - 1 /\ k \in 0 .. l - 1 /\ d \in 0 .. s - 1
    /\ d = o + k
CellOn(s, l, o, k, d) ==
  /\ d \div 2 \in o \div 2 .. CellsUpTo(Min({o + l, s})) - 1
  /\ d \in 2 * (d \div 2) .. 2 * (d \div 2) + 1
  /\ Saturating(d, o) = k

LEMMA ReachedBy ==
  ASSUME NEW s, NEW l, NEW o, NEW k, NEW d, LineOn(s, l, o, k, d)
  PROVE  CellOn(s, l, o, k, d)
<1> USE DEF LineOn, CellOn
<1>1. Min({o + l, s}) = IF o + l <= s THEN o + l ELSE s
  <2>1. o + l \in Int /\ s \in Int
    OBVIOUS
  <2> QED
    BY ONLY <2>1, LesserOf
<1> DEFINE e == Min({o + l, s})
<1>2. e \in Nat /\ d < e
  BY <1>1
<1> HIDE DEF e
<1>3. CellsUpTo(e) = (e + 1) \div 2
  BY DEF CellsUpTo
<1>4. Saturating(d, o) = k
  BY DEF Saturating
<1> QED
  BY <1>2, <1>3, <1>4 DEF e

LEMMA CellsAreInked ==
  ASSUME NEW w \in Nat \ {0}, NEW h \in Nat \ {0}, NEW m, Sized(m),
         NEW o, o[1] \in 0 .. w - 1, o[2] \in 0 .. h - 1
  PROVE  BlitCells(w, h, m, o)
           = {c[1] * (w \div 2) + c[2] : c \in InkedCells(w, BlitLuma(w, h, m, o))}
<1> DEFINE Rows(cy) == {y \in 2 * cy .. 2 * cy + 1 : y < h}
           Columns(cx) == {x \in 2 * cx .. 2 * cx + 1 : x < w}
           Near(y, x) == <<Saturating(y, o[2]), Saturating(x, o[1])>>
           Over(cy, cx) == {p \in {Near(y, x) : y \in Rows(cy), x \in Columns(cx)} :
                              p \in DOMAIN m.fill}
           A == o[2] \div 2 .. CellsUpTo(Min({o[2] + m.h, h})) - 1
           B == o[1] \div 2 .. CellsUpTo(Min({o[1] + m.w, w})) - 1
           C == {c \in A \X B : \E p \in Over(c[1], c[2]) : Ink(m, p)}
           I == InkedCells(w, BlitLuma(w, h, m, o))
<1>1. BlitCells(w, h, m, o) = {c[1] * (w \div 2) + c[2] : c \in C}
  BY DEF BlitCells
<1>2. m.w \in Nat \ {0} /\ m.h \in Nat \ {0}
  BY DEF Sized
<1>3. ASSUME NEW c \in C PROVE c \in I
  <2>1. c = <<c[1], c[2]>> /\ c[1] \in A /\ c[2] \in B
    OBVIOUS
  <2>2. PICK p \in Over(c[1], c[2]) : Ink(m, p)
    OBVIOUS
  <2>3. PICK y \in Rows(c[1]), x \in Columns(c[2]) : p = Near(y, x)
    OBVIOUS
  <2> DEFINE py == Saturating(y, o[2])
             px == Saturating(x, o[1])
  <2>4. p = <<py, px>> /\ p \in DOMAIN m.fill
    BY <2>2, <2>3
  <2> HIDE DEF A, B, C, I, py, px
  <2>5. py <= m.h - 1 /\ px <= m.w - 1
    <3>1. <<py, px>> \in (0 .. m.h - 1) \X (0 .. m.w - 1)
      BY <2>4 DEF Sized
    <3>2. py \in 0 .. m.h - 1 /\ px \in 0 .. m.w - 1
      BY <3>1
    <3> QED
      BY <1>2, <3>2
  <2>6. y \in 2 * c[1] .. 2 * c[1] + 1 /\ y < h /\ x \in 2 * c[2] .. 2 * c[2] + 1 /\ x < w
    OBVIOUS
  <2>7. py \in Nat /\ o[2] + py < h /\ (o[2] + py) \div 2 = c[1]
    BY ONLY h \in Nat \ {0}, o[2] \in 0 .. h - 1, <1>2, <2>1, <2>5, <2>6, Reaches DEF A, py
  <2>8. px \in Nat /\ o[1] + px < w /\ (o[1] + px) \div 2 = c[2]
    BY ONLY w \in Nat \ {0}, o[1] \in 0 .. w - 1, <1>2, <2>1, <2>5, <2>6, Reaches DEF B, px
  <2>9. p[1] = py /\ p[2] = px
    BY <2>4
  <2>10. p \in Falls(w, h, m, o)
    BY <2>2, <2>4, <2>7, <2>8, <2>9 DEF Falls
  <2> DEFINE i == Place(w, o, p)
  <2>11. i \div w = o[2] + py /\ i % w = o[1] + px
    BY <2>9, <2>10, PlaceIs
  <2>12. i \in BlitLuma(w, h, m, o)
    BY <2>10, LumaIs
  <2> HIDE DEF i
  <2>13. c = <<(i \div w) \div 2, (i % w) \div 2>>
    BY <2>1, <2>7, <2>8, <2>11
  <2> QED
    BY <2>12, <2>13 DEF I, InkedCells
<1>4. ASSUME NEW c \in I PROVE c \in C
  <2>1. PICK i \in BlitLuma(w, h, m, o) : c = <<(i \div w) \div 2, (i % w) \div 2>>
    BY DEF InkedCells
  <2>2. PICK p \in Falls(w, h, m, o) : i = Place(w, o, p)
    BY <2>1, LumaIs
  <2> DEFINE y == o[2] + p[1]
             x == o[1] + p[2]
  <2>3. /\ p = <<p[1], p[2]>> /\ p[1] \in 0 .. m.h - 1 /\ p[2] \in 0 .. m.w - 1
        /\ y \in 0 .. h - 1 /\ x \in 0 .. w - 1
        /\ i \div w = y /\ i % w = x
    BY <2>2, PlaceIs
  <2>4. p \in DOMAIN m.fill /\ Ink(m, p)
    BY <2>2 DEF Falls
  <2>a. y < h /\ x < w
    BY <2>3
  <2>b. y = o[2] + p[1] /\ x = o[1] + p[2]
    OBVIOUS
  <2> HIDE DEF C, I, y, x
  <2>5. y \div 2 \in A /\ y \in 2 * (y \div 2) .. 2 * (y \div 2) + 1 /\ Saturating(y, o[2]) = p[1]
    <3>1. LineOn(h, m.h, o[2], p[1], y)
      BY <1>2, <2>3, <2>b DEF LineOn
    <3>2. CellOn(h, m.h, o[2], p[1], y)
      BY ONLY <3>1, ReachedBy
    <3> QED
      BY <3>2 DEF CellOn
  <2>6. x \div 2 \in B /\ x \in 2 * (x \div 2) .. 2 * (x \div 2) + 1 /\ Saturating(x, o[1]) = p[2]
    <3>1. LineOn(w, m.w, o[1], p[2], x)
      BY <1>2, <2>3, <2>b DEF LineOn
    <3>2. CellOn(w, m.w, o[1], p[2], x)
      BY ONLY <3>1, ReachedBy
    <3> QED
      BY <3>2 DEF CellOn
  <2>7. y \in Rows(y \div 2) /\ x \in Columns(x \div 2)
    BY <2>5, <2>6, <2>a
  <2> HIDE DEF y, x, A, B, Rows, Columns
  <2>8. p = Near(y, x)
    BY <2>3, <2>5, <2>6
  <2>9. p \in Over(y \div 2, x \div 2)
    BY <2>4, <2>7, <2>8
  <2>10. c = <<y \div 2, x \div 2>>
    BY <2>1, <2>3
  <2> HIDE DEF Over
  <2>11. c[1] = y \div 2 /\ c[2] = x \div 2 /\ c \in A \X B
    BY <2>5, <2>6, <2>10
  <2>12. \E q \in Over(c[1], c[2]) : Ink(m, q)
    BY <2>4, <2>9, <2>11
  <2> QED
    BY <2>11, <2>12 DEF C
<1>5. C = I
  <2> HIDE DEF C, I
  <2> QED
    BY <1>3, <1>4
<1> HIDE DEF C, I
<1>6. BlitCells(w, h, m, o) = {c[1] * (w \div 2) + c[2] : c \in I}
  BY <1>1, <1>5
<1> QED
  BY <1>6 DEF I

\* A cell's places in the two chroma planes, in a picture of two rows or more.
LEMMA ChromaBounds ==
  ASSUME NEW w \in Nat \ {0}, NEW h \in Nat, h >= 2,
         NEW y \in 0 .. h - 1, NEW x \in 0 .. w - 1
  PROVE  LET k == (y \div 2) * (w \div 2) + x \div 2
         IN /\ k \in Nat
            /\ w * h + k \in w * h .. (w * h * 3) \div 2 - 1
            /\ (w * h + (w \div 2) * (h \div 2)) + k \in w * h .. (w * h * 3) \div 2 - 1
<1> DEFINE a == w \div 2
           b == h \div 2
           c == y \div 2
           e == x \div 2
           n == w * h
           p == a * b
           q == c * a
<1>1. /\ a \in Nat /\ b \in Nat /\ b >= 1 /\ c \in Nat /\ e \in Nat
      /\ w = 2 * a \/ w = 2 * a + 1
      /\ h = 2 * b \/ h = 2 * b + 1
      /\ c < b \/ (c = b /\ h = 2 * b + 1)
      /\ e < a \/ (e = a /\ w = 2 * a + 1)
  OBVIOUS
<1> HIDE DEF a, b, c, e
<1>2. p \in Nat /\ q \in Nat /\ n \in Nat
  BY <1>1
<1>3. \/ n = 4 * p /\ w = 2 * a /\ h = 2 * b
      \/ n = 4 * p + 2 * b /\ w = 2 * a + 1 /\ h = 2 * b
      \/ n = 4 * p + 2 * a /\ w = 2 * a /\ h = 2 * b + 1
      \/ n = 4 * p + 2 * a + 2 * b + 1 /\ w = 2 * a + 1 /\ h = 2 * b + 1
  <2>1. /\ (2 * a) * (2 * b) = 4 * (a * b)
        /\ (2 * a + 1) * (2 * b) = 4 * (a * b) + 2 * b
        /\ (2 * a) * (2 * b + 1) = 4 * (a * b) + 2 * a
        /\ (2 * a + 1) * (2 * b + 1) = 4 * (a * b) + 2 * a + 2 * b + 1
    BY <1>1
  <2> QED
    BY <1>1, <2>1
<1>4. c < b => q + a <= p
  <2>1. CASE a = 0
    BY <1>1, <2>1
  <2>2. CASE a # 0
    <3>1. a \in Nat \ {0} /\ b \in Int /\ c \in Int
      BY <1>1, <2>2
    <3>2. b > c => b * a >= c * a + a
      BY ONLY <3>1, Closest
    <3>3. b * a = a * b
      BY <1>1
    <3> QED
      BY <1>1, <3>2, <3>3
  <2> QED
    BY <2>1, <2>2
<1>5. c = b => q = p
  BY <1>1
<1> HIDE DEF p, q, n
<1>6. q + e \in Nat /\ n + (q + e) \in n .. (n * 3) \div 2 - 1
      /\ (n + p) + (q + e) \in n .. (n * 3) \div 2 - 1
  BY <1>1, <1>2, <1>3, <1>4, <1>5
<1> QED
  BY <1>6 DEF n, p, q, a, b, c, e

\* What is painted into a picture with the mask of its moment.
Painted(w, h, m, o, b) ==
  LET uPlane == w * h
      vPlane == uPlane + (w \div 2) * (h \div 2)
  IN /\ b.luma = BlitLuma(w, h, m, o)
     /\ b.u = {uPlane + c : c \in BlitCells(w, h, m, o)}
     /\ b.v = {vPlane + c : c \in BlitCells(w, h, m, o)}

Canvas(w, h, m, o) ==
  /\ w \in Nat \ {0} /\ h \in Nat \ {0} /\ Sized(m)
  /\ o[1] \in 0 .. w - 1 /\ o[2] \in 0 .. h - 1

LEMMA PaintedInside ==
  ASSUME NEW w, NEW h, NEW m, NEW o, NEW b, Canvas(w, h, m, o), Painted(w, h, m, o, b), h # 1
  PROVE  /\ b.luma \subseteq 0 .. w * h - 1
         /\ b.u \cup b.v \subseteq w * h .. (w * h * 3) \div 2 - 1
<1> USE DEF Canvas
<1>1. b.luma \subseteq 0 .. w * h - 1
  <2>1. ASSUME NEW i \in b.luma PROVE i \in 0 .. w * h - 1
    <3>1. PICK p \in Falls(w, h, m, o) : i = Place(w, o, p)
      BY LumaIs DEF Painted
    <3> QED
      BY <3>1, PlaceIs
  <2> QED
    BY <2>1
<1> DEFINE n == w * h
           a == (w \div 2) * (h \div 2)
           top == (w * h * 3) \div 2 - 1
<1>2. ASSUME NEW k \in BlitCells(w, h, m, o)
      PROVE  n + k \in n .. top /\ (n + a) + k \in n .. top
  <2>1. PICK c \in InkedCells(w, BlitLuma(w, h, m, o)) : k = c[1] * (w \div 2) + c[2]
    BY CellsAreInked
  <2>2. PICK i \in BlitLuma(w, h, m, o) : c = <<(i \div w) \div 2, (i % w) \div 2>>
    BY DEF InkedCells
  <2>3. PICK p \in Falls(w, h, m, o) : i = Place(w, o, p)
    BY LumaIs
  <2> DEFINE y == i \div w
             x == i % w
  <2>4. y \in 0 .. h - 1 /\ x \in 0 .. w - 1
    BY <2>3, PlaceIs
  <2>5. c[1] = y \div 2 /\ c[2] = x \div 2
    BY <2>2
  <2> HIDE DEF y, x
  <2>6. k = (y \div 2) * (w \div 2) + x \div 2
    BY <2>1, <2>5
  <2>7. w \in Nat \ {0} /\ h \in Nat /\ h >= 2
    OBVIOUS
  <2>8. LET j == (y \div 2) * (w \div 2) + x \div 2
        IN /\ j \in Nat
           /\ w * h + j \in w * h .. (w * h * 3) \div 2 - 1
           /\ (w * h + (w \div 2) * (h \div 2)) + j \in w * h .. (w * h * 3) \div 2 - 1
    BY ONLY <2>4, <2>7, ChromaBounds
  <2> QED
    BY <2>6, <2>8
<1>3. b.u = {n + k : k \in BlitCells(w, h, m, o)} /\ b.v = {(n + a) + k : k \in BlitCells(w, h, m, o)}
  BY DEF Painted
<1> HIDE DEF n, a, top
<1>4. b.u \cup b.v \subseteq n .. top
  BY <1>2, <1>3
<1> QED
  BY <1>1, <1>4 DEF n, top

LEMMA PaintedColour ==
  ASSUME NEW w, NEW h, NEW m, NEW o, NEW b, Canvas(w, h, m, o), Painted(w, h, m, o, b),
         w % 2 = 0, h % 2 = 0
  PROVE  LET Inked == {<<(i \div w) \div 2, (i % w) \div 2>> : i \in b.luma}
         IN /\ b.u = {w * h + c[1] * (w \div 2) + c[2] : c \in Inked}
            /\ b.v = {(w * h) \div 4 + i : i \in b.u}
<1> DEFINE I == InkedCells(w, b.luma)
           a == w \div 2
           d == h \div 2
           cells == BlitCells(w, h, m, o)
<1>1. I = {<<(i \div w) \div 2, (i % w) \div 2>> : i \in b.luma}
  BY DEF InkedCells
<1>2. cells = {c[1] * a + c[2] : c \in I}
  BY CellsAreInked DEF Canvas, Painted
<1>3. ASSUME NEW c \in I PROVE c[1] \in Nat /\ c[2] \in Nat
  <2>1. PICK i \in b.luma : c = <<(i \div w) \div 2, (i % w) \div 2>>
    BY DEF InkedCells
  <2>2. PICK p \in Falls(w, h, m, o) : i = Place(w, o, p)
    BY LumaIs DEF Painted
  <2> DEFINE y == i \div w
             x == i % w
  <2>3. y \in 0 .. h - 1 /\ x \in 0 .. w - 1
    BY <2>2, PlaceIs DEF Canvas
  <2>4. c[1] = y \div 2 /\ c[2] = x \div 2
    BY <2>1
  <2> HIDE DEF y, x
  <2>5. h \in Nat /\ w \in Nat
    BY DEF Canvas
  <2> QED
    BY <2>3, <2>4, <2>5
<1>4. a \in Nat /\ d \in Nat /\ w = 2 * a /\ h = 2 * d
  BY DEF Canvas
<1>5. b.u = {w * h + k : k \in cells} /\ b.v = {(w * h + a * d) + k : k \in cells}
  BY DEF Painted
<1> HIDE DEF I, a, d, cells
<1> DEFINE n == w * h
           q == a * d
<1>6. n \in Nat /\ q \in Nat /\ n = 4 * q
  <2>1. (2 * a) * (2 * d) = 4 * (a * d) /\ a * d \in Nat
    BY <1>4
  <2> QED
    BY <1>4, <2>1
<1>7. n \div 4 = q
  <2> HIDE DEF n, q
  <2> QED
    BY <1>6
<1> HIDE DEF n, q
<1> DEFINE K(c) == c[1] * a + c[2]
<1>8. ASSUME NEW c \in I PROVE K(c) \in Nat /\ n + c[1] * a + c[2] = n + K(c)
  <2>1. c[1] \in Nat /\ c[2] \in Nat /\ c[1] * a \in Nat
    BY <1>3, <1>4
  <2> QED
    BY <1>6, <2>1
<1>9. b.u = {n + k : k \in cells} /\ b.v = {(n + q) + k : k \in cells} /\ cells = {K(c) : c \in I}
  BY <1>2, <1>5 DEF n, q
<1> HIDE DEF K
<1>10. b.u = {n + c[1] * a + c[2] : c \in I}
  BY <1>8, <1>9
<1>11. \A k \in cells : k \in Nat
  BY <1>8, <1>9
<1>12. b.v = {n \div 4 + i : i \in b.u}
  <2>1. \A k \in cells : (n + q) + k = q + (n + k)
    BY <1>6, <1>11
  <2> QED
    BY <1>7, <1>9, <2>1
<1> QED
  BY <1>1, <1>10, <1>12 DEF n, a

LEMMA PaintedWhole ==
  ASSUME NEW w, NEW h, NEW m, NEW o, NEW b, Canvas(w, h, m, o), Painted(w, h, m, o, b),
         o[1] \in Margin .. w - m.w - Margin, o[2] \in Margin .. h - m.h - Margin
  PROVE  LET down == {i \div w : i \in b.luma}  across == {i % w : i \in b.luma}
             inked == {p \in DOMAIN m.fill : Ink(m, p)}
         IN /\ down \subseteq Margin .. h - 1 - Margin
            /\ across \subseteq Margin .. w - 1 - Margin
            /\ Cardinality(b.luma) = Cardinality(inked)
<1> DEFINE inked == {p \in DOMAIN m.fill : Ink(m, p)}
<1>1. Margin \in Nat
  BY MarkAssumption
<1>2. /\ m.w \in Nat \ {0} /\ m.h \in Nat \ {0} /\ w \in Nat \ {0} /\ h \in Nat \ {0}
      /\ DOMAIN m.fill = (0 .. m.h - 1) \X (0 .. m.w - 1)
  BY DEF Canvas, Sized
<1>3. ASSUME NEW p \in Falls(w, h, m, o)
      PROVE  /\ Place(w, o, p) \div w \in Margin .. h - 1 - Margin
             /\ Place(w, o, p) % w \in Margin .. w - 1 - Margin
             /\ Place(w, o, p) \div w = o[2] + p[1] /\ Place(w, o, p) % w = o[1] + p[2]
             /\ p = <<p[1], p[2]>> /\ p[1] \in Nat /\ p[2] \in Nat
  <2> DEFINE i == Place(w, o, p)
             y == i \div w
             x == i % w
  <2>1. /\ p = <<p[1], p[2]>> /\ p[1] \in 0 .. m.h - 1 /\ p[2] \in 0 .. m.w - 1
        /\ y = o[2] + p[1] /\ x = o[1] + p[2]
    BY PlaceIs DEF Canvas
  <2> HIDE DEF i, y, x
  <2>2. y \in Margin .. h - 1 - Margin /\ x \in Margin .. w - 1 - Margin
    BY <1>1, <1>2, <2>1
  <2> QED
    BY <1>2, <2>1, <2>2 DEF y, x, i
<1>4. Falls(w, h, m, o) = inked
  <2>1. ASSUME NEW p \in inked PROVE o[2] + p[1] < h /\ o[1] + p[2] < w
    <3>1. p[1] \in 0 .. m.h - 1 /\ p[2] \in 0 .. m.w - 1
      BY <1>2
    <3> QED
      BY <1>1, <1>2, <3>1
  <2> QED
    BY <2>1 DEF Falls
<1>5. b.luma = {Place(w, o, p) : p \in inked}
  BY <1>4, LumaIs DEF Painted
<1>6. IsFiniteSet(inked)
  <2> DEFINE R == 0 .. m.h - 1
             C == 0 .. m.w - 1
  <2>1. m.h - 1 \in Int /\ m.w - 1 \in Int /\ 0 \in Int
    BY <1>2
  <2>2. IsFiniteSet(R)
    BY ONLY <2>1, FS_Interval
  <2>3. IsFiniteSet(C)
    BY ONLY <2>1, FS_Interval
  <2>4. DOMAIN m.fill = R \X C
    BY <1>2
  <2> HIDE DEF R, C
  <2>5. IsFiniteSet(R \X C)
    BY ONLY <2>2, <2>3, FS_Product
  <2>6. inked \in SUBSET (R \X C)
    BY <2>4
  <2> QED
    BY <2>5, <2>6, FS_Subset
<1> HIDE DEF inked
<1> DEFINE f == [p \in inked |-> Place(w, o, p)]
<1>7. ASSUME NEW p \in inked, NEW q \in inked, Place(w, o, p) = Place(w, o, q) PROVE p = q
  <2>1. o[2] + p[1] = o[2] + q[1] /\ o[1] + p[2] = o[1] + q[2]
    BY <1>3, <1>4, <1>7
  <2>2. p = <<p[1], p[2]>> /\ q = <<q[1], q[2]>> /\ {p[1], p[2], q[1], q[2]} \subseteq Nat
    BY <1>3, <1>4
  <2>3. o[1] \in Int /\ o[2] \in Int
    BY DEF Canvas
  <2>4. p[1] = q[1] /\ p[2] = q[2]
    BY <2>1, <2>2, <2>3
  <2> QED
    BY <2>2, <2>4
<1>8. f \in Bijection(inked, b.luma)
  <2>1. f \in Injection(inked, b.luma)
    BY <1>5, <1>7 DEF Injection, IsInjective
  <2>2. f \in Surjection(inked, b.luma)
    BY <1>5 DEF Surjection
  <2> QED
    BY <2>1, <2>2 DEF Bijection
<1>9. Cardinality(b.luma) = Cardinality(inked)
  BY <1>6, <1>8, FS_Bijection DEF ExistsBijection
<1>10. ASSUME NEW i \in b.luma
       PROVE  i \div w \in Margin .. h - 1 - Margin /\ i % w \in Margin .. w - 1 - Margin
  <2>1. PICK p \in inked : i = Place(w, o, p)
    BY <1>5
  <2> QED
    BY <1>3, <1>4, <2>1
<1>11. /\ {i \div w : i \in b.luma} \subseteq Margin .. h - 1 - Margin
       /\ {i % w : i \in b.luma} \subseteq Margin .. w - 1 - Margin
  BY <1>10
<1> QED
  BY <1>9, <1>11 DEF inked

MarkOf(l, f, whole) == Blit(f[1], f[2], whole, RasterizeLine(l))

MarkInv ==
  /\ mark \in [text : MarkTexts, stamp : BOOLEAN, position : Positions]
  /\ clock \in Clocks
  /\ mask = NoMask \/ mask = RasterizeLine(mask.line)
  /\ burnt = NothingBurnt \/ (/\ Line(clock) # <<>>
                              /\ \E f \in MarkFrames, whole \in BOOLEAN :
                                   burnt = MarkOf(Line(clock), f, whole))

LEMMA MarkNextInv == MarkInv /\ [MarkNext]_markVars => MarkInv'
<1> SUFFICES ASSUME MarkInv, [MarkNext]_markVars PROVE MarkInv'
  OBVIOUS
<1> USE DEF MarkInv
<1>1. CASE UNCHANGED markVars
  <2>1. mark' = mark /\ clock' = clock /\ mask' = mask /\ burnt' = burnt
    BY <1>1 DEF markVars
  <2>2. Line(clock)' = Line(clock)
    BY ONLY <2>1 DEF Line
  <2>3. \A l, f, whole : MarkOf(l, f, whole)' = MarkOf(l, f, whole)
    BY ONLY <2>1 DEF MarkOf, Blit
  <2> QED
    BY <2>1, <2>2, <2>3
<1>2. CASE ClockMoves
  BY <1>2 DEF ClockMoves
<1>3. CASE RenderInto
  <2>1. mark' = mark /\ clock' = clock
    BY <1>3 DEF RenderInto
  <2> DEFINE l == Line(clock)
  <2>2. Line(clock)' = l
    BY ONLY <2>1 DEF Line
  <2>3. PICK f \in MarkFrames, whole \in BOOLEAN :
          IF l = <<>> THEN burnt' = NothingBurnt /\ UNCHANGED mask
          ELSE mask' = Cached(l) /\ burnt' = Blit(f[1], f[2], whole, mask')
    BY <1>3, Zenon DEF RenderInto
  <2>4. CASE l = <<>>
    BY <2>1, <2>3, <2>4
  <2>5. CASE l # <<>>
    <3> HIDE DEF l
    <3>1. Cached(l) = RasterizeLine(l)
      <4>1. CASE mask.line = l
        <5>1. mask # NoMask
          BY <2>5, <4>1 DEF NoMask
        <5> QED
          BY <4>1, <5>1 DEF Cached
      <4>2. CASE mask.line # l
        BY <4>2 DEF Cached
      <4> QED
        BY <4>1, <4>2
    <3>2. mask' = RasterizeLine(l) /\ burnt' = Blit(f[1], f[2], whole, RasterizeLine(l))
      BY <2>3, <2>5, <3>1
    <3>3. mask' = RasterizeLine(mask'.line)
      <4>1. RasterizeLine(l).line = l
        BY ONLY DEF RasterizeLine
      <4> QED
        BY <3>2, <4>1
    <3>4. MarkOf(l, f, whole)' = Blit(f[1], f[2], whole, RasterizeLine(l))
      BY ONLY <2>1, <2>2 DEF MarkOf, Blit, l
    <3>5. RasterizeLine(mask.line)' = RasterizeLine(mask'.line)
      BY ONLY DEF RasterizeLine
    <3> QED
      BY <2>1, <2>2, <2>5, <3>2, <3>3, <3>4, <3>5 DEF l
  <2> QED
    BY <2>4, <2>5
<1> QED
  BY <1>1, <1>2, <1>3 DEF MarkNext

LEMMA MarkInitInv == MarkInit => MarkInv
  BY DEF MarkInit, MarkInv

LEMMA MarkFromInv == MarkInv => WatermarkSound
<1> SUFFICES ASSUME MarkInv PROVE WatermarkSound
  OBVIOUS
<1>1. CASE burnt = NothingBurnt
  <2>1. burnt.luma = {} /\ burnt.u = {} /\ burnt.v = {}
    BY <1>1 DEF NothingBurnt
  <2> QED
    BY <1>1, <2>1 DEF WatermarkSound, LineOfTheMoment, ColourFollowsInk, WholeWhereItFits
<1>2. CASE burnt # NothingBurnt
  <2> DEFINE l == Line(clock)
             m == RasterizeLine(l)
  <2>1. PICK f \in MarkFrames, whole \in BOOLEAN : burnt = Blit(f[1], f[2], whole, m)
    BY <1>2 DEF MarkInv, MarkOf
  <2>2. mark.text \in MarkTexts /\ clock \in Clocks /\ l # <<>>
    BY <1>2 DEF MarkInv
  <2>3. l \in MarkLines /\ l[1] # " " /\ l[Len(l)] # " "
    BY <2>2, LineTyped
  <2> HIDE DEF l
  <2>4. /\ m.line = l /\ m.w \in Nat /\ m.h \in Nat
        /\ DOMAIN m.fill = (0 .. m.h - 1) \X (0 .. m.w - 1)
    BY <2>3, MaskSized
  <2> HIDE DEF m
  <2> DEFINE w == f[1]
             h == f[2]
             o == Origin(mark.position, w, h, m)
  <2>5. w \in Nat /\ h \in Nat /\ h # 1
    BY MarkAssumption
  <2>6. burnt = IF 0 \in {m.w, m.h, w, h} \/ ~whole
                THEN [NothingBurnt EXCEPT !.line = m.line, !.size = <<w, h>>]
                ELSE [NothingBurnt EXCEPT !.line = m.line, !.size = <<w, h>>,
                        !.luma = BlitLuma(w, h, m, o),
                        !.u = {w * h + c : c \in BlitCells(w, h, m, o)},
                        !.v = {w * h + (w \div 2) * (h \div 2) + c : c \in BlitCells(w, h, m, o)}]
    BY <2>1 DEF Blit
  <2> HIDE DEF w, h, o
  <2>7. burnt.line = l /\ burnt.size = <<w, h>> /\ burnt.size[1] = w /\ burnt.size[2] = h
    BY <2>4, <2>6 DEF NothingBurnt
  <2>8. CASE 0 \in {m.w, m.h, w, h} \/ ~whole
    <3>1. burnt.luma = {} /\ burnt.u = {} /\ burnt.v = {}
      BY <2>6, <2>8 DEF NothingBurnt
    <3> QED
      BY <2>2, <2>3, <2>7, <3>1
        DEF WatermarkSound, LineOfTheMoment, ColourFollowsInk, WholeWhereItFits, l
  <2>9. CASE ~ (0 \in {m.w, m.h, w, h} \/ ~whole)
    <3>1. Sized(m) /\ w \in Nat \ {0} /\ h \in Nat \ {0}
      BY <2>4, <2>5, <2>9 DEF Sized
    <3>2. /\ o[1] \in 0 .. w - 1 /\ o[2] \in 0 .. h - 1
          /\ m.w + 2 * Margin <= w => o[1] \in Margin .. w - m.w - Margin
          /\ m.h + 2 * Margin <= h => o[2] \in Margin .. h - m.h - Margin
      BY <3>1, OriginIs DEF o
    <3>3. Canvas(w, h, m, o)
      BY <3>1, <3>2 DEF Canvas
    <3>4. Painted(w, h, m, o, burnt)
      BY <2>6, <2>9 DEF NothingBurnt, Painted
    <3>5. LineOfTheMoment
      BY <2>2, <2>3, <2>5, <2>7, <3>3, <3>4, PaintedInside DEF LineOfTheMoment, l
    <3>6. ColourFollowsInk
      BY <2>7, <3>3, <3>4, PaintedColour DEF ColourFollowsInk
    <3>7. WholeWhereItFits
      <4>1. RasterizeLine(burnt.line) = m
        BY <2>7 DEF m
      <4>2. SUFFICES ASSUME m.w + 2 * Margin <= w /\ m.h + 2 * Margin <= h
            PROVE  /\ {i \div w : i \in burnt.luma} \subseteq Margin .. h - 1 - Margin
                   /\ {i % w : i \in burnt.luma} \subseteq Margin .. w - 1 - Margin
                   /\ Cardinality(burnt.luma)
                        = Cardinality({p \in DOMAIN m.fill : Ink(m, p)})
        BY <2>7, <4>1 DEF WholeWhereItFits
      <4>3. o[1] \in Margin .. w - m.w - Margin /\ o[2] \in Margin .. h - m.h - Margin
        BY <3>2, <4>2
      <4> QED
        BY <3>3, <3>4, <4>3, PaintedWhole
    <3> QED
      BY <3>5, <3>6, <3>7 DEF WatermarkSound
  <2> QED
    BY <2>8, <2>9
<1> QED
  BY <1>1, <1>2

(* Every picture carries the line of its moment, inside its buffer, whole  *)
(* where it fits, with colour where there is ink: for every font, margin,  *)
(* text and picture (render_into in src/src/watermark.rs).                 *)
THEOREM WatermarkAlwaysSound == MarkSpec => []WatermarkSound
<1> QED
  BY MarkInitInv, MarkNextInv, MarkFromInv, PTL DEF MarkSpec

LEMMA MarkTyped == MarkInv => MarkTypeOK
<1> SUFFICES ASSUME MarkInv PROVE burnt.size \in MarkFrames \cup {<<0, 0>>}
  BY DEF MarkInv, MarkTypeOK
<1>1. CASE burnt = NothingBurnt
  BY <1>1 DEF NothingBurnt
<1>2. CASE burnt # NothingBurnt
  <2>1. PICK f \in MarkFrames, whole \in BOOLEAN : burnt = MarkOf(Line(clock), f, whole)
    BY <1>2 DEF MarkInv
  <2> DEFINE l == Line(clock)
             m == RasterizeLine(l)
             w == f[1]
             h == f[2]
             o == Origin(mark.position, w, h, m)
  <2>4. burnt = IF 0 \in {m.w, m.h, w, h} \/ ~whole
                THEN [NothingBurnt EXCEPT !.line = m.line, !.size = <<w, h>>]
                ELSE [NothingBurnt EXCEPT !.line = m.line, !.size = <<w, h>>,
                        !.luma = BlitLuma(w, h, m, o),
                        !.u = {w * h + c : c \in BlitCells(w, h, m, o)},
                        !.v = {w * h + (w \div 2) * (h \div 2) + c : c \in BlitCells(w, h, m, o)}]
    BY <2>1 DEF MarkOf, Blit
  <2> HIDE DEF l, m, w, h, o
  <2>5. burnt.size = <<w, h>>
    BY <2>4 DEF NothingBurnt
  <2>2. burnt.size = <<f[1], f[2]>>
    BY <2>5 DEF w, h
  <2>6. f \in Nat \X (Nat \ {1})
    BY MarkAssumption
  <2>3. f = <<f[1], f[2]>>
    BY <2>6
  <2> QED
    BY <2>2, <2>3
<1> QED
  BY <1>1, <1>2

(***************************************************************************)
(* The device as a whole: what each machine keeps, the run that holds them *)
(* side by side keeps.  First the counts of the player's engines, which    *)
(* its type invariant bounds.                                              *)
(***************************************************************************)

(* The counts of an engine: failures stop one above the limit, and a       *)
(* rebuild is asked for only where one more may wait.                      *)
Within(s) == s.failures \in 0 .. GiveUpAfter + 1 /\ s.rebuilds \in 0 .. MaxRebuilds
CountsOK(s) == s \in EngineRecord /\ Within(s)

PageCounts ==
  /\ plays \in {"mse", "pictures", "none"} /\ starting \in 0 .. MaxWaiting
  /\ faults \in 0 .. MaxFaults /\ \A e \in Engines : CountsOK(engines[e])

\* What changes neither count.
LEMMA CountsKept ==
  ASSUME NEW s, CountsOK(s), NEW r \in EngineRecord, r.failures = s.failures,
         r.rebuilds = s.rebuilds
  PROVE  CountsOK(r)
BY DEF CountsOK, Within

LEMMA FunctionsCount ==
  ASSUME NEW s, CountsOK(s)
  PROVE  /\ CountsOK(AbortFetch(s)) /\ AbortFetch(s).rebuilds = s.rebuilds
         /\ CountsOK(DestroyPlayer(s)) /\ DestroyPlayer(s).rebuilds = s.rebuilds
         /\ CountsOK(BuildPlayer(s)) /\ CountsOK(Failed(s)) /\ Failed(s).rebuilds = s.rebuilds
         /\ \A c \in Conns : CountsOK(Ended(s, c)) /\ Ended(s, c).rebuilds = s.rebuilds
         /\ \A k \in Closures : CanFetch(s) => CountsOK(FetchStream(s, k))
<1>0. s \in EngineRecord
  BY DEF CountsOK
<1>1. CountsOK(AbortFetch(s)) /\ AbortFetch(s).rebuilds = s.rebuilds
  <2>1. AbortFetch(s) \in EngineRecord
    BY <1>0, AbortMakes
  <2>2. AbortFetch(s).failures = s.failures /\ AbortFetch(s).rebuilds = s.rebuilds
    BY <1>0 DEF AbortFetch, EngineRecord
  <2> QED
    BY <2>1, <2>2, CountsKept
<1>2. CountsOK(DestroyPlayer(s)) /\ DestroyPlayer(s).rebuilds = s.rebuilds
  <2>1. DestroyPlayer(s) \in EngineRecord
    BY <1>0, DestroyMakes
  <2>2. DestroyPlayer(s).failures = s.failures /\ DestroyPlayer(s).rebuilds = s.rebuilds
    BY <1>0 DEF DestroyPlayer, Detached, EngineRecord
  <2> QED
    BY <2>1, <2>2, CountsKept
<1>3. CountsOK(BuildPlayer(s))
  <2>1. BuildPlayer(s) \in EngineRecord
    BY <1>0, BuildMakes
  <2>2. BuildPlayer(s).failures = s.failures /\ BuildPlayer(s).rebuilds = s.rebuilds
    BY <1>0 DEF BuildPlayer, Detached, EngineRecord
  <2> QED
    BY <2>1, <2>2, CountsKept
<1>4. CountsOK(Failed(s)) /\ Failed(s).rebuilds = s.rebuilds
  <2>1. Failed(s) \in EngineRecord /\ Failed(s).rebuilds = s.rebuilds
    BY <1>0, FailedMakes
  <2>2. Failed(s).failures = IF s.failures > GiveUpAfter THEN s.failures ELSE s.failures + 1
    BY <1>0 DEF Failed, EngineRecord
  <2>3. GiveUpAfter \in Nat
    BY PlayerAssumption
  <2> QED
    BY <2>1, <2>2, <2>3 DEF CountsOK, Within
<1>5. ASSUME NEW c \in Conns PROVE CountsOK(Ended(s, c)) /\ Ended(s, c).rebuilds = s.rebuilds
  <2>1. Ended(s, c) \in EngineRecord
    BY <1>0, EndedMakes
  <2>2. Ended(s, c).failures = s.failures /\ Ended(s, c).rebuilds = s.rebuilds
    BY <1>0 DEF Ended, EngineRecord
  <2> QED
    BY <2>1, <2>2, CountsKept
<1>6. ASSUME NEW k \in Closures, CanFetch(s) PROVE CountsOK(FetchStream(s, k))
  <2>1. FetchStream(s, k) \in EngineRecord
    BY <1>0, <1>6, FetchMakes
  <2>2. FetchStream(s, k).failures = s.failures /\ FetchStream(s, k).rebuilds = s.rebuilds
    BY <1>0 DEF FetchStream, EngineRecord
  <2> QED
    BY <2>1, <2>2, CountsKept
<1> QED
  BY <1>1, <1>2, <1>3, <1>4, <1>5, <1>6

LEMMA RefetchCounts ==
  ASSUME NEW s, CountsOK(s) PROVE CountsOK(Refetch(s))
<1>1. CASE s.dead \/ s.refetching
  BY <1>1 DEF Refetch
<1>2. CASE ~(s.dead \/ s.refetching)
  <2> DEFINE b == Failed(AbortFetch(s))
             f == [b EXCEPT !.refetching = TRUE, !.stall = FALSE,
                            !.mixed = b.mixed \/ s.ms # "open"]
  <2>1. CountsOK(b)
    BY FunctionsCount
  <2>2. Refetch(s) = IF f.failures > GiveUpAfter THEN [f EXCEPT !.giving = TRUE]
                     ELSE [f EXCEPT !.refetches = f.refetches + 1]
    BY <1>2 DEF Refetch
  <2> HIDE DEF b
  <2>3. f \in EngineRecord /\ f.failures = b.failures /\ f.rebuilds = b.rebuilds
    <3> DEFINE m == b.mixed \/ s.ms # "open"
    <3>1. m \in BOOLEAN
      OBVIOUS
    <3> HIDE DEF m
    <3> QED
      BY <2>1, <3>1 DEF CountsOK, EngineRecord
  <2>4. CountsOK(f)
    BY <2>1, <2>3, CountsKept
  <2> HIDE DEF f
  <2>5. CountsOK([f EXCEPT !.giving = TRUE])
    BY <2>4, CountsKept DEF CountsOK, EngineRecord
  <2>6. CountsOK([f EXCEPT !.refetches = f.refetches + 1])
    BY <2>4, CountsKept DEF CountsOK, EngineRecord
  <2> QED
    BY <2>2, <2>5, <2>6
<1> QED
  BY <1>1, <1>2

LEMMA HardReconnectCounts ==
  ASSUME NEW s, CountsOK(s), s.rebuilds < MaxRebuilds
  PROVE  CountsOK(HardReconnect(s))
<1>1. CASE s.dead
  BY <1>1 DEF HardReconnect
<1>2. CASE ~s.dead
  <2> DEFINE f == Failed(DestroyPlayer(AbortFetch(s)))
             m == f.mixed \/ s.refetches > 0 \/ s.rebuilds > 0
  <2>1. HardReconnect(s) = IF f.failures > GiveUpAfter THEN [f EXCEPT !.giving = TRUE]
                           ELSE [f EXCEPT !.rebuilds = f.rebuilds + 1, !.mixed = m]
    BY <1>2 DEF HardReconnect
  <2>2. CountsOK(f) /\ f.rebuilds = s.rebuilds
    BY FunctionsCount
  <2>3. m \in BOOLEAN
    OBVIOUS
  <2> HIDE DEF f, m
  <2>4. CountsOK([f EXCEPT !.giving = TRUE])
    BY <2>2, CountsKept DEF CountsOK, EngineRecord
  <2>5. CountsOK([f EXCEPT !.rebuilds = f.rebuilds + 1, !.mixed = m])
    <3> DEFINE q == [f EXCEPT !.mixed = m]
               r == [q EXCEPT !.rebuilds = f.rebuilds + 1]
    <3>0. q \in EngineRecord /\ q.failures = f.failures /\ f.rebuilds \in Int
      BY <2>2, <2>3 DEF CountsOK, EngineRecord
    <3>4. r = [f EXCEPT !.rebuilds = f.rebuilds + 1, !.mixed = m]
      BY <2>2 DEF CountsOK, EngineRecord
    <3> HIDE DEF q
    <3>1. r \in EngineRecord /\ r.failures = f.failures /\ r.rebuilds = f.rebuilds + 1
      BY <3>0 DEF EngineRecord
    <3>2. MaxRebuilds \in Nat /\ f.rebuilds \in 0 .. MaxRebuilds /\ f.rebuilds < MaxRebuilds
      BY <2>2, PlayerAssumption DEF CountsOK, Within
    <3> HIDE DEF r
    <3>3. CountsOK(r)
      BY <2>2, <3>1, <3>2 DEF CountsOK, Within
    <3> QED
      BY <3>3, <3>4
  <2> QED
    BY <2>1, <2>4, <2>5
<1> QED
  BY <1>1, <1>2

LEMMA StopCounts ==
  ASSUME NEW s, CountsOK(s) PROVE CountsOK(StopMse(s))
<1> DEFINE d == DestroyPlayer(AbortFetch(s))
<1>1. CountsOK(d) /\ StopMse(s) = [d EXCEPT !.dead = TRUE]
  BY FunctionsCount DEF StopMse
<1> HIDE DEF d
<1> QED
  BY <1>1, CountsKept DEF CountsOK, EngineRecord

(* A callback of engine e leaves counts that are within their limits.      *)
MovesTyped(e) == \E r : CountsOK(r) /\ Becomes(e, r)
OneFault == faults' \in 0 .. MaxFaults

LEMMA PumpCounts ==
  ASSUME PageCounts, NEW e, NEW s, NEW k, NEW c \in {None} \cup Conns, CountsOK(s), Pump(e, s, k, c)
  PROVE  MovesTyped(e) /\ OneFault
<1>1. OneFault
  BY PlayerAssumption DEF Pump, OneFault, Fault, PageCounts
<1>2. CASE Becomes(e, IF s.dead /\ c # None THEN Ended(s, c) ELSE s)
  <2>1. CountsOK(IF s.dead /\ c # None THEN Ended(s, c) ELSE s)
    BY FunctionsCount
  <2> QED
    BY <1>1, <1>2, <2>1 DEF MovesTyped
<1>3. CASE Becomes(e, [s EXCEPT !.failures = 0])
  <2> DEFINE r == [s EXCEPT !.failures = 0]
  <2>1. r \in EngineRecord /\ r.failures = 0 /\ r.rebuilds = s.rebuilds
    BY DEF CountsOK, EngineRecord
  <2>2. CountsOK(r)
    BY <2>1, PlayerAssumption DEF CountsOK, Within
  <2> HIDE DEF r
  <2> QED
    BY <1>1, <1>3, <2>2 DEF MovesTyped, r
<1>4. CASE s.rebuilds < MaxRebuilds /\ Becomes(e, HardReconnect(s))
  BY <1>1, <1>4, HardReconnectCounts DEF MovesTyped
<1> QED
  BY <1>2, <1>3, <1>4 DEF Pump

LEMMA StepCounts ==
  ASSUME PageCounts, NEW e \in Engines, EngineStep(e)
  PROVE  MovesTyped(e) /\ OneFault
<1> DEFINE s == engines[e]
<1>1. CountsOK(s) /\ s \in EngineRecord
  BY DEF PageCounts, CountsOK
<1>2. CASE SourceOpens(e)
  <2> DEFINE unused == {k \in Closures : \A c \in Conns : s.conns[c] # k}
             k == CHOOSE k \in unused : TRUE
             m == s.mixed \/ s.refetches > 0
             u == [s EXCEPT !.ms = "open", !.fn = k, !.sb[k] = "none", !.mixed = m]
  <2>1. CanFetch(s) /\ unused # {} /\ Becomes(e, FetchStream(u, k)) /\ UNCHANGED faults
    BY <1>2 DEF SourceOpens
  <2>2. k \in Closures /\ m \in BOOLEAN
    BY <2>1
  <2> HIDE DEF k, m
  <2>3. s.sb \in [Closures -> Buffers] /\ u.sb = [s.sb EXCEPT ![k] = "none"]
    BY <1>1 DEF EngineRecord
  <2>4. u.sb \in [Closures -> Buffers]
    BY <2>2, <2>3 DEF Buffers
  <2>5. u \in EngineRecord
    BY <1>1, <2>2, <2>4 DEF EngineRecord, Sources
  <2>6. u.failures = s.failures /\ u.rebuilds = s.rebuilds /\ u.conns = s.conns
    BY <1>1 DEF EngineRecord
  <2>7. Becomes(e, FetchStream(u, k))
    BY <2>1
  <2> HIDE DEF u
  <2>8. CountsOK(u) /\ CanFetch(u)
    BY <1>1, <2>1, <2>5, <2>6, CountsKept DEF CanFetch
  <2>9. CountsOK(FetchStream(u, k))
    BY <2>2, <2>8, FunctionsCount
  <2> QED
    BY <2>1, <2>7, <2>9 DEF MovesTyped, OneFault, PageCounts
<1>3. CASE BufferEvent(e)
  <2>1. PICK k \in Closures : Pump(e, engines[e], k, None)
    BY <1>3 DEF BufferEvent
  <2> QED
    BY <1>1, <2>1, PumpCounts
<1>4. ASSUME NEW c \in Conns, Chunk(e, c) PROVE MovesTyped(e) /\ OneFault
  <2> DEFINE k == s.conns[c]
             t == [s EXCEPT !.stall = TRUE]
  <2>1. k \in Closures
    BY <1>1, <1>4 DEF Chunk, EngineRecord
  <2>2. \/ Pump(e, [t EXCEPT !.sb[k] = "live"], k, c)
        \/ Becomes(e, [Ended(t, c) EXCEPT !.giving = TRUE]) /\ UNCHANGED faults
        \/ Pump(e, t, k, c)
    BY <1>4 DEF Chunk
  <2>3. t \in EngineRecord /\ t.failures = s.failures /\ t.rebuilds = s.rebuilds
    BY <1>1 DEF EngineRecord
  <2> HIDE DEF t
  <2>4. CountsOK(t)
    BY <1>1, <2>3, CountsKept
  <2>5. CASE Pump(e, [t EXCEPT !.sb[k] = "live"], k, c)
    <3> DEFINE r == [t EXCEPT !.sb[k] = "live"]
    <3>1. t.sb \in [Closures -> Buffers] /\ r.sb = [t.sb EXCEPT ![k] = "live"]
      BY <2>3 DEF EngineRecord
    <3>2. r.sb \in [Closures -> Buffers]
      BY <2>1, <3>1 DEF Buffers
    <3>3. r \in EngineRecord /\ r.failures = t.failures /\ r.rebuilds = t.rebuilds
      BY <2>3, <3>1, <3>2 DEF EngineRecord
    <3>4. Pump(e, r, k, c)
      BY <2>5
    <3> HIDE DEF r, k
    <3>5. CountsOK(r)
      BY <2>4, <3>3, CountsKept
    <3> QED
      BY <3>4, <3>5, PumpCounts
  <2>6. CASE Becomes(e, [Ended(t, c) EXCEPT !.giving = TRUE]) /\ UNCHANGED faults
    <3> DEFINE u == Ended(t, c)
    <3>1. CountsOK(u) /\ Becomes(e, [u EXCEPT !.giving = TRUE])
      BY <2>4, <2>6, FunctionsCount
    <3> HIDE DEF u
    <3>2. CountsOK([u EXCEPT !.giving = TRUE])
      BY <3>1, CountsKept DEF CountsOK, EngineRecord
    <3> QED
      BY <2>6, <3>1, <3>2 DEF MovesTyped, OneFault, PageCounts
  <2>7. CASE Pump(e, t, k, c)
    BY <2>4, <2>7, PumpCounts
  <2> QED
    BY <2>2, <2>5, <2>6, <2>7
<1>5. CASE StallFires(e)
  <2> DEFINE t == [s EXCEPT !.stall = FALSE]
  <2>1. Becomes(e, Refetch(t)) /\ UNCHANGED faults
    BY <1>5 DEF StallFires
  <2>2. t \in EngineRecord /\ t.failures = s.failures /\ t.rebuilds = s.rebuilds
    BY <1>1 DEF EngineRecord
  <2> HIDE DEF t
  <2>3. CountsOK(Refetch(t))
    BY <1>1, <2>2, CountsKept, RefetchCounts
  <2> QED
    BY <2>1, <2>3 DEF MovesTyped, OneFault, PageCounts
<1>6. CASE WatchdogFires(e)
  <2>1. s.rebuilds < MaxRebuilds /\ Becomes(e, HardReconnect(s)) /\ Fault
    BY <1>6 DEF WatchdogFires
  <2>2. OneFault
    BY <2>1, PlayerAssumption DEF OneFault, Fault, PageCounts
  <2> QED
    BY <1>1, <2>1, <2>2, HardReconnectCounts DEF MovesTyped
<1>7. CASE RefetchFires(e)
  <2> DEFINE t == [s EXCEPT !.refetches = s.refetches - 1, !.refetching = FALSE]
  <2>1. /\ CanFetch(t) /\ UNCHANGED faults
        /\ Becomes(e, IF ~t.dead /\ t.fn # None THEN FetchStream(t, t.fn) ELSE t)
    BY <1>7 DEF RefetchFires
  <2>2. t \in EngineRecord /\ t.failures = s.failures /\ t.rebuilds = s.rebuilds
    <3> DEFINE q == [s EXCEPT !.refetches = s.refetches - 1]
    <3>1. q \in EngineRecord /\ q.failures = s.failures /\ q.rebuilds = s.rebuilds
      BY <1>1 DEF EngineRecord
    <3>2. t = [q EXCEPT !.refetching = FALSE]
      BY <1>1 DEF EngineRecord
    <3> HIDE DEF q, t
    <3> QED
      BY <3>1, <3>2 DEF EngineRecord
  <2> HIDE DEF t
  <2>3. CountsOK(t) /\ t.fn \in {None} \cup Closures
    BY <1>1, <2>2, CountsKept DEF EngineRecord
  <2>4. CountsOK(IF ~t.dead /\ t.fn # None THEN FetchStream(t, t.fn) ELSE t)
    BY <2>1, <2>3, FunctionsCount
  <2> QED
    BY <2>1, <2>4 DEF MovesTyped, OneFault, PageCounts
<1>8. CASE RebuildFires(e)
  <2> DEFINE t == [s EXCEPT !.rebuilds = s.rebuilds - 1]
  <2>1. /\ s.rebuilds > 0 /\ Becomes(e, IF t.dead THEN t ELSE BuildPlayer(t))
        /\ UNCHANGED faults
    BY <1>8 DEF RebuildFires
  <2>2. t \in EngineRecord /\ t.failures = s.failures /\ t.rebuilds = s.rebuilds - 1
    BY <1>1 DEF EngineRecord
  <2> HIDE DEF t
  <2>3. CountsOK(t)
    BY <1>1, <2>1, <2>2, PlayerAssumption DEF CountsOK, Within
  <2>4. CountsOK(IF t.dead THEN t ELSE BuildPlayer(t))
    BY <2>3, FunctionsCount
  <2> QED
    BY <2>1, <2>4 DEF MovesTyped, OneFault, PageCounts
<1>9. ASSUME NEW c \in Conns, ConnFails(e, c) PROVE MovesTyped(e) /\ OneFault
  <2>1. Fault /\ Becomes(e, Refetch(Ended(s, c)))
    BY <1>9 DEF ConnFails
  <2>2. OneFault
    BY <2>1, PlayerAssumption DEF OneFault, Fault, PageCounts
  <2>3. CountsOK(Refetch(Ended(s, c)))
    BY <1>1, FunctionsCount, RefetchCounts
  <2> QED
    BY <2>1, <2>2, <2>3 DEF MovesTyped
<1> QED
  BY <1>2, <1>3, <1>4, <1>5, <1>6, <1>7, <1>8, <1>9 DEF EngineStep

LEMMA StoppedCounts ==
  ASSUME PageCounts, DOMAIN engines = Engines
  PROVE  DOMAIN Stopped = Engines /\ \A e \in Engines : CountsOK(Stopped[e])
BY StopCounts DEF Stopped, PageCounts

LEMMA NewCounts == CountsOK(NewEngine) /\ CountsOK(BuildPlayer(NewEngine))
<1>1. CountsOK(NewEngine)
  BY BlankEngine, PlayerAssumption DEF CountsOK, Within, NewEngine
<1> QED
  BY <1>1, FunctionsCount

LEMMA MakesCounts ==
  ASSUME NEW es, Makes(es), DOMAIN es = Engines, \A e \in Engines : CountsOK(es[e])
  PROVE  \A e \in Engines : CountsOK(engines'[e])
BY NewCounts DEF Makes

LEMMA PageNextCounts == PlayerInv /\ PageCounts /\ [PlayerNext]_playerVars => PageCounts'
<1> SUFFICES ASSUME PlayerInv, PageCounts, [PlayerNext]_playerVars PROVE PageCounts'
  OBVIOUS
<1>0. DOMAIN engines = Engines /\ made \in 0 .. MaxEngines /\ MaxEngines \in Nat
      /\ MaxWaiting \in Nat
  BY PlayerAssumption DEF PlayerInv, PageOK
<1>1. ASSUME NEW e \in 1 .. made, EngineStep(e) PROVE PageCounts'
  <2>1. e \in Engines
    BY <1>0 DEF Engines
  <2>2. PICK r : CountsOK(r) /\ Becomes(e, r)
    BY <1>1, <2>1, StepCounts DEF MovesTyped
  <2> DEFINE t == [r EXCEPT !.giving = FALSE, !.gaveUp = r.gaveUp \/ r.giving]
  <2>3. /\ engines' = [engines EXCEPT ![e] = t] /\ UNCHANGED <<plays, starting>>
    BY <2>2 DEF Becomes
  <2>4. t \in EngineRecord /\ t.failures = r.failures /\ t.rebuilds = r.rebuilds
    BY <2>2 DEF CountsOK, EngineRecord
  <2> HIDE DEF t
  <2>5. CountsOK(t)
    BY <2>2, <2>4, CountsKept
  <2>6. \A f \in Engines : CountsOK(engines'[f])
    BY <1>0, <2>1, <2>3, <2>5 DEF PageCounts
  <2>7. OneFault
    BY <1>1, <2>1, StepCounts
  <2> QED
    BY <2>3, <2>6, <2>7 DEF PageCounts, OneFault
<1>2. CASE StartLive
  <2>1. \A e \in Engines : CountsOK(engines'[e])
    BY <1>0, <1>2, StoppedCounts, MakesCounts DEF StartLive
  <2> QED
    BY <1>0, <1>2, <2>1 DEF StartLive, PageCounts
<1>3. CASE StartResumes
  <2>1. \A e \in Engines : CountsOK(engines'[e])
    BY <1>0, <1>3, MakesCounts DEF StartResumes, PageCounts
  <2> QED
    BY <1>0, <1>3, <2>1 DEF StartResumes, PageCounts
<1>4. CASE SettingsLoad
  BY <1>4 DEF SettingsLoad, PageCounts
<1>5. CASE StopLive
  BY <1>0, <1>5, StoppedCounts DEF StopLive, PageCounts
<1>6. CASE UNCHANGED playerVars
  BY <1>6 DEF playerVars, PageCounts
<1> QED
  BY <1>1, <1>2, <1>3, <1>4, <1>5, <1>6 DEF PlayerNext

LEMMA PageInitCounts == PlayerInit => PageCounts
BY NewCounts, PlayerAssumption DEF PlayerInit, PageCounts

LEMMA PlayerTyped == PlayerInv /\ PageCounts => PlayerTypeOK
<1> SUFFICES ASSUME PlayerInv, PageCounts PROVE PlayerTypeOK
  OBVIOUS
<1>1. /\ made \in 0 .. MaxEngines /\ shown \in {None} \cup 1 .. Mjpeg
      /\ DOMAIN engines = Engines
  BY PlayerAssumption DEF PlayerInv, PageOK, Mjpeg, None
<1>2. ASSUME NEW e \in Engines
      PROVE  LET s == engines[e] IN
             /\ s.failures \in 0 .. GiveUpAfter + 1 /\ s.refetches \in 0 .. 1
             /\ s.rebuilds \in 0 .. MaxRebuilds
             /\ s.fn \in {None} \cup Closures /\ s.abort \in {None} \cup Conns /\ ~s.giving
  <2>1. CountsOK(engines[e])
    BY DEF PageCounts
  <2>2. CASE e <= made
    BY <2>1, <2>2 DEF PlayerInv, PageOK, Engine, Base, RefetchDue, CountsOK, Within, EngineRecord
  <2>3. CASE ~(e <= made)
    <3>1. engines[e] = NewEngine
      BY <2>3 DEF PlayerInv, PageOK
    <3> QED
      BY <2>1, <3>1 DEF NewEngine, CountsOK, Within, None
  <2> QED
    BY <2>2, <2>3
<1> QED
  BY <1>1, <1>2 DEF PlayerTypeOK, PageCounts

-----------------------------------------------------------------------------
(***************************************************************************)
(* DetectionsSound for every input size, picture and output of the network.*)
(***************************************************************************)

-----------------------------------------------------------------------------
(* The numbering of the grid.                                              *)

Levels(f) == 1 .. Len(Strides(f))

\* below is the recursion of Offset.
Below(below, f) ==
  below = [i \in 1 .. Len(Strides(f)) + 1 |->
             IF i = 1 THEN 0 ELSE below[i - 1] + Size(f, i - 1) * Size(f, i - 1)]

\* A family has three or four levels, each with a stride of its own.
LEMMA StridesAre ==
  ASSUME NEW f \in Families
  PROVE  /\ Len(Strides(f)) \in {3, 4} /\ DOMAIN Strides(f) = Levels(f)
         /\ \A i \in Levels(f) : Strides(f)[i] \in Nat \ {0}
         /\ \A i, j \in Levels(f) : Strides(f)[i] = Strides(f)[j] => i = j
<1>1. CASE f = "NanoDet"
  <2>1. Strides(f) = <<8, 16, 32, 64>>
    BY <1>1 DEF Strides
  <2> QED
    BY <2>1 DEF Levels
<1>2. CASE f # "NanoDet"
  <2>1. Strides(f) = <<8, 16, 32>>
    BY <1>2 DEF Strides
  <2> QED
    BY <2>1 DEF Levels
<1> QED
  BY <1>1, <1>2

\* A level has a natural number of cells in a row.
LEMMA SizeIs ==
  ASSUME NEW f \in Families, NEW level \in Levels(f)
  PROVE  Size(f, level) \in Nat
<1>1. Strides(f)[level] \in Nat \ {0} /\ Input \in Nat \ {0}
  BY StridesAre, DetectionAssumption
<1> DEFINE d == Strides(f)[level]
<1> HIDE DEF d
<1>2. d \in Nat \ {0} /\ Input + d - 1 \in Nat
  BY <1>1 DEF d
<1>3. (Input + d - 1) \div d \in Nat /\ Input \div d \in Nat
  BY <1>1, <1>2, Division
<1> QED
  BY <1>3 DEF Size, d

\* There is a function that follows the recursion of Offset.
LEMMA BelowExists == ASSUME NEW f \in Families PROVE \E below : Below(below, f)
<1> DEFINE a == Size(f, 1) * Size(f, 1)
           b == Size(f, 2) * Size(f, 2)
           c == Size(f, 3) * Size(f, 3)
           d == Size(f, 4) * Size(f, 4)
           n == Len(Strides(f)) + 1
           below == [i \in 1 .. n |->
                       IF i = 1 THEN 0 ELSE IF i = 2 THEN 0 + a ELSE IF i = 3 THEN (0 + a) + b
                       ELSE IF i = 4 THEN ((0 + a) + b) + c ELSE (((0 + a) + b) + c) + d]
<1>0. Len(Strides(f)) = 3 \/ Len(Strides(f)) = 4
  BY StridesAre
<1>1. n \in {4, 5} /\ n = Len(Strides(f)) + 1
  <2>1. \A m : m = 3 \/ m = 4 => m + 1 = 4 \/ m + 1 = 5
    OBVIOUS
  <2>2. Len(Strides(f)) + 1 = 4 \/ Len(Strides(f)) + 1 = 5
    BY ONLY <1>0, <2>1
  <2> QED
    BY ONLY <2>2
<1> HIDE DEF n
<1>2. ASSUME NEW i \in 1 .. n
      PROVE  below[i] = IF i = 1 THEN 0 ELSE below[i - 1] + Size(f, i - 1) * Size(f, i - 1)
  <2>1. i = 1 \/ i = 2 \/ i = 3 \/ i = 4 \/ i = 5
    BY <1>1
  <2>2. CASE i = 1
    BY <2>2
  <2>3. CASE i = 2
    <3>1. below[2] = 0 + a /\ below[1] = 0
      BY <1>1
    <3> HIDE DEF below
    <3> QED
      BY <2>3, <3>1
  <2>4. CASE i = 3
    <3>1. below[3] = (0 + a) + b /\ below[2] = 0 + a
      BY <1>1
    <3> HIDE DEF below
    <3> QED
      BY <2>4, <3>1
  <2>5. CASE i = 4
    <3>1. below[4] = ((0 + a) + b) + c /\ below[3] = (0 + a) + b
      BY <1>1
    <3> HIDE DEF below
    <3> QED
      BY <2>5, <3>1
  <2>6. CASE i = 5
    <3>1. below[5] = (((0 + a) + b) + c) + d /\ below[4] = ((0 + a) + b) + c
      BY <1>1, <2>6
    <3> HIDE DEF below
    <3> QED
      BY <2>6, <3>1
  <2> QED
    BY <2>1, <2>2, <2>3, <2>4, <2>5, <2>6
<1>3. below = [i \in 1 .. n |-> below[i]]
  OBVIOUS
<1> HIDE DEF below
<1>4. below = [i \in 1 .. n |->
                 IF i = 1 THEN 0 ELSE below[i - 1] + Size(f, i - 1) * Size(f, i - 1)]
  BY <1>2, <1>3
<1> QED
  BY <1>1, <1>4 DEF Below

\* The offsets grow by the cells of a level.
LEMMA OffsetIs ==
  ASSUME NEW f \in Families
  PROVE  /\ Offset(f, 1) = 0
         /\ \A i \in Levels(f) : Offset(f, i + 1) = Offset(f, i) + Size(f, i) * Size(f, i)
         /\ \A i \in Levels(f) : Offset(f, i) \in Nat /\ Offset(f, i + 1) \in Nat
<1> DEFINE g == CHOOSE below : Below(below, f)
           n == Len(Strides(f))
<1>1. Below(g, f)
  BY BelowExists
<1>2. \A i : Offset(f, i) = g[i]
  BY DEF Offset, Below
<1>3. n \in {3, 4}
  BY StridesAre
<1> HIDE DEF g
<1>4. g[1] = 0 /\ \A i \in 1 .. n : g[i + 1] = g[i] + Size(f, i) * Size(f, i)
  <2>1. g = [i \in 1 .. n + 1 |->
               IF i = 1 THEN 0 ELSE g[i - 1] + Size(f, i - 1) * Size(f, i - 1)]
    BY <1>1 DEF Below
  <2> HIDE DEF n
  <2>2. 1 \in 1 .. n + 1 /\ \A i \in 1 .. n : i + 1 \in 1 .. n + 1 /\ i + 1 # 1 /\ (i + 1) - 1 = i
    BY <1>3
  <2>3. g[1] = 0
    BY <2>1, <2>2
  <2>4. ASSUME NEW i \in 1 .. n PROVE g[i + 1] = g[i] + Size(f, i) * Size(f, i)
    <3>1. i + 1 \in 1 .. n + 1 /\ i + 1 # 1 /\ (i + 1) - 1 = i
      BY <2>2
    <3>2. g[i + 1] = IF i + 1 = 1 THEN 0
                     ELSE g[(i + 1) - 1] + Size(f, (i + 1) - 1) * Size(f, (i + 1) - 1)
      BY <2>1, <3>1
    <3> QED
      BY <3>1, <3>2
  <2> QED
    BY <2>3, <2>4
<1>5. \A i \in 1 .. n : Size(f, i) * Size(f, i) \in Nat
  BY SizeIs, ProductNat DEF Levels
<1> DEFINE P == {i \in 0 .. n : g[i + 1] \in Nat}
<1>6. \A i \in 0 .. n : i \in P
  <2>1. 0 \in P
    BY <1>3, <1>4
  <2>2. ASSUME NEW i \in 1 .. n, i - 1 \in P PROVE i \in P
    <3>1. g[i] \in Nat
      <4>1. (i - 1) + 1 = i
        OBVIOUS
      <4> QED
        BY <2>2, <4>1
    <3> QED
      BY <1>4, <1>5, <3>1
  <2>3. n \in Nat
    BY <1>3
  <2> HIDE DEF P, n
  <2> QED
    BY <2>1, <2>2, <2>3, UpTo
<1>7. \A i \in 1 .. n : g[i] \in Nat /\ g[i + 1] \in Nat
  <2> SUFFICES ASSUME NEW i \in 1 .. n PROVE g[i] \in Nat /\ g[i + 1] \in Nat
    OBVIOUS
  <2>1. i \in 0 .. n /\ i - 1 \in 0 .. n /\ (i - 1) + 1 = i
    BY <1>3
  <2>2. i \in P /\ i - 1 \in P
    BY <1>6, <2>1
  <2> QED
    BY <2>1, <2>2
<1> HIDE DEF P
<1> QED
  BY <1>2, <1>4, <1>7 DEF Levels

\* A level begins no earlier than the ones before it end, and none ends
\* behind the last point.
LEMMA OffsetsRise ==
  ASSUME NEW f \in Families, NEW i \in Levels(f)
  PROVE  /\ Offset(f, i) <= Offset(f, i + 1) /\ Offset(f, i + 1) <= NumPoints(f)
         /\ \A j \in Levels(f) : i < j => Offset(f, i + 1) <= Offset(f, j)
         /\ NumPoints(f) \in Nat
<1> DEFINE n == Len(Strides(f))
           o == [k \in 1 .. 5 |-> Offset(f, k)]
<1>1. n = 3 \/ n = 4
  BY StridesAre
<1>2. \A k \in 1 .. n : /\ Offset(f, k + 1) = Offset(f, k) + Size(f, k) * Size(f, k)
                        /\ Size(f, k) * Size(f, k) \in Nat
                        /\ Offset(f, k) \in Nat /\ Offset(f, k + 1) \in Nat
  BY OffsetIs, SizeIs, ProductNat DEF Levels
<1>4. NumPoints(f) = Offset(f, n + 1)
  BY DEF NumPoints
<1> HIDE DEF n
<1>5. \A k \in 1 .. n : o[k] = Offset(f, k) /\ o[k + 1] = Offset(f, k + 1)
  <2> SUFFICES ASSUME NEW k \in 1 .. n
               PROVE  o[k] = Offset(f, k) /\ o[k + 1] = Offset(f, k + 1)
    OBVIOUS
  <2>1. k \in 1 .. 5 /\ k + 1 \in 1 .. 5
    BY <1>1
  <2> QED
    BY <2>1
<1>10. NumPoints(f) = o[n + 1]
  <2>1. n \in 1 .. n
    BY <1>1
  <2> HIDE DEF o
  <2> QED
    BY <1>4, <1>5, <2>1
<1> HIDE DEF o
<1>3. \A k \in 1 .. n : o[k + 1] >= o[k] /\ o[k] \in Nat /\ o[k + 1] \in Nat
  <2>1. \A a, b, c \in Nat : b = a + c => b >= a
    OBVIOUS
  <2> SUFFICES ASSUME NEW k \in 1 .. n
               PROVE  o[k + 1] >= o[k] /\ o[k] \in Nat /\ o[k + 1] \in Nat
    OBVIOUS
  <2> DEFINE c == Size(f, k) * Size(f, k)
  <2>2. o[k + 1] = o[k] + c /\ c \in Nat /\ o[k] \in Nat /\ o[k + 1] \in Nat
    BY <1>2, <1>5
  <2> HIDE DEF c
  <2> QED
    BY <2>1, <2>2
<1>6. i \in 1 .. n /\ Levels(f) = 1 .. n
  BY DEF Levels, n
<1>7. o[1] <= o[2] /\ o[2] <= o[3] /\ o[3] <= o[4] /\ (n = 4 => o[4] <= o[5] /\ o[5] \in Nat)
      /\ o[1] \in Nat /\ o[2] \in Nat /\ o[3] \in Nat /\ o[4] \in Nat
  <2>1. 1 \in 1 .. n /\ 2 \in 1 .. n /\ 3 \in 1 .. n /\ (n = 4 => 4 \in 1 .. n)
    BY <1>1
  <2>2. 1 + 1 = 2 /\ 2 + 1 = 3 /\ 3 + 1 = 4 /\ 4 + 1 = 5
    OBVIOUS
  <2> QED
    BY <1>3, <2>1, <2>2
<1>8. o[i] <= o[i + 1] /\ o[i + 1] <= o[n + 1] /\ o[n + 1] \in Nat
  <2>1. i = 1 \/ i = 2 \/ i = 3 \/ (i = 4 /\ n = 4)
    BY <1>1, <1>6
  <2> QED
    BY <1>1, <1>7, <2>1
<1>9. ASSUME NEW j \in 1 .. n, i < j PROVE o[i + 1] <= o[j]
  <2>1. \/ (i = 1 /\ (j = 2 \/ j = 3 \/ (j = 4 /\ n = 4)))
        \/ (i = 2 /\ (j = 3 \/ (j = 4 /\ n = 4)))
        \/ (i = 3 /\ j = 4 /\ n = 4)
    BY <1>1, <1>6, <1>9
  <2> QED
    BY <1>1, <1>7, <1>9, <2>1
<1> QED
  BY <1>10, <1>5, <1>6, <1>8, <1>9

\* A point between the offsets of a level and the next one is of that level.
LEMMA LevelIs ==
  ASSUME NEW f \in Families, NEW i \in Levels(f), NEW p \in Nat,
         Offset(f, i) <= p, p < Offset(f, i + 1)
  PROVE  Level(f, p) = i
<1> DEFINE T == {k \in DOMAIN Strides(f) : Offset(f, k) <= p}
<1>1. DOMAIN Strides(f) = Levels(f) /\ Len(Strides(f)) \in {3, 4}
  BY StridesAre
<1>2. i \in T
  BY <1>1
<1>3. T \in SUBSET (0 .. 4)
  BY <1>1 DEF Levels
<1>4. \A k \in T : k <= i
  <2> SUFFICES ASSUME NEW k \in Levels(f), Offset(f, k) <= p, k > i PROVE FALSE
    BY <1>1 DEF Levels
  <2>1. Offset(f, i + 1) <= Offset(f, k)
    <3>1. i < k
      BY DEF Levels
    <3> QED
      BY <3>1, OffsetsRise
  <2>2. Offset(f, i + 1) \in Nat /\ Offset(f, k) \in Nat
    BY OffsetIs
  <2> QED
    BY <2>1, <2>2
<1> HIDE DEF T
<1>5. Max(T) \in T /\ \A t \in T : t <= Max(T)
  BY <1>2, <1>3, MaxOf
<1>6. Max(T) = i
  <2>2. Max(T) <= i /\ i <= Max(T)
    BY <1>2, <1>4, <1>5
  <2>3. \A t \in T : t \in Int
    BY <1>3
  <2>1. Max(T) <= i /\ i <= Max(T) /\ Max(T) \in Int /\ i \in Int
    BY <1>2, <1>5, <2>2, <2>3
  <2> QED
    BY <2>1
<1> QED
  BY <1>6 DEF Level, T

\* Every point is of some level.
LEMMA PointHasLevel ==
  ASSUME NEW f \in Families, NEW p \in 0 .. NumPoints(f) - 1
  PROVE  \E i \in Levels(f) : Offset(f, i) <= p /\ p < Offset(f, i + 1)
<1> DEFINE n == Len(Strides(f))
<1>1. n = 3 \/ n = 4
  BY StridesAre
<1>2. Levels(f) = 1 .. n /\ NumPoints(f) = Offset(f, n + 1)
  BY DEF Levels, NumPoints
<1> HIDE DEF n
<1>3. \A i \in 1 .. n : Offset(f, i) \in Nat /\ Offset(f, i + 1) \in Nat
  BY <1>2, OffsetIs
<1>4. Offset(f, 1) = 0
  BY OffsetIs
<1>5. SUFFICES ASSUME \A i \in 1 .. n : Offset(f, i) <= p => Offset(f, i + 1) <= p
               PROVE  FALSE
  BY <1>1, <1>2, <1>3
<1> DEFINE P == {i \in 0 .. n : Offset(f, i + 1) <= p}
<1>6. 0 \in P
  BY <1>1, <1>4
<1>7. ASSUME NEW i \in 1 .. n, i - 1 \in P PROVE i \in P
  <2>1. (i - 1) + 1 = i
    OBVIOUS
  <2> QED
    BY <1>5, <1>7, <2>1
<1>8. n \in P
  <2>1. n \in Nat
    BY <1>1
  <2> HIDE DEF P
  <2> QED
    BY <1>6, <1>7, <2>1, UpTo
<1>9. n \in 1 .. n
  BY <1>1
<1> QED
  BY <1>2, <1>3, <1>8, <1>9

\* A cell is named by one point of the grid.
LEMMA CellIs ==
  ASSUME NEW f \in Families, NEW i \in Levels(f),
         NEW x \in 0 .. Size(f, i) - 1, NEW y \in 0 .. Size(f, i) - 1
  PROVE  \E q \in 0 .. NumPoints(f) - 1 :
           \A p \in 0 .. NumPoints(f) - 1 :
             (Grid[f][p] = [stride |-> Strides(f)[i], x |-> x, y |-> y]) <=> p = q
<1> DEFINE s == Size(f, i)
           o == Offset(f, i)
           q == o + (y * s + x)
           Cell(p) == Grid[f][p]
<1>1. s \in Nat \ {0} /\ o \in Nat /\ Offset(f, i + 1) = o + s * s /\ Offset(f, i + 1) \in Nat
  BY SizeIs, OffsetIs
<1>2. y * s + x \in 0 .. (s * s) - 1 /\ s * s \in Nat
  BY <1>1, RowInside, ProductNat
<1>3. q \in Nat /\ o <= q /\ q < Offset(f, i + 1) /\ q - o = y * s + x
  <2> DEFINE z == y * s + x
             ss == s * s
  <2>1. z \in 0 .. ss - 1 /\ ss \in Nat /\ Offset(f, i + 1) = o + ss /\ q = o + z
    BY <1>1, <1>2
  <2> HIDE DEF z, ss
  <2>2. o + z \in Nat /\ o <= o + z /\ o + z < o + ss /\ (o + z) - o = z
    BY <1>1, <2>1
  <2> QED
    BY <2>1, <2>2 DEF z
<1>4. q \in 0 .. NumPoints(f) - 1
  <2>1. Offset(f, i + 1) <= NumPoints(f) /\ NumPoints(f) \in Nat
    BY OffsetsRise
  <2> HIDE DEF q
  <2> QED
    BY <1>1, <1>3, <2>1
<1>5. \A p \in 0 .. NumPoints(f) - 1 :
        Cell(p) = [stride |-> Strides(f)[Level(f, p)],
                   x |-> (p - Offset(f, Level(f, p))) % Size(f, Level(f, p)),
                   y |-> (p - Offset(f, Level(f, p))) \div Size(f, Level(f, p))]
  BY DEF Grid
<1> HIDE DEF Cell
<1>6. Level(f, q) = i
  <2> HIDE DEF q
  <2> QED
    BY <1>3, LevelIs
<1>7. Cell(q) = [stride |-> Strides(f)[i], x |-> x, y |-> y]
  <2>1. (q - o) % s = x /\ (q - o) \div s = y
    <3>1. (y * s + x) % s = x /\ (y * s + x) \div s = y
      BY <1>1, RowAndColumn
    <3> HIDE DEF q
    <3> QED
      BY <1>3, <3>1
  <2> HIDE DEF q
  <2> QED
    BY <1>4, <1>5, <1>6, <2>1
<1> HIDE DEF q
<1>8. ASSUME NEW p \in 0 .. NumPoints(f) - 1,
             Cell(p) = [stride |-> Strides(f)[i], x |-> x, y |-> y]
      PROVE  p = q
  <2>1. PICK j \in Levels(f) : Offset(f, j) <= p /\ p < Offset(f, j + 1)
    BY PointHasLevel
  <2>2. p \in Nat
    OBVIOUS
  <2>3. Level(f, p) = j
    BY <2>1, <2>2, LevelIs
  <2>4. Cell(p).stride = Strides(f)[j] /\ Cell(p).x = (p - Offset(f, j)) % Size(f, j)
        /\ Cell(p).y = (p - Offset(f, j)) \div Size(f, j)
    BY <1>5, <2>3
  <2>5. i = j
    <3>1. Strides(f)[i] = Strides(f)[j]
      BY <1>8, <2>4
    <3> QED
      BY <3>1, StridesAre
  <2>6. (p - o) % s = x /\ (p - o) \div s = y
    BY <1>8, <2>4, <2>5
  <2> DEFINE t == p - o
  <2>7. t \in Nat
    BY <1>1, <2>1, <2>2, <2>5
  <2>8. t = (t % s) + (t \div s) * s
    <3> HIDE DEF t
    <3> QED
      BY <1>1, <2>7, Division
  <2>9. t = x + y * s
    BY <2>6, <2>8
  <2>10. p = t + o
    BY <1>1, <2>2
  <2>11. q - o = y * s + x /\ q \in Nat
    BY <1>3
  <2> DEFINE z == y * s
  <2>12. z \in Nat
    BY <1>1, ProductNat
  <2>13. t = x + z /\ q - o = z + x
    BY <2>9, <2>11
  <2> HIDE DEF t, z
  <2> QED
    BY <1>1, <2>7, <2>10, <2>11, <2>12, <2>13
<1> QED
  BY <1>4, <1>7, <1>8 DEF Cell


\* The points numbered with a cell of the grid are one.
LEMMA GridIsCovered ==
  ASSUME NEW f \in Families, NEW i \in DOMAIN Strides(f),
         NEW x \in 0 .. Size(f, i) - 1, NEW y \in 0 .. Size(f, i) - 1
  PROVE  Cardinality({p \in 0 .. NumPoints(f) - 1 :
           Grid[f][p] = [stride |-> Strides(f)[i], x |-> x, y |-> y]}) = 1
<1> DEFINE cell == [stride |-> Strides(f)[i], x |-> x, y |-> y]
           named == {p \in 0 .. NumPoints(f) - 1 : Grid[f][p] = cell}
<1>1. i \in Levels(f)
  BY StridesAre
<1>2. PICK q \in 0 .. NumPoints(f) - 1 :
        \A p \in 0 .. NumPoints(f) - 1 : Grid[f][p] = cell <=> p = q
  BY <1>1, CellIs
<1> HIDE DEF cell
<1>3. named = {q}
  BY <1>2
<1>4. Cardinality({q}) = 1
  BY FS_Singleton
<1> QED
  BY <1>3, <1>4 DEF cell

\* The indices a pixel is made from are in the planes they are for.
InPlanes(w, h, s) ==
  /\ s.y \in 0 .. w * h - 1
  /\ s.u \in w * h .. w * h + UvSize(w, h) - 1
  /\ s.v \in w * h + UvSize(w, h) .. Required(w, h) - 1

\* A plane of chroma has half the columns and half the rows.
LEMMA UvSizeIs ==
  ASSUME NEW cw \in Nat \ {0}, NEW ch \in Nat \ {0}
  PROVE  UvSize(2 * cw, 2 * ch) = cw * ch
<1> DEFINE c == cw * ch
           w == 2 * cw
           h == 2 * ch
<1>1. w \div 2 = cw
  <2>1. \A a \in Nat : (2 * a) \div 2 = a
    OBVIOUS
  <2> QED
    BY <2>1
<1>2. cw * h = c * 2 + 0 /\ c \in Nat
  BY ProductNat
<1> HIDE DEF c, h, w
<1>3. (c * 2 + 0) \div 2 = c
  BY <1>2, QuotientIs
<1>4. ((w \div 2) * h) \div 2 = c
  BY <1>1, <1>2, <1>3
<1> QED
  BY <1>4 DEF UvSize, c, h, w

\* A pixel of the picture is sampled from its three planes.
LEMMA SampledInPlanes ==
  ASSUME NEW cw \in Nat \ {0}, NEW ch \in Nat \ {0},
         NEW sx \in 0 .. 2 * cw - 1, NEW sy \in 0 .. 2 * ch - 1
  PROVE  InPlanes(2 * cw, 2 * ch, Sampled(2 * cw, 2 * ch, sx, sy))
<1> DEFINE w == 2 * cw
           h == 2 * ch
           c == cw * ch
           n == w * h
           k == ChromaIndex(w, sx, sy)
           l == sy * w + sx
<1>1. w \in Nat \ {0} /\ h \in Nat /\ w \div 2 = cw
  <2>1. \A a \in Nat \ {0} : 2 * a \in Nat \ {0} /\ (2 * a) \div 2 = a
    OBVIOUS
  <2> QED
    BY <2>1
<1>2. sx \div 2 \in 0 .. cw - 1 /\ sy \div 2 \in 0 .. ch - 1
  OBVIOUS
<1>3. UvSize(w, h) = c
  BY UvSizeIs
<1>4. sx \in 0 .. w - 1 /\ sy \in 0 .. h - 1
  OBVIOUS
<1> HIDE DEF w, h
<1>5. l \in 0 .. n - 1
  BY <1>1, <1>4, RowInside
<1>6. k \in 0 .. c - 1
  <2>1. (sy \div 2) * cw + sx \div 2 \in 0 .. (cw * ch) - 1
    BY <1>2, RowInside
  <2> QED
    BY <1>1, <2>1 DEF ChromaIndex
<1>7. n \in Nat /\ c \in Nat
  BY <1>1, ProductNat
<1>8. Required(w, h) = n + 2 * c
  BY <1>3 DEF Required
<1>9. Sampled(w, h, sx, sy) = [y |-> l, u |-> n + k, v |-> (n + c) + k]
  <2>1. n + c + k = (n + c) + k
    OBVIOUS
  <2> QED
    BY <1>3, <2>1 DEF Sampled
<1> HIDE DEF n, c, k, l
<1>10. /\ l \in 0 .. n - 1
       /\ n + k \in n .. n + c - 1
       /\ (n + c) + k \in n + c .. (n + 2 * c) - 1
  BY <1>5, <1>6, <1>7
<1>11. InPlanes(w, h, Sampled(w, h, sx, sy))
  <2>1. InPlanes(w, h, [y |-> l, u |-> n + k, v |-> (n + c) + k])
    BY <1>3, <1>8, <1>10 DEF InPlanes, n
  <2> QED
    BY <1>9, <2>1
<1> QED
  BY <1>11 DEF w, h

OfPixel(w, h, bytes) ==
  \E sx \in 0 .. w - 1, sy \in 0 .. h - 1 : bytes = Sampled(w, h, sx, sy)

\* Both families make a pixel of the input from a pixel of the picture.
LEMMA PixelOfPicture ==
  ASSUME NEW f \in Families, NEW w \in Nat \ {0}, NEW h \in Nat \ {0},
         NEW dx \in 0 .. Input - 1, NEW dy \in 0 .. Input - 1
  PROVE  OfPixel(w, h, BytesOf(f, w, h, dx, dy))
<1>1. Input \in Nat \ {0}
  BY DetectionAssumption
<1>2. CASE f = "NanoDet"
  <2>1. (dx * w) \div Input \in 0 .. w - 1 /\ (dy * h) \div Input \in 0 .. h - 1
    BY <1>1, PartInside
  <2>2. BytesOf(f, w, h, dx, dy) = Sampled(w, h, (dx * w) \div Input, (dy * h) \div Input)
    BY <1>2 DEF BytesOf, PreprocessPixel
  <2> QED
    BY <2>1, <2>2 DEF OfPixel
<1>3. CASE f # "NanoDet"
  <2> DEFINE long == Larger(w, h)
  <2>1. long \in Nat \ {0} /\ long >= w /\ long >= h
    BY DEF Larger
  <2> HIDE DEF long
  <2> DEFINE a == (dx * long) \div Input
             b == (dy * long) \div Input
  <2>2. a \in 0 .. long - 1 /\ b \in 0 .. long - 1
    BY <1>1, <2>1, PartInside
  <2>3. BytesOf(f, w, h, dx, dy) = Sampled(w, h, Smaller(a, w - 1), Smaller(b, h - 1))
    BY <1>3 DEF BytesOf, LetterboxPixel, long
  <2> HIDE DEF a, b
  <2>4. Smaller(a, w - 1) \in 0 .. w - 1 /\ Smaller(b, h - 1) \in 0 .. h - 1
    BY <2>1, <2>2 DEF Smaller
  <2> QED
    BY <2>3, <2>4 DEF OfPixel
<1> QED
  BY <1>2, <1>3

\* The luma of a pixel is in its plane; with even sides the chroma is too.
LEMMA PixelsInPlanes ==
  ASSUME NEW f \in Families, NEW w \in Nat \ {0}, NEW h \in Nat \ {0},
         NEW dx \in 0 .. Input - 1, NEW dy \in 0 .. Input - 1
  PROVE  /\ BytesOf(f, w, h, dx, dy).y \in 0 .. w * h - 1
         /\ w % 2 = 0 /\ h % 2 = 0 => InPlanes(w, h, BytesOf(f, w, h, dx, dy))
<1>1. PICK sx \in 0 .. w - 1, sy \in 0 .. h - 1 :
        BytesOf(f, w, h, dx, dy) = Sampled(w, h, sx, sy)
  <2>1. OfPixel(w, h, BytesOf(f, w, h, dx, dy))
    BY PixelOfPicture
  <2> QED
    BY <2>1 DEF OfPixel
<1>2. Sampled(w, h, sx, sy).y \in 0 .. w * h - 1
  <2>1. sy * w + sx \in 0 .. (w * h) - 1
    BY RowInside
  <2> QED
    BY <2>1 DEF Sampled
<1>3. ASSUME w % 2 = 0, h % 2 = 0 PROVE InPlanes(w, h, Sampled(w, h, sx, sy))
  <2>1. \A a \in Nat \ {0} : a % 2 = 0 => a \div 2 \in Nat \ {0} /\ a = 2 * (a \div 2)
    OBVIOUS
  <2>2. PICK cw \in Nat \ {0} : w = 2 * cw
    BY <1>3, <2>1
  <2>3. PICK ch \in Nat \ {0} : h = 2 * ch
    BY <1>3, <2>1
  <2> QED
    BY <2>2, <2>3, SampledInPlanes
<1> QED
  BY <1>1, <1>2, <1>3

\* A frame's sides are positive.
LEMMA SidesAre ==
  ASSUME NEW d \in Frames
  PROVE  d[1] \in Nat \ {0} /\ d[2] \in Nat \ {0} /\ d[3] \in Nat
BY DetectionAssumption

\* A frame behind whose last byte is read has an odd side.
LEMMA OverrunIsOdd ==
  ASSUME NEW f \in Families, NEW d \in Frames, <<f, d>> \in Overruns
  PROVE  ~(d[1] % 2 = 0 /\ d[2] % 2 = 0)
<1> DEFINE w == d[1]
           h == d[2]
<1>1. w \in Nat \ {0} /\ h \in Nat \ {0} /\ d[3] \in Nat
  BY SidesAre
<1>2. PICK dx \in 0 .. Input - 1, dy \in 0 .. Input - 1 : BytesOf(f, w, h, dx, dy).v >= d[3]
  <2>1. ReadsBehind(f, d)
    BY DEF Overruns
  <2> QED
    BY <2>1 DEF ReadsBehind
<1>3. d[3] >= Required(w, h)
  <2>1. LongEnough(d)
    BY DEF Overruns
  <2> QED
    BY <2>1 DEF LongEnough
<1> HIDE DEF w, h
<1> DEFINE v == BytesOf(f, w, h, dx, dy).v
<1>4. SUFFICES ASSUME w % 2 = 0, h % 2 = 0 PROVE FALSE
  BY DEF w, h
<1>5. v \in w * h + UvSize(w, h) .. Required(w, h) - 1
  BY <1>1, <1>4, PixelsInPlanes DEF InPlanes
<1>6. UvSize(w, h) \in Nat /\ w * h \in Nat
  <2>1. w \div 2 \in Nat
    BY <1>1
  <2> DEFINE m == (w \div 2) * h
  <2>2. m \in Nat /\ w * h \in Nat
    BY <1>1, <2>1, ProductNat
  <2> HIDE DEF m
  <2>3. m \div 2 \in Nat
    BY <2>2
  <2> QED
    BY <2>2, <2>3 DEF UvSize, m
<1>7. Required(w, h) \in Nat
  BY <1>6 DEF Required
<1> HIDE DEF v
<1> DEFINE n == w * h + UvSize(w, h)
           q == Required(w, h)
<1>8. n \in Nat /\ q \in Nat /\ v \in n .. q - 1 /\ v >= d[3] /\ d[3] >= q
  BY <1>2, <1>3, <1>5, <1>6, <1>7 DEF v
<1> HIDE DEF n, q
<1> QED
  BY <1>1, <1>8

\* A turn's grid and samples are in order, whatever the family and picture.
LEMMA GridAndSamples ==
  ASSUME family \in Families, frame \in Frames
  PROVE  GridCovered /\ (inference.action # "panic" => SamplesInPlane)
<1>1. GridCovered
  BY GridIsCovered DEF GridCovered
<1> DEFINE w == frame[1]
           h == frame[2]
<1>2. w \in Nat \ {0} /\ h \in Nat \ {0}
  BY SidesAre
<1>3. {0, 1, Input \div 2, Input - 1} \subseteq 0 .. Input - 1
  <2>1. \A n \in Nat \ {0, 1} : {0, 1, n \div 2, n - 1} \subseteq 0 .. n - 1
    OBVIOUS
  <2> QED
    BY <2>1, DetectionAssumption
<1> HIDE DEF w, h
<1>4. ASSUME NEW dx \in {0, 1, Input \div 2, Input - 1}, NEW dy \in {0, 1, Input \div 2, Input - 1}
      PROVE  /\ BytesOf(family, w, h, dx, dy).y \in 0 .. w * h - 1
             /\ w % 2 = 0 /\ h % 2 = 0 => InPlanes(w, h, BytesOf(family, w, h, dx, dy))
  <2>1. dx \in 0 .. Input - 1 /\ dy \in 0 .. Input - 1
    BY <1>3
  <2> QED
    BY <1>2, <2>1, PixelsInPlanes
<1>5. ASSUME inference.action # "panic" PROVE SamplesInPlane
  BY <1>4, <1>5 DEF SamplesInPlane, InPlanes, w, h
<1> QED
  BY <1>1, <1>5


\* A whole number divided by a positive one is a whole number, not negative
\* if neither was.
LEMMA WholeQuotient ==
  /\ \A a \in Int, d \in Nat \ {0} : a \div d \in Int
  /\ \A a \in Nat, d \in Nat \ {0} : a \div d \in Nat
  /\ \A a, b \in Int : a * b \in Int
OBVIOUS

\* A point of a grid is a cell with a stride.
LEMMA PointIsCell ==
  ASSUME NEW f \in Families, NEW p \in 0 .. NumPoints(f) - 1
  PROVE  Grid[f][p].stride \in Int /\ Grid[f][p].x \in Int /\ Grid[f][p].y \in Int
<1>1. PICK i \in Levels(f) : Offset(f, i) <= p /\ p < Offset(f, i + 1)
  BY PointHasLevel
<1>2. p \in Nat
  OBVIOUS
<1>3. Level(f, p) = i
  BY <1>1, <1>2, LevelIs
<1>4. Grid[f][p] = [stride |-> Strides(f)[i], x |-> (p - Offset(f, i)) % Size(f, i),
                    y |-> (p - Offset(f, i)) \div Size(f, i)]
  BY <1>3 DEF Grid
<1>5. Strides(f)[i] \in Int
  BY StridesAre
<1> DEFINE s == Size(f, i)
           at == p - Offset(f, i)
<1>6. at \in Nat
  <2>1. Offset(f, i) \in Nat
    BY OffsetIs
  <2> QED
    BY <1>1, <1>2, <2>1
<1>7. s \in Nat \ {0}
  <2>1. s \in Nat /\ Offset(f, i + 1) = Offset(f, i) + s * s /\ Offset(f, i) \in Nat
    BY SizeIs, OffsetIs
  <2> HIDE DEF s
  <2>2. s # 0
    <3>1. SUFFICES ASSUME s = 0 PROVE FALSE
      OBVIOUS
    <3>2. s * s = 0
      BY <3>1
    <3> QED
      BY <1>1, <1>2, <2>1, <3>2
  <2> QED
    BY <2>1, <2>2
<1> HIDE DEF s, at
<1>8. at % s \in Int /\ at \div s \in Int
  BY <1>6, <1>7, Division
<1> QED
  BY <1>4, <1>5, <1>8 DEF s, at

\* The best class is one of those there are.
LEMMA LabelIs ==
  ASSUME NEW f, NEW scores \in [Classes -> Int]
  PROVE  Label(f, scores) \in Classes
<1>1. Classes = {0, 1, 2}
  BY DEF Classes
<1>2. scores[0] \in Int /\ scores[1] \in Int /\ scores[2] \in Int
  BY <1>1
<1> DEFINE Best(classes) == {c \in classes : \A d \in classes : scores[d] <= scores[c]}
<1>3. \A classes : BestOf(scores, classes) = Min(Best(classes))
  BY DEF BestOf
<1>4. ASSUME NEW B, B # {}, \A b \in B : b = 0 \/ b = 1 \/ b = 2
      PROVE  Min(B) \in B
  <2>1. \E b \in B : \A d \in B : b <= d
    <3>1. CASE 0 \in B
      BY <1>4, <3>1
    <3>2. CASE 0 \notin B /\ 1 \in B
      BY <1>4, <3>2
    <3>3. CASE 0 \notin B /\ 1 \notin B
      BY <1>4, <3>3
    <3> QED
      BY <3>1, <3>2, <3>3
  <2> QED
    BY <2>1 DEF Min
<1>5. Best(Classes) # {}
  <2>1. \E c \in {0, 1, 2} : \A d \in {0, 1, 2} : scores[d] <= scores[c]
    BY <1>2
  <2> QED
    BY <1>1, <2>1
<1>6. Best(Classes \ {1}) # {}
  <2>1. \E c \in {0, 2} : \A d \in {0, 2} : scores[d] <= scores[c]
    BY <1>2
  <2>2. Classes \ {1} = {0, 2}
    BY <1>1
  <2> QED
    BY <2>1, <2>2
<1>7. /\ \A b \in Best(Classes) : b \in Classes
      /\ \A b \in Best(Classes \ {1}) : b \in Classes
  OBVIOUS
<1> HIDE DEF Best
<1>8. Min(Best(Classes)) \in Classes /\ Min(Best(Classes \ {1})) \in Classes
  <2>1. \A b \in Classes : b = 0 \/ b = 1 \/ b = 2
    BY <1>1
  <2>2. Min(Best(Classes)) \in Best(Classes)
    BY <1>4, <1>5, <1>7, <2>1
  <2>3. Min(Best(Classes \ {1})) \in Best(Classes \ {1})
    BY <1>4, <1>6, <1>7, <2>1
  <2> QED
    BY <1>7, <2>2, <2>3
<1> QED
  BY <1>3, <1>8 DEF Label

\* What holds of every candidate of a picture w wide and h high.
WholeBox(b) == b.x1 \in Int /\ b.y1 \in Int /\ b.x2 \in Int /\ b.y2 \in Int

Sound(f, w, h, c) ==
  /\ c.confidence \in Int /\ WholeBox(c.box)
  /\ c.box.x1 >= 0 /\ c.box.y1 >= 0
  /\ f = "Yolox" => c.box.x2 <= w * (Input * Fine) /\ c.box.y2 <= h * (Input * Fine)

\* The smaller and the larger of two numbers.
LEMMA Bounds ==
  \A a, b \in Int : /\ Smaller(a, b) \in Int /\ Smaller(a, b) <= a /\ Smaller(a, b) <= b
                    /\ Larger(a, b) \in Int /\ Larger(a, b) >= a /\ Larger(a, b) >= b
                    /\ (a >= 0 /\ b >= 0 => Smaller(a, b) >= 0)
BY DEF Smaller, Larger

\* A point that a row is for is a point of the family's grid.
LEMMA RowIs ==
  ASSUME NEW row \in OutputRows, NEW f \in Families
  PROVE  /\ row.point \in 0 .. NumPoints(f) - 1 /\ row.scores \in [Classes -> Int]
         /\ row.object \in Int /\ row.box[1] \in Int /\ row.box[2] \in Int
         /\ row.box[3] \in Int /\ row.box[4] \in Int
<1>1. row.point \in Nat /\ row.point < NumPoints(f)
  BY DEF OutputRows
<1>2. NumPoints(f) \in Nat
  <2>1. 1 \in Levels(f)
    <3>1. Len(Strides(f)) = 3 \/ Len(Strides(f)) = 4
      BY StridesAre
    <3> QED
      BY <3>1 DEF Levels
  <2> QED
    BY <2>1, OffsetsRise
<1>3. row.point \in 0 .. NumPoints(f) - 1
  BY <1>1, <1>2
<1>4. row.scores \in [Classes -> Int] /\ row.object \in Int /\ row.box \in Int \X Int \X Int \X Int
  BY DEF OutputRows
<1> QED
  BY <1>3, <1>4

\* The corner of a cell and an eighth of its stride are whole.
LEMMA CornerIs ==
  ASSUME NEW f \in Families, NEW p \in 0 .. NumPoints(f) - 1
  PROVE  /\ Corner(Grid[f][p]).x \in Int /\ Corner(Grid[f][p]).y \in Int
         /\ Eighth(Grid[f][p]) \in Int
<1> DEFINE c == Grid[f][p]
           x == c.x
           y == c.y
           s == c.stride
<1>1. x \in Int /\ y \in Int /\ s \in Int
  BY PointIsCell
<1>2. Corner(c) = [x |-> x * s * Fine, y |-> y * s * Fine] /\ Eighth(c) = s \div 8
  BY DEF Corner, Eighth
<1> HIDE DEF c, x, y, s
<1>3. Fine \in Nat
  BY DetectionAssumption
<1>4. x * s \in Int /\ y * s \in Int /\ s \div 8 \in Int
  BY <1>1
<1>5. x * s * Fine \in Int /\ y * s * Fine \in Int
  BY <1>3, <1>4
<1> DEFINE X == x * s * Fine
           Y == y * s * Fine
<1> HIDE DEF X, Y
<1>6. Corner(c) = [x |-> X, y |-> Y] /\ X \in Int /\ Y \in Int
  BY <1>2, <1>5 DEF X, Y
<1> QED
  BY <1>2, <1>4, <1>6 DEF c

\* The parts of a pixel of the input, and of the frame.
LEMMA UnitIs ==
  /\ Input \in Nat \ {0} /\ Fine \in Nat \ {0} /\ Input * Fine \in Nat \ {0}
  /\ \A f : Unit(f) \in Nat \ {0}
<1>1. Input \in Nat \ {0} /\ Fine \in Nat \ {0}
  BY DetectionAssumption
<1>2. Input * Fine \in Nat \ {0}
  BY <1>1
<1> QED
  BY <1>1, <1>2 DEF Unit

\* A box of NanoDet begins in the input.
LEMMA NanoDetBoxIs ==
  ASSUME NEW row \in OutputRows
  PROVE  WholeBox(NanoDetBox(row)) /\ NanoDetBox(row).x1 >= 0 /\ NanoDetBox(row).y1 >= 0
<1> DEFINE c == Grid["NanoDet"][row.point]
           x == Corner(c).x
           y == Corner(c).y
           e == Eighth(c)
           l == row.box[1]
           t == row.box[2]
           r == row.box[3]
           b == row.box[4]
           all == Input * Fine
<1>0. "NanoDet" \in Families
  BY DEF Families
<1>1. l \in Int /\ t \in Int /\ r \in Int /\ b \in Int /\ row.point \in 0 .. NumPoints("NanoDet") - 1
  BY <1>0, RowIs
<1>2. x \in Int /\ y \in Int /\ e \in Int
  BY <1>0, <1>1, CornerIs
<1>3. NanoDetBox(row) = [x1 |-> Larger(x - l * e, 0), y1 |-> Larger(y - t * e, 0),
                         x2 |-> Smaller(x + r * e, all), y2 |-> Smaller(y + b * e, all)]
  BY DEF NanoDetBox
<1>5. all \in Int
  BY UnitIs
<1> HIDE DEF c, x, y, e, l, t, r, b, all
<1>4. x - l * e \in Int /\ y - t * e \in Int /\ x + r * e \in Int /\ y + b * e \in Int
  BY <1>1, <1>2
<1> DEFINE x1 == Larger(x - l * e, 0)
           y1 == Larger(y - t * e, 0)
           x2 == Smaller(x + r * e, all)
           y2 == Smaller(y + b * e, all)
<1>6. x1 \in Int /\ y1 \in Int /\ x2 \in Int /\ y2 \in Int /\ x1 >= 0 /\ y1 >= 0
  <2>1. \A v \in Int : Larger(v, 0) \in Int /\ Larger(v, 0) >= 0 /\ Smaller(v, all) \in Int
    BY <1>5 DEF Larger, Smaller
  <2> QED
    BY <1>4, <2>1
<1> HIDE DEF x1, y1, x2, y2
<1>7. NanoDetBox(row) = [x1 |-> x1, y1 |-> y1, x2 |-> x2, y2 |-> y2]
  BY <1>3 DEF x1, y1, x2, y2
<1> QED
  BY <1>6, <1>7 DEF WholeBox

\* The margins of a letterbox are whole.
LEMMA LetterboxIs ==
  ASSUME NEW w \in Nat \ {0}, NEW h \in Nat \ {0}
  PROVE  /\ Letterbox(w, h).long \in Int /\ Letterbox(w, h).padX \in Int
         /\ Letterbox(w, h).padY \in Int
<1> DEFINE long == Larger(w, h)
           tw == Larger(Rounded(w * Input, long), 1)
           th == Larger(Rounded(h * Input, long), 1)
<1>1. Letterbox(w, h) = [long |-> long, tw |-> tw, th |-> th,
                         padX |-> (Input - tw) \div 2, padY |-> (Input - th) \div 2]
  BY DEF Letterbox
<1>2. long \in Nat \ {0} /\ Input \in Nat \ {0}
  BY DetectionAssumption DEF Larger
<1>3. ASSUME NEW n \in Nat \ {0} PROVE Rounded(n * Input, long) \in Int
  <2> HIDE DEF long
  <2> DEFINE m == 2 * (n * Input) + long
             d == 2 * long
  <2>1. n * Input \in Nat
    BY <1>2, ProductNat
  <2>2. m \in Int /\ d \in Nat \ {0}
    BY <1>2, <2>1
  <2> HIDE DEF m, d
  <2>3. m \div d \in Int
    BY <2>2, WholeQuotient
  <2> QED
    BY <2>3 DEF Rounded, m, d
<1>4. tw \in Int /\ th \in Int
  BY <1>3 DEF Larger
<1> HIDE DEF long, tw, th
<1>5. (Input - tw) \div 2 \in Int /\ (Input - th) \div 2 \in Int
  BY <1>2, <1>4
<1> QED
  BY <1>1, <1>2, <1>5

\* A box of YOLOX is cut to the picture.
LEMMA YoloxBoxIs ==
  ASSUME NEW row \in OutputRows, NEW w \in Nat \ {0}, NEW h \in Nat \ {0}
  PROVE  /\ WholeBox(YoloxBox(row, w, h))
         /\ YoloxBox(row, w, h).x1 >= 0 /\ YoloxBox(row, w, h).y1 >= 0
         /\ YoloxBox(row, w, h).x2 <= w * (Input * Fine)
         /\ YoloxBox(row, w, h).y2 <= h * (Input * Fine)
<1> DEFINE c == Grid["Yolox"][row.point]
           e == Eighth(c)
           lb == Letterbox(w, h)
           long == lb.long
           px == lb.padX
           py == lb.padY
           bx == Corner(c).x + row.box[1] * e
           by == Corner(c).y + row.box[2] * e
           ex == row.box[3] * e
           ey == row.box[4] * e
           all == Input * Fine
           Back(v, pad) == (v - pad * Fine) * long
<1>0. "Yolox" \in Families
  BY DEF Families
<1>1. /\ row.box[1] \in Int /\ row.box[2] \in Int /\ row.box[3] \in Int /\ row.box[4] \in Int
      /\ row.point \in 0 .. NumPoints("Yolox") - 1
  BY <1>0, RowIs
<1>2. Corner(c).x \in Int /\ Corner(c).y \in Int /\ e \in Int
  BY <1>0, <1>1, CornerIs
<1>3. bx \in Int /\ by \in Int /\ ex \in Int /\ ey \in Int
  <2> HIDE DEF c, e
  <2>1. /\ row.box[1] * e \in Int /\ row.box[2] * e \in Int
        /\ row.box[3] * e \in Int /\ row.box[4] * e \in Int
    BY <1>1, <1>2
  <2> QED
    BY <1>2, <2>1
<1>4. long \in Int /\ px \in Int /\ py \in Int
  BY LetterboxIs
<1>5. YoloxBox(row, w, h) =
        [x1 |-> Larger(Back(Larger(bx, 0), px), 0), y1 |-> Larger(Back(Larger(by, 0), py), 0),
         x2 |-> Smaller(Back(Smaller(bx + ex, all), px), w * all),
         y2 |-> Smaller(Back(Smaller(by + ey, all), py), h * all)]
  BY DEF YoloxBox
<1>6. all \in Nat /\ all \in Int /\ Fine \in Nat
  BY UnitIs
<1> HIDE DEF c, e, lb, long, px, py, bx, by, ex, ey, all
<1>7. ASSUME NEW v \in Int, NEW pad \in Int PROVE Back(v, pad) \in Int
  <2>1. v - pad * Fine \in Int
    BY <1>6
  <2> QED
    BY <1>4, <2>1, WholeQuotient
<1> HIDE DEF Back
<1> DEFINE W == w * all
           H == h * all
           x1 == Larger(Back(Larger(bx, 0), px), 0)
           y1 == Larger(Back(Larger(by, 0), py), 0)
           x2 == Smaller(Back(Smaller(bx + ex, all), px), W)
           y2 == Smaller(Back(Smaller(by + ey, all), py), H)
<1>8. bx + ex \in Int /\ by + ey \in Int /\ W \in Int /\ H \in Int /\ 0 \in Int
  BY <1>3, <1>6
<1> HIDE DEF W, H
<1>9. /\ Larger(bx, 0) \in Int /\ Larger(by, 0) \in Int
      /\ Smaller(bx + ex, all) \in Int /\ Smaller(by + ey, all) \in Int
  BY <1>3, <1>6, <1>8, Bounds
<1>10. /\ Back(Larger(bx, 0), px) \in Int /\ Back(Larger(by, 0), py) \in Int
       /\ Back(Smaller(bx + ex, all), px) \in Int /\ Back(Smaller(by + ey, all), py) \in Int
  BY <1>4, <1>7, <1>9
<1>11. x1 \in Int /\ x1 >= 0 /\ y1 \in Int /\ y1 >= 0
  BY <1>8, <1>10, Bounds
<1>12. x2 \in Int /\ x2 <= W /\ y2 \in Int /\ y2 <= H
  BY <1>8, <1>10, Bounds
<1>13. YoloxBox(row, w, h) = [x1 |-> x1, y1 |-> y1, x2 |-> x2, y2 |-> y2]
  BY <1>5 DEF W, H
<1> HIDE DEF x1, y1, x2, y2
<1> QED
  BY <1>11, <1>12, <1>13 DEF WholeBox, W, H, all

\* What a row is decoded to is sound.
LEMMA CandidateIsSound ==
  ASSUME NEW row \in OutputRows, NEW f \in Families, NEW w \in Nat \ {0}, NEW h \in Nat \ {0}
  PROVE  Sound(f, w, h, Candidate(f, row, w, h))
<1> DEFINE bounds == IF f = "NanoDet" THEN NanoDetBox(row) ELSE YoloxBox(row, w, h)
           sure == Confidence(f, row)
<1>1. row.scores \in [Classes -> Int] /\ row.object \in Int
  BY RowIs
<1>2. row.scores[Label(f, row.scores)] \in Int
  BY <1>1, LabelIs
<1>3. sure \in Int
  <2>1. (IF f = "NanoDet" THEN 1 ELSE row.object) \in Int
    BY <1>1
  <2> QED
    BY <1>2, <2>1, WholeQuotient DEF Confidence
<1>4. /\ WholeBox(bounds) /\ bounds.x1 >= 0 /\ bounds.y1 >= 0
      /\ f = "Yolox" => bounds.x2 <= w * (Input * Fine) /\ bounds.y2 <= h * (Input * Fine)
  <2>1. CASE f = "NanoDet"
    BY <2>1, NanoDetBoxIs
  <2>2. CASE f = "Yolox"
    BY <2>2, YoloxBoxIs
  <2> QED
    BY <2>1, <2>2 DEF Families
<1>5. Candidate(f, row, w, h) =
        [label |-> Label(f, row.scores), confidence |-> sure, box |-> bounds]
  BY DEF Candidate
<1> HIDE DEF bounds, sure
<1> QED
  BY <1>3, <1>4, <1>5 DEF Sound

\* What is reported of a candidate lies in the picture, but for one pixel of
\* what is rounded last.
Inside(f, b, w, h) ==
  LET out == IF f = "Yolox" THEN 1 ELSE 0
  IN b.w > 0 /\ b.h > 0 =>
       b.x >= 0 /\ b.y >= 0 /\ b.x + b.w <= w + out /\ b.y + b.h <= h + out

\* Rounding misses by half a unit at most.
LEMMA RoundedNear ==
  ASSUME NEW n \in Nat, NEW d \in Nat \ {0}
  PROVE  /\ Rounded(n, d) \in Nat
         /\ 2 * (Rounded(n, d) * d) <= 2 * n + d /\ 2 * n + d < 2 * (Rounded(n, d) * d) + 2 * d
<1> DEFINE m == 2 * n + d
           D == 2 * d
           q == m \div D
<1>1. m \in Nat /\ D \in Nat \ {0}
  OBVIOUS
<1>2. Rounded(n, d) = q
  BY DEF Rounded
<1> HIDE DEF m, D
<1>3. q \in Nat /\ m % D \in 0 .. D - 1 /\ m = (m % D) + q * D
  BY <1>1, Division
<1> HIDE DEF q
<1>4. q * D = 2 * (q * d) /\ q * d \in Nat
  BY <1>3 DEF D
<1> DEFINE p == q * d
<1>5. p \in Nat /\ m = (m % D) + 2 * p /\ m % D \in 0 .. D - 1
  BY <1>3, <1>4
<1> HIDE DEF p
<1>6. 2 * p <= 2 * n + d /\ 2 * n + d < 2 * p + 2 * d
  BY <1>5 DEF m, D
<1> QED
  BY <1>2, <1>3, <1>6 DEF p

\* A corner and an extent that ends in time, each rounded, end a unit late at most.
LEMMA RoundedEnds ==
  ASSUME NEW u \in Nat \ {0}, NEW a \in Nat, NEW b \in Int, NEW n \in Nat, b <= n * u,
         Rounded(Larger(b - a, 0), u) > 0
  PROVE  Rounded(a, u) + Rounded(Larger(b - a, 0), u) <= n + 1
<1> DEFINE e == Larger(b - a, 0)
           x == Rounded(a, u)
           y == Rounded(e, u)
<1>1. e \in Nat /\ (e = b - a \/ e = 0)
  BY DEF Larger
<1> HIDE DEF e
<1>2. x \in Nat /\ 2 * (x * u) <= 2 * a + u
  BY RoundedNear
<1>3. y \in Nat /\ 2 * (y * u) <= 2 * e + u
  BY <1>1, RoundedNear
<1>4. y > 0
  BY DEF e
<1> HIDE DEF x, y
<1>5. x * u \in Nat /\ y * u \in Nat /\ n * u \in Nat
  BY <1>2, <1>3
<1>6. e = b - a
  <2>1. SUFFICES ASSUME e = 0 PROVE FALSE
    BY <1>1
  <2>2. y * u >= 0 * u + u
    BY <1>3, <1>4, Closest
  <2> QED
    BY <1>3, <1>5, <2>1, <2>2
<1>7. x * u + y * u <= n * u + u
  BY <1>2, <1>3, <1>5, <1>6
<1>8. ~(x + y > n + 1)
  <2>1. SUFFICES ASSUME x + y > n + 1 PROVE FALSE
    OBVIOUS
  <2> DEFINE s == x + y
             t == n + 1
  <2>2. s \in Int /\ t \in Int /\ s > t
    BY <1>2, <1>3, <2>1
  <2>3. s * u = x * u + y * u /\ t * u = n * u + u
    BY <1>2, <1>3
  <2> HIDE DEF s, t
  <2>4. s * u >= t * u + u
    BY <2>2, Closest
  <2>5. s * u \in Int /\ t * u \in Int
    BY <2>2
  <2> QED
    BY <1>5, <1>7, <2>3, <2>4, <2>5
<1> QED
  BY <1>2, <1>3, <1>8 DEF e, x, y

LEMMA ReportInside ==
  ASSUME NEW f \in Families, NEW w \in Nat \ {0}, NEW h \in Nat \ {0},
         NEW c, Sound(f, w, h, c)
  PROVE  LET e == Extent(f, c.box)
         IN Inside(f, IF f = "NanoDet" THEN ScaleToFrame(e, w, h) ELSE e, w, h)
<1> DEFINE x1 == c.box.x1
           y1 == c.box.y1
           x2 == c.box.x2
           y2 == c.box.y2
           u == Unit(f)
           e == Extent(f, c.box)
           ax == Rounded(x1, u)
           ay == Rounded(y1, u)
           ew == Rounded(Larger(x2 - x1, 0), u)
           eh == Rounded(Larger(y2 - y1, 0), u)
<1>1. /\ x1 \in Nat /\ y1 \in Nat /\ x2 \in Int /\ y2 \in Int /\ u \in Nat \ {0}
      /\ f = "Yolox" => x2 <= w * u /\ y2 <= h * u
  <2>1. u \in Nat \ {0} /\ (f = "Yolox" => u = Input * Fine)
    BY UnitIs DEF Unit
  <2> QED
    BY <2>1 DEF Sound, WholeBox
<1>2. e = [x |-> ax, y |-> ay, w |-> ew, h |-> eh]
  BY DEF Extent
<1> HIDE DEF x1, y1, x2, y2, u, e
<1>3. ax \in Nat /\ ay \in Nat /\ ew \in Nat /\ eh \in Nat
  <2>1. Larger(x2 - x1, 0) \in Nat /\ Larger(y2 - y1, 0) \in Nat
    BY <1>1 DEF Larger
  <2> QED
    BY <1>1, <2>1, RoundedNear
<1>4. CASE f = "Yolox"
  <2>1. /\ ew > 0 => ax + ew <= w + 1
        /\ eh > 0 => ay + eh <= h + 1
    BY <1>1, <1>4, RoundedEnds
  <2> HIDE DEF ax, ay, ew, eh
  <2>2. e.x = ax /\ e.y = ay /\ e.w = ew /\ e.h = eh
    BY <1>2
  <2>3. Inside(f, e, w, h)
    BY <1>3, <1>4, <2>1, <2>2 DEF Inside
  <2> QED
    BY <1>4, <2>3 DEF e
<1>5. CASE f = "NanoDet"
  <2> HIDE DEF ax, ay, ew, eh
  <2>1. e.x = ax /\ e.y = ay /\ e.w = ew /\ e.h = eh
    BY <1>2
  <2>2. ASSUME NEW a \in Nat, NEW b \in Nat PROVE Rounded(a * b, Input) \in Nat
    <3>1. a * b \in Nat
      BY ProductNat
    <3> QED
      BY <3>1, UnitIs, RoundedNear
  <2> DEFINE X == Smaller(Rounded(e.x * w, Input), w - 1)
             Y == Smaller(Rounded(e.y * h, Input), h - 1)
             W == Smaller(Rounded(e.w * w, Input), w - X)
             H == Smaller(Rounded(e.h * h, Input), h - Y)
  <2>3. /\ Rounded(e.x * w, Input) \in Nat /\ Rounded(e.y * h, Input) \in Nat
        /\ Rounded(e.w * w, Input) \in Nat /\ Rounded(e.h * h, Input) \in Nat
    BY <1>3, <2>1, <2>2
  <2>4. X \in Int /\ X >= 0 /\ X <= w - 1 /\ Y \in Int /\ Y >= 0 /\ Y <= h - 1
    BY <2>3 DEF Smaller
  <2>5. W \in Int /\ W <= w - X /\ H \in Int /\ H <= h - Y
    <3> HIDE DEF X, Y
    <3> QED
      BY <2>3, <2>4 DEF Smaller
  <2>6. ScaleToFrame(e, w, h) = [x |-> X, y |-> Y, w |-> W, h |-> H]
    BY DEF ScaleToFrame
  <2> HIDE DEF X, Y, W, H
  <2>7. Inside(f, [x |-> X, y |-> Y, w |-> W, h |-> H], w, h)
    BY <1>5, <2>4, <2>5 DEF Inside
  <2>8. Inside(f, ScaleToFrame(e, w, h), w, h)
    BY <2>6, <2>7
  <2> QED
    BY <1>5, <2>8 DEF e
<1> QED
  BY <1>4, <1>5 DEF Families


\* What the rows of an output can be decoded to.
Decoded(f, w, h) == {Candidate(f, row, w, h) : row \in OutputRows}

BySureness(s) == \A i, j \in DOMAIN s : i < j => s[i].confidence >= s[j].confidence

\* A candidate put behind those at least as sure leaves the rest in order.
LEMMA RankedFalls ==
  ASSUME NEW X, \A x \in X : x.confidence \in Int, NEW s \in Seq(X), NEW c \in X, BySureness(s)
  PROVE  Ranked(s, c) \in Seq(X) /\ BySureness(Ranked(s, c))
<1> DEFINE n == Len(s)
           surer == {i \in DOMAIN s : s[i].confidence >= c.confidence}
           k == Max({0} \cup surer)
           m == k + 1
           a == SubSeq(s, 1, m - 1)
           b == SubSeq(s, m, n)
           r == Ranked(s, c)
<1>1. n \in Nat /\ DOMAIN s = 1 .. n /\ \A i \in 1 .. n : s[i] \in X
  OBVIOUS
<1>2. k \in {0} \cup surer /\ \A i \in surer : i <= k
  <2> DEFINE T == {0} \cup surer
  <2>1. T \in SUBSET (0 .. n) /\ T # {}
    BY <1>1
  <2> HIDE DEF T, n
  <2>2. Max(T) \in T /\ \A t \in T : t <= Max(T)
    BY <1>1, <2>1, MaxOf
  <2> QED
    BY <2>2 DEF T
<1>3. k \in 0 .. n /\ (k # 0 => s[k].confidence >= c.confidence)
      /\ \A i \in 1 .. n : i > k => ~ (s[i].confidence >= c.confidence)
  <2> HIDE DEF k
  <2>1. \A i \in surer : i \in 1 .. n /\ s[i].confidence >= c.confidence
    BY <1>1
  <2>2. \A i \in 1 .. n : s[i].confidence >= c.confidence => i \in surer
    BY <1>1
  <2>3. k = 0 \/ k \in surer
    BY <1>2
  <2> HIDE DEF surer, n
  <2>4. k \in 0 .. n /\ (k # 0 => s[k].confidence >= c.confidence)
    BY <1>1, <2>1, <2>3
  <2>5. ASSUME NEW i \in 1 .. n, i > k, s[i].confidence >= c.confidence PROVE FALSE
    <3>1. i <= k
      BY <1>2, <2>2, <2>5
    <3> QED
      BY <2>4, <2>5, <3>1
  <2> QED
    BY <2>4, <2>5
<1>4. r = a \o <<c>> \o b
  BY DEF Ranked, InsertAt
<1> HIDE DEF n, surer, k, a, b, r
<1>5. m \in Int /\ 1 \in Int /\ m - 1 \in Int /\ n \in Int /\ m - 1 = k
  BY <1>1, <1>3
<1> HIDE DEF m
<1>6. a \in Seq(X) /\ Len(a) = k /\ \A i \in 1 .. k : a[i] = s[i]
  <2> DEFINE l == m - 1
  <2>0. l = k /\ l \in Int /\ a = SubSeq(s, 1, l)
    BY <1>5 DEF a
  <2> HIDE DEF l
  <2>1. \A i \in 1 .. l : s[i] \in X
    BY <1>1, <1>3, <2>0
  <2>2. /\ a \in Seq(X) /\ Len(a) = (IF 1 <= l THEN l - 1 + 1 ELSE 0)
        /\ \A i \in 1 .. l - 1 + 1 : a[i] = s[1 + i - 1]
    BY ONLY <1>5, <2>0, <2>1, SubSeqProperties
  <2>3. l - 1 + 1 = l /\ \A i \in 1 .. l : 1 + i - 1 = i
    BY <2>0
  <2> QED
    BY <1>3, <2>0, <2>2, <2>3
<1>7. b \in Seq(X) /\ Len(b) = n - k /\ \A i \in 1 .. n - k : b[i] = s[k + i]
  <2>1. \A i \in m .. n : s[i] \in X
    BY <1>1, <1>3, <1>5
  <2>2. b = SubSeq(s, m, n)
    BY DEF b
  <2>3. /\ b \in Seq(X) /\ Len(b) = (IF m <= n THEN n - m + 1 ELSE 0)
        /\ \A i \in 1 .. n - m + 1 : b[i] = s[m + i - 1]
    BY ONLY <1>5, <2>1, <2>2, SubSeqProperties
  <2>4. n - m + 1 = n - k /\ \A i \in 1 .. n - k : m + i - 1 = k + i
    BY <1>1, <1>3, <1>5
  <2>5. Len(b) = n - k
    BY <1>1, <1>3, <1>5, <2>3, <2>4
  <2> QED
    BY <2>3, <2>4, <2>5
<1> DEFINE one == <<c>>
           ac == a \o one
<1>8. one \in Seq(X) /\ Len(one) = 1 /\ one[1] = c
  OBVIOUS
<1> HIDE DEF one
<1>9. /\ ac \in Seq(X) /\ Len(ac) = k + 1
      /\ \A i \in 1 .. k + 1 : ac[i] = IF i <= k THEN s[i] ELSE c
  <2>1. /\ ac \in Seq(X) /\ Len(ac) = Len(a) + Len(one)
        /\ \A i \in 1 .. Len(a) + Len(one) : ac[i] = IF i <= Len(a) THEN a[i] ELSE one[i - Len(a)]
    BY ONLY <1>6, <1>8, ConcatProperties DEF ac
  <2> HIDE DEF ac
  <2>2. ac \in Seq(X) /\ Len(ac) = k + 1
    BY <1>6, <1>8, <2>1
  <2>3. ASSUME NEW i \in 1 .. k + 1 PROVE ac[i] = IF i <= k THEN s[i] ELSE c
    <3>1. ac[i] = IF i <= k THEN a[i] ELSE one[i - k]
      BY <1>6, <1>8, <2>1
    <3>2. ~ (i <= k) => i - k = 1
      BY <1>3
    <3>3. i <= k => i \in 1 .. k
      BY <1>3
    <3> QED
      BY <1>6, <1>8, <3>1, <3>2, <3>3
  <2> QED
    BY <2>2, <2>3
<1>10. r = ac \o b
  BY <1>4 DEF one
<1> HIDE DEF ac
<1>11. /\ r \in Seq(X) /\ Len(r) = n + 1
       /\ \A i \in 1 .. n + 1 : r[i] = IF i <= k THEN s[i] ELSE IF i = k + 1 THEN c ELSE s[i - 1]
  <2>1. /\ ac \o b \in Seq(X) /\ Len(ac \o b) = Len(ac) + Len(b)
        /\ \A i \in 1 .. Len(ac) + Len(b) :
             (ac \o b)[i] = IF i <= Len(ac) THEN ac[i] ELSE b[i - Len(ac)]
    BY ONLY <1>7, <1>9, ConcatProperties
  <2>2. Len(ac) = k + 1 /\ Len(b) = n - k /\ Len(ac) + Len(b) = n + 1
    BY <1>1, <1>3, <1>7, <1>9
  <2>3. r \in Seq(X) /\ Len(r) = n + 1
    BY <1>10, <2>1, <2>2
  <2>4. ASSUME NEW i \in 1 .. n + 1
        PROVE  r[i] = IF i <= k THEN s[i] ELSE IF i = k + 1 THEN c ELSE s[i - 1]
    <3>1. r[i] = IF i <= k + 1 THEN ac[i] ELSE b[i - (k + 1)]
      BY <1>10, <2>1, <2>2
    <3>2. i <= k + 1 => i \in 1 .. k + 1
      BY <1>3
    <3>3. ~ (i <= k + 1) => i - (k + 1) \in 1 .. n - k /\ k + (i - (k + 1)) = i - 1
                            /\ ~ (i <= k) /\ i # k + 1
      BY <1>1, <1>3
    <3>4. i <= k + 1 => (i <= k \/ i = k + 1)
      BY <1>3
    <3>5. CASE i <= k + 1
      BY <1>3, <1>9, <3>1, <3>2, <3>4, <3>5
    <3>6. CASE ~ (i <= k + 1)
      <4>1. b[i - (k + 1)] = s[k + (i - (k + 1))]
        BY <1>7, <3>3, <3>6
      <4> QED
        BY <3>1, <3>3, <3>6, <4>1
    <3> QED
      BY <3>5, <3>6
  <2> QED
    BY <2>3, <2>4
<1>12. ASSUME NEW i \in 1 .. n + 1, NEW j \in 1 .. n + 1, i < j
       PROVE  r[i].confidence >= r[j].confidence
  <2>0. \A p \in 1 .. n : s[p].confidence \in Int
    BY <1>1
  <2>00. c.confidence \in Int
    OBVIOUS
  <2>1. \A p, q \in 1 .. n : p < q => s[p].confidence >= s[q].confidence
    BY <1>1 DEF BySureness
  <2>2. CASE j <= k
    <3>1. i <= k /\ i \in 1 .. n /\ j \in 1 .. n
      BY <1>1, <1>3, <1>12, <2>2
    <3> QED
      BY <1>11, <1>12, <2>1, <2>2, <3>1
  <2>3. CASE j = k + 1
    <3>1. i <= k /\ i \in 1 .. n /\ k \in 1 .. n /\ k # 0 /\ ~ (j <= k) /\ (i < k \/ i = k)
      BY <1>1, <1>3, <1>12, <2>3
    <3>2. r[i] = s[i] /\ r[j] = c
      BY <1>11, <2>3, <3>1
    <3>3. s[i].confidence >= s[k].confidence
      BY <2>0, <2>1, <3>1
    <3>4. s[k].confidence >= c.confidence
      BY <1>3, <3>1
    <3>5. s[i].confidence \in Int /\ s[k].confidence \in Int
      BY <2>0, <3>1
    <3>6. s[i].confidence >= c.confidence
      BY ONLY <2>00, <3>3, <3>4, <3>5
    <3> QED
      BY <3>2, <3>6
  <2>4. CASE j > k + 1
    <3>1. j - 1 \in 1 .. n /\ ~ (j <= k) /\ j # k + 1 /\ j - 1 > k
      BY <1>1, <1>3, <2>4
    <3>2. r[j] = s[j - 1]
      BY <1>11, <3>1
    <3>3. CASE i <= k
      <4>1. i \in 1 .. n /\ i < j - 1
        BY <1>3, <1>1, <2>4, <3>3
      <4>2. r[i] = s[i]
        BY <1>11, <3>3
      <4> QED
        BY <2>1, <3>1, <3>2, <4>1, <4>2
    <3>4. CASE i = k + 1
      <4>1. r[i] = c
        BY <1>3, <1>11, <3>4
      <4>2. ~ (s[j - 1].confidence >= c.confidence)
        BY <1>3, <3>1
      <4>3. s[j - 1].confidence \in Int
        BY <2>0, <3>1
      <4>4. c.confidence >= s[j - 1].confidence
        BY ONLY <2>00, <4>2, <4>3
      <4> QED
        BY <3>2, <4>1, <4>4
    <3>5. CASE i > k + 1
      <4>1. i - 1 \in 1 .. n /\ ~ (i <= k) /\ i # k + 1 /\ i - 1 < j - 1
        BY <1>1, <1>3, <1>12, <3>5
      <4>2. r[i] = s[i - 1]
        BY <1>11, <4>1
      <4> QED
        BY <2>1, <3>1, <3>2, <4>1, <4>2
    <3> QED
      BY <1>3, <3>3, <3>4, <3>5
  <2> QED
    BY <1>3, <2>2, <2>3, <2>4
<1>13. DOMAIN r = 1 .. n + 1
  BY <1>11
<1> QED
  BY <1>11, <1>12, <1>13 DEF BySureness, r

\* g is the recursion of Candidates.
Gathers(g, f, out, w, h) ==
  g = [T \in SUBSET DOMAIN out |->
         IF T = {} THEN <<>>
         ELSE IF Candidate(f, out[Max(T)], w, h).confidence >= 1
                THEN Ranked(g[T \ {Max(T)}], Candidate(f, out[Max(T)], w, h))
              ELSE g[T \ {Max(T)}]]

LEMMA CandidatesUnfold ==
  ASSUME NEW f, NEW out, NEW w, NEW h
  PROVE  Candidates(f, out, w, h) = (CHOOSE g : Gathers(g, f, out, w, h))[DOMAIN out]
BY DEF Candidates, FoldLeft, MapThenFoldSet, Gathers

\* The candidates are decoded rows, by falling confidence.
LEMMA CandidatesFall ==
  ASSUME NEW f \in Families, NEW out \in Outputs, NEW w \in Nat \ {0}, NEW h \in Nat \ {0}
  PROVE  Candidates(f, out, w, h) \in Seq(Decoded(f, w, h)) /\ BySureness(Candidates(f, out, w, h))
<1> DEFINE n == Len(out)
           X == Decoded(f, w, h)
           V == {v \in Seq(X) : BySureness(v)}
           c(i) == Candidate(f, out[i], w, h)
           step == [p \in V \X (1 .. n) |->
                      IF c(p[2]).confidence >= 1 THEN Ranked(p[1], c(p[2])) ELSE p[1]]
<1>1. n \in Nat /\ DOMAIN out = 1 .. n /\ \A i \in 1 .. n : c(i) \in X
  <2>1. out \in Seq(OutputRows)
    BY DetectionAssumption
  <2>2. \A i \in 1 .. n : out[i] \in OutputRows
    BY <2>1
  <2> QED
    BY <2>1, <2>2 DEF Decoded
<1>2. \A x \in X : x.confidence \in Int
  BY CandidateIsSound DEF Decoded, Sound
<1> HIDE DEF X, c
<1>3. \A v \in V, i \in 1 .. n :
        step[<<v, i>>] = IF c(i).confidence >= 1 THEN Ranked(v, c(i)) ELSE v
  OBVIOUS
<1>4. \A v \in V, i \in 1 .. n : Ranked(v, c(i)) \in V
  BY <1>1, <1>2, RankedFalls
<1>5. step \in [V \X (1 .. n) -> V]
  BY <1>4
<1>6. <<>> \in V
  BY DEF BySureness
<1> HIDE DEF n, V, step
<1>7. PICK g \in [SUBSET (1 .. n) -> V] : FoldsOver(g, n, <<>>, step)
  BY <1>1, <1>5, <1>6, FoldExists
<1>8. Gathers(g, f, out, w, h)
  <2>1. \A T \in SUBSET (1 .. n) : T # {} =>
          g[T] = IF c(Max(T)).confidence >= 1 THEN Ranked(g[T \ {Max(T)}], c(Max(T)))
                 ELSE g[T \ {Max(T)}]
    <3>1. ASSUME NEW T \in SUBSET (1 .. n), T # {}
          PROVE  g[T] = step[<<g[T \ {Max(T)}], Max(T)>>] /\ g[T \ {Max(T)}] \in V
                 /\ Max(T) \in 1 .. n
      <4>1. Max(T) \in T
        BY <1>1, <3>1, MaxIn
      <4> QED
        BY <1>7, <3>1, <4>1 DEF FoldsOver
    <3> QED
      BY <1>3, <3>1
  <2>2. g[{}] = <<>>
    BY <1>7 DEF FoldsOver
  <2>3. g = [T \in SUBSET (1 .. n) |-> g[T]]
    BY <1>7
  <2> QED
    BY <1>1, <2>1, <2>2, <2>3 DEF Gathers, c
<1> DEFINE k == CHOOSE k : Gathers(k, f, out, w, h)
           P == {i \in 0 .. n : k[1 .. i] \in V}
<1>9. Gathers(k, f, out, w, h)
  BY <1>8
<1>10. Candidates(f, out, w, h) = k[1 .. n]
  BY <1>1, CandidatesUnfold
<1> HIDE DEF k
<1>11. 0 \in P
  <2>1. 1 .. 0 = {}
    OBVIOUS
  <2>2. k[{}] = <<>>
    BY <1>9 DEF Gathers
  <2> QED
    BY <1>1, <1>6, <2>1, <2>2
<1>12. ASSUME NEW i \in 1 .. n, i - 1 \in P PROVE i \in P
  <2>1. i \in Nat \ {0} /\ i - 1 \in 0 .. n /\ i \in 0 .. n
    BY <1>1
  <2>2. Max(1 .. i) = i /\ (1 .. i) \ {i} = 1 .. (i - 1) /\ (1 .. i) # {}
    BY <2>1, MaxOfRange
  <2>3. 1 .. i \in SUBSET (1 .. n)
    BY <1>1
  <2>4. k[1 .. i] = IF c(i).confidence >= 1 THEN Ranked(k[1 .. (i - 1)], c(i))
                    ELSE k[1 .. (i - 1)]
    BY <1>1, <1>9, <2>2, <2>3 DEF Gathers, c
  <2>5. k[1 .. (i - 1)] \in V
    BY <1>12
  <2>6. k[1 .. i] \in V
    BY <1>4, <2>4, <2>5
  <2> QED
    BY <2>1, <2>6
<1> HIDE DEF P
<1>13. n \in P
  BY <1>1, <1>11, <1>12, UpTo
<1>14. k[1 .. n] \in V
  BY <1>13 DEF P
<1> QED
  BY <1>10, <1>14 DEF V, X


\* g is the recursion of Nms.
Suppressing(g, f, cs) ==
  g = [T \in SUBSET DOMAIN cs |->
         IF T = {} THEN <<>>
         ELSE IF \E k \in ToSet(g[T \ {Max(T)}]) : Suppresses(f, k, cs[Max(T)])
                THEN g[T \ {Max(T)}]
              ELSE Append(g[T \ {Max(T)}], cs[Max(T)])]

LEMMA NmsUnfolds ==
  ASSUME NEW f, NEW cs
  PROVE  Nms(f, cs) = (CHOOSE g : Suppressing(g, f, cs))[DOMAIN cs]
BY DEF Nms, FoldLeft, MapThenFoldSet, Suppressing

\* The suppression is the end of a run along the candidates.
LEMMA NmsRuns ==
  ASSUME NEW X, NEW cs \in Seq(X), NEW f
  PROVE  \E r : /\ r[0] = <<>>
                /\ \A i \in 1 .. Len(cs) :
                     r[i] = IF \E k \in ToSet(r[i - 1]) : Suppresses(f, k, cs[i])
                              THEN r[i - 1] ELSE Append(r[i - 1], cs[i])
                /\ Nms(f, cs) = r[Len(cs)]
<1> DEFINE n == Len(cs)
           V == Seq(X)
           Gone(v, i) == \E k \in ToSet(v) : Suppresses(f, k, cs[i])
           step == [p \in V \X (1 .. n) |->
                      IF Gone(p[1], p[2]) THEN p[1] ELSE Append(p[1], cs[p[2]])]
<1>1. n \in Nat /\ DOMAIN cs = 1 .. n /\ \A i \in 1 .. n : cs[i] \in X
  OBVIOUS
<1> HIDE DEF Gone
<1>2. \A v \in V, i \in 1 .. n :
        step[<<v, i>>] = IF Gone(v, i) THEN v ELSE Append(v, cs[i])
  OBVIOUS
<1>3. \A v \in V, i \in 1 .. n : Append(v, cs[i]) \in V
  BY <1>1
<1>4. step \in [V \X (1 .. n) -> V]
  BY <1>3
<1>5. <<>> \in V
  OBVIOUS
<1> HIDE DEF n, V, step
<1>6. PICK g \in [SUBSET (1 .. n) -> V] : FoldsOver(g, n, <<>>, step)
  BY <1>1, <1>4, <1>5, FoldExists
<1>7. Suppressing(g, f, cs)
  <2>1. \A T \in SUBSET (1 .. n) : T # {} =>
          g[T] = IF Gone(g[T \ {Max(T)}], Max(T)) THEN g[T \ {Max(T)}]
                 ELSE Append(g[T \ {Max(T)}], cs[Max(T)])
    <3>1. ASSUME NEW T \in SUBSET (1 .. n), T # {}
          PROVE  g[T] = step[<<g[T \ {Max(T)}], Max(T)>>] /\ g[T \ {Max(T)}] \in V
                 /\ Max(T) \in 1 .. n
      <4>1. Max(T) \in T
        BY <1>1, <3>1, MaxIn
      <4> QED
        BY <1>6, <3>1, <4>1 DEF FoldsOver
    <3> QED
      BY <1>2, <3>1
  <2>2. g[{}] = <<>>
    BY <1>6 DEF FoldsOver
  <2>3. g = [T \in SUBSET (1 .. n) |-> g[T]]
    BY <1>6
  <2>4. g = [T \in SUBSET (1 .. n) |->
               IF T = {} THEN <<>>
               ELSE IF Gone(g[T \ {Max(T)}], Max(T)) THEN g[T \ {Max(T)}]
                    ELSE Append(g[T \ {Max(T)}], cs[Max(T)])]
    BY <2>1, <2>2, <2>3
  <2> QED
    BY <1>1, <2>4 DEF Suppressing, Gone
<1> DEFINE h == CHOOSE h : Suppressing(h, f, cs)
<1>8. Suppressing(h, f, cs)
  BY <1>7
<1>9. Nms(f, cs) = h[1 .. n]
  BY <1>1, NmsUnfolds
<1> HIDE DEF h
<1>13. h = [T \in SUBSET (1 .. n) |->
              IF T = {} THEN <<>>
              ELSE IF Gone(h[T \ {Max(T)}], Max(T)) THEN h[T \ {Max(T)}]
                   ELSE Append(h[T \ {Max(T)}], cs[Max(T)])]
  BY <1>1, <1>8 DEF Suppressing, Gone
<1> DEFINE r == [i \in 0 .. n |-> h[1 .. i]]
<1>10. r[0] = <<>>
  <2>1. 1 .. 0 = {}
    OBVIOUS
  <2>2. h[{}] = <<>>
    BY <1>13
  <2> QED
    BY <1>1, <2>1, <2>2
<1>11. ASSUME NEW i \in 1 .. n
       PROVE  r[i] = IF Gone(r[i - 1], i) THEN r[i - 1] ELSE Append(r[i - 1], cs[i])
  <2>1. i \in Nat \ {0} /\ i - 1 \in 0 .. n /\ i \in 0 .. n
    BY <1>1
  <2>2. Max(1 .. i) = i /\ (1 .. i) \ {i} = 1 .. (i - 1) /\ (1 .. i) # {}
    BY <2>1, MaxOfRange
  <2>3. 1 .. i \in SUBSET (1 .. n)
    BY <1>1
  <2>4. h[1 .. i] = IF Gone(h[1 .. (i - 1)], i) THEN h[1 .. (i - 1)]
                    ELSE Append(h[1 .. (i - 1)], cs[i])
    BY <1>13, <2>2, <2>3
  <2>5. r[i] = h[1 .. i] /\ r[i - 1] = h[1 .. (i - 1)]
    BY <2>1
  <2> QED
    BY <2>4, <2>5
<1>12. r[n] = h[1 .. n]
  BY <1>1
<1> HIDE DEF r
<1> QED
  BY <1>9, <1>10, <1>11, <1>12 DEF n, Gone

\* What is kept of candidates that fall in confidence.
Settled(kept, cs, n) == \A i \in DOMAIN kept : \E j \in 1 .. n : kept[i] = cs[j]

NoneTwice(f, kept) ==
  \A i, j \in DOMAIN kept : i < j =>
    kept[i].confidence >= kept[j].confidence /\ ~ Suppresses(f, kept[i], kept[j])

Answered(f, kept, c) ==
  \/ \E i \in DOMAIN kept : kept[i] = c
  \/ \E i \in DOMAIN kept : Suppresses(f, kept[i], c) /\ kept[i].confidence >= c.confidence

KeptOf(f, kept, cs, n) ==
  Settled(kept, cs, n) /\ NoneTwice(f, kept) /\ \A j \in 1 .. n : Answered(f, kept, cs[j])

\* One more candidate: dropped behind one that suppresses it, or kept.
LEMMA KeptGrows ==
  ASSUME NEW X, \A x \in X : x.confidence \in Int, NEW cs \in Seq(X), BySureness(cs), NEW f,
         NEW i \in 1 .. Len(cs), NEW kept \in Seq(X), KeptOf(f, kept, cs, i - 1),
         NEW next,
         next = IF \E k \in ToSet(kept) : Suppresses(f, k, cs[i])
                  THEN kept ELSE Append(kept, cs[i])
  PROVE  next \in Seq(X) /\ KeptOf(f, next, cs, i)
<1> DEFINE n == Len(cs)
           l == Len(kept)
<1>1. n \in Nat /\ DOMAIN cs = 1 .. n /\ \A j \in 1 .. n : cs[j] \in X
  OBVIOUS
<1>2. l \in Nat /\ DOMAIN kept = 1 .. l /\ \A j \in 1 .. l : kept[j] \in X
  OBVIOUS
<1>3. i \in 1 .. n
  OBVIOUS
<1> HIDE DEF n, l
<1>4. /\ \A j \in 1 .. i - 1 : j \in 1 .. n /\ j < i
      /\ \A j \in 1 .. i : j \in 1 .. i - 1 \/ j = i
      /\ \A j \in 1 .. i - 1 : j \in 1 .. i
      /\ i \in 1 .. i
  BY <1>1, <1>3
<1>5. ASSUME NEW k \in 1 .. l
      PROVE  kept[k].confidence >= cs[i].confidence /\ \E j \in 1 .. i : kept[k] = cs[j]
  <2>1. PICK j \in 1 .. i - 1 : kept[k] = cs[j]
    BY <1>2 DEF KeptOf, Settled
  <2>2. j \in 1 .. n /\ j < i /\ j \in 1 .. i
    BY <1>4
  <2>3. cs[j].confidence >= cs[i].confidence
    BY <1>1, <1>3, <2>2 DEF BySureness
  <2> QED
    BY <2>1, <2>2, <2>3
<1>6. \A j \in 1 .. i - 1 : Answered(f, kept, cs[j])
  BY DEF KeptOf
<1>7. \A p, q \in 1 .. l : p < q =>
        kept[p].confidence >= kept[q].confidence /\ ~ Suppresses(f, kept[p], kept[q])
  BY <1>2 DEF KeptOf, NoneTwice
<1>8. CASE \E k \in ToSet(kept) : Suppresses(f, k, cs[i])
  <2>1. PICK k \in 1 .. l : Suppresses(f, kept[k], cs[i])
    BY <1>2, <1>8 DEF ToSet
  <2>2. next = kept
    BY <1>8
  <2>3. Answered(f, kept, cs[i])
    BY <1>2, <1>5, <2>1 DEF Answered
  <2>4. \A j \in 1 .. i : Answered(f, kept, cs[j])
    BY <1>4, <1>6, <2>3
  <2>5. Settled(kept, cs, i)
    BY <1>2, <1>5 DEF Settled
  <2>6. NoneTwice(f, kept)
    BY DEF KeptOf
  <2> QED
    BY <2>2, <2>4, <2>5, <2>6 DEF KeptOf
<1>9. CASE ~ \E k \in ToSet(kept) : Suppresses(f, k, cs[i])
  <2>1. next = Append(kept, cs[i])
    BY <1>9
  <2>2. \A k \in 1 .. l : ~ Suppresses(f, kept[k], cs[i])
    BY <1>2, <1>9 DEF ToSet
  <2>3. cs[i] \in X
    BY <1>1, <1>3
  <2>4. /\ next \in Seq(X) /\ Len(next) = l + 1 /\ next[l + 1] = cs[i]
        /\ \A k \in 1 .. l : next[k] = kept[k]
    BY ONLY <2>1, <2>3, kept \in Seq(X), AppendProperties DEF l
  <2>5. DOMAIN next = 1 .. l + 1
    BY <2>4
  <2>6. /\ \A k \in 1 .. l + 1 : k \in 1 .. l \/ k = l + 1
        /\ \A k \in 1 .. l : k \in 1 .. l + 1
        /\ l + 1 \in 1 .. l + 1
        /\ \A p, q \in 1 .. l + 1 : p < q => p \in 1 .. l
    BY <1>2
  <2>7. \A k \in 1 .. l + 1 : \E j \in 1 .. i : next[k] = cs[j]
    BY <1>4, <1>5, <2>4, <2>6
  <2>8. ASSUME NEW p \in 1 .. l + 1, NEW q \in 1 .. l + 1, p < q
        PROVE  next[p].confidence >= next[q].confidence /\ ~ Suppresses(f, next[p], next[q])
    <3>1. p \in 1 .. l /\ next[p] = kept[p]
      BY <2>4, <2>6, <2>8
    <3>2. CASE q = l + 1
      BY <1>5, <2>2, <2>4, <3>1, <3>2
    <3>3. CASE q \in 1 .. l
      BY <1>7, <2>4, <2>8, <3>1, <3>3
    <3> QED
      BY <2>6, <3>2, <3>3
  <2>9. Answered(f, next, cs[i])
    BY <2>4, <2>5, <2>6 DEF Answered
  <2>10. ASSUME NEW j \in 1 .. i - 1 PROVE Answered(f, next, cs[j])
    <3>1. Answered(f, kept, cs[j])
      BY <1>6
    <3>2. PICK k \in 1 .. l : \/ kept[k] = cs[j]
                             \/ /\ Suppresses(f, kept[k], cs[j])
                                /\ kept[k].confidence >= cs[j].confidence
      BY <1>2, <3>1 DEF Answered
    <3>3. next[k] = kept[k] /\ k \in DOMAIN next
      BY <2>4, <2>5, <2>6
    <3> QED
      BY <3>2, <3>3 DEF Answered
  <2>11. \A j \in 1 .. i : Answered(f, next, cs[j])
    BY <1>4, <2>9, <2>10
  <2>12. Settled(next, cs, i)
    BY <2>5, <2>7 DEF Settled
  <2>13. NoneTwice(f, next)
    BY <2>5, <2>8 DEF NoneTwice
  <2> QED
    BY <2>4, <2>11, <2>12, <2>13 DEF KeptOf
<1> QED
  BY <1>8, <1>9

\* The suppression of candidates that fall in confidence.
LEMMA NmsKeeps ==
  ASSUME NEW X, \A x \in X : x.confidence \in Int, NEW cs \in Seq(X), BySureness(cs), NEW f
  PROVE  Nms(f, cs) \in Seq(X) /\ KeptOf(f, Nms(f, cs), cs, Len(cs))
<1> DEFINE n == Len(cs)
<1>1. PICK r : /\ r[0] = <<>>
               /\ \A i \in 1 .. n :
                    r[i] = IF \E k \in ToSet(r[i - 1]) : Suppresses(f, k, cs[i])
                             THEN r[i - 1] ELSE Append(r[i - 1], cs[i])
               /\ Nms(f, cs) = r[n]
  BY NmsRuns
<1> DEFINE P == {i \in 0 .. n : r[i] \in Seq(X) /\ KeptOf(f, r[i], cs, i)}
<1>2. n \in Nat
  OBVIOUS
<1>3. 0 \in P
  <2>1. <<>> \in Seq(X) /\ DOMAIN <<>> = {} /\ 1 .. 0 = {}
    OBVIOUS
  <2>2. KeptOf(f, <<>>, cs, 0)
    BY <2>1 DEF KeptOf, Settled, NoneTwice
  <2>3. 0 \in 0 .. n
    BY <1>2
  <2>4. r[0] \in Seq(X) /\ KeptOf(f, r[0], cs, 0)
    BY <1>1, <2>1, <2>2
  <2> QED
    BY <2>3, <2>4
<1>4. ASSUME NEW i \in 1 .. n, i - 1 \in P PROVE i \in P
  <2>1. r[i - 1] \in Seq(X) /\ KeptOf(f, r[i - 1], cs, i - 1)
    BY <1>4
  <2>2. r[i] = IF \E k \in ToSet(r[i - 1]) : Suppresses(f, k, cs[i])
                 THEN r[i - 1] ELSE Append(r[i - 1], cs[i])
    BY <1>1
  <2> DEFINE kept == r[i - 1]
             next == r[i]
  <2>4. /\ kept \in Seq(X) /\ KeptOf(f, kept, cs, i - 1)
        /\ next = IF \E k \in ToSet(kept) : Suppresses(f, k, cs[i])
                    THEN kept ELSE Append(kept, cs[i])
    BY <2>1, <2>2
  <2>5. \A x \in X : x.confidence \in Int
    OBVIOUS
  <2>6. cs \in Seq(X) /\ BySureness(cs) /\ i \in 1 .. Len(cs)
    OBVIOUS
  <2> HIDE DEF kept, next
  <2>3. next \in Seq(X) /\ KeptOf(f, next, cs, i)
    BY ONLY <2>4, <2>5, <2>6, KeptGrows
  <2>7. i \in 0 .. n
    BY <1>2
  <2> QED
    BY <2>3, <2>7 DEF next
<1> HIDE DEF P, n
<1>5. n \in P
  BY <1>2, <1>3, <1>4, UpTo
<1> QED
  BY <1>1, <1>5 DEF P, n

-----------------------------------------------------------------------------
(* DetectionsSound.                                                        *)

\* What a turn came to is what its inputs are decoded to.
DetInv ==
  /\ DetectionTypeOK
  /\ inference.action = "continue" =>
       /\ family \in Families /\ frame \in Frames
       /\ \E out \in Outputs : inference = Detect(family, out, frame[1], frame[2])
  /\ inference.action = "panic" => ~(frame[1] % 2 = 0 /\ frame[2] % 2 = 0)

\* What is reported of a candidate.
Reported(f, c, w, h) ==
  LET e == Extent(f, c.box)
  IN IF f = "NanoDet" THEN ScaleToFrame(e, w, h) ELSE e

\* The candidates of a turn, what is kept of them and the boxes.
LEMMA TurnIs ==
  ASSUME DetInv, inference.action = "continue"
  PROVE  /\ family \in Families /\ frame \in Frames
         /\ frame[1] \in Nat \ {0} /\ frame[2] \in Nat \ {0}
         /\ inference.candidates \in Seq(Decoded(family, frame[1], frame[2]))
         /\ inference.kept \in Seq(Decoded(family, frame[1], frame[2]))
         /\ KeptOf(family, inference.kept, inference.candidates, Len(inference.candidates))
         /\ inference.boxes =
              [i \in DOMAIN inference.kept |->
                 Reported(family, inference.kept[i], frame[1], frame[2])]
<1> DEFINE w == frame[1]
           h == frame[2]
           X == Decoded(family, w, h)
<1>1. family \in Families /\ frame \in Frames /\ w \in Nat \ {0} /\ h \in Nat \ {0}
  BY SidesAre DEF DetInv
<1>2. PICK out \in Outputs : inference = Detect(family, out, w, h)
  BY DEF DetInv
<1> DEFINE cs == Candidates(family, out, w, h)
           kept == Nms(family, cs)
           boxes == [i \in DOMAIN kept |-> Reported(family, kept[i], w, h)]
<1>3. inference = [action |-> "continue", candidates |-> cs, kept |-> kept, boxes |-> boxes]
  BY <1>2 DEF Detect, Reported
<1> HIDE DEF w, h, X, cs, kept, boxes
<1>4. cs \in Seq(X) /\ BySureness(cs)
  BY <1>1, CandidatesFall DEF cs, X
<1>5. \A x \in X : x.confidence \in Int
  BY <1>1, CandidateIsSound DEF X, Decoded, Sound
<1>6. kept \in Seq(X) /\ KeptOf(family, kept, cs, Len(cs))
  BY <1>4, <1>5, NmsKeeps DEF kept
<1>7. inference.candidates = cs /\ inference.kept = kept /\ inference.boxes = boxes
  BY <1>3
<1> QED
  BY <1>1, <1>4, <1>6, <1>7 DEF w, h, X, boxes

LEMMA DetInvSound == DetInv => DetectionsSound
<1> SUFFICES ASSUME DetInv PROVE DetectionsSound
  OBVIOUS
<1> DEFINE cs == inference.candidates
           kept == inference.kept
           w == frame[1]
           h == frame[2]
<1>1. inference.action = "continue" => GridCovered /\ SamplesInPlane
  BY GridAndSamples DEF DetInv
<1>2. inference.action # "continue" => GridCovered /\ SamplesInPlane
  BY DEF GridCovered, SamplesInPlane, DetInv
<1>3. ASSUME inference.action = "continue" PROVE ObjectsOnce /\ BoxesInFrame
  <2>1. /\ family \in Families /\ frame \in Frames /\ w \in Nat \ {0} /\ h \in Nat \ {0}
        /\ cs \in Seq(Decoded(family, w, h)) /\ kept \in Seq(Decoded(family, w, h))
        /\ KeptOf(family, kept, cs, Len(cs))
        /\ inference.boxes =
             [i \in DOMAIN kept |-> Reported(family, kept[i], w, h)]
    BY <1>3, TurnIs
  <2> HIDE DEF cs, kept, w, h
  <2>2. ASSUME NEW i \in DOMAIN kept, NEW j \in DOMAIN kept, i < j
        PROVE  /\ kept[i].confidence >= kept[j].confidence
               /\ ~(kept[i].label = kept[j].label
                    /\ Overlap(family, kept[i].box, kept[j].box))
    BY <2>1, <2>2 DEF KeptOf, NoneTwice, Suppresses
  <2>3. ASSUME NEW c \in ToSet(cs) \ ToSet(kept)
        PROVE  \E k \in ToSet(kept) : /\ k.label = c.label
                                      /\ k.confidence >= c.confidence
                                      /\ Overlap(family, k.box, c.box)
    <3>1. PICK j \in 1 .. Len(cs) : c = cs[j]
      BY <2>1 DEF ToSet
    <3>2. ~ \E i \in DOMAIN kept : kept[i] = c
      BY DEF ToSet
    <3>3. PICK i \in DOMAIN kept : /\ Suppresses(family, kept[i], c)
                                   /\ kept[i].confidence >= c.confidence
      BY <2>1, <3>1, <3>2 DEF KeptOf, Answered
    <3>4. kept[i] \in ToSet(kept)
      BY DEF ToSet
    <3> QED
      BY <3>3, <3>4 DEF Suppresses
  <2>4. ObjectsOnce
    BY <2>2, <2>3 DEF ObjectsOnce, cs, kept
  <2>5. ASSUME NEW i \in DOMAIN inference.boxes PROVE Inside(family, inference.boxes[i], w, h)
    <3>1. i \in DOMAIN kept
      BY <2>1
    <3>2. kept[i] \in Decoded(family, w, h)
      BY <2>1, <3>1
    <3>3. Sound(family, w, h, kept[i])
      BY <2>1, <3>2, CandidateIsSound DEF Decoded
    <3>4. Inside(family, Reported(family, kept[i], w, h), w, h)
      BY <2>1, <3>3, ReportInside DEF Reported
    <3> QED
      BY <2>1, <3>1, <3>4
  <2>6. BoxesInFrame
    BY <2>5 DEF BoxesInFrame, Inside, w, h
  <2> QED
    BY <2>4, <2>6
<1>4. inference.action # "continue" => ObjectsOnce /\ BoxesInFrame
  BY DEF ObjectsOnce, BoxesInFrame
<1> QED
  BY <1>1, <1>2, <1>3, <1>4 DEF DetectionsSound

LEMMA DetInitInv == DetectionInit => DetInv
<1> SUFFICES ASSUME DetectionInit PROVE DetInv
  OBVIOUS
<1>1. inference = [action |-> "none"] /\ family = "NanoDet"
  BY DEF DetectionInit, NoTurn
<1>2. inference.action = "none"
  BY <1>1
<1> QED
  BY <1>1, <1>2 DEF DetInv, DetectionTypeOK, Families

LEMMA DetNextInv == DetInv /\ [DetectionNext]_detectionVars => DetInv'
<1> SUFFICES ASSUME DetInv, [DetectionNext]_detectionVars PROVE DetInv'
  OBVIOUS
<1>1. CASE TurnSkipped
  <2>1. family' = family /\ inference' = [action |-> CheckGuardrails(metrics')]
        /\ CheckGuardrails(metrics') # "continue"
    BY <1>1 DEF TurnSkipped
  <2>2. CheckGuardrails(metrics') \in {"skip", "pause", "throttle", "continue"}
    BY DEF CheckGuardrails, CheckMemoryCap, CheckThermal
  <2>3. inference'.action \in {"skip", "pause", "throttle"}
    BY <2>1, <2>2
  <2> QED
    BY <2>1, <2>3 DEF DetInv, DetectionTypeOK
<1>2. CASE TurnInfers
  <2>1. PICK f \in Families, d \in Frames, out \in Outputs :
          /\ family' = f /\ frame' = d /\ inference' = Detect(f, out, d[1], d[2])
    BY <1>2 DEF TurnInfers, TurnWith
  <2>2. Detect(f, out, d[1], d[2]).action = "continue"
    BY DEF Detect
  <2>3. DetectionTypeOK'
    BY <2>1, <2>2 DEF DetectionTypeOK
  <2> QED
    BY <2>1, <2>2, <2>3 DEF DetInv
<1>5. CASE TurnFails
  <2>1. PICK f \in Families : family' = f /\ inference' = [action |-> "error"]
    BY <1>5 DEF TurnFails, TurnWith
  <2>2. inference'.action = "error"
    BY <2>1
  <2> QED
    BY <2>1, <2>2 DEF DetInv, DetectionTypeOK
<1>6. CASE TurnPanics
  <2>1. PICK f \in Families, d \in Frames :
          /\ <<f, d>> \in Overruns /\ family' = f /\ frame' = d
          /\ inference' = [action |-> "panic"]
    BY <1>6 DEF TurnPanics, TurnWith
  <2>2. inference'.action = "panic"
    BY <2>1
  <2>3. ~(d[1] % 2 = 0 /\ d[2] % 2 = 0)
    BY <2>1, OverrunIsOdd
  <2> QED
    BY <2>1, <2>2, <2>3 DEF DetInv, DetectionTypeOK
<1>3. CASE TurnEnds
  <2>1. family' = family /\ inference' = [action |-> "none"]
    BY <1>3 DEF TurnEnds, NoTurn
  <2>2. inference'.action = "none"
    BY <2>1
  <2> QED
    BY <2>1, <2>2 DEF DetInv, DetectionTypeOK
<1>4. CASE UNCHANGED detectionVars
  <2>1. family' = family /\ inference' = inference /\ frame' = frame
    BY <1>4 DEF detectionVars
  <2> QED
    BY <2>1 DEF DetInv, DetectionTypeOK
<1> QED
  BY <1>1, <1>2, <1>3, <1>4, <1>5, <1>6 DEF DetectionNext

(***************************************************************************)
(* The machines side by side: what each keeps alone it keeps in the run.   *)
(***************************************************************************)
LEMMA ObserveTyped == ObserveInv => ObserveTypeOK
<1> SUFFICES ASSUME ObserveInv PROVE ObserveTypeOK
  OBVIOUS
<1>1. Len(requestRing) <= RequestCap
  BY ObserveCaps DEF ObserveInv, EndOf, Clamp
<1>2. \A k \in Handlers : inFlight[k].at \in {"idle", "handling", "answered"}
  BY DEF ObserveInv, Flights
<1> QED
  BY <1>1, <1>2 DEF ObserveInv, ObserveTypeOK

DeviceInv ==
  /\ StartInv /\ SchemaInv /\ ObserveInv /\ SamplerInv /\ OnvifInv /\ DetInv
  /\ MotionInv /\ ParamInv /\ PlayerInv /\ PageCounts /\ MarkInv /\ PictureInv

\* A step of the run is a step of one machine, and none of the others.
LEMMA OneMoves ==
  ASSUME [MCNext]_deviceVars
  PROVE  /\ [StartNext]_startVars /\ [SchemaNext]_schemaVars /\ [ObserveNext]_observeVars
         /\ [SamplerNext]_samplerVars /\ [OnvifNext]_onvifVars
         /\ [DetectionNext]_detectionVars /\ [MotionNext]_motionVars
         /\ [ParamNext]_paramVars /\ [PlayerNext]_playerVars /\ [MarkNext]_markVars
         /\ [PictureNext]_pictureVars
  BY DEF MCNext, deviceVars

LEMMA DeviceNextInv == DeviceInv /\ [MCNext]_deviceVars => DeviceInv'
<1> SUFFICES ASSUME DeviceInv, [MCNext]_deviceVars PROVE DeviceInv'
  OBVIOUS
<1>1. /\ [StartNext]_startVars /\ [SchemaNext]_schemaVars /\ [ObserveNext]_observeVars
      /\ [SamplerNext]_samplerVars /\ [OnvifNext]_onvifVars
      /\ [DetectionNext]_detectionVars /\ [MotionNext]_motionVars
      /\ [ParamNext]_paramVars /\ [PlayerNext]_playerVars /\ [MarkNext]_markVars
      /\ [PictureNext]_pictureVars
  BY OneMoves
<1> QED
  BY <1>1, StartNextInv, SchemaNextInv, ObserveStep, SamplerNextInv, OnvifNextInv,
     DetNextInv, MotionNextInv, ParamNextInv, PlayerNextInv, PageNextCounts,
     MarkNextInv, PictureNextInv DEF DeviceInv

LEMMA RestsInv == SchemaRests => SchemaInv
<1> SUFFICES ASSUME SchemaRests PROVE SchemaInv
  OBVIOUS
<1>1. /\ bootAt = "read" /\ serial = "" /\ source = "file" /\ loading = SerdeDefaults
      /\ cameraUp = "off" /\ variables = NoValues /\ document.gives = NoValues
  BY DEF SchemaRests
<1>2. DOMAIN NoValues = {} /\ Known(NoValues)
  BY DEF NoValues, Known
<1>3. SchemaTypeOK
  BY <1>1, SerdeIsFillable, RestsAssumption DEF SchemaTypeOK
<1> QED
  BY <1>1, <1>2, <1>3, SerdeIsFillable DEF SchemaInv

LEMMA DeviceInitInv == MCInit => DeviceInv
<1> SUFFICES ASSUME MCInit PROVE DeviceInv
  OBVIOUS
<1>1. /\ StartInit /\ ObserveInit /\ SamplerInit /\ OnvifInit /\ DetectionInit /\ MotionInit
      /\ ParamInit /\ PlayerInit /\ MarkInit /\ PictureInit /\ (SchemaInit \/ SchemaRests)
  BY DEF MCInit
<1> QED
  BY <1>1, StartInitInv, SchemaInitInv, RestsInv, ObserveInitInv, SamplerInitInv, OnvifInitInv,
     DetInitInv, MotionInitInv, ParamInitInv, PlayerInitInv, PageInitCounts,
     MarkInitInv, PictureInitInv DEF DeviceInv

LEMMA DeviceHolds == MCSpec => []DeviceInv
  BY DeviceInitInv, DeviceNextInv, PTL DEF MCSpec

(* Every machine keeps its variables in their sets, whichever of them runs *)
(* and whatever the capacities, bounds and inputs (the structs the modules *)
(* name).                                                                  *)
THEOREM DeviceAlwaysTyped == MCSpec => []MCTypeOK
<1>1. DeviceInv => MCTypeOK
  <2> SUFFICES ASSUME DeviceInv PROVE MCTypeOK
    OBVIOUS
  <2>1. StartTypeOK /\ SchemaTypeOK /\ DetectionTypeOK
    BY DEF DeviceInv, StartInv, SchemaInv, DetInv
  <2>2. ObserveTypeOK /\ SamplerTypeOK /\ OnvifTypeOK
    BY ObserveTyped, SamplerTyped, OnvifTyped DEF DeviceInv
  <2>3. MotionTypeOK /\ ParamTypeOK /\ PlayerTypeOK /\ MarkTypeOK /\ PictureTypeOK
    BY MotionTyped, ParamTyped, PlayerTyped, MarkTyped, PictureTyped DEF DeviceInv
  <2> QED
    BY <2>1, <2>2, <2>3 DEF MCTypeOK
<1> QED
  BY DeviceHolds, <1>1, PTL

(* What the device tells of its work and of its load is what happened, for *)
(* rings of any length, any verbosity, any readings and steps of the clock *)
(* (src/src/web/observe.rs).                                               *)
THEOREM ObservationsAlwaysSound == MCSpec => []ObservationsSound
<1>1. DeviceInv => ObservationsSound
  BY QuestionsAnswered, RingsFollow DEF DeviceInv, SamplerInv, ObservedSound, ObservationsSound
<1> QED
  BY DeviceHolds, <1>1, PTL

(* Motion, parameters, watermark and thermal picture are what was seen, set*)
(* or asked for, in whatever grid, font, range or size (src/src/motion/    *)
(* detector.rs, src/src/camera/params.rs, src/src/watermark.rs, src/src/   *)
(* thermal/render.rs and gb_stream.rs).                                    *)
THEOREM PicturesAlwaysSound == MCSpec => []PicturesSound
<1>1. DeviceInv => PicturesSound
  <2> SUFFICES ASSUME DeviceInv PROVE PicturesSound
    OBVIOUS
  <2>1. MotionSound /\ ParamsReadBack /\ WatermarkSound
    BY ParamFromInv, MarkFromInv DEF DeviceInv, MotionInv
  <2>2. ThermalPictureSound
    BY ShownReads DEF DeviceInv, PictureInv, EncoderOK, ThermalPictureSound
  <2> QED
    BY <2>1, <2>2 DEF PicturesSound
<1> QED
  BY DeviceHolds, <1>1, PTL

(* Whatever the network answers, in whatever parts of a pixel, for an      *)
(* input of any size and pictures of any sides: every cell of the grid has *)
(* one point, with even sides no pixel is made from a byte outside its     *)
(* plane and the task does not panic, every object is reported once, and   *)
(* it lies in the picture, one rounded pixel of YOLOX aside (postprocess.  *)
(* rs, yolox.rs and preprocess.rs of src/src/ai/).                         *)
THEOREM DetectionsAlwaysSound == MCSpec => []DetectionsSound
<1>1. DeviceInv => DetectionsSound
  BY DetInvSound DEF DeviceInv
<1> QED
  BY DeviceHolds, <1>1, PTL

(* What holds of startup, configuration, ONVIF and the live view by        *)
(* themselves holds of the device they are part of (main in src/src/       *)
(* main.rs).                                                               *)
THEOREM DeviceAlwaysSound ==
  MCSpec => [](StartupSound /\ ConfigSound /\ OnvifSound /\ PlayerSound)
<1>1. DeviceInv => StartupSound /\ ConfigSound /\ OnvifSound /\ PlayerSound
  BY StartFromInv, SchemaFromInv, PlayerFromInv DEF DeviceInv, OnvifInv, OnvifSound
<1> QED
  BY DeviceHolds, <1>1, PTL
=============================================================================
