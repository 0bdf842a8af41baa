------------------------------ MODULE Recorder ------------------------------
(***************************************************************************)
(* The recording writer, run_inner in src/src/recording/writer.rs,         *)
(* composed with the hub slot it subscribes (module HubSlot):              *)
(*                                                                         *)
(*   hub write -> queue -> bridge thread -> async channel -> writer task   *)
(*                                                                         *)
(* The writer drops units while the platform has paused recording, rolls   *)
(* to a new segment at the first key frame past segment_secs, and leaves   *)
(* its loop when the channel ends, on shutdown (tests use it; the          *)
(* production entry points pass None) or at the first file error.  Units   *)
(* are numbered by the write that published them.                          *)
(***************************************************************************)
EXTENDS Naturals, Sequences, Functions

CONSTANTS
  RecCap,          \* capacity of the hub slot (64)
  AsyncCap,     \* capacity of the async channel (64)
  RecMaxAus,       \* bound: number of units written to the hub
  MaxToggles,   \* bound: RecordCmds that change the pause flag
  CanStop       \* the caller passed a shutdown receiver

ASSUME CapAssumption == RecCap \in Nat \ {0} /\ AsyncCap \in Nat \ {0}
ASSUME RecMaxAusAssumption == RecMaxAus \in Nat
ASSUME MaxTogglesAssumption == MaxToggles \in Nat
ASSUME CanStopAssumption == CanStop \in BOOLEAN

VARIABLES
  recLinked, recAlive, recQueue,
  recOwed, recDropped, recLast,                \* the hub slot (HubSlot)
  keys,        \* keys[n]: is the n-th unit written a key frame
  recBridge,      \* "recv" | "send" | "exit": the blocking bridge thread
  recHand,        \* unit the bridge is delivering
  async,       \* the async channel
  writer,      \* "run" | "stopping" | "stopped" | "failed"
  segment,     \* units in the open segment (empty: none is open)
  closed,      \* segments closed and indexed
  active,      \* RECORD_ACTIVE
  pause, toggles,   \* the pause gate, and how often it was changed
  recLost,     \* history: units the hub could not queue
  passed       \* history: units the writer took and did not record
               \* (paused, or no segment open yet), with the reason

recSlot == <<recLinked, recAlive, recQueue, recOwed, recDropped, recLast>>
bridgeVars == <<recBridge, recHand>>
files == <<segment, closed>>
recGate == <<pause, toggles>>
recVars == <<recSlot, keys, bridgeVars, async, writer, files, active, recGate,
             recLost, passed>>

RecSlot == INSTANCE HubSlot
  WITH Cap <- RecCap, linked <- recLinked, alive <- recAlive,
       queue <- recQueue, owed <- recOwed, dropped <- recDropped,
       last <- recLast

RecAus == 1..RecMaxAus
Returned == writer \in {"stopped", "failed"}

(* Type invariant: the async channel keeps its bound, and RECORD_ACTIVE    *)
(* says whether the task runs.                                             *)
RecTypeOK ==
  /\ RecSlot!SlotTypeOK
  /\ keys \in Seq(BOOLEAN)
  /\ recBridge \in {"recv", "send", "exit"} /\ recHand \in 0..RecMaxAus
  /\ async \in Seq(RecAus) /\ Len(async) <= AsyncCap
  /\ writer \in {"run", "stopping", "stopped", "failed"}
  /\ segment \in Seq(RecAus) /\ closed \in Seq(Seq(RecAus))
  /\ active = ~Returned
  /\ pause \in BOOLEAN /\ toggles \in 0..MaxToggles
  /\ recLost \subseteq RecAus
  /\ passed \subseteq [au : RecAus, why : {"paused", "nokey"}]

\* The writer has subscribed, spawned the bridge and loaded the index.
RecInit ==
  /\ recLinked = "linked" /\ recAlive = TRUE /\ recQueue = <<>>
  /\ recOwed = FALSE
  /\ recDropped = 0 /\ recLast = 0
  /\ keys = <<>>
  /\ recBridge = "recv" /\ recHand = 0 /\ async = <<>>
  /\ writer = "run" /\ segment = <<>> /\ closed = <<>> /\ active = TRUE
  /\ pause = FALSE /\ toggles = 0
  /\ recLost = {} /\ passed = {}

-----------------------------------------------------------------------------
(* Environment: the hub, and the platform's RecordCmd.                     *)

\* Units written after the unsubscribe are not this subscriber's.
RecPublish(isKey) ==
  /\ Len(keys) < RecMaxAus /\ recLinked = "linked"
  /\ keys' = Append(keys, isKey)
  /\ \/ RecSlot!OfferTaken(Len(keys) + 1) /\ UNCHANGED recLost
     \/ /\ RecSlot!OfferFailed(Len(keys) + 1)
        /\ recLost' = recLost \cup {Len(keys) + 1}
  /\ UNCHANGED <<bridgeVars, async, writer, files, active, recGate, passed>>

RecCountLoss ==
  /\ RecSlot!CountLoss
  /\ UNCHANGED <<keys, bridgeVars, async, writer, files, active, recGate,
                 recLost, passed>>

\* ControlGlue::on_record
OnRecord(start) ==
  /\ toggles < MaxToggles /\ pause = start
  /\ pause' = ~start /\ toggles' = toggles + 1
  /\ UNCHANGED <<recSlot, keys, bridgeVars, async, writer, files, active,
                 recLost, passed>>

-----------------------------------------------------------------------------
(* The bridge thread: recv, blocking_send.                                 *)

BridgeRecv ==
  /\ recBridge = "recv" /\ RecSlot!Receive
  /\ recBridge' = "send" /\ recHand' = Head(recQueue)
  /\ UNCHANGED <<keys, async, writer, files, active, recGate, recLost, passed>>

\* Mutant: leave as soon as the slot is unlinked.
BridgeEnd_Early ==
  /\ recBridge = "recv" /\ recLinked = "unlinked"
  /\ recBridge' = "exit" /\ RecSlot!CloseReceiver
  /\ UNCHANGED <<keys, recHand, async, writer, files, active, recGate, recLost,
                 passed>>

\* recv fails only when the sender is gone and the buffer is empty.
BridgeEnd ==
  /\ recBridge = "recv" /\ recLinked = "unlinked" /\ recQueue = <<>>
  /\ recBridge' = "exit" /\ RecSlot!CloseReceiver
  /\ UNCHANGED <<keys, recHand, async, writer, files, active, recGate, recLost,
                 passed>>

\* Mutant: send without waiting for room.
BridgeSend_Unbounded ==
  /\ recBridge = "send" /\ ~Returned
  /\ async' = Append(async, recHand) /\ recBridge' = "recv"
  /\ UNCHANGED <<recSlot, keys, recHand, writer, files, active, recGate,
                 recLost, passed>>

BridgeSend ==
  /\ recBridge = "send" /\ ~Returned /\ Len(async) < AsyncCap
  /\ async' = Append(async, recHand) /\ recBridge' = "recv"
  /\ UNCHANGED <<recSlot, keys, recHand, writer, files, active, recGate,
                 recLost, passed>>

\* The writer returned and dropped its end.
BridgeSendFails ==
  /\ recBridge = "send" /\ Returned
  /\ recBridge' = "exit" /\ RecSlot!CloseReceiver
  /\ UNCHANGED <<keys, recHand, async, writer, files, active, recGate, recLost,
                 passed>>

RecBridgeStep == BridgeRecv \/ BridgeEnd \/ BridgeSend \/ BridgeSendFails

-----------------------------------------------------------------------------
(* The writer task: one turn of its loop per unit.                         *)

RecIsKey(n) == keys[n]

\* async_rx.recv() returned unit n; the rest of the turn never waits.
Take(n) == ~Returned /\ async # <<>> /\ n = Head(async) /\ async' = Tail(async)

\* Dropped by the pause gate, or before the first key frame.
Pass(n) ==
  /\ Take(n)
  /\ pause \/ (segment = <<>> /\ ~RecIsKey(n))
  /\ passed' = passed \cup
       {[au |-> n, why |-> IF pause THEN "paused" ELSE "nokey"]}
  /\ UNCHANGED <<recSlot, keys, bridgeVars, writer, files, active, recGate,
                 recLost>>

\* Mutant: any unit opens a segment.
Write_AnyOpens(n) ==
  /\ Take(n) /\ ~pause
  /\ segment' = Append(segment, n)
  /\ UNCHANGED <<recSlot, keys, bridgeVars, writer, closed, active, recGate,
                 recLost, passed>>

\* Appended to the segment that is open.
Write(n) ==
  /\ Take(n) /\ ~pause /\ segment # <<>>
  /\ segment' = Append(segment, n)
  /\ UNCHANGED <<recSlot, keys, bridgeVars, writer, closed, active, recGate,
                 recLost, passed>>

\* Mutant: the key frame that closes a segment is not written to the next.
Roll_DropsKey(n) ==
  /\ Take(n) /\ ~pause /\ RecIsKey(n)
  /\ closed' = IF segment = <<>> THEN closed ELSE Append(closed, segment)
  /\ segment' = IF segment = <<>> THEN <<n>> ELSE <<>>
  /\ UNCHANGED <<recSlot, keys, bridgeVars, writer, active, recGate, recLost,
                 passed>>

\* A key frame opens a segment, closing one older than segment_secs.
Roll(n) ==
  /\ Take(n) /\ ~pause /\ RecIsKey(n)
  /\ closed' = IF segment = <<>> THEN closed ELSE Append(closed, segment)
  /\ segment' = <<n>>
  /\ UNCHANGED <<recSlot, keys, bridgeVars, writer, active, recGate, recLost,
                 passed>>

\* close, open or append failed: the task returns there and then.
Fail(n) ==
  /\ Take(n) /\ ~pause /\ (segment # <<>> \/ RecIsKey(n))
  /\ writer' = "failed" /\ active' = FALSE
  /\ \/ UNCHANGED files                            \* close or append failed
     \/ /\ segment # <<>> /\ RecIsKey(n)     \* closed, the next one failed
        /\ closed' = Append(closed, segment) /\ segment' = <<>>
  /\ UNCHANGED <<recSlot, keys, bridgeVars, recGate, recLost, passed>>

\* Mutant: drain without unsubscribing first.
StopRequested_StaysLinked ==
  /\ CanStop /\ writer = "run"
  /\ writer' = "stopping"
  /\ UNCHANGED <<recSlot, keys, bridgeVars, async, files, active, recGate,
                 recLost, passed>>

\* The shutdown receiver fires: unsubscribe, then drain.
StopRequested ==
  /\ CanStop /\ writer = "run" /\ ~recOwed
  /\ writer' = "stopping" /\ RecSlot!Unlink
  /\ UNCHANGED <<keys, bridgeVars, async, files, active, recGate, recLost,
                 passed>>

\* recv returned None: the bridge dropped its sender and nothing is buffered.
Finish ==
  /\ ~Returned /\ async = <<>> /\ recBridge = "exit"
  /\ \/ /\ writer' = "stopped"
        /\ closed' = IF segment = <<>> THEN closed ELSE Append(closed, segment)
     \/ /\ writer' = "failed" /\ segment # <<>>     \* the last close failed
        /\ UNCHANGED closed
  /\ segment' = <<>> /\ active' = FALSE
  /\ IF recLinked = "linked" THEN RecSlot!Unlink ELSE UNCHANGED recSlot
  /\ UNCHANGED <<keys, bridgeVars, async, recGate, recLost, passed>>

Turn == \E n \in RecAus : Pass(n) \/ Write(n) \/ Roll(n) \/ Fail(n)
WriterStep == Turn \/ StopRequested \/ Finish

-----------------------------------------------------------------------------
RecNext ==
  \/ \E isKey \in BOOLEAN : RecPublish(isKey)
  \/ RecCountLoss
  \/ \E start \in BOOLEAN : OnRecord(start)
  \/ RecBridgeStep
  \/ WriterStep

RecSpec == RecInit /\ [][RecNext]_recVars

(* The bridge thread and the writer task are scheduled, and the pump that  *)
(* is inside write leaves it; the encoder need not produce anything.       *)
RecFairness == /\ WF_recVars(RecBridgeStep) /\ WF_recVars(Turn \/ Finish)
               /\ WF_recVars(RecCountLoss)
RecFairSpec == RecSpec /\ RecFairness

-----------------------------------------------------------------------------
(* Properties                                                              *)

Recorded == Range(segment) \cup UNION {Range(closed[i]) : i \in DOMAIN closed}
InFlight == Range(recQueue) \cup Range(async)
              \cup (IF recBridge = "send" THEN {recHand} ELSE {})
PassedAus == {p.au : p \in passed}

(* "We then drain the AUs already buffered ... so nothing written is lost" *)
(* (writer.rs, shutdown): as long as the task does not fail, a unit the    *)
(* hub queued is in flight, recorded or passed over (by the pause gate or  *)
(* the wait for a first key frame), and in exactly one of the three; after *)
(* a clean stop nothing is in flight any more.                             *)
Conserved ==
  writer # "failed" =>
    /\ 1..Len(keys) = recLost \cup Recorded \cup PassedAus \cup InFlight
    /\ Recorded \cap InFlight = {} /\ PassedAus \cap InFlight = {}
    /\ Recorded \cap PassedAus = {}
    /\ writer = "stopped" => InFlight = {}

(* Segments tile the recording: each starts at a key frame, units are in   *)
(* order inside and across segments, and inside a segment a missing unit   *)
(* was lost at the hub or discarded by a pause, never by the roll.         *)
Bounds(seg) ==
  /\ RecIsKey(Head(seg))
  /\ \A i \in 1..(Len(seg) - 1) :
       /\ seg[i] < seg[i + 1]
       /\ (seg[i] + 1)..(seg[i + 1] - 1) \subseteq
            recLost \cup {p.au : p \in {q \in passed : q.why = "paused"}}

SegmentsTile ==
  LET segs == IF segment = <<>> THEN closed ELSE Append(closed, segment)
  IN  /\ \A i \in DOMAIN segs : segs[i] # <<>> /\ Bounds(segs[i])
      /\ \A i \in 1..(Len(segs) - 1) :
           segs[i][Len(segs[i])] < Head(segs[i + 1])

(* A stop that was requested completes, although the bridge is a blocking  *)
(* thread that may be asleep in recv or in blocking_send at that moment.   *)
StopCompletes == (writer = "stopping") ~> Returned
=============================================================================
