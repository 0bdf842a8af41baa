----------------------------- MODULE MseStream -----------------------------
(***************************************************************************)
(* One chunked-HTTP MSE connection, mse_response in                        *)
(* src/src/web/video_stream.rs, composed with the hub slot it subscribes   *)
(* (capacity 2, module HubSlot):                                           *)
(*                                                                         *)
(*   hub write -> queue (2) -> bridge thread -> out (1) -> body generator  *)
(*                                                                         *)
(* The bridge drains to the latest unit and lets RealignGate decide        *)
(* whether it may follow what was forwarded before; the generator waits    *)
(* for a key frame carrying SPS and PPS and then emits one segment per     *)
(* unit.  Units are numbered by the write that published them.             *)
(***************************************************************************)
EXTENDS Naturals, Sequences

CONSTANTS
  Kinds,      \* kinds of unit the encoder emits, out of AllKinds
  MaxAus      \* bound: number of units written to the hub

\* "I": key frame with SPS and PPS, "k": key frame without, "P": the others
AllKinds == {"I", "k", "P"}

ASSUME KindsAssumption == Kinds \subseteq AllKinds
ASSUME MaxAusAssumption == MaxAus \in Nat

Cap == 2      \* subscribe_with_capacity(2)

VARIABLES
  linked, alive, queue, owed, dropped, last,   \* the hub slot (HubSlot)
  stream,      \* stream[n]: kind of the n-th unit written
  bridge,      \* where the bridge thread is
  latest,      \* unit in the bridge's hand
  skipped,     \* units the drain loop discarded for it
  droppedNow,  \* drop counter as read after recv
  needKey, seenDrops,                          \* RealignGate
  out,         \* the tokio channel of capacity 1
  body,        \* "unpolled" | "polled" | "dropped": the response stream
  initialized, \* the init segment has been sent
  sent,        \* history: units sent as media segments
  lost,        \* history: units the hub could not queue
  fed          \* history: what the gate let pass, with lost at that time

slot == <<linked, alive, queue, owed, dropped, last>>
gate == <<needKey, seenDrops>>
hand == <<latest, skipped, droppedNow>>
client == <<body, initialized, sent>>
mseVars == <<slot, stream, bridge, hand, gate, out, client, lost, fed>>

Slot == INSTANCE HubSlot

Aus == 1..MaxAus
IsKey(n) == stream[n] # "P"

(* Type invariant: in particular one unit at most waits for the generator. *)
MseTypeOK ==
  /\ Slot!SlotTypeOK
  /\ stream \in Seq(Kinds)
  /\ bridge \in {"start", "recv", "load", "drain", "send", "exit"}
  /\ latest \in 0..MaxAus /\ skipped \in 0..Cap /\ droppedNow \in Nat
  /\ needKey \in BOOLEAN /\ seenDrops \in Nat
  /\ out \in Seq(Aus) /\ Len(out) <= 1
  /\ body \in {"unpolled", "polled", "dropped"} /\ initialized \in BOOLEAN
  /\ sent \in Seq(Aus)
  /\ lost \subseteq Aus
  /\ fed \in Seq([au : Aus, lost : SUBSET Aus])

\* The handler has subscribed; the blocking task may not run yet.
MseInit ==
  /\ linked = "linked" /\ alive = TRUE /\ queue = <<>> /\ owed = FALSE
  /\ dropped = 0 /\ last = 0
  /\ stream = <<>> /\ bridge = "start"
  /\ latest = 0 /\ skipped = 0 /\ droppedNow = 0
  /\ needKey = FALSE /\ seenDrops = 0
  /\ out = <<>> /\ body = "unpolled" /\ initialized = FALSE /\ sent = <<>>
  /\ lost = {} /\ fed = <<>>

-----------------------------------------------------------------------------
(* The hub's side of the slot (AuHub refines it).                          *)

Publish(kind) ==
  /\ Len(stream) < MaxAus
  /\ stream' = Append(stream, kind)
  /\ \/ Slot!OfferTaken(Len(stream) + 1) /\ UNCHANGED lost
     \/ /\ Slot!OfferFailed(Len(stream) + 1)
        /\ lost' = lost \cup {Len(stream) + 1}
  /\ UNCHANGED <<bridge, hand, gate, out, client, fed>>

CountLoss ==
  /\ Slot!CountLoss
  /\ UNCHANGED <<stream, bridge, hand, gate, out, client, lost, fed>>

-----------------------------------------------------------------------------
(* The bridge thread.                                                      *)

\* RealignGate::new(dropped.load()): losses before this are not looked at.
Start ==
  /\ bridge = "start" /\ bridge' = "recv"
  /\ seenDrops' = dropped
  /\ UNCHANGED <<slot, stream, hand, needKey, out, client, lost, fed>>

\* rx.recv() returns a unit ...
RecvAu ==
  /\ bridge = "recv" /\ Slot!Receive
  /\ bridge' = "load" /\ latest' = Head(queue) /\ skipped' = 0
  /\ UNCHANGED <<stream, droppedNow, gate, out, client, lost, fed>>

\* Mutant: an error of recv is retried.
RecvEnd_Retries ==
  /\ bridge = "recv" /\ linked = "unlinked" /\ queue = <<>>
  /\ UNCHANGED mseVars

\* ... or fails once the sender is gone and the queue is empty.
RecvEnd ==
  /\ bridge = "recv" /\ linked = "unlinked" /\ queue = <<>>
  /\ bridge' = "exit" /\ Slot!CloseReceiver
  /\ UNCHANGED <<stream, hand, gate, out, client, lost, fed>>

LoadDropped ==
  /\ bridge = "load" /\ bridge' = "drain"
  /\ droppedNow' = dropped
  /\ UNCHANGED <<slot, stream, latest, skipped, gate, out, client, lost, fed>>

\* Mutant: the drain loop does not count what it discards.
DrainOne_Uncounted ==
  /\ bridge = "drain" /\ Slot!Receive
  /\ latest' = Head(queue)
  /\ UNCHANGED <<stream, bridge, skipped, droppedNow, gate, out, client, lost,
                 fed>>

\* while let Ok(extra) = rx.try_recv(); only skipped > 0 is ever asked, so
\* the count saturates.
DrainOne ==
  /\ bridge = "drain" /\ Slot!Receive
  /\ latest' = Head(queue) /\ skipped' = IF skipped < Cap THEN skipped + 1
                                                          ELSE skipped
  /\ UNCHANGED <<stream, bridge, droppedNow, gate, out, client, lost, fed>>

\* Mutant: a refusal is not remembered for the next unit.
NeedsKey_Forgets == droppedNow # seenDrops \/ (skipped > 0 /\ ~IsKey(latest))

(* RealignGate::allow on the unit in hand.                                 *)
NeedsKey ==
  needKey \/ droppedNow # seenDrops \/ (skipped > 0 /\ ~IsKey(latest))
Allowed == NeedsKey => IsKey(latest)

DrainEnd ==
  /\ bridge = "drain" /\ queue = <<>>
  /\ seenDrops' = droppedNow
  /\ needKey' = (NeedsKey /\ ~Allowed)
  /\ bridge' = IF Allowed THEN "send" ELSE "recv"
  /\ UNCHANGED <<slot, stream, hand, out, client, lost, fed>>

\* atx.blocking_send: waits for room, fails when the body is gone.
SendAu ==
  /\ bridge = "send" /\ body # "dropped" /\ out = <<>>
  /\ out' = <<latest>> /\ bridge' = "recv"
  /\ fed' = Append(fed, [au |-> latest, lost |-> lost])
  /\ UNCHANGED <<slot, stream, hand, gate, client, lost>>

SendFails ==
  /\ bridge = "send" /\ body = "dropped"
  /\ bridge' = "exit" /\ Slot!CloseReceiver
  /\ UNCHANGED <<stream, hand, gate, out, client, lost, fed>>

BridgeStep ==
  \/ Start \/ RecvAu \/ RecvEnd \/ LoadDropped \/ DrainOne \/ DrainEnd
  \/ SendAu \/ SendFails

-----------------------------------------------------------------------------
(* The body generator; Unsub exists only after its first poll.             *)

Poll ==
  /\ body = "unpolled" /\ body' = "polled"
  /\ UNCHANGED <<slot, stream, bridge, hand, gate, out, initialized, sent,
                 lost, fed>>

Emit ==
  /\ body = "polled" /\ out # <<>>
  /\ out' = <<>>
  /\ IF initialized \/ stream[Head(out)] = "I"
       THEN initialized' = TRUE /\ sent' = Append(sent, Head(out))
       ELSE UNCHANGED <<initialized, sent>>
  /\ UNCHANGED <<slot, stream, bridge, hand, gate, body, lost, fed>>

\* The client goes away (or asked with HEAD and the body is never polled).
DropBody ==
  /\ body \in {"unpolled", "polled"} /\ body' = "dropped" /\ out' = <<>>
  /\ IF body = "polled" THEN Slot!Unlink ELSE UNCHANGED slot
  /\ UNCHANGED <<stream, bridge, hand, gate, initialized, sent, lost, fed>>

-----------------------------------------------------------------------------
MseNext ==
  \/ \E kind \in Kinds : Publish(kind)
  \/ CountLoss
  \/ BridgeStep
  \/ Poll \/ Emit \/ DropBody

MseSpec == MseInit /\ [][MseNext]_mseVars

(* The bridge thread is scheduled and the generator is polled when a unit  *)
(* is ready; the encoder and the client promise nothing.                   *)
MseFairness == WF_mseVars(BridgeStep) /\ WF_mseVars(Emit)
MseFairSpec == MseSpec /\ MseFairness

-----------------------------------------------------------------------------
(* Properties                                                              *)

(* Consecutive units among those sent to the client.                       *)
Adjacent == {<<sent[i], sent[i + 1]>> : i \in 1..(Len(sent) - 1)}

(* After a loss "only a key frame passes until one realigns" (RealignGate),*)
(* to the extent the code keeps it.  Units go out in order; what the bridge*)
(* itself skipped, by draining to the latest or because the gate was shut, *)
(* is followed by a key frame; and any other unit that follows a hole is   *)
(* one whose hole was already there, and counted, when an older key frame  *)
(* passed the gate and paid for it.                                        *)
HoleOnlyBehindOvertakenKey ==
  /\ \A p \in Adjacent :
       /\ p[1] < p[2]
       /\ (\E n \in (p[1] + 1)..(p[2] - 1) : n \notin lost) => IsKey(p[2])
  /\ \A i \in 1..(Len(fed) - 1) :
       \A n \in (fed[i].au + 1)..(fed[i + 1].au - 1) :
         ~IsKey(fed[i + 1].au) =>
           \E j \in 1..i : IsKey(fed[j].au) /\ n \in fed[j].lost

(* A connection that was being served does not leak its thread: once the   *)
(* slot is gone the blocked bridge wakes up, drains and exits.             *)
BridgeExits == (linked = "unlinked") ~> (bridge = "exit")
=============================================================================
