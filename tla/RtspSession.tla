---------------------------- MODULE RtspSession ----------------------------
(***************************************************************************)
(* One RTSP connection, handle_connection in src/src/streaming/rtsp.rs:    *)
(* the loop that races requests against frame delivery, the sessions SETUP *)
(* creates, and for every PLAY a hub slot with a bridge thread behind it:  *)
(*                                                                         *)
(*   hub write -> queue -> bridge thread -> async channel -> RTP packets   *)
(*                                                                         *)
(* Only the play the connection holds a Receiver of is delivered.  Units   *)
(* are numbered by the write that published them; a unit is a key frame or *)
(* not and takes a number of RTP packets.  Both mounts behave alike, so    *)
(* there is one hub.  A write pass is one step: a bridge thread sees its   *)
(* own slot only, and nobody here reads the drop counters.                 *)
(***************************************************************************)
EXTENDS Naturals, Sequences, Functions

CONSTANTS
  Units,       \* kinds of access unit: records [key, packets]
  InitSeqs,    \* initial RTP sequence numbers
  SeqSpace,      \* 2^16
  HubCap, AsyncCap,   \* 64 and 64
  StallLimit,  \* 5
  MaxAus,      \* bound: units written to the hub
  MaxSetups,   \* bound: SETUP requests
  MaxPlays     \* bound: PLAY requests

ASSUME UnitsAssumption == Units \subseteq [key : BOOLEAN, packets : Nat \ {0}]
ASSUME SeqAssumption == SeqSpace \in Nat \ {0} /\ InitSeqs \subseteq 0..(SeqSpace - 1)
ASSUME CapacityAssumption ==
  HubCap \in Nat \ {0} /\ AsyncCap \in Nat \ {0} /\ StallLimit \in Nat \ {0}
ASSUME BoundAssumption == MaxAus \in Nat /\ MaxSetups \in Nat /\ MaxPlays \in Nat

VARIABLES
  units,       \* units[n]: the n-th unit written to the hub
  \* the connection's locals
  handler,     \* "run" | "ended"
  authed,      \* has_auth, or no credentials are configured
  sid,         \* session_id, 0 for None
  bridge,      \* frame_bridge: the play whose Receiver is held, 0 for None
  sentKey, pDropped, stalls,
  \* the server: Inner.sessions, as session -> [udp, seq]
  sessions,
  setups,      \* sessions created so far; the next one is setups + 1
  \* per PLAY
  slots,       \* plays whose slot is in the hub's map
  plays,       \* plays[p]: [queue, thread, hand, async]
  log          \* history: what became of each unit the connection took

connection == <<handler, authed, sid, bridge>>
flags == <<sentKey, pDropped, stalls>>
server == <<sessions, setups>>
delivery == <<slots, plays>>
vars == <<units, connection, flags, server, delivery, log>>

Aus == 1..MaxAus
Results == {"early", "skipped", "sent", "timeout", "failed"}

(* Type invariant: in particular no channel exceeds its capacity.          *)
TypeOK ==
  /\ units \in Seq(Units)
  /\ handler \in {"run", "ended"} /\ authed \in BOOLEAN
  /\ sid \in 0..MaxSetups /\ setups \in 0..MaxSetups
  /\ bridge \in 0..Len(plays)
  /\ sentKey \in BOOLEAN /\ pDropped \in BOOLEAN /\ stalls \in 0..StallLimit
  /\ DOMAIN sessions \subseteq 1..setups
  /\ \A s \in DOMAIN sessions :
       sessions[s] \in [udp : BOOLEAN, seq : 0..(SeqSpace - 1)]
  /\ slots \subseteq DOMAIN plays
  /\ Len(plays) <= MaxPlays
  /\ \A p \in DOMAIN plays :
       /\ plays[p].queue \in Seq(Aus) /\ Len(plays[p].queue) <= HubCap
       /\ plays[p].async \in Seq(Aus) /\ Len(plays[p].async) <= AsyncCap
       /\ plays[p].thread \in {"recv", "send", "exit"}
       /\ plays[p].hand \in 0..MaxAus
  /\ log \in Seq([au : Aus, on : 1..MaxSetups, udp : BOOLEAN, result : Results,
                  first : 0..(SeqSpace - 1), count : Nat])

Init ==
  /\ units = <<>>
  /\ handler = "run" /\ authed \in BOOLEAN /\ sid = 0 /\ bridge = 0
  /\ sentKey = FALSE /\ pDropped = FALSE /\ stalls = 0
  /\ sessions = [s \in {} |-> s] /\ setups = 0
  /\ slots = {} /\ plays = <<>>
  /\ log = <<>>

-----------------------------------------------------------------------------
(* The hub (AuHub) and the bridge threads.                                 *)

\* try_send to every slot; one whose Receiver is gone or full loses the unit.
\* While there is none a write changes nothing here.
Publish(u) ==
  /\ Len(units) < MaxAus /\ slots # {}
  /\ units' = Append(units, u)
  /\ plays' = [p \in DOMAIN plays |->
       IF p \in slots /\ plays[p].thread # "exit" /\ Len(plays[p].queue) < HubCap
         THEN [plays[p] EXCEPT !.queue = Append(@, Len(units) + 1)]
         ELSE plays[p]]
  /\ UNCHANGED <<connection, flags, server, slots, log>>

BridgeRecv(p) ==
  /\ plays[p].thread = "recv" /\ plays[p].queue # <<>>
  /\ plays' = [plays EXCEPT ![p].thread = "send", ![p].hand = Head(plays[p].queue),
                            ![p].queue = Tail(@)]
  /\ UNCHANGED <<units, connection, flags, server, slots, log>>

\* The connection still holds the Receiver of p.
Held(p) == bridge = p

\* Mutant: an unbounded channel.
BridgeSend_Unbounded(p) ==
  /\ plays[p].thread = "send" /\ Held(p)
  /\ plays' = [plays EXCEPT ![p].thread = "recv", ![p].hand = 0,
                            ![p].async = Append(@, plays[p].hand)]
  /\ UNCHANGED <<units, connection, flags, server, slots, log>>

\* blocking_send: waits for room ...
BridgeSend(p) ==
  /\ plays[p].thread = "send" /\ Held(p) /\ Len(plays[p].async) < AsyncCap
  /\ plays' = [plays EXCEPT ![p].thread = "recv", ![p].hand = 0,
                            ![p].async = Append(@, plays[p].hand)]
  /\ UNCHANGED <<units, connection, flags, server, slots, log>>

\* Mutant: a send whose Receiver is gone is never given up.
BridgeSendFails_Waits(p) == FALSE /\ UNCHANGED vars

\* ... or fails once the Receiver is gone; the thread drops its Subscriber
\* and never tells the hub.
BridgeSendFails(p) ==
  /\ plays[p].thread = "send" /\ ~Held(p)
  /\ plays' = [plays EXCEPT ![p].thread = "exit", ![p].queue = <<>>,
                            ![p].hand = 0]
  /\ UNCHANGED <<units, connection, flags, server, slots, log>>

BridgeStep(p) == BridgeRecv(p) \/ BridgeSend(p) \/ BridgeSendFails(p)

-----------------------------------------------------------------------------
(* Requests.  DESCRIBE, SETUP and PLAY admit a client that has shown its   *)
(* credentials once; a refused one is answered 401 and changes nothing,    *)
(* like OPTIONS, GET_PARAMETER and what cannot be parsed.                  *)

Admit(cred) == authed \/ cred

\* Also a SETUP whose UDP socket cannot be bound, and a PLAY answered 454.
Describe(cred) ==
  /\ handler = "run" /\ Admit(cred)
  /\ authed' = TRUE
  /\ UNCHANGED <<units, handler, sid, bridge, flags, server, delivery, log>>

\* The session SETUP replaces stays in the server's map.
Setup(cred, udp, seq) ==
  /\ handler = "run" /\ setups < MaxSetups /\ Admit(cred)
  /\ authed' = TRUE
  /\ setups' = setups + 1
  /\ sid' = setups'
  /\ sessions' = [s \in DOMAIN sessions \cup {setups'} |->
                    IF s = setups' THEN [udp |-> udp, seq |-> seq] ELSE sessions[s]]
  /\ UNCHANGED <<units, handler, bridge, flags, delivery, log>>

\* Mutant: a new subscriber is handed the latest unit at once.
FreshQueue_Primed ==
  IF units = <<>> THEN <<>> ELSE <<Len(units)>>
\* What a new subscriber finds in its queue: nothing, a live view.
FreshQueue == <<>>

\* The session may be one the Session header names.  The Receiver of an
\* earlier PLAY is dropped, sentKey, pDropped and stalls stay as they are.
Play(cred, s) ==
  /\ handler = "run" /\ Len(plays) < MaxPlays /\ Admit(cred)
  /\ s \in DOMAIN sessions
  /\ authed' = TRUE
  /\ sid' = s
  /\ bridge' = Len(plays) + 1
  /\ slots' = slots \cup {bridge'}
  /\ plays' = Append([p \in DOMAIN plays |-> [plays[p] EXCEPT !.async = <<>>]],
                     [queue |-> FreshQueue, thread |-> "recv", hand |-> 0,
                      async |-> <<>>])
  /\ UNCHANGED <<units, handler, flags, server, log>>

\* The Receiver is dropped with what is in the channel.
DropReceiver ==
  /\ bridge' = 0
  /\ plays' = [p \in DOMAIN plays |-> [plays[p] EXCEPT !.async = <<>>]]
  /\ UNCHANGED slots

End == handler' = "ended" /\ DropReceiver

\* No credentials are asked for; without a session it is answered 454.
Teardown ==
  /\ handler = "run" /\ sid # 0
  /\ sessions' = Restrict(sessions, DOMAIN sessions \ {sid})
  /\ sid' = 0
  /\ DropReceiver
  /\ UNCHANGED <<units, handler, authed, flags, setups, log>>

\* Another connection that named the session in its PLAY tears it down.
ForeignTeardown(s) ==
  /\ s \in DOMAIN sessions
  /\ sessions' = Restrict(sessions, DOMAIN sessions \ {s})
  /\ UNCHANGED <<units, connection, flags, setups, delivery, log>>

\* End of stream or a read error.  The sessions stay in the server's map.
Leave ==
  /\ handler = "run"
  /\ End
  /\ UNCHANGED <<units, authed, sid, flags, server, log>>

-----------------------------------------------------------------------------
(* Delivery: the connection takes a unit from the channel.  While it waits *)
(* for the socket it serves no request, so taking a unit and what becomes  *)
(* of it are one step.                                                     *)

Taken == Head(plays[bridge].async)
Unit == units[Taken]

CanTake == handler = "run" /\ bridge # 0 /\ plays[bridge].async # <<>>
Take == /\ CanTake /\ sid \in DOMAIN sessions
        /\ UNCHANGED <<units, authed, sid, setups, slots>>

\* The connection goes on after the unit, or ends.
GoOn == /\ plays' = [plays EXCEPT ![bridge].async = Tail(@)]
        /\ UNCHANGED <<handler, bridge>>

\* The session was torn down: the Receiver goes, with the unit.
TakeOrphaned ==
  /\ CanTake /\ sid \notin DOMAIN sessions
  /\ DropReceiver
  /\ UNCHANGED <<units, handler, authed, sid, flags, server, log>>

\* count packets numbered from first are put on the wire, or would have been.
Record(result, count) ==
  log' = Append(log, [au |-> Taken, on |-> sid, udp |-> sessions[sid].udp,
                      result |-> result, first |-> sessions[sid].seq,
                      count |-> count])

SetSeq(n) == sessions' = [sessions EXCEPT ![sid].seq = n % SeqSpace]
\* access_unit_to_frames numbers the unit's packets.
SeqAfterUnit == sessions[sid].seq + Unit.packets

\* Mutant: delivery starts with whatever comes.
AwaitsKey_Never == FALSE
\* Wait for first keyframe before sending anything.
AwaitsKey == ~sentKey /\ ~Unit.key
SeesKey == sentKey' = (sentKey \/ Unit.key)

DeliverEarly ==
  /\ Take /\ AwaitsKey
  /\ Record("early", 0)
  /\ GoOn
  /\ UNCHANGED <<flags, sessions>>

\* Mutant: the rewinding of the TCP branch also over UDP.
UdpSeq_Rewinds == sessions[sid].seq + 1
\* The number a UDP session goes on with.
UdpSeq == SeqAfterUnit

\* send_to's result is not looked at.
DeliverUdp ==
  /\ Take /\ ~AwaitsKey /\ sessions[sid].udp
  /\ SeesKey
  /\ SetSeq(UdpSeq)
  /\ Record("sent", Unit.packets)
  /\ GoOn
  /\ UNCHANGED <<pDropped, stalls>>

DeliverTcp == Take /\ ~AwaitsKey /\ ~sessions[sid].udp /\ SeesKey

\* Skip P-frames after a drop.
Skips == ~Unit.key /\ pDropped

DeliverSkipped ==
  /\ DeliverTcp /\ Skips
  /\ SetSeq(SeqAfterUnit)
  /\ Record("skipped", 0)
  /\ GoOn
  /\ UNCHANGED <<pDropped, stalls>>

\* The whole unit is written.  The number to go on with is read from the
\* unit's first packet.
DeliverSent ==
  /\ DeliverTcp /\ ~Skips
  /\ SetSeq(sessions[sid].seq + 1)
  /\ Record("sent", Unit.packets)
  /\ stalls' = 0
  /\ pDropped' = (pDropped /\ ~Unit.key)
  /\ GoOn

\* Mutant: a lost P-frame is not remembered.
PLost_Forgets == pDropped
\* pDropped after a timeout: a lost key frame does not set it.
PLost == pDropped \/ ~Unit.key

\* The write ran out of time with some of the unit on the wire: the number
\* goes back.  StallLimit key frames in a row end the connection.
DeliverTimeout ==
  /\ DeliverTcp /\ ~Skips
  /\ \E k \in 0..(Unit.packets - 1) : Record("timeout", k)
  /\ stalls' = stalls + (IF Unit.key THEN 1 ELSE 0)
  /\ pDropped' = PLost
  /\ IF Unit.key /\ stalls' >= StallLimit
       THEN End /\ SetSeq(SeqAfterUnit)
       ELSE GoOn /\ UNCHANGED sessions

\* The peer is gone.
DeliverFailed ==
  /\ DeliverTcp /\ ~Skips
  /\ \E k \in 0..(Unit.packets - 1) : Record("failed", k)
  /\ SetSeq(SeqAfterUnit)
  /\ End
  /\ UNCHANGED <<pDropped, stalls>>

Deliver == \/ TakeOrphaned \/ DeliverEarly \/ DeliverUdp \/ DeliverSkipped
           \/ DeliverSent \/ DeliverTimeout \/ DeliverFailed

Request == \E cred \in BOOLEAN :
  \/ Describe(cred)
  \/ \E udp \in BOOLEAN, seq \in InitSeqs : Setup(cred, udp, seq)
  \/ \E s \in DOMAIN sessions : Play(cred, s)

Next ==
  \/ \E u \in Units : Publish(u)
  \/ \E p \in DOMAIN plays : BridgeStep(p)
  \/ Request \/ Teardown \/ Leave \/ Deliver
  \/ \E s \in DOMAIN sessions : ForeignTeardown(s)

Spec == Init /\ [][Next]_vars

\* A bridge thread that can go on does.
Fairness == \A p \in 1..MaxPlays : WF_vars(p \in DOMAIN plays /\ BridgeStep(p))

-----------------------------------------------------------------------------
(* Properties.                                                             *)

OnWire == {i \in DOMAIN log : log[i].count > 0}
IsKey(i) == units[log[i].au].key

(* Units reach the wire in the order they were written to the hub and none *)
(* twice, although a second PLAY leaves the first one's bridge thread and  *)
(* channel running for a while (rtsp.rs:1426-1449).                        *)
WireInOrder == \A i, j \in OnWire : i < j => log[i].au < log[j].au

(* No P-frame goes out on a connection before a key frame was at least     *)
(* tried on it (rtsp.rs:376-381), through any number of PLAYs, TEARDOWNs   *)
(* and sessions; and after a P-frame was lost to a timeout none is written *)
(* to the TCP stream until a key frame has been written in full            *)
(* (rtsp.rs:393-399).                                                      *)
NoPAfterLostP ==
  /\ \A i \in OnWire : \E j \in 1..i : IsKey(j) /\ log[j].result # "early"
  /\ \A i, j \in DOMAIN log :
       /\ i < j /\ log[i].result = "timeout" /\ ~IsKey(i)
       /\ log[j].result \in {"sent", "timeout", "failed"} /\ ~log[j].udp
       /\ ~IsKey(j)
       => \E k \in (i + 1)..(j - 1) :
            IsKey(k) /\ log[k].result = "sent" /\ ~log[k].udp

\* i and j put packets of one session on the wire, nothing between them did.
Consecutive(i, j) ==
  /\ i \in OnWire /\ j \in OnWire /\ i < j /\ log[i].on = log[j].on
  /\ \A k \in OnWire : i < k /\ k < j => log[k].on # log[i].on
Contiguous(i, j) == log[j].first = (log[i].first + log[i].count) % SeqSpace

(* A session's RTP sequence numbers run on from unit to unit over UDP      *)
(* (rtsp.rs:382-391), through re-PLAYs and other sessions in between; over *)
(* TCP they do for units of one packet written in full with no P-frame     *)
(* skipped between them: the whole extent to which they have no gaps, as   *)
(* rtsp.rs:433 says they do even if an entire unit was dropped.            *)
SeqContiguousExtent ==
  \A i, j \in DOMAIN log :
    /\ Consecutive(i, j)
    /\ \/ log[i].udp
       \/ /\ log[i].count = 1 /\ log[i].result = "sent"
          /\ \A k \in i..j : log[k].on = log[i].on => log[k].result # "skipped"
    => Contiguous(i, j)

(* rtsp.rs:1444: once the bridge thread is gone its subscriber is          *)
(* deregistered from the hub.                                              *)
SlotsReclaimed == \A p \in slots : plays[p].thread # "exit"

(* Liveness.  A bridge thread whose Receiver was dropped, by TEARDOWN, a   *)
(* second PLAY or the end of the connection, leaves its blocking send and  *)
(* exits if a unit reaches it (rtsp.rs:1438-1443).                         *)
OrphanThreadEnds ==
  \A p \in 1..MaxPlays :
    (/\ p \in DOMAIN plays /\ bridge # p
     /\ plays[p].thread = "send" \/ plays[p].queue # <<>>)
      ~> (p \in DOMAIN plays /\ plays[p].thread = "exit")
=============================================================================
