---------------------------- MODULE EventFanout ----------------------------
(***************************************************************************)
(* Events on their way to the browsers: the pipeline event bus             *)
(* (src/src/pipeline/bus.rs, a bounded broadcast channel), the bridge that *)
(* forwards AI events from it (src/src/main.rs), the SSE hub and its       *)
(* streams (src/src/web/events.rs).  AI events are numbered; 0 stands for  *)
(* an event a handler broadcasts directly.                                 *)
(***************************************************************************)
EXTENDS Naturals, Sequences

CONSTANTS
  SseClient,      \* connections of GET /api/events, each used once
  BusCap,         \* capacity of the bus
  MaxAiEvents,    \* bound: AI events published
  MaxHandlerEvents

ASSUME FanoutAssumption ==
  BusCap \in Nat \ {0} /\ MaxAiEvents \in Nat /\ MaxHandlerEvents \in Nat

VARIABLES
  published,      \* AI events published; the bus keeps the last BusCap
  bridgePos,      \* the next one the bridge receives
  hubClients,     \* EventHub.clients
  stream,         \* stream[c]: "none" | "unpolled" | "streaming" | "gone"
  channel,        \* channel[c]: what its unbounded channel holds
  shown,          \* shown[c]: events its response has carried (history)
  broadcasts,     \* everything the hub has broadcast (history)
  joinedAt        \* joinedAt[c]: Len(broadcasts) when it was added (history)

fanoutVars == <<published, bridgePos, hubClients, stream, channel, shown,
                broadcasts, joinedAt>>

(* Type invariant: the hub holds no client it was not given, and the       *)
(* bridge is never ahead of the bus.                                       *)
FanoutTypeOK ==
  /\ published \in 0..MaxAiEvents /\ bridgePos \in 1..published + 1
  /\ hubClients \subseteq {c \in SseClient : stream[c] # "none"}
  /\ stream \in [SseClient -> {"none", "unpolled", "streaming", "gone"}]
  /\ {channel[c] : c \in SseClient} \cup {shown[c] : c \in SseClient}
       \subseteq Seq(0..MaxAiEvents)
  /\ joinedAt \in [SseClient -> 0..Len(broadcasts)]

FanoutInit ==
  /\ published = 0 /\ bridgePos = 1 /\ hubClients = {}
  /\ stream = [c \in SseClient |-> "none"]
  /\ channel = [c \in SseClient |-> <<>>] /\ shown = channel
  /\ broadcasts = <<>> /\ joinedAt = [c \in SseClient |-> 0]

Connected(c) == stream[c] \in {"unpolled", "streaming"}

\* EventBus::publish
Publish ==
  /\ published < MaxAiEvents /\ published' = published + 1
  /\ UNCHANGED <<bridgePos, hubClients, stream, channel, shown, broadcasts, joinedAt>>

\* Mutant: the sweep takes the clients that are still there.
Broadcast_SweepsLive(e) ==
  /\ broadcasts' = Append(broadcasts, e)
  /\ channel' = [c \in SseClient |->
                   IF c \in hubClients /\ Connected(c) THEN Append(channel[c], e)
                   ELSE channel[c]]
  /\ hubClients' = {c \in hubClients : stream[c] # "unpolled"}

\* EventHub::broadcast; a client whose receiver is gone is taken out
Broadcast(e) ==
  /\ broadcasts' = Append(broadcasts, e)
  /\ channel' = [c \in SseClient |->
                   IF c \in hubClients /\ Connected(c) THEN Append(channel[c], e)
                   ELSE channel[c]]
  /\ hubClients' = {c \in hubClients : Connected(c)}

\* The oldest event the bus still keeps.
Oldest == IF published > BusCap THEN published - BusCap + 1 ELSE 1

\* spawn_ai_event_bridge: receive and broadcast
BridgeReceives ==
  /\ Oldest <= bridgePos /\ bridgePos <= published
  /\ bridgePos' = bridgePos + 1 /\ Broadcast(bridgePos)
  /\ UNCHANGED <<published, stream, shown, joinedAt>>

\* RecvError::Lagged: go on with the oldest event kept
BridgeLagged ==
  /\ bridgePos < Oldest /\ bridgePos' = Oldest
  /\ UNCHANGED <<published, hubClients, stream, channel, shown, broadcasts, joinedAt>>

\* recording_set, ai_model_activate, the alarm forwarder
HandlerBroadcasts ==
  /\ Len(SelectSeq(broadcasts, LAMBDA e : e = 0)) < MaxHandlerEvents
  /\ Broadcast(0)
  /\ UNCHANGED <<published, bridgePos, stream, shown, joinedAt>>

\* events_handler: the sender is in the hub before the response exists
Subscribe(c) ==
  /\ stream[c] = "none" /\ stream' = [stream EXCEPT ![c] = "unpolled"]
  /\ hubClients' = hubClients \cup {c}
  /\ joinedAt' = [joinedAt EXCEPT ![c] = Len(broadcasts)]
  /\ UNCHANGED <<published, bridgePos, channel, shown, broadcasts>>

\* The first poll of the generator creates the Unsub guard.
FirstPoll(c) ==
  /\ stream[c] = "unpolled" /\ stream' = [stream EXCEPT ![c] = "streaming"]
  /\ UNCHANGED <<published, bridgePos, hubClients, channel, shown, broadcasts, joinedAt>>

\* rx.recv in the generator's loop; keep-alives are left out
Deliver(c) ==
  /\ stream[c] = "streaming" /\ channel[c] # <<>>
  /\ shown' = [shown EXCEPT ![c] = Append(@, Head(channel[c]))]
  /\ channel' = [channel EXCEPT ![c] = Tail(@)]
  /\ UNCHANGED <<published, bridgePos, hubClients, stream, broadcasts, joinedAt>>

\* The response body is dropped: with its guard, if there is one yet.
Disconnect(c) ==
  /\ Connected(c) /\ stream' = [stream EXCEPT ![c] = "gone"]
  /\ channel' = [channel EXCEPT ![c] = <<>>]
  /\ hubClients' = IF stream[c] = "streaming" THEN hubClients \ {c} ELSE hubClients
  /\ UNCHANGED <<published, bridgePos, shown, broadcasts, joinedAt>>

FanoutNext ==
  \/ Publish \/ BridgeReceives \/ BridgeLagged \/ HandlerBroadcasts
  \/ \E c \in SseClient : Subscribe(c) \/ FirstPoll(c) \/ Deliver(c) \/ Disconnect(c)

FanoutSpec == FanoutInit /\ [][FanoutNext]_fanoutVars

-----------------------------------------------------------------------------
(* Properties                                                              *)

(* A connected browser gets exactly what was broadcast since it asked, in  *)
(* order, from before its response is first polled: nothing is lost        *)
(* between the handler's subscription and the stream's start, whoever else *)
(* comes and goes.                                                         *)
BrowserSeesAll ==
  \A c \in SseClient : Connected(c) =>
    shown[c] \o channel[c] = SubSeq(broadcasts, joinedAt[c] + 1, Len(broadcasts))
=============================================================================
