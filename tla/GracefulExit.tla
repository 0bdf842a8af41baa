---------------------------- MODULE GracefulExit ----------------------------
(***************************************************************************)
(* The shutdown handshake of src/src/main.rs: exit tasks (the signal       *)
(* handler, POST /api/system/restart) raise want for every GB28181         *)
(* supervisor, wait a bounded time for each one's done and end the         *)
(* process; a supervisor that serves deregisters first.  The SIP server is *)
(* a library: spawn succeeds or fails, a server may stop on its own, a     *)
(* deregistration succeeds, fails or times out.                            *)
(***************************************************************************)
EXTENDS Naturals, Sequences

CONSTANTS
  Sups,       \* the supervisors in the order they are awaited (main, thermal)
  Enabled,    \* those of them that run; the others are marked done at start
  Task        \* exit tasks; SignalTask is the one the signals start

ASSUME SupsAssumption ==
  Sups \in Seq({Sups[i] : i \in DOMAIN Sups}) /\ Sups # <<>>
ASSUME EnabledAssumption == Enabled \subseteq {Sups[i] : i \in DOMAIN Sups}

CONSTANT SignalTask

VARIABLES
  exitWant, done,   \* the two watch channels of each supervisor
  pc,           \* "off" | "starting" | "backoff" | "serving" |
                \* "deregistering" | "finished"
  registered,   \* the platform believes the device to be online
  asked,        \* a deregistration was attempted (history)
  signal,       \* "none" | "TERM" | "INT"
  turn,         \* turn[t]: 0, or the position in Sups task t waits for
  gaveUp,       \* supervisors whose wait timed out (history)
  process       \* "running" | "exited" | "returned" (from main)

watches == <<exitWant, done>>
sups == <<pc, registered, asked>>
tasks == <<signal, turn, gaveUp, process>>
exitVars == <<watches, sups, tasks>>

Sup == {Sups[i] : i \in DOMAIN Sups}

(* Type invariant: in particular no exit task runs past the last           *)
(* supervisor.                                                             *)
ExitTypeOK ==
  /\ exitWant \in [Sup -> BOOLEAN] /\ done \in [Sup -> BOOLEAN]
  /\ pc \in [Sup -> {"off", "starting", "backoff", "serving",
                     "deregistering", "finished"}]
  /\ registered \in [Sup -> BOOLEAN] /\ asked \in [Sup -> BOOLEAN]
  /\ signal \in {"none", "TERM", "INT"}
  /\ turn \in [Task -> 0..Len(Sups)]
  /\ gaveUp \subseteq Sup
  /\ process \in {"running", "exited", "returned"}

ExitInit ==
  /\ exitWant = [s \in Sup |-> FALSE]
  /\ done = [s \in Sup |-> s \notin Enabled]
  /\ pc = [s \in Sup |-> IF s \in Enabled THEN "starting" ELSE "off"]
  /\ registered = [s \in Sup |-> FALSE]
  /\ asked = [s \in Sup |-> FALSE]
  /\ signal = "none" /\ turn = [t \in Task |-> 0] /\ gaveUp = {}
  /\ process = "running"

Running == process = "running"
Become(s, state) == pc' = [pc EXCEPT ![s] = state]

-----------------------------------------------------------------------------
(* A supervisor.                                                           *)

\* retry_start: spawn failed, sleep, try again, for as long as it takes
GbStartFails(s) ==
  /\ Running /\ pc[s] = "starting" /\ Become(s, "backoff")
  /\ UNCHANGED <<watches, registered, asked, tasks>>

BackoffOver(s) ==
  /\ Running /\ pc[s] = "backoff" /\ Become(s, "starting")
  /\ UNCHANGED <<watches, registered, asked, tasks>>

\* spawn returned a handle; then the look at want
StartSucceeds(s) ==
  /\ Running /\ pc[s] = "starting"
  /\ registered' = [registered EXCEPT ![s] = TRUE]
  /\ IF exitWant[s] THEN /\ done' = [done EXCEPT ![s] = TRUE]
                     /\ Become(s, "finished")
                ELSE /\ Become(s, "serving") /\ UNCHANGED done
  /\ UNCHANGED <<exitWant, asked, tasks>>

\* Mutant: a server that stopped counts as deregistered.
ServerStops_Acks(s) ==
  /\ Running /\ pc[s] = "serving" /\ Become(s, "starting")
  /\ registered' = [registered EXCEPT ![s] = FALSE]
  /\ done' = [done EXCEPT ![s] = TRUE]
  /\ UNCHANGED <<exitWant, asked, tasks>>

\* the server ended on its own: restart it
ServerStops(s) ==
  /\ Running /\ pc[s] = "serving" /\ Become(s, "starting")
  /\ \E r \in BOOLEAN : registered' = [registered EXCEPT ![s] = r]
  /\ UNCHANGED <<watches, asked, tasks>>

\* Mutant: ack first, deregister afterwards.
WantSeen_AcksFirst(s) ==
  /\ Running /\ pc[s] = "serving" /\ exitWant[s] /\ Become(s, "deregistering")
  /\ done' = [done EXCEPT ![s] = TRUE]
  /\ UNCHANGED <<exitWant, registered, asked, tasks>>

\* want_rx.changed()
WantSeen(s) ==
  /\ Running /\ pc[s] = "serving" /\ exitWant[s] /\ Become(s, "deregistering")
  /\ UNCHANGED <<watches, registered, asked, tasks>>

\* shutdown_with_deregister: Ok, Err, or the 8 s timeout and abort; done in
\* any case, and the break leaves the select loop, not the supervision loop.
Deregistered(s) ==
  /\ Running /\ pc[s] = "deregistering"
  /\ asked' = [asked EXCEPT ![s] = TRUE]
  /\ \E ok \in BOOLEAN :
       registered' = [registered EXCEPT ![s] = @ /\ ~ok]
  /\ done' = [done EXCEPT ![s] = TRUE]
  /\ Become(s, "starting")
  /\ UNCHANGED <<exitWant, tasks>>

SupStep(s) ==
  \/ GbStartFails(s) \/ BackoffOver(s) \/ StartSucceeds(s) \/ ServerStops(s)
  \/ WantSeen(s) \/ Deregistered(s)

-----------------------------------------------------------------------------
(* The exit tasks.                                                         *)

SignalArrives(kind) ==
  /\ Running /\ signal = "none" /\ signal' = kind
  /\ UNCHANGED <<watches, sups, turn, gaveUp, process>>

\* graceful_exit: request() for all of them
Request(t) ==
  /\ Running /\ turn[t] = 0
  /\ t = SignalTask => signal # "none"
  /\ exitWant' = [s \in Sup |-> TRUE]
  /\ turn' = [turn EXCEPT ![t] = 1]
  /\ UNCHANGED <<done, sups, signal, gaveUp, process>>

\* after the last one, process::exit(0)
Advance(t) ==
  IF turn[t] = Len(Sups) THEN process' = "exited" /\ UNCHANGED turn
                         ELSE /\ turn' = [turn EXCEPT ![t] = @ + 1]
                              /\ UNCHANGED process

\* wait_done returned
ExitAcked(t) ==
  /\ Running /\ turn[t] > 0 /\ done[Sups[turn[t]]]
  /\ Advance(t)
  /\ UNCHANGED <<watches, sups, signal, gaveUp>>

\* Mutant: the wait starts over when its time is up.
WaitTimesOut_Again(t) ==
  /\ Running /\ turn[t] > 0 /\ ~done[Sups[turn[t]]]
  /\ UNCHANGED exitVars

\* the per-supervisor timeout
WaitTimesOut(t) ==
  /\ Running /\ turn[t] > 0 /\ ~done[Sups[turn[t]]]
  /\ gaveUp' = gaveUp \cup {Sups[turn[t]]}
  /\ Advance(t)
  /\ UNCHANGED <<watches, sups, signal>>

\* The web server has a Ctrl-C handler of its own; when its connections are
\* gone it returns, and so does main.
WebReturns ==
  /\ Running /\ signal = "INT" /\ process' = "returned"
  /\ UNCHANGED <<watches, sups, signal, turn, gaveUp>>

TaskStep(t) == ExitAcked(t) \/ WaitTimesOut(t)

-----------------------------------------------------------------------------
ExitNext ==
  \/ \E s \in Enabled : SupStep(s)
  \/ \E kind \in {"TERM", "INT"} : SignalArrives(kind)
  \/ \E t \in Task : Request(t) \/ TaskStep(t)
  \/ WebReturns

ExitSpec == ExitInit /\ [][ExitNext]_exitVars

\* Timers fire; nothing is assumed of supervisors, library or platform.
ExitFairness == \A t \in Task : WF_exitVars(TaskStep(t))
ExitFairSpec == ExitSpec /\ ExitFairness

-----------------------------------------------------------------------------
(* Properties                                                              *)

(* "exit must always win": once an exit was requested the process ends,    *)
(* whatever the supervisors, the network and the platform do.              *)
ExitWins == (\E t \in Task : turn[t] > 0) ~> (process # "running")

(* The exit waits for what it says it does: a supervisor that runs never   *)
(* acks an exit nobody asked for (a server that stops and restarts leaves  *)
(* done alone, so that a later exit still waits for its deregistration),   *)
(* and an exit that did not time out leaves no supervisor in the middle of *)
(* a first deregistration.                                                 *)
NotCutShort ==
  /\ \A s \in Enabled : done[s] => exitWant[s]
  /\ process = "exited" =>
       \A s \in Enabled \ gaveUp : pc[s] = "deregistering" => asked[s]

(* "deregister GB28181 first so the platform notices the restart           *)
(* immediately, then exit" (main.rs).  Refuted: after the ack the          *)
(* supervisor loops, and registers a new server while the exit still waits *)
(* for the other supervisor.                                               *)
StaysDeregistered ==
  [][\A s \in Enabled :
       (asked[s] /\ ~registered[s]) => ~registered'[s]]_exitVars
=============================================================================
