----------------------------- MODULE LivePlayer -----------------------------
(***************************************************************************)
(* The live view of the browser (static/js/live.js): the engine that plays *)
(* the chunked response of /stream.mse, its two ways to recover (refetch   *)
(* the connection, rebuild the player), and the fall back to MJPEG.        *)
(*                                                                         *)
(* JavaScript runs one callback at a time, so a callback is a step.  What  *)
(* is shared by the callbacks of an engine and outlives them - timers that *)
(* cannot be cleared, a fetch that a later one has replaced in `abort`, the*)
(* variables a closure of an older player still sees - is its state.       *)
(* Whether the server answers, the connection lasts and the decoder plays  *)
(* is up to the environment.  Left out: a MediaSource that cannot be made  *)
(* where the browser said it can, and one replaced before it opened that   *)
(* reports nevertheless; the list of cameras of a device with several.     *)
(***************************************************************************)
EXTENDS Integers, Sequences, FiniteSets

CONSTANTS
  GiveUpAfter,     \* 12 in the code
  MaxEngines,      \* bound: MSE engines made
  MaxClosures,     \* bound: players of one engine that still matter
  MaxRebuilds,     \* bound: rebuilds of one engine that wait for their timer
  MaxConns,        \* bound: fetches of one engine that are open
  MaxWaiting,      \* bound: calls of startLive that wait for /api/config
  MaxFaults        \* bound: faults of network and decoder

ASSUME PlayerAssumption ==
  /\ {GiveUpAfter, MaxEngines, MaxClosures, MaxRebuilds, MaxConns} \subseteq Nat
  /\ {MaxWaiting, MaxFaults} \subseteq Nat

Engines == 1 .. MaxEngines
Closures == 1 .. MaxClosures      \* the runs of onOpen, one per player
Conns == 1 .. MaxConns
None == 0
Mjpeg == MaxEngines + 1           \* the MJPEG engine, or the polling one

VARIABLES
  plays,        \* what device and browser offer: "mse", "pictures", "none"
  shown,        \* `engine`: nothing, an MSE engine or the MJPEG one
  starting,     \* calls of startLive that wait for /api/config
  configKnown,  \* store.config
  made,         \* MSE engines made
  engines,
  crossed,      \* a startLive came back to an engine already shown (history)
  faults

playerVars == <<plays, shown, starting, configKnown, made, engines, crossed, faults>>

\* ms is the MediaSource of the player, fn the closure in fetchStreamFn, sb
\* where a closure's SourceBuffer is: none yet, in ms, or with a former one;
\* mixed says that a recovery began before another was over (history).
NewEngine ==
  [dead |-> FALSE, failures |-> 0, refetching |-> FALSE, refetches |-> 0,
   rebuilds |-> 0, stall |-> FALSE, watchdog |-> FALSE, ms |-> "none", fn |-> None,
   sb |-> [k \in Closures |-> "none"], conns |-> [c \in Conns |-> None],
   abort |-> None, giving |-> FALSE, gaveUp |-> FALSE, mixed |-> FALSE]

(* Type invariant.                                                         *)
PlayerTypeOK ==
  /\ plays \in {"mse", "pictures", "none"} /\ shown \in {None} \cup 1 .. Mjpeg
  /\ starting \in 0 .. MaxWaiting /\ faults \in 0 .. MaxFaults
  /\ made \in 0 .. MaxEngines /\ DOMAIN engines = Engines
  /\ \A e \in Engines : LET s == engines[e] IN
       /\ s.failures \in 0 .. GiveUpAfter + 1 /\ s.refetches \in 0 .. 1
       /\ s.rebuilds \in 0 .. MaxRebuilds
       /\ s.fn \in {None} \cup Closures /\ s.abort \in {None} \cup Conns /\ ~s.giving

PlayerInit ==
  /\ plays \in {"mse", "pictures", "none"} /\ shown = None /\ starting = 0 /\ configKnown = FALSE /\ made = 0
  /\ engines = [e \in Engines |-> NewEngine] /\ crossed = FALSE /\ faults = 0

-----------------------------------------------------------------------------
(* The functions of startMse, as what they make of an engine.              *)

Failed(s) == [s EXCEPT !.failures = IF @ > GiveUpAfter THEN @ ELSE @ + 1]
Detached(s) == [s EXCEPT !.sb = [k \in Closures |-> IF @[k] = "live" THEN "gone" ELSE @[k]]]

AbortFetch(s) ==
  IF s.abort = None THEN s ELSE [s EXCEPT !.conns[s.abort] = None, !.abort = None]

DestroyPlayer(s) == [Detached(s) EXCEPT !.stall = FALSE, !.watchdog = FALSE, !.ms = "none"]

StopMse(s) == [DestroyPlayer(AbortFetch(s)) EXCEPT !.dead = TRUE]

Refetch(s) ==
  IF s.dead \/ s.refetching THEN s
  ELSE LET f == [Failed(AbortFetch(s)) EXCEPT !.refetching = TRUE, !.stall = FALSE,
                                               !.mixed = @ \/ s.ms # "open"]
       IN IF f.failures > GiveUpAfter THEN [f EXCEPT !.giving = TRUE]
          ELSE [f EXCEPT !.refetches = @ + 1]

HardReconnect(s) ==
  IF s.dead THEN s
  ELSE LET f == Failed(DestroyPlayer(AbortFetch(s)))
       IN IF f.failures > GiveUpAfter THEN [f EXCEPT !.giving = TRUE]
          ELSE [f EXCEPT !.rebuilds = @ + 1, !.mixed = @ \/ s.refetches > 0 \/ s.rebuilds > 0]

BuildPlayer(s) == [Detached(s) EXCEPT !.stall = TRUE, !.watchdog = TRUE, !.ms = "opening"]

\* fetchStream: `abort` is overwritten, whatever it held.
FetchStream(s, k) ==
  LET c == CHOOSE c \in Conns : s.conns[c] = None
  IN [s EXCEPT !.conns[c] = k, !.abort = c, !.stall = TRUE]

CanFetch(s) == \E c \in Conns : s.conns[c] = None

\* The loop of a connection returns.
Ended(s, c) == [s EXCEPT !.conns[c] = None, !.abort = IF @ = c THEN None ELSE @]

-----------------------------------------------------------------------------
(* The callbacks.                                                          *)

\* onGiveUp puts the MJPEG engine in the place of whatever is shown.
Becomes(e, s) ==
  /\ engines' = [engines EXCEPT ![e] = [s EXCEPT !.giving = FALSE, !.gaveUp = @ \/ s.giving]]
  /\ shown' = IF s.giving THEN Mjpeg ELSE shown
  /\ UNCHANGED <<plays, starting, configKnown, made, crossed>>

Fault == faults < MaxFaults /\ faults' = faults + 1

\* onOpen
SourceOpens(e) ==
  LET s == engines[e]
      unused == {k \in Closures : \A c \in Conns : s.conns[c] # k}
  IN /\ s.ms = "opening" /\ CanFetch(s) /\ unused # {}
     /\ LET k == CHOOSE k \in unused : TRUE IN
          Becomes(e, FetchStream([s EXCEPT !.ms = "open", !.fn = k, !.sb[k] = "none",
                                        !.mixed = @ \/ s.refetches > 0], k))
     /\ UNCHANGED faults

\* A refusal, an error or the end of the body.
ConnFails(e, c) ==
  LET s == engines[e] IN
  /\ s.conns[c] # None /\ Fault /\ Becomes(e, Refetch(Ended(s, c)))

\* pump: a SourceBuffer that is busy puts the chunk off, another takes it or
\* refuses; the one of a player that is gone never takes one.  The loop of c
\* goes on unless the engine is stopped.
Pump(e, s, k, c) ==
  LET Loops(r) == IF r.dead /\ c # None THEN Ended(r, c) ELSE r
      takes == ~s.dead /\ s.sb[k] = "live" /\ s.ms = "open"
  IN \/ Becomes(e, Loops(s)) /\ UNCHANGED faults
     \/ takes /\ Becomes(e, [s EXCEPT !.failures = 0]) /\ UNCHANGED faults
     \/ /\ ~s.dead /\ s.rebuilds < MaxRebuilds
        /\ IF s.sb[k] = "gone" /\ c # None THEN UNCHANGED faults ELSE Fault
        /\ Becomes(e, HardReconnect(s))

\* A chunk: the first makes the SourceBuffer in what is the MediaSource now,
\* which may have another already, or be none: the loop looks at `dead` only
\* before it waits.
Chunk(e, c) ==
  LET s == engines[e]  k == s.conns[c]  t == [s EXCEPT !.stall = TRUE] IN
  /\ k # None
  /\ \/ /\ s.sb[k] = "none" /\ s.ms = "open"
        /\ Pump(e, [t EXCEPT !.sb[k] = "live"], k, c)
     \/ /\ s.sb[k] = "none"
        /\ s.ms # "open" \/ \E j \in Closures : s.sb[j] = "live"
        /\ Becomes(e, [Ended(t, c) EXCEPT !.giving = TRUE]) /\ UNCHANGED faults
     \/ s.sb[k] # "none" /\ Pump(e, t, k, c)

\* A SourceBuffer ends an update and takes the next chunk, or reports an
\* error; its listeners outlive the player.
BufferEvent(e) ==
  \E k \in Closures : engines[e].sb[k] # "none" /\ Pump(e, engines[e], k, None)

StallFires(e) ==
  /\ engines[e].stall
  /\ Becomes(e, Refetch([engines[e] EXCEPT !.stall = FALSE])) /\ UNCHANGED faults

\* The playhead has not moved for four ticks.
WatchdogFires(e) ==
  /\ engines[e].watchdog /\ engines[e].rebuilds < MaxRebuilds
  /\ Fault /\ Becomes(e, HardReconnect(engines[e]))

\* Mutant: the timer fires for a stopped engine, too.
RefetchFires_Always(e) ==
  LET s == [engines[e] EXCEPT !.refetches = @ - 1, !.refetching = FALSE] IN
  /\ engines[e].refetches > 0 /\ CanFetch(s)
  /\ Becomes(e, IF s.fn # None THEN FetchStream(s, s.fn) ELSE s) /\ UNCHANGED faults

\* Mutant: the flag is left set.
RefetchFires_KeepsFlag(e) ==
  LET s == [engines[e] EXCEPT !.refetches = @ - 1] IN
  /\ engines[e].refetches > 0 /\ CanFetch(s)
  /\ Becomes(e, IF ~s.dead /\ s.fn # None THEN FetchStream(s, s.fn) ELSE s)
  /\ UNCHANGED faults

RefetchFires(e) ==
  LET s == [engines[e] EXCEPT !.refetches = @ - 1, !.refetching = FALSE] IN
  /\ engines[e].refetches > 0 /\ CanFetch(s)
  /\ Becomes(e, IF ~s.dead /\ s.fn # None THEN FetchStream(s, s.fn) ELSE s)
  /\ UNCHANGED faults

RebuildFires(e) ==
  LET s == [engines[e] EXCEPT !.rebuilds = @ - 1] IN
  /\ engines[e].rebuilds > 0
  /\ Becomes(e, IF s.dead THEN s ELSE BuildPlayer(s)) /\ UNCHANGED faults

-----------------------------------------------------------------------------
(* The page.                                                               *)

Stopped == IF shown \in Engines THEN [engines EXCEPT ![shown] = StopMse(@)] ELSE engines

\* The rest of startLive, once the configuration is there: without video
\* the page says so.
Makes(stopped) ==
  IF plays = "mse"
  THEN /\ made < MaxEngines /\ made' = made + 1 /\ shown' = made'
       /\ engines' = [stopped EXCEPT ![made'] = BuildPlayer(NewEngine)]
  ELSE /\ shown' = IF plays = "none" THEN None ELSE Mjpeg
       /\ engines' = stopped /\ UNCHANGED made

\* The live page is entered, or a camera, a quality or "retry" is chosen.
StartLive ==
  /\ \/ configKnown /\ Makes(Stopped) /\ UNCHANGED starting
     \/ /\ ~configKnown /\ starting < MaxWaiting /\ starting' = starting + 1
        /\ engines' = Stopped /\ shown' = None /\ UNCHANGED made
  /\ UNCHANGED <<plays, configKnown, crossed, faults>>

\* The request for the configuration is over, with or without it.
StartResumes ==
  /\ starting > 0 /\ starting' = starting - 1
  /\ configKnown' \in {configKnown, TRUE}
  /\ Makes(engines) /\ crossed' = (crossed \/ shown # None)
  /\ UNCHANGED <<plays, faults>>

\* The settings page loads the configuration for itself.
SettingsLoad ==
  /\ ~configKnown /\ shown = None /\ configKnown' = TRUE
  /\ UNCHANGED <<plays, shown, starting, made, engines, crossed, faults>>

\* The page is left.
StopLive ==
  /\ shown # None /\ shown' = None /\ engines' = Stopped
  /\ UNCHANGED <<plays, starting, configKnown, made, crossed, faults>>

EngineStep(e) ==
  \/ SourceOpens(e) \/ BufferEvent(e) \/ StallFires(e) \/ WatchdogFires(e)
  \/ RefetchFires(e) \/ RebuildFires(e)
  \/ \E c \in Conns : ConnFails(e, c) \/ Chunk(e, c)

PlayerNext ==
  \/ \E e \in 1 .. made : EngineStep(e)
  \/ StartLive \/ StartResumes \/ SettingsLoad \/ StopLive

PlayerSpec == PlayerInit /\ [][PlayerNext]_playerVars

-----------------------------------------------------------------------------
(* Properties                                                              *)

Alive(e) == e <= made /\ ~engines[e].dead
Open(e) == {c \in Conns : engines[e].conns[c] # None}

(* An engine never rests for good, even in a tab whose watchdog is off:    *)
(* until it gives up, the stall timer runs, a recovery is due or its player*)
(* is about to open, whatever mixture of refetches and rebuilds, refused   *)
(* and late ones, it went through.                                         *)
KeepsTrying ==
  \A e \in Engines : LET s == engines[e] IN
    Alive(e) /\ ~s.gaveUp =>
      s.stall \/ s.refetches + s.rebuilds > 0 \/ s.ms = "opening"

(* A recovery replaces what failed: unless a refetch and a rebuild were    *)
(* under way together, an engine has at most one connection and stop() can *)
(* reach it; a stopped engine then holds no connection, timer or player.   *)
OneConnection ==
  \A e \in Engines : LET s == engines[e] IN
    ~s.mixed =>
      /\ Open(e) \subseteq {s.abort} \ {None}
      /\ s.dead => Open(e) = {} /\ ~s.stall /\ ~s.watchdog /\ s.ms = "none"

(* An engine is left behind, out of reach of stopLive, only after one has  *)
(* given up, which nothing stops, or when a startLive that waited for the  *)
(* configuration came back to an engine that another had made meanwhile.   *)
OnePlays ==
  \A e \in Engines :
    Alive(e) /\ shown # e => crossed \/ \E f \in Engines : engines[f].gaveUp

PlayerSound == KeepsTrying /\ OneConnection /\ OnePlays
=============================================================================
