------------------------------- MODULE Observe -------------------------------
(***************************************************************************)
(* What the device remembers of its own work (web/observe.rs and the       *)
(* request middleware of web/server.rs): the rings of log lines and of     *)
(* traced requests, and the answers of /api/logs and /api/requests.        *)
(*                                                                         *)
(* Handlers run on several worker threads, so the middleware's allocation  *)
(* of an identity, its trace and its log line are steps that other         *)
(* handlers and other logging code may come between.                       *)
(***************************************************************************)
EXTENDS Integers, Sequences, SequencesExt, FiniteSets

CONSTANTS
  Handlers,       \* requests that may be in flight at the same time
  LogCap,         \* log lines kept (1000 in the code)
  RequestCap,     \* traces kept (500 in the code)
  Verbosity,      \* the level the logger was built with
  MaxRequests,    \* bound: requests made in a behaviour
  MaxOther        \* bound: log lines written by the rest of the program

ASSUME ObserveCaps ==
  /\ LogCap \in Nat \ {0} /\ RequestCap \in Nat \ {0}
  /\ MaxRequests \in Nat /\ MaxOther \in Nat

VARIABLES logRing, requestRing, nextId, inFlight, others, answered

observeVars == <<logRing, requestRing, nextId, inFlight, others, answered>>

(***************************************************************************)
(* Rings.  `answered` is the whole history the ring of traces is the end   *)
(* of.                                                                     *)
(***************************************************************************)
\* as a ring that made room only once it was over its capacity
Push_Overfull(ring, item, cap) ==
  Append(IF Len(ring) > cap THEN Tail(ring) ELSE ring, item)

Push(ring, item, cap) ==
  Append(IF Len(ring) = cap THEN Tail(ring) ELSE ring, item)

NewestFirst(ring) == Reverse(ring)

Clamp(x, lo, hi) == IF x < lo THEN lo ELSE IF x > hi THEN hi ELSE x

Take(s, n) == SubSeq(s, 1, IF n < Len(s) THEN n ELSE Len(s))

(***************************************************************************)
(* The logger tees what env_logger lets through into the log ring.  The    *)
(* web interface knows four levels; a trace line has none of them.         *)
(***************************************************************************)
Severity == [trace |-> 0, debug |-> 1, info |-> 2, warn |-> 3, error |-> 4]

Enabled(level) == Severity[level] >= Severity[Verbosity]

LevelRank(level) == IF level = "trace" THEN -1 ELSE Severity[level] - 1

Log(level, id) ==
  logRing' = IF Enabled(level)
               THEN Push(logRing, [level |-> level, id |-> id], LogCap)
               ELSE logRing

(***************************************************************************)
(* request_logger: the identity is taken before the handler runs, the      *)
(* trace is pushed when it has answered, and the log line follows it.      *)
(* Only /api/* is traced.  A client that goes away drops the future, and   *)
(* with it everything the middleware had left to do.                       *)
(***************************************************************************)
NotHandling == [id |-> 0, at |-> "idle", api |-> FALSE]

Arrives(h) ==
  /\ inFlight[h] = NotHandling /\ nextId <= MaxRequests
  /\ \E api \in BOOLEAN :
       inFlight' = [inFlight EXCEPT ![h] =
                      [id |-> nextId, at |-> "handling", api |-> api]]
  /\ nextId' = nextId + 1
  /\ UNCHANGED <<logRing, requestRing, others, answered>>

Answers(h) ==
  /\ inFlight[h].at = "handling"
  /\ IF inFlight[h].api
       THEN /\ requestRing' = Push(requestRing, inFlight[h].id, RequestCap)
            /\ answered' = Append(answered, inFlight[h].id)
            /\ inFlight' = [inFlight EXCEPT ![h].at = "answered"]
       ELSE /\ inFlight' = [inFlight EXCEPT ![h] = NotHandling]
            /\ UNCHANGED <<requestRing, answered>>
  /\ UNCHANGED <<logRing, nextId, others>>

LogsOutcome(h) ==
  /\ inFlight[h].at = "answered"
  /\ Log("info", inFlight[h].id)
  /\ inFlight' = [inFlight EXCEPT ![h] = NotHandling]
  /\ UNCHANGED <<requestRing, nextId, others, answered>>

Dropped(h) ==
  /\ inFlight[h].at = "handling"
  /\ inFlight' = [inFlight EXCEPT ![h] = NotHandling]
  /\ UNCHANGED <<logRing, requestRing, nextId, others, answered>>

OtherLogs ==
  /\ others < MaxOther /\ others' = others + 1
  /\ \E level \in DOMAIN Severity : Log(level, 0)
  /\ UNCHANGED <<requestRing, nextId, inFlight, answered>>

(***************************************************************************)
(* The answers.  The level is filtered before the limit is applied; an     *)
(* unknown level asks for all.                                             *)
(***************************************************************************)
Keeping(s, wanted) ==
  FoldLeft(LAMBDA kept, x : IF x \in wanted THEN Append(kept, x) ELSE kept, <<>>, s)

\* as the limit applied to the ring and the level to what is left
LogsAnswer_TakesFirst(ring, limit, level) ==
  Keeping(Take(NewestFirst(ring), Clamp(limit, 1, LogCap)),
          {e \in ToSet(ring) : LevelRank(e.level) >= LevelRank(level)})

LogsAnswer(ring, limit, level) ==
  LET least  == IF level \in DOMAIN Severity /\ level # "trace"
                  THEN LevelRank(level) ELSE 0
      wanted == {e \in ToSet(ring) :
                   (IF e.level = "trace" THEN 0 ELSE LevelRank(e.level)) >= least}
  IN Take(Keeping(NewestFirst(ring), wanted), Clamp(limit, 1, LogCap))

RequestsAnswer(ring, limit) ==
  Take(NewestFirst(ring), Clamp(limit, 1, RequestCap))

ObserveInit ==
  /\ logRing = <<>> /\ requestRing = <<>> /\ answered = <<>>
  /\ nextId = 1 /\ others = 0
  /\ inFlight = [h \in Handlers |-> NotHandling]

ObserveNext ==
  \/ \E h \in Handlers :
       Arrives(h) \/ Answers(h) \/ LogsOutcome(h) \/ Dropped(h)
  \/ OtherLogs

ObserveSpec == ObserveInit /\ [][ObserveNext]_observeVars

-----------------------------------------------------------------------------
ObserveTypeOK ==
  /\ Len(logRing) <= LogCap /\ Len(requestRing) <= RequestCap
  /\ nextId \in 1 .. MaxRequests + 1 /\ others \in 0 .. MaxOther
  /\ \A h \in Handlers : inFlight[h].at \in {"idle", "handling", "answered"}

\* The rings are the ends of what happened, whatever the order the handlers
\* finish in: every answered API request is traced once, under an identity of
\* its own, and is missed by /api/requests only when RequestCap others were
\* answered after it; its log line never comes before its trace.
RingsKeepTheEnd ==
  /\ requestRing = SubSeq(answered, Len(answered) - Len(requestRing) + 1,
                          Len(answered))
  /\ Len(requestRing) = Clamp(Len(answered), 0, RequestCap)
  /\ IsInjective(answered)
  /\ \A i \in DOMAIN logRing : logRing[i].id = 0
                               \/ Contains(answered, logRing[i].id)

\* A question for a level is answered with the newest lines of that level and
\* above that the ring still holds, never with fewer because less important
\* lines are newer.
LevelsNotCrowdedOut ==
  \A level \in {"info", "warn", "error"}, limit \in 1 .. LogCap :
    LET hits == {i \in DOMAIN logRing : LevelRank(logRing[i].level)
                                          >= LevelRank(level)}
        a    == LogsAnswer(logRing, limit, level)
    IN /\ Len(a) = IF Cardinality(hits) < limit THEN Cardinality(hits)
                                                 ELSE limit
       /\ \A i \in DOMAIN a : LevelRank(a[i].level) >= LevelRank(level)

\* Both: what /api/requests and /api/logs answer is the recent past.
ObservedSound == RingsKeepTheEnd /\ LevelsNotCrowdedOut
=============================================================================
