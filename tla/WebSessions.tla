------------------------------ MODULE WebSessions ------------------------------
(***************************************************************************)
(* Login sessions (src/src/web/auth.rs): the store in memory, its file,    *)
(* which carries sessions over a restart as wall-clock expiries in whole   *)
(* seconds and may fail to be written, and the lock after repeated         *)
(* failures.  Tokens are numbered in the order they are issued.            *)
(***************************************************************************)
EXTENDS Integers, FiniteSets

CONSTANTS
  LoginReq,       \* logins and password resets that may be in flight at once
  MaxTokens,      \* bound: sessions issued
  Ttl,            \* SESSION_TTL in ticks
  Sec,            \* ticks of a second
  MaxFailures,    \* LOGIN_MAX_FAILURES
  LockTicks,      \* LOGIN_LOCK_BASE_SECS in ticks
  MaxAttempts,    \* bound: logins begun
  MaxSessTicks,   \* bound: ticks of the monotonic clock
  MaxSaveFaults,  \* bound: writes of the file that fail
  SessRestarts    \* bound: restarts of the process

ASSUME SessAssumption ==
  /\ {MaxTokens, Ttl, MaxAttempts, MaxSessTicks, MaxSaveFaults, SessRestarts} \subseteq Nat
  /\ {Sec, MaxFailures, LockTicks} \subseteq Nat \ {0} /\ IsFiniteSet(LoginReq)

Tokens == 1..MaxTokens

VARIABLES
  now,            \* the monotonic clock; the wall clock agrees with it
  sessions,       \* sessions: token -> expiry, 0 for none
  sessFile,       \* web-sessions.json: token -> expiry in seconds, 0 for none
  failures,       \* failures of the one account: count and locked_until
  login,          \* login[r]: "idle" | "checked" | "renewing"
  issued, attempts, restarted,
  configured,     \* web.password is set
  clearing,       \* a factory reset has still to clear the sessions
  lifetime,       \* lifetime[t]: when t expires (history)
  out,            \* tokens logged out or cleared (history)
  saveFaults,     \* writes of the file that failed (history)
  stale,          \* tokens whose last change is not in the file (history)
  undone          \* tokens whose last change a restart has undone (history)

sessVars == <<now, sessions, sessFile, failures, login, issued, attempts,
              restarted, configured, clearing, lifetime, out, saveFaults,
              stale, undone>>
saving == <<sessFile, saveFaults, stale>>

Unix == now \div Sec

Nothing == [t \in Tokens |-> 0]
NoFailure == [count |-> 0, until |-> 0]

(* Type invariant: nobody is signed in for longer than SESSION_TTL from    *)
(* now, and the file names no session that was never issued.               *)
SessTypeOK ==
  /\ now \in 0..MaxSessTicks /\ issued \in 0..MaxTokens
  /\ \A t \in Tokens : sessions[t] \in 0..now + Ttl /\ sessFile[t] \in 0..Unix + Ttl \div Sec
  /\ \A t \in Tokens : sessions[t] # 0 \/ sessFile[t] # 0 => t <= issued
  /\ failures.count \in 0..MaxFailures + Cardinality(LoginReq) - 1
  /\ failures.until \in 0..now + 8 * LockTicks
  /\ login \in [LoginReq -> {"idle", "checked", "renewing"}]
  /\ attempts \in 0..MaxAttempts /\ restarted \in 0..SessRestarts
  /\ configured \in BOOLEAN /\ clearing \in BOOLEAN /\ out \subseteq 1..issued
  /\ \A t \in Tokens : lifetime[t] \in 0..now + Ttl
  /\ saveFaults \in 0..MaxSaveFaults /\ stale \subseteq 1..issued /\ undone \subseteq 1..issued

SessInit ==
  /\ now = 0 /\ sessions = Nothing /\ sessFile = Nothing /\ failures = NoFailure
  /\ login = [r \in LoginReq |-> "idle"] /\ issued = 0 /\ attempts = 0
  /\ restarted = 0 /\ configured \in BOOLEAN /\ clearing = FALSE
  /\ lifetime = Nothing /\ out = {} /\ saveFaults = 0 /\ stale = {} /\ undone = {}

Alive(t) == sessions[t] > now

\* What the file is to say of the sessions: seconds of both clocks, rounded
\* down; what has expired but was not swept expires now.
Record(s) ==
  [t \in Tokens |-> IF s[t] = 0 THEN 0
                    ELSE Unix + (IF s[t] > now THEN (s[t] - now) \div Sec ELSE 0)]

\* SessionStore::persist, after a change of some tokens: the error of a write
\* that fails is dropped, and the old file stays.
Persist(changed) ==
  \/ sessFile' = Record(sessions') /\ stale' = {} /\ UNCHANGED saveFaults
  \/ /\ saveFaults < MaxSaveFaults /\ saveFaults' = saveFaults + 1
     /\ stale' = stale \cup changed /\ UNCHANGED sessFile

\* SessionStore::create
CreateSession ==
  /\ issued < MaxTokens /\ issued' = issued + 1
  /\ sessions' = [sessions EXCEPT ![issued + 1] = now + Ttl]
  /\ lifetime' = [lifetime EXCEPT ![issued + 1] = now + Ttl]
  /\ Persist({issued + 1})

\* SessionStore::clear
ClearStore ==
  sessions' = Nothing /\ out' = 1..issued /\ undone' = {} /\ Persist(1..issued)

\* is_locked: an expired lock resets the counter
Locked == failures.until > now
ForgetLock == failures' = IF failures.until # 0 /\ ~Locked THEN NoFailure ELSE failures

\* login: refused while locked
LoginBegins(r) ==
  /\ configured /\ login[r] = "idle"
  /\ attempts < MaxAttempts /\ attempts' = attempts + 1
  /\ login' = [login EXCEPT ![r] = IF Locked THEN "idle" ELSE "checked"]
  /\ ForgetLock
  /\ UNCHANGED <<now, sessions, saving, issued, restarted, configured,
                 clearing, lifetime, out, undone>>

\* record_failure: the lock doubles with every failure beyond the limit, to 8x
LoginFails(r) ==
  /\ login[r] = "checked" /\ login' = [login EXCEPT ![r] = "idle"]
  /\ LET count == failures.count + 1
         over == count - MaxFailures
         factor == CASE over = 0 -> 1 [] over = 1 -> 2 [] over = 2 -> 4 [] OTHER -> 8
     IN failures' = [count |-> count,
                     until |-> IF over < 0 THEN failures.until
                               ELSE now + LockTicks * factor]
  /\ UNCHANGED <<now, sessions, saving, issued, attempts, restarted, configured,
                 clearing, lifetime, out, undone>>

\* clear_failures, create
LoginSucceeds(r) ==
  /\ login[r] = "checked" /\ login' = [login EXCEPT ![r] = "idle"]
  /\ failures' = NoFailure /\ CreateSession
  /\ UNCHANGED <<now, attempts, restarted, configured, clearing, out, undone>>

\* validate finds the session expired; the file keeps it
Validate(t) ==
  /\ sessions[t] # 0 /\ ~Alive(t) /\ sessions' = [sessions EXCEPT ![t] = 0]
  /\ UNCHANGED <<now, saving, failures, login, issued, attempts, restarted, configured,
                 clearing, lifetime, out, undone>>

\* Mutant: the file is left as it is.
Logout_Memory(t) ==
  /\ t <= issued /\ sessions' = [sessions EXCEPT ![t] = 0]
  /\ out' = out \cup {t} /\ undone' = undone \ {t}
  /\ UNCHANGED <<now, saving, failures, login, issued, attempts, restarted, configured,
                 clearing, lifetime>>

\* logout, SessionStore::remove: of any token, one no longer in the store too
Logout(t) ==
  /\ t <= issued /\ sessions' = [sessions EXCEPT ![t] = 0]
  /\ out' = out \cup {t} /\ undone' = undone \ {t} /\ Persist({t})
  /\ UNCHANGED <<now, failures, login, issued, attempts, restarted, configured,
                 clearing, lifetime>>

\* reset: clear ...; its changes of the configuration are in module WebConfig
ResetClears(r) ==
  /\ configured /\ login[r] = "idle" /\ attempts < MaxAttempts /\ attempts' = attempts + 1
  /\ login' = [login EXCEPT ![r] = "renewing"] /\ ClearStore
  /\ UNCHANGED <<now, failures, issued, restarted, configured, clearing, lifetime>>

\* ... then a new session for the one who asked
ResetCreates(r) ==
  /\ login[r] = "renewing" /\ login' = [login EXCEPT ![r] = "idle"] /\ CreateSession
  /\ UNCHANGED <<now, failures, attempts, restarted, configured, clearing, out, undone>>

\* setup: the first password, and a session for who chose it
FirstSetup ==
  /\ ~configured /\ configured' = TRUE /\ CreateSession
  /\ UNCHANGED <<now, failures, login, attempts, restarted, clearing, out, undone>>

\* reset_config: the password goes back to unset ...
FactoryReset ==
  /\ configured /\ ~clearing /\ configured' = FALSE /\ clearing' = TRUE
  /\ UNCHANGED <<now, sessions, saving, failures, login, issued, attempts,
                 restarted, lifetime, out, undone>>

\* ... then every session ends, one of a setup in between included; a login
\* that was checked before the reset still gets its session afterwards
ClearSessions ==
  /\ clearing /\ clearing' = FALSE /\ ClearStore
  /\ UNCHANGED <<now, failures, login, issued, attempts, restarted, configured,
                 lifetime>>

\* spawn_sweeper, sweep
SweepSessions ==
  /\ \E t \in Tokens : sessions[t] # 0 /\ ~Alive(t)
  /\ sessions' = [t \in Tokens |-> IF Alive(t) THEN sessions[t] ELSE 0]
  /\ UNCHANGED <<now, saving, failures, login, issued, attempts, restarted, configured,
                 clearing, lifetime, out, undone>>

\* with_persistence: what expires within this second is pruned, failures are
\* forgotten
SessRestart ==
  /\ restarted < SessRestarts /\ restarted' = restarted + 1
  /\ sessions' = [t \in Tokens |-> IF sessFile[t] > Unix
                                   THEN now + (sessFile[t] - Unix) * Sec ELSE 0]
  /\ failures' = NoFailure /\ login' = [r \in LoginReq |-> "idle"]
  /\ clearing' = FALSE /\ undone' = undone \cup stale /\ stale' = {}
  /\ UNCHANGED <<now, sessFile, issued, attempts, configured, lifetime, out, saveFaults>>

SessTick ==
  /\ now < MaxSessTicks /\ now' = now + 1
  /\ UNCHANGED <<sessions, saving, failures, login, issued, attempts, restarted, configured,
                 clearing, lifetime, out, undone>>

SessNext ==
  \/ FirstSetup \/ FactoryReset \/ ClearSessions
  \/ SweepSessions \/ SessRestart \/ SessTick
  \/ \E r \in LoginReq : \/ LoginBegins(r) \/ LoginFails(r) \/ LoginSucceeds(r)
                         \/ ResetClears(r) \/ ResetCreates(r)
  \/ \E t \in Tokens : Validate(t) \/ Logout(t)

SessSpec == SessInit /\ [][SessNext]_sessVars

-----------------------------------------------------------------------------
(* Properties                                                              *)

(* A restart rounds both clocks to seconds: an expiry of t that went        *)
(* through the file n times.                                               *)
Rounding(n) == n * (Sec - 1)

OnTime(expiry, t, n) ==
  /\ expiry >= lifetime[t] - 2 * Rounding(n)
  /\ expiry <= lifetime[t] + Rounding(n)

(* "Deliberate restarts keep browsers signed in -- logout and password     *)
(* reset still clear the file": after any number of restarts, a session    *)
(* that was ended stays ended, and no sweep, restart or login of another   *)
(* browser ends one that is still within its lifetime; none expires later  *)
(* or earlier than the rounding of the restarts makes it.  The exception:  *)
(* the last change of a token, an end or a login, of which the write       *)
(* failed, and which no later write caught up with before a restart.       *)
SignedInStays ==
  \A t \in 1..issued :
    /\ sessions[t] # 0 => OnTime(sessions[t], t, restarted)
    /\ t \notin undone =>
         IF t \in out THEN sessions[t] = 0
         ELSE lifetime[t] > now + 2 * Rounding(restarted) => sessions[t] # 0
    /\ t \notin stale \cup undone =>
         IF t \in out THEN sessFile[t] = 0
         ELSE lifetime[t] > now + 2 * Rounding(restarted + 1) => sessFile[t] # 0
=============================================================================
