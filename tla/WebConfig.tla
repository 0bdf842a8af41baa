----------------------------- MODULE WebConfig -----------------------------
(***************************************************************************)
(* The configuration document of src/src/web/api.rs and web/auth.rs: the   *)
(* copy in memory behind an RwLock, the TOML file, the handlers that       *)
(* change both, and Config::load and validate (src/src/config/mod.rs),     *)
(* which decide what a restarted process makes of the file.                *)
(*                                                                         *)
(* A document is a function of the fields the handlers tell apart.         *)
(* "misc" stands for the fields that only have a range of their own.       *)
(***************************************************************************)
EXTENDS Naturals

CONSTANTS
  WebReq,        \* handler invocations that may be in flight at once
  Passwords,     \* passwords a user may choose
  EnvSet,        \* fields an environment variable overrides, with its value
  MaxWebOps,     \* bound: requests begun
  MaxWebRestarts,\* bound: restarts of the process
  WritesFail     \* whether a write of the file may fail

Unset == ""
Mask == "****"

Field == {"password", "recording", "segments", "misc"}
Values == [password  |-> Passwords \cup {Unset},
           recording |-> {"on", "off"},
           segments  |-> {"60s", "30s"},
           misc      |-> {"in range", "out of range"}]
Document == [password : Values.password, recording : Values.recording,
             segments : Values.segments, misc : Values.misc]

ASSUME ConfAssumption ==
  /\ Passwords # {} /\ WritesFail \in BOOLEAN
  /\ MaxWebOps \in Nat /\ MaxWebRestarts \in Nat
  /\ DOMAIN EnvSet \subseteq Field
  /\ \A f \in DOMAIN EnvSet : EnvSet[f] \in Values[f]

Torn == [f \in Field |-> "torn"]     \* a file that does not parse
NoDoc == [f \in Field |-> "none"]    \* nothing fetched yet

\* Config::default(): recording off is the factory setting of this model
Defaults == [password |-> Unset, recording |-> "off", segments |-> "60s",
             misc |-> "in range"]

\* Config::validate: ranges, and segments of a minute at least while recording
Valid(doc) ==
  /\ doc.misc = "in range"
  /\ doc.recording = "on" => doc.segments = "60s"

Override(doc, patch) == [f \in Field |-> IF f \in DOMAIN patch THEN patch[f] ELSE doc[f]]

\* apply_env_overrides
WithEnv(doc) == Override(doc, EnvSet)

\* Config::load: parse, environment, validate
Accepts(content) == content # Torn /\ Valid(WithEnv(content))

\* and main, which falls back on the defaults
Loaded(content) == IF Accepts(content) THEN WithEnv(content) ELSE Defaults

VARIABLES
  conf,       \* AppState.config
  fileDoc,    \* the file: a document, or Torn
  lock,       \* who keeps the write lock across an await
  creq,       \* creq[r]: a handler's step and the document it writes
  held,       \* the document a client got with GET /api/config, or NoDoc
  webOps, webRestarts,
  shaky       \* since the last start two requests overlapped, a write
              \* failed, or that start found no acceptable file (history)

confVars == <<conf, fileDoc, lock, creq, held, webOps, webRestarts, shaky>>

IdleHandler == [at |-> "idle", op |-> "none", doc |-> Defaults, mixed |-> FALSE]
Ops == {"toggle", "put", "reset", "setup", "password", "activate", "none"}

(* Type invariant: in particular the stored password is never the mask.    *)
ConfTypeOK ==
  /\ conf \in Document /\ fileDoc \in Document \cup {Torn}
  /\ [held EXCEPT !.password = Unset] \in Document \/ held = NoDoc
  /\ lock \in WebReq \cup {"free"}
  /\ \A r \in WebReq :
       /\ creq[r].at \in {"idle", "open", "write", "store"}
       /\ creq[r].op \in Ops /\ creq[r].doc \in Document
       /\ creq[r].mixed \in BOOLEAN
  /\ webOps \in 0..MaxWebOps /\ webRestarts \in 0..MaxWebRestarts
  /\ shaky \in BOOLEAN

\* The unit starts with a configured device, whose file it has just loaded.
ConfInit ==
  /\ conf = WithEnv([Defaults EXCEPT !.password = CHOOSE p \in Passwords : TRUE])
  /\ fileDoc = conf /\ lock = "free" /\ held = NoDoc
  /\ creq = [r \in WebReq |-> IdleHandler]
  /\ webOps = 0 /\ webRestarts = 0 /\ shaky = FALSE

Free == lock = "free"
AtStep(r, step) == creq[r].at = step
Finish(r) == creq' = [creq EXCEPT ![r] = IdleHandler]
Outcomes == IF WritesFail THEN BOOLEAN ELSE {TRUE}

\* A handler gets to its persist_config with the document it will write.
Handle(r, op, doc) ==
  /\ Free /\ AtStep(r, "idle") /\ webOps < MaxWebOps /\ webOps' = webOps + 1
  /\ creq' = [creq EXCEPT ![r] = [at |-> "open", op |-> op, doc |-> doc, mixed |-> FALSE]]
  /\ shaky' = (shaky \/ \E q \in WebReq \ {r} : ~AtStep(q, "idle"))
  /\ UNCHANGED <<fileDoc, held, webRestarts>>

-----------------------------------------------------------------------------
(* The handlers up to persist_config.                                      *)

\* GET /api/config, mask_passwords
GetConfig ==
  /\ Free
  /\ held' = [conf EXCEPT !.password = IF @ = Unset THEN @ ELSE Mask]
  /\ UNCHANGED <<conf, fileDoc, lock, creq, webOps, webRestarts, shaky>>

\* POST /api/cameras/0/recording: a clone, no validate
RecordingSet(r) ==
  /\ \E active \in Values.recording : Handle(r, "toggle", [conf EXCEPT !.recording = active])
  /\ UNCHANGED <<conf, lock>>

\* Mutant: a masked password is taken for a new one.
Unmask_Kept(patch, doc) == patch

\* unmask_passwords
Unmask(patch, doc) ==
  [f \in DOMAIN patch |->
     IF f = "password" /\ patch[f] = Mask THEN doc[f] ELSE patch[f]]

\* What clients put: one changed field, or the document they got before.
Bodies ==
  (UNION {[{f} -> Values[f]] : f \in Field}) \cup (IF held = NoDoc THEN {} ELSE {held})

\* PUT /api/config: unmask, merge, validate
PutConfig(r) ==
  /\ \E body \in Bodies :
       LET doc == Override(conf, Unmask(body, conf)) IN
         Valid(doc) /\ Handle(r, "put", doc)
  /\ UNCHANGED <<conf, lock>>

\* POST /api/reset
ResetConfig(r) == Handle(r, "reset", Defaults) /\ UNCHANGED <<conf, lock>>

\* POST /api/auth/setup: the memory is changed before the file
Setup(r) ==
  /\ conf.password = Unset
  /\ \E p \in Passwords : conf' = [conf EXCEPT !.password = p]
  /\ Handle(r, "setup", conf') /\ UNCHANGED lock

\* POST /api/auth/reset, likewise
ResetPassword(r) ==
  /\ conf.password # Unset
  /\ \E p \in Passwords \ {conf.password} : conf' = [conf EXCEPT !.password = p]
  /\ Handle(r, "password", conf') /\ UNCHANGED lock

\* POST /api/ai/models/{id}/activate keeps the lock until the file is written
Activate(r) == Handle(r, "activate", conf) /\ lock' = r /\ UNCHANGED conf

-----------------------------------------------------------------------------
(* persist_config: tokio::fs::write truncates the file, then writes it.    *)

StoresAfter == {"toggle", "put", "reset"}

\* On an error the handler answers 500 and stores nothing.
Open(r) ==
  /\ AtStep(r, "open")
  /\ \E ok \in Outcomes :
       IF ok THEN /\ fileDoc' = Torn
                  /\ creq' = [creq EXCEPT ![r].at = "write"]
                  /\ UNCHANGED <<lock, shaky>>
             ELSE /\ Finish(r) /\ lock' = (IF lock = r THEN "free" ELSE lock)
                  /\ shaky' = TRUE /\ UNCHANGED fileDoc
  /\ UNCHANGED <<conf, held, webOps, webRestarts>>

\* Two writers that truncated before either wrote leave the longer one's
\* tail behind the shorter one's document.
WriteFile(r) ==
  /\ AtStep(r, "write")
  /\ \E ok \in Outcomes, torn \in {FALSE, creq[r].mixed} :
       /\ fileDoc' = IF ok /\ ~torn THEN creq[r].doc ELSE Torn
       /\ shaky' = (shaky \/ ~ok)
       /\ LET done == IF ok /\ creq[r].op \in StoresAfter
                      THEN [creq EXCEPT ![r].at = "store"]
                      ELSE [creq EXCEPT ![r] = IdleHandler]
          IN creq' = [q \in WebReq |->
                        IF q # r /\ AtStep(q, "write") THEN [done[q] EXCEPT !.mixed = TRUE]
                        ELSE done[q]]
  /\ lock' = IF lock = r THEN "free" ELSE lock
  /\ UNCHANGED <<conf, held, webOps, webRestarts>>

\* Mutant: a handler that has written the file keeps the old configuration.
StoreConf_Forgotten(r) ==
  /\ AtStep(r, "store") /\ Free /\ Finish(r)
  /\ UNCHANGED <<conf, fileDoc, lock, held, webOps, webRestarts, shaky>>

\* *state.config.write().await = config
StoreConf(r) ==
  /\ AtStep(r, "store") /\ Free /\ conf' = creq[r].doc /\ Finish(r)
  /\ UNCHANGED <<fileDoc, lock, held, webOps, webRestarts, shaky>>

-----------------------------------------------------------------------------
\* POST /api/system/restart, a signal or a crash, at any moment
ProcessRestart ==
  /\ webRestarts < MaxWebRestarts /\ webRestarts' = webRestarts + 1
  /\ conf' = Loaded(fileDoc) /\ lock' = "free"
  /\ creq' = [r \in WebReq |-> IdleHandler]
  /\ shaky' = ~Accepts(fileDoc)
  /\ UNCHANGED <<fileDoc, held, webOps>>

ConfNext ==
  \/ GetConfig
  \/ \E r \in WebReq :
       \/ RecordingSet(r) \/ PutConfig(r) \/ ResetConfig(r)
       \/ Setup(r) \/ ResetPassword(r) \/ Activate(r)
       \/ Open(r) \/ WriteFile(r) \/ StoreConf(r)
  \/ ProcessRestart

ConfSpec == ConfInit /\ [][ConfNext]_confVars

-----------------------------------------------------------------------------
(* Properties                                                              *)

Quiet == \A r \in WebReq : AtStep(r, "idle")

(* What runs is what was saved: when no request is under way, none has     *)
(* overlapped another and no write failed, the file holds the              *)
(* configuration in memory, for every handler and every order of them.     *)
SavedIsRunning ==
  Quiet /\ ~shaky => fileDoc # Torn /\ WithEnv(fileDoc) = WithEnv(conf)

(* "the change persists to the TOML config and takes effect on the next    *)
(* restart" (web/api.rs, recording_set).  Refuted without any failure or   *)
(* overlap: recording_set does not validate, so that it saves recording    *)
(* with the short segments a PUT may leave while recording is off, and     *)
(* the restarted process rejects the whole file and runs on the defaults.  *)
SavedLoads == Quiet /\ ~shaky => Accepts(fileDoc)

=============================================================================
