------------------------------ MODULE AiModels ------------------------------
(***************************************************************************)
(* The inference module of src/src/ai/mod.rs, the model registry of        *)
(* src/src/ai/registry.rs and the handlers of src/src/web/api.rs that      *)
(* upload, delete and activate a model.  A request is a sequence of steps, *)
(* one for each lock or file operation, so that two requests interleave as *)
(* they do on the multi-threaded runtime.                                  *)
(*                                                                         *)
(* A model file is "good" when the loader can build a detector from it.    *)
(* The order of the entries shows in an answer only; a list of them is how *)
(* many entries each id has.                                               *)
(***************************************************************************)
EXTENDS Integers

CONSTANTS
  Builtin,      \* ids of the built-in entries (their files are on the device)
  Uploadable,   \* ids that uploads use
  AiReq,        \* handler invocations that may be in flight at once
  Interval,     \* interval_frames
  MaxAiOps,     \* bound: requests begun
  MaxRestarts,  \* bound: restarts of the process
  DiskFails     \* whether a write of the disk may fail

None == "none"
ASSUME AiAssumption ==
  /\ Builtin # {} /\ Builtin \cap Uploadable = {} /\ None \notin Builtin \cup Uploadable
  /\ Interval \in Nat \ {0} /\ {MaxAiOps, MaxRestarts} \subseteq Nat /\ DiskFails \in BOOLEAN

ModelIds == Builtin \cup Uploadable
IdleReq == [at |-> "idle", op |-> None, id |-> None, body |-> None]

VARIABLES
  uploaded,     \* Registry.entries after the built-in ones: entries of an id
  manifest,     \* uploaded.json
  file,         \* <dir>/<id>.onnx: None, "good" or "bad"
  tmp,          \* <dir>/.upload-<id>.tmp
  activeModel,  \* AiModule.active_model
  detector,     \* the detector slot, by the id it was built for; None: no AI
  cfgModel,     \* ai.model in memory
  diskModel,    \* ai.model in the configuration file
  req,          \* req[r]: the handler's step and inputs
  aiOps, restarts,
  frameCount,   \* frame_counter modulo interval_frames
  pass,         \* the detector of the inference pass under way
  detections,   \* whose results last_detections holds; None when empty
  overlapped    \* ids on which two requests overlapped (history)

registryVars == <<uploaded, manifest, file, tmp>>
modelVars == <<activeModel, detector, cfgModel, diskModel>>
loopVars == <<frameCount, pass, detections>>
aiVars == <<registryVars, modelVars, req, aiOps, restarts, loopVars, overlapped>>

(* Type invariant: a detector is only ever built for an id of the registry *)
(* and at most one inference pass runs.                                    *)
AiTypeOK ==
  /\ {uploaded, manifest} \subseteq [Uploadable -> Nat]
  /\ {file, tmp} \subseteq [Uploadable -> {None, "good", "bad"}]
  /\ {activeModel, cfgModel, diskModel} \subseteq ModelIds
  /\ {detector, pass, detections} \subseteq ModelIds \cup {None}
  /\ \A r \in AiReq :
       /\ req[r].at \in {"idle", "write", "validate", "rename", "insert",
            "remove", "unlink", "load", "name", "swap", "clear", "config"}
       /\ req[r].id \in ModelIds \cup {None}
  /\ aiOps \in 0..MaxAiOps /\ restarts \in 0..MaxRestarts
  /\ frameCount \in 0..Interval - 1
  /\ overlapped \subseteq ModelIds

NoEntries == [u \in Uploadable |-> 0]

AiInit ==
  /\ uploaded = NoEntries /\ manifest = NoEntries
  /\ file = [u \in Uploadable |-> None] /\ tmp = file
  /\ activeModel \in Builtin
  /\ detector = activeModel /\ cfgModel = activeModel /\ diskModel = activeModel
  /\ req = [r \in AiReq |-> IdleReq] /\ aiOps = 0 /\ restarts = 0
  /\ frameCount = 0 /\ pass = None /\ detections = None /\ overlapped = {}

Disk == IF DiskFails THEN BOOLEAN ELSE {TRUE}
At(r, step) == req[r].at = step
Moves(r, step) == req' = [req EXCEPT ![r].at = step]
Answers(r) == req' = [req EXCEPT ![r] = IdleReq]

\* Registry::find
Listed(id) == id \in Builtin \/ (id \in Uploadable /\ uploaded[id] > 0)

\* A request that passed the checks made before its first step.
Begin(r, op, id, body, step) ==
  /\ At(r, "idle") /\ aiOps < MaxAiOps /\ aiOps' = aiOps + 1
  /\ req' = [req EXCEPT ![r] = [at |-> step, op |-> op, id |-> id, body |-> body]]
  /\ overlapped' = IF \E q \in AiReq \ {r} : req[q].id = id
                   THEN overlapped \cup {id} ELSE overlapped
  /\ UNCHANGED <<registryVars, modelVars, restarts, loopVars>>

-----------------------------------------------------------------------------
(* POST /api/ai/models/{id}                                                *)

UploadBegins(r) ==
  \E id \in ModelIds, body \in {"good", "bad"} :
    ~Listed(id) /\ Begin(r, "upload", id, body, "write")

\* fs::write of the temporary file
UploadWrites(r) ==
  /\ At(r, "write")
  /\ \E ok \in Disk :
       /\ tmp' = [tmp EXCEPT ![req[r].id] = IF ok THEN req[r].body ELSE "bad"]
       /\ IF ok THEN Moves(r, "validate") ELSE Answers(r)
  /\ UNCHANGED <<uploaded, manifest, file, modelVars, aiOps, restarts, loopVars,
                 overlapped>>

\* Mutant: what the loader says is not looked at.
UploadValidates_Trusts(r) ==
  /\ At(r, "validate") /\ Moves(r, "rename")
  /\ UNCHANGED <<registryVars, modelVars, aiOps, restarts, loopVars, overlapped>>

\* the loader on the temporary file; a file it refuses is removed
UploadValidates(r) ==
  /\ At(r, "validate")
  /\ IF tmp[req[r].id] = "good"
     THEN Moves(r, "rename") /\ UNCHANGED tmp
     ELSE Answers(r) /\ tmp' = [tmp EXCEPT ![req[r].id] = None]
  /\ UNCHANGED <<uploaded, manifest, file, modelVars, aiOps, restarts, loopVars,
                 overlapped>>

\* fs::rename to its final name; fails when the file is gone
UploadRenames(r) ==
  /\ At(r, "rename")
  /\ LET id == req[r].id IN
       IF tmp[id] # None
       THEN /\ file' = [file EXCEPT ![id] = tmp[id]]
            /\ tmp' = [tmp EXCEPT ![id] = None]
            /\ Moves(r, "insert")
       ELSE Answers(r) /\ UNCHANGED <<file, tmp>>
  /\ UNCHANGED <<uploaded, manifest, modelVars, aiOps, restarts, loopVars, overlapped>>

\* insert_uploaded: the manifest first, the entry only when that worked
UploadInserts(r) ==
  /\ At(r, "insert")
  /\ \E ok \in Disk :
       IF ok THEN /\ uploaded' = [uploaded EXCEPT ![req[r].id] = @ + 1]
                  /\ manifest' = uploaded'
             ELSE UNCHANGED <<uploaded, manifest>>
  /\ Answers(r)
  /\ UNCHANGED <<file, tmp, modelVars, aiOps, restarts, loopVars, overlapped>>

-----------------------------------------------------------------------------
(* DELETE /api/ai/models/{id}                                              *)

\* the running model is refused
DeleteBegins(r) ==
  \E id \in ModelIds :
    /\ detector # None => activeModel # id
    /\ Begin(r, "delete", id, None, "remove")

\* remove_uploaded: one entry of that id, the manifest best effort
DeleteRemoves(r) ==
  /\ At(r, "remove")
  /\ LET id == req[r].id IN
       IF id \in Uploadable /\ uploaded[id] > 0
       THEN /\ uploaded' = [uploaded EXCEPT ![id] = @ - 1]
            /\ \E ok \in Disk : manifest' = IF ok THEN uploaded' ELSE manifest
            /\ Moves(r, "unlink")
       ELSE Answers(r) /\ UNCHANGED <<uploaded, manifest>>
  /\ UNCHANGED <<file, tmp, modelVars, aiOps, restarts, loopVars, overlapped>>

\* remove_file, best effort
DeleteUnlinks(r) ==
  /\ At(r, "unlink")
  /\ \E ok \in Disk : file' = IF ok THEN [file EXCEPT ![req[r].id] = None] ELSE file
  /\ Answers(r)
  /\ UNCHANGED <<uploaded, manifest, tmp, modelVars, aiOps, restarts, loopVars,
                 overlapped>>

-----------------------------------------------------------------------------
(* POST /api/ai/models/{id}/activate                                       *)

ActivateBegins(r) ==
  \E id \in ModelIds :
    /\ detector # None /\ Listed(id)
    /\ Begin(r, "activate", id, None, "load")

Loads(id) == id \in Builtin \/ file[id] = "good"

\* the loader: a model that does not load leaves everything as it is
ActivateLoads(r) ==
  /\ At(r, "load")
  /\ IF Loads(req[r].id) THEN Moves(r, "name") ELSE Answers(r)
  /\ UNCHANGED <<registryVars, modelVars, aiOps, restarts, loopVars, overlapped>>

\* set_detector: the name, the slot and the detections under three locks
SetName(r) ==
  /\ At(r, "name") /\ activeModel' = req[r].id /\ Moves(r, "swap")
  /\ UNCHANGED <<registryVars, detector, cfgModel, diskModel, aiOps, restarts,
                 loopVars, overlapped>>

SetSlot(r) ==
  /\ At(r, "swap") /\ detector' = req[r].id /\ Moves(r, "clear")
  /\ UNCHANGED <<registryVars, activeModel, cfgModel, diskModel, aiOps, restarts,
                 loopVars, overlapped>>

ClearDetections(r) ==
  /\ At(r, "clear") /\ detections' = None /\ Moves(r, "config")
  /\ UNCHANGED <<registryVars, modelVars, aiOps, restarts, frameCount, pass,
                 overlapped>>

\* the configuration is locked until the file is written
ActivatePersists(r) ==
  /\ At(r, "config") /\ cfgModel' = req[r].id
  /\ \E ok \in Disk : diskModel' = IF ok THEN req[r].id ELSE diskModel
  /\ Answers(r)
  /\ UNCHANGED <<registryVars, activeModel, detector, aiOps, restarts, loopVars,
                 overlapped>>

ReqStep(r) ==
  \/ UploadWrites(r) \/ UploadValidates(r) \/ UploadRenames(r) \/ UploadInserts(r)
  \/ DeleteRemoves(r) \/ DeleteUnlinks(r)
  \/ ActivateLoads(r) \/ SetName(r) \/ SetSlot(r) \/ ClearDetections(r)
  \/ ActivatePersists(r)

-----------------------------------------------------------------------------
(* The inference loop.                                                     *)

\* Mutant: the loop took its detector when it started.
PassStarts_Startup ==
  /\ detector # None /\ pass = None
  /\ frameCount' = (frameCount + 1) % Interval
  /\ pass' = IF frameCount' = 0 THEN CHOOSE b \in Builtin : TRUE ELSE None
  /\ UNCHANGED <<registryVars, modelVars, req, aiOps, restarts, detections, overlapped>>

\* A turn the guardrails let through and that finds a frame; every
\* Interval-th one takes the slot's detector and runs it.
PassStarts ==
  /\ detector # None /\ pass = None
  /\ frameCount' = (frameCount + 1) % Interval
  /\ pass' = IF frameCount' = 0 THEN detector ELSE None
  /\ UNCHANGED <<registryVars, modelVars, req, aiOps, restarts, detections, overlapped>>

\* detect returned: results above the threshold, or an error and an empty list
PassEnds ==
  /\ pass # None /\ pass' = None
  /\ detections' \in {pass, None}
  /\ UNCHANGED <<registryVars, modelVars, req, aiOps, restarts, frameCount, overlapped>>

-----------------------------------------------------------------------------
(* The process ends and starts again: what was in memory is read back.     *)

\* What the restarted process reads: fs::write truncates the manifest before
\* it writes it, and the process may end in between; a file that does not
\* parse is read as an empty list.
ManifestsRead ==
  IF \E r \in AiReq : At(r, "insert") \/ At(r, "remove")
  THEN {manifest, NoEntries} ELSE {manifest}

\* Registry::load: entries whose file vanished are dropped
Kept(read) == [u \in Uploadable |-> IF file[u] # None THEN read[u] ELSE 0]

\* Registry::resolve_active: a built-in, or an entry of the registry
Resolves(id, registry) == id \in Uploadable => registry[id] > 0

AiRestart ==
  /\ restarts < MaxRestarts /\ restarts' = restarts + 1
  /\ \E read \in ManifestsRead, ok \in Disk :
       /\ uploaded' = Kept(read)
       /\ manifest' = IF ok THEN uploaded' ELSE read
  /\ cfgModel' = diskModel /\ activeModel' = diskModel
  /\ detector' = IF Resolves(diskModel, uploaded') /\ Loads(diskModel)
                 THEN diskModel ELSE None
  /\ req' = [r \in AiReq |-> IdleReq]
  /\ frameCount' = 0 /\ pass' = None /\ detections' = None
  /\ UNCHANGED <<file, tmp, diskModel, aiOps, overlapped>>

AiNext ==
  \/ \E r \in AiReq :
       UploadBegins(r) \/ DeleteBegins(r) \/ ActivateBegins(r) \/ ReqStep(r)
  \/ PassStarts \/ PassEnds
  \/ AiRestart

\* Handlers run to their end, and so does an inference; that the loop gets
\* to run one at all is up to the guardrails (see DetectionsSettle).
AiFairness == WF_aiVars(PassEnds) /\ \A r \in AiReq : WF_aiVars(ReqStep(r))

AiSpec == AiInit /\ [][AiNext]_aiVars /\ AiFairness

-----------------------------------------------------------------------------
(* Properties                                                              *)

(* What the registry offers can be loaded: as long as no two requests for  *)
(* one id overlapped, an uploaded entry's file is there and was validated, *)
(* and no id is listed twice, whatever failed and whenever the process     *)
(* restarted in between.                                                   *)
ListedLoads ==
  \A u \in Uploadable \ overlapped :
    uploaded[u] > 0 => file[u] = "good" /\ uploaded[u] = 1

(* "Results from the previous model must not be attributed to the new one" *)
(* (ai/mod.rs), as far as the code can keep it: a pass that outlives its   *)
(* detector may store its results after set_detector cleared the list, but *)
(* as long as passes go on ending, the results shown are in the end those  *)
(* of the running model for good.                                          *)
DetectionsSettle ==
  []<><<PassEnds>>_aiVars => <>[](detections \in {None, detector})

=============================================================================
