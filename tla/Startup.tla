------------------------------ MODULE Startup ------------------------------
(***************************************************************************)
(* main (src/src/main.rs) from the first listener to the web server, and   *)
(* what the web API (src/src/web/api.rs) then says of the device.          *)
(*                                                                         *)
(* Startup is fail-open: a part that cannot start prints a line, main goes *)
(* on and hands the later parts only what did start, in a dozen Option     *)
(* variables.  Here tasks is what main has started and handles the         *)
(* variables that are Some.  A switch of the configuration is chosen where *)
(* main first reads it.                                                    *)
(***************************************************************************)
EXTENDS Naturals, FiniteSets

CONSTANT Builds       \* sets of cargo features to consider

VARIABLES
  mainAt,       \* the section main is at
  build,        \* the features of this build
  enabled,      \* the switches read so far that are on
  tasks,        \* what has been started and not ended
  handles,      \* main's Option variables that are Some
  exits         \* each exit handshake: open, watched by a supervisor, done

startVars == <<mainAt, build, enabled, tasks, handles, exits>>

StartSections == {"rtsp", "camera", "ai", "onvif", "discovery", "alarms", "thermal",
                  "gb", "gbThermal", "recording", "web"}
StartEnds == {"serving", "returned", "exit 1"}
StartTasks == {"rtsp", "pump", "subPump", "ai", "sseBridge", "onvif", "discovery",
               "alarmSse", "alarmFeed", "thermal", "thermalPump", "gb",
               "thermalEncoder", "tempAlarm", "gbThermal", "writer", "sweep", "web"}
Handles == {"hub", "yuv", "flips", "subProfile", "subHub", "detections", "bus",
            "module", "loader", "onvifEvents", "onvifSub", "onvifSink", "thermal",
            "authenticator", "recSource", "restart"}

(* Type invariant.                                                         *)
StartTypeOK ==
  /\ mainAt \in StartSections \cup StartEnds /\ build \in Builds
  /\ enabled \subseteq {"ai", "recording", "sub", "gb35114"}
  /\ tasks \subseteq StartTasks /\ handles \subseteq Handles
  /\ exits \in [{"gb", "thermal"} -> {"open", "watched", "done"}]

StartInit ==
  /\ mainAt = "rtsp" /\ build \in Builds
  /\ enabled \in SUBSET {"recording"} /\ tasks = {} /\ handles = {}
  /\ exits = [x \in {"gb", "thermal"} |-> "open"]

Started(here, next, new, given) ==
  /\ mainAt = here /\ mainAt' = next
  /\ tasks' = tasks \cup new /\ handles' = handles \cup given

SwitchesKept == UNCHANGED <<build, enabled, exits>>

-----------------------------------------------------------------------------
(* The sections of main, in order.                                         *)

\* RtspServer::new binds the port; without it there is no hub, and no camera.
StartRtsp ==
  /\ \/ Started("rtsp", "camera", {"rtsp"}, {"hub"})
     \/ Started("rtsp", "ai", {}, {})
  /\ SwitchesKept

Camera == {"yuv", "flips"}

\* start_camera_pipeline: the choice of the encoder or its start may fail. The
\* substream starts after the main stream, if its picture is not the larger one.
StartCamera ==
  /\ \E sub \in SUBSET {"sub"} :
       /\ enabled' = enabled \cup sub
       /\ \/ Started("camera", "ai", {}, {})
          \/ Started("camera", "ai", {"pump"}, Camera)
          \/ /\ sub # {}
             /\ Started("camera", "ai", {"pump", "subPump"}, Camera \cup {"subProfile", "subHub"})
  /\ UNCHANGED <<build, exits>>

Boards == {"Pi3B", "Pi4", "Pi5"}

\* detect_model: the name in the device tree, or else the revision in cpuinfo
DetectedModel(tree, revision) ==
  IF tree \in Boards THEN tree
  ELSE IF revision \in Boards THEN revision ELSE "unknown"

\* detect_with_reader, CapabilityGate: MemTotal (in MB, 0 when it cannot be
\* read) leaves the GPU's share out, so a known board passes whatever it says.
AiLite(model, memory) == memory >= 1024 \/ model \in Boards

\* Enabled, with a camera, past the gate, with a model the registry knows and
\* a detector that loads (a mock in a build without "ai").
StartAi ==
  /\ \E ai \in SUBSET {"ai"}, tree, revision \in {"Pi3B", "other"},
        memory \in {0, 512, 2048} :
       /\ enabled' = enabled \cup ai
       /\ LET loader == IF "ai" \in build THEN {"loader"} ELSE {} IN
            \/ Started("ai", "onvif", {}, loader)
            \/ /\ ai # {} /\ "yuv" \in handles
               /\ AiLite(DetectedModel(tree, revision), memory)
               /\ Started("ai", "onvif", {"ai", "sseBridge"},
                          {"detections", "bus", "module"} \cup loader)
  /\ UNCHANGED <<build, exits>>

\* wire_onvif_server and the listener's task, which ends when it cannot bind.
\* The "sub" profile is advertised when main has its geometry.
StartOnvif ==
  /\ \E events \in SUBSET {"onvifEvents"}, up \in SUBSET {"onvif"} :
       Started("onvif", "discovery", up,
               events \cup (IF "subProfile" \in handles THEN {"onvifSub"} ELSE {}))
  /\ SwitchesKept

StartDiscovery ==
  /\ \E up \in SUBSET {"discovery"} : Started("discovery", "alarms", up, {})
  /\ SwitchesKept

\* The bridge always exists; it is fed by the AI bus and has an ONVIF sink
\* when there are events.
WireAlarms ==
  /\ Started("alarms", "thermal",
             {"alarmSse"} \cup (IF "bus" \in handles THEN {"alarmFeed"} ELSE {}),
             IF "onvifEvents" \in handles THEN {"onvifSink"} ELSE {})
  /\ SwitchesKept

\* ThermalService::start does not fail: without a module it keeps trying.
StartThermal ==
  /\ \/ Started("thermal", "gb", {"thermal", "thermalPump"}, {"thermal"})
     \/ Started("thermal", "gb", {}, {})
  /\ SwitchesKept

\* Mutant: a broken security identity falls back on Digest.
Authenticators_Downgrade(section) ==
  IF section = "complete" /\ "gb35114" \in build THEN {{"authenticator"}, {}} ELSE {{}}

\* gb35114_glue::build: nothing, an authenticator, or an error. A build without
\* the feature takes a complete section for nothing.
Authenticators(section) ==
  CASE section = "off" -> {{}}
    [] section = "incomplete" -> {{"error"}}
    [] section = "complete" ->
         IF "gb35114" \in build THEN {{"authenticator"}, {"error"}} ELSE {{}}

\* With a hub a supervisor is started; a broken security identity is fatal.
\* Without either the handshake is done at once.
StartGb ==
  /\ \/ /\ "hub" \in handles
        /\ \E section \in {"off", "incomplete", "complete"} :
           \E auth \in Authenticators(section) :
             /\ enabled' = enabled \cup (IF section = "off" THEN {} ELSE {"gb35114"})
             /\ IF "error" \in auth
                THEN Started("gb", "exit 1", {}, {}) /\ UNCHANGED exits
                ELSE /\ Started("gb", "gbThermal", {"gb"}, auth \cup
                          (IF "recording" \in enabled THEN {"recSource"} ELSE {}))
                     /\ exits' = [exits EXCEPT !["gb"] = "watched"]
     \/ /\ Started("gb", "gbThermal", {}, {}) /\ exits' = [exits EXCEPT !["gb"] = "done"]
        /\ UNCHANGED enabled
  /\ UNCHANGED build

\* Mutant: without a channel the handshake stays open.
NoChannel_LeftOpen == Started("gbThermal", "recording", {}, {}) /\ UNCHANGED exits

\* Off, without the sensor or in a build without the software encoder.
NoChannel ==
  Started("gbThermal", "recording", {}, {}) /\ exits' = [exits EXCEPT !["thermal"] = "done"]

StartGbThermal ==
  /\ \/ /\ "software-encoder" \in build /\ "thermal" \in handles
        /\ \E alarm \in SUBSET {"tempAlarm"} :
             Started("gbThermal", "recording", {"thermalEncoder", "gbThermal"} \cup alarm, {})
        /\ exits' = [exits EXCEPT !["thermal"] = "watched"]
     \/ NoChannel
  /\ UNCHANGED <<build, enabled>>

StartRecording ==
  /\ Started("recording", "web",
             IF "recording" \in enabled /\ "hub" \in handles THEN {"writer", "sweep"} ELSE {}, {})
  /\ SwitchesKept

\* WebServer::start: a disabled server returns at once, and main with it; one
\* that cannot bind ends the process.
StartWeb ==
  /\ \/ Started("web", "serving", {"web"}, {"restart"})
     \/ Started("web", "returned", {}, {})
     \/ Started("web", "exit 1", {}, {})
  /\ SwitchesKept

\* put_config, recording_set: the document the handlers read is the one saved
\* last, what runs is what was started.
SaveSwitches ==
  /\ mainAt = "serving"
  /\ \E on \in SUBSET {"ai", "recording"} :
       enabled' = (enabled \ {"ai", "recording"}) \cup on
  /\ UNCHANGED <<mainAt, build, tasks, handles, exits>>

StartNext ==
  \/ StartRtsp \/ StartCamera \/ StartAi \/ StartOnvif \/ StartDiscovery
  \/ WireAlarms \/ StartThermal \/ StartGb \/ StartGbThermal \/ StartRecording
  \/ StartWeb \/ SaveSwitches

StartSpec == StartInit /\ [][StartNext]_startVars

-----------------------------------------------------------------------------
(* What the web API says.                                                  *)

\* Mutant: models are switchable whenever a module runs.
HotSwap_NoLoader == "module" \in handles

HotSwap == {"module", "loader"} \subseteq handles

\* capabilities_handler; upload is features.ai.allow_upload
Capabilities(upload) ==
  {"ptz", "recording", "watermark", "restart", "observability"}
  \cup (enabled \cap {"ai"})
  \cup (IF HotSwap THEN {"ai_models"} ELSE {})
  \cup (IF HotSwap /\ upload THEN {"ai_upload"} ELSE {})
  \cup (IF "yuv" \in handles THEN {"mjpeg"} ELSE {})
  \cup (IF "hub" \in handles THEN {"mse"} ELSE {})
  \cup (IF "subHub" \in handles THEN {"substream"} ELSE {})
  \cup (handles \cap {"thermal"})

\* ... and the events it lists
Events ==
  {"ai_detection", "recording"}
  \cup (IF HotSwap THEN {"ai_model_changed"} ELSE {})
  \cup (IF "ai" \in enabled THEN {"alarm"} ELSE {})
  \cup (IF "thermal" \in handles THEN {"thermal.temperature"} ELSE {})

\* camera_doc, which cameras_list and camera_get answer
CameraOnline == handles \cap {"yuv", "hub"} # {}

\* The guards of the handlers behind the capabilities: live_handler and
\* snapshot_body, stream_mse_handler, stream_sub_mse_handler, ...
LiveServed == "yuv" \in handles
StreamServed == "hub" \in handles
SubServed == "subHub" \in handles
\* ... thermal_api::svc, ...
ThermalServed == "thermal" \in handles
\* ... ai_model_activate, ...
ActivateServed == "module" \in handles /\ "loader" \in handles
\* ... ai_model_upload, ...
UploadServed(upload) == upload /\ "loader" \in handles
\* ... system_restart, which without an action does nothing
RestartServed == "restart" \in handles

-----------------------------------------------------------------------------
(* Properties                                                              *)

Served == [c \in {"mjpeg", "mse", "substream", "thermal", "ai_models", "restart"} |->
  CASE c = "mjpeg" -> LiveServed [] c = "mse" -> StreamServed
    [] c = "substream" -> SubServed [] c = "thermal" -> ThermalServed
    [] c = "ai_models" -> ActivateServed [] c = "restart" -> RestartServed]

(* A device that serves keeps its word, whatever failed to start: the      *)
(* endpoint behind a capability refuses exactly when the capability is not *)
(* advertised, and what is advertised is fed by a task that runs - live    *)
(* pictures by the camera, the substream by its own encoder, on the web    *)
(* exactly when in ONVIF, switchable models by a detector, thermal events  *)
(* by their pump, and alarms of a running detector by both their tasks.    *)
AdvertisedRuns ==
  mainAt = "serving" =>
    \A upload \in BOOLEAN : LET caps == Capabilities(upload) IN
      /\ \A c \in DOMAIN Served : c \in caps <=> Served[c]
      /\ "ai_upload" \in caps => UploadServed(upload)
      /\ "mjpeg" \in caps => "pump" \in tasks
      /\ "substream" \in caps <=> "subPump" \in tasks
      /\ "substream" \in caps <=> "onvifSub" \in handles
      /\ "ai_models" \in caps => "ai" \in tasks
      /\ "thermal.temperature" \in Events => "thermalPump" \in tasks
      /\ "alarm" \in Events /\ "ai" \in tasks => {"alarmFeed", "alarmSse"} \subseteq tasks

(* Nothing that starts late depends on what did not start early: an exit   *)
(* finds each handshake done or watched (it would wait ten seconds in      *)
(* vain), a configured and built security identity is in force, and what   *)
(* reads the hub or the sensor runs only if there is one.                  *)
StartedSound ==
  /\ mainAt = "serving" => \A x \in DOMAIN exits : exits[x] # "open"
  /\ exits["gb"] = "watched" <=> "gb" \in tasks
  /\ exits["thermal"] = "watched" <=> "gbThermal" \in tasks
  /\ "gb" \in tasks /\ "gb35114" \in enabled /\ "gb35114" \in build
       => "authenticator" \in handles
  /\ tasks \cap {"pump", "gb", "writer"} # {} => "hub" \in handles
  /\ "gbThermal" \in tasks => {"thermal", "thermalEncoder"} \subseteq tasks
  /\ "tempAlarm" \in tasks => "gbThermal" \in tasks

=============================================================================
