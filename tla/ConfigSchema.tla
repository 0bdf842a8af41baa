---------------------------- MODULE ConfigSchema ----------------------------
(***************************************************************************)
(* The configuration of src/src/config/mod.rs from the file to the camera: *)
(* serde defaults, Config::load (environment, identity, validate), main's  *)
(* fallback, and what the camera pipeline makes of the result (validate    *)
(* of src/src/camera/source.rs, start_camera_pipeline in main.rs).         *)
(*                                                                         *)
(* A configuration is a function of sections and fields; "rest" stands for *)
(* a section's fields that nothing checks or combines.  Fractions are in   *)
(* tenths, the bit rate of the main stream in kbit/s.                      *)
(***************************************************************************)
EXTENDS Integers, FiniteSets

CONSTANT Serials         \* serial numbers the board may reveal, "" for none

\* What the ONVIF library refuses as an identity; serial numbers and machine
\* ids are hexadecimal.
Placeholders == {"ONVIF Device", "unknown"}
ASSUME SerialsAssumption == Serials \cap Placeholders = {}

NaN == 1000000          \* a float that no range contains

\* A field: its serde default, other values a file or a variable may give it,
\* and how its MIBEE_EYE_ variable is read (override_int and its siblings).
Entry(read, default, others) == [read |-> read, default |-> default, others |-> others]
File(default, others) == Entry("no variable", default, others)
Str(default, others) == Entry("taken", default, others)
Num(default, others) == Entry("parsed", default, others)
Enum(default, others) == Entry("else default", default, others)
Rest == Str("rest", {})

CameraSchema ==
  [encoder |-> Str("auto", {"software", "mjpeg"}),
   encoder_device |-> Str("/dev/video11", {""}),
   width |-> Num(1280, {0, 641, 7682}), height |-> Num(720, {0, 4322}),
   fps |-> Num(15, {0, 121}), codec |-> Str("h264", {"h265", "vp8"}),
   bitrate |-> Num(2000, {0, 200001}),
   brightness |-> Num(0, {-11, 10, NaN}), contrast |-> Num(10, {-1, 320}),
   saturation |-> Num(10, {321}), sharpness |-> Num(10, {161}),
   rotation |-> File(0, {45, 90}), rest |-> Rest]

SubSchema ==
  [enabled |-> File(FALSE, {TRUE}), width |-> File(640, {0, 641, 800, 7682}),
   height |-> File(360, {0, 361, 4322}), fps |-> File(0, {5}),
   bitrate |-> File(400, {0, 50001})]

WatermarkSchema ==
  [enabled |-> Num(FALSE, {TRUE}), text |-> Str("", {"yard", "129 characters"}),
   show_timestamp |-> Num(TRUE, {FALSE}),
   timestamp_format |-> Str("strict", {"%j", "ends in %"}),
   position |-> Enum("top-left", {"bottom-right"}),
   font_size |-> Num(24, {11, 97}), rest |-> Rest]

\* onvif_device_rs: the library's placeholders are the serde defaults
DeviceSchema ==
  [name |-> Str("ONVIF Device", {"yard"}), manufacturer |-> Str("unknown", {"us"}),
   model |-> Str("unknown", {"cam"}), hardware_id |-> Str("unknown", {"hw"}),
   serial_number |-> Str("", {"S1"})]

RtspSchema == [port |-> Num(8554, {0}), rest |-> Rest]

OnvifSchema ==
  [port |-> Num(8080, {0}), ip_filter |-> Str("empty", {"lan", "bad"}), rest |-> Rest]

Gb28181Schema ==
  [enabled |-> Num(FALSE, {TRUE}), local_sip_port |-> Num(5060, {5061}),
   transport |-> Enum("udp", {"tcp"}), rest |-> Rest]

WebSchema == [enabled |-> Num(TRUE, {FALSE}), port |-> Num(8088, {0}), rest |-> Rest]

LoggingSchema == [level |-> Str("info", {"trace"})]

RecordingSchema ==
  [enabled |-> Num(FALSE, {TRUE}), segment_secs |-> Num(600, {59}), rest |-> Rest]

\* the model's path is absent ("built in") or given
AiSchema ==
  [model |-> File("nanodet-plus-m-320", {"Not An Id"}),
   model_path |-> File("built in", {"custom"}), rest |-> File("rest", {})]

ThermalSchema == [enabled |-> File(FALSE, {TRUE}), rest |-> File("rest", {})]

Gb28181ThermalSchema ==
  [enabled |-> File(FALSE, {TRUE}), local_sip_port |-> File(5061, {5060}),
   rest |-> File("rest", {})]

\* Config; others are the sections nothing checks
Schema ==
  [camera |-> CameraSchema, substream |-> SubSchema, rtsp |-> RtspSchema,
   onvif |-> OnvifSchema, gb28181 |-> Gb28181Schema, web |-> WebSchema,
   ai |-> AiSchema, recording |-> RecordingSchema, logging |-> LoggingSchema,
   watermark |-> WatermarkSchema, device |-> DeviceSchema,
   thermal |-> ThermalSchema, gb28181_thermal |-> Gb28181ThermalSchema,
   others |-> [rest |-> Rest]]

Sections == DOMAIN Schema
Paths == {<<s, f>> : s \in Sections, f \in UNION {DOMAIN Schema[s] : s \in Sections}}
           \cap UNION {{s} \X DOMAIN Schema[s] : s \in Sections}
At(p) == Schema[p[1]][p[2]]

\* What a variable holds: one of the field's values, or junk.
EnvValues(p) ==
  [value : {At(p).default} \cup At(p).others,
   parses : IF At(p).read = "taken" THEN {TRUE} ELSE BOOLEAN]

\* a configuration in which the given paths have the given values
With(doc, given) ==
  [s \in Sections |-> [f \in DOMAIN Schema[s] |->
     IF <<s, f>> \in DOMAIN given THEN given[<<s, f>>] ELSE doc[s][f]]]
\* impl Default of a section: what serde gives its fields
SectionDefaults(s) == [f \in DOMAIN Schema[s] |-> Schema[s][f].default]
SerdeDefaults == [s \in Sections |-> SectionDefaults(s)]
NoValues == [p \in {} |-> 0]

VARIABLES
  bootAt,     \* read, override, backfill, validate, camera, up
  document,   \* config.toml: absent, torn, or the fields it gives
  variables,  \* the MIBEE_EYE_ variables that are set
  serial,     \* the serial number the board reveals
  loading,    \* the Config being built, then the one main runs with
  source,     \* "file" or "defaults"
  cameraUp    \* "off" until the camera is tried, then started or refused

schemaVars == <<bootAt, document, variables, serial, loading, source, cameraUp>>

\* Bound: a file gives at most two fields, both of one section, or one and a
\* variable of that section is set.
Related(p, q) == p[1] = q[1] \/ {p[1], q[1]} = {"camera", "substream"}
Gives(p) == [{p} -> At(p).others]
Pairs == {pq \in Paths \X Paths : pq[1] # pq[2] /\ Related(pq[1], pq[2])}
Also(g, h) == [p \in DOMAIN g \cup DOMAIN h |-> IF p \in DOMAIN g THEN g[p] ELSE h[p]]
GivesTwo == UNION {{Also(g, h) : g \in Gives(pq[1]), h \in Gives(pq[2])} : pq \in Pairs}
Variables(p) == IF At(p).read = "no variable" THEN {} ELSE [{p} -> EnvValues(p)]
SubEnabled == [p \in {<<"substream", "enabled">>} |-> TRUE]

(* Type invariant.                                                         *)
SchemaTypeOK ==
  /\ bootAt \in {"read", "override", "backfill", "validate", "camera", "up"}
  /\ serial \in Serials /\ source \in {"file", "defaults"}
  /\ DOMAIN loading = Sections
  /\ cameraUp \in {"off", "started", "refused"}

\* The substream may be on besides.
SchemaInit ==
  /\ bootAt = "read" /\ serial \in Serials /\ source = "file"
  /\ loading = SerdeDefaults /\ cameraUp = "off"
  /\ \E sub \in {NoValues, SubEnabled} :
       /\ document \in {[state |-> "absent", gives |-> NoValues],
                        [state |-> "torn", gives |-> NoValues]}
                  \cup {[state |-> "parses", gives |-> Also(sub, g)] :
                          g \in {NoValues} \cup (UNION {Gives(p) : p \in Paths}) \cup GivesTwo}
       /\ variables = NoValues
          \/ /\ Cardinality(DOMAIN document.gives \ DOMAIN sub) <= 1
             /\ \E p \in Paths :
                  /\ \A q \in DOMAIN document.gives : Related(p, q) \/ q \in DOMAIN sub
                  /\ variables \in Variables(p)

-----------------------------------------------------------------------------
(* Config::load                                                            *)

Identity(value, placeholder, documented) ==
  IF value = placeholder THEN documented ELSE value

\* backfill_device_identity, with detect_device_serial
Backfilled(device) ==
  [device EXCEPT
     !.serial_number = Identity(@, "", serial),
     !.name = Identity(@, "ONVIF Device", "Pi Camera V1"),
     !.manufacturer = Identity(@, "unknown", "Raspberry Pi"),
     !.model = Identity(@, "unknown", "OV5647"),
     !.hardware_id = Identity(@, "unknown", "OV5647")]

\* Config::default()
Defaults == [SerdeDefaults EXCEPT !.device = Backfilled(@)]

\* toml::from_str: a file without [device] gets default_device_config().
Parsed(gives) ==
  With(IF \E p \in DOMAIN gives : p[1] = "device" THEN SerdeDefaults ELSE Defaults, gives)

\* main: "using built-in defaults", without the variables
FallBack == loading' = Defaults /\ source' = "defaults" /\ bootAt' = "camera"

ReadDocument ==
  /\ bootAt = "read"
  /\ IF document.state = "parses"
     THEN loading' = Parsed(document.gives) /\ bootAt' = "override" /\ UNCHANGED source
     ELSE FallBack
  /\ UNCHANGED <<document, variables, serial, cameraUp>>

\* apply_env_overrides with its override_ functions
OverrideEnv ==
  /\ bootAt = "override" /\ bootAt' = "backfill"
  /\ LET Set == {p \in DOMAIN variables :
                   variables[p].parses \/ At(p).read = "else default"} IN
       loading' = With(loading, [p \in Set |->
         IF variables[p].parses THEN variables[p].value ELSE At(p).default])
  /\ UNCHANGED <<document, variables, serial, source, cameraUp>>

\* Mutant: only a file without [device] gets the documented identity.
BackfillIdentity_Skipped ==
  /\ bootAt = "backfill" /\ bootAt' = "validate"
  /\ UNCHANGED <<loading, document, variables, serial, source, cameraUp>>

BackfillIdentity ==
  /\ bootAt = "backfill" /\ bootAt' = "validate"
  /\ loading' = [loading EXCEPT !.device = Backfilled(@)]
  /\ UNCHANGED <<document, variables, serial, source, cameraUp>>

Even(n) == n % 2 = 0

\* The limits of an encoder, on both sides of the start.
Widths == 1..7680
Heights == 1..4320
Rates == 1..120
Bitrates == 1..200000
SubBitrates == 1..50000

\* SubstreamConfig::validate
SubProduces(sub) ==
  /\ sub.width \in Widths /\ sub.height \in Heights
  /\ Even(sub.width) /\ Even(sub.height)
  /\ sub.bitrate \in SubBitrates
SubValid(sub) == sub.enabled => SubProduces(sub)

\* Config::validate, camera
CameraValid(camera) ==
  /\ camera.fps > 0 /\ camera.width > 0 /\ camera.height > 0 /\ camera.bitrate > 0
  /\ camera.brightness \in -10..10 /\ camera.contrast \in 0..320
  /\ camera.saturation \in 0..320 /\ camera.sharpness \in 0..160
  /\ camera.codec \in {"h264", "h265"}
  /\ camera.encoder \in {"auto", "hardware", "software"}
  /\ camera.rotation \in {0, 90, 180, 270}
  /\ camera.rotation \in {90, 270} => Even(camera.width) /\ Even(camera.height)

\* ... watermark, with valid_timestamp_format
WatermarkValid(watermark) ==
  /\ watermark.font_size \in 12..96 /\ watermark.text # "129 characters"
  /\ watermark.enabled => watermark.text # "" \/ watermark.show_timestamp
  /\ watermark.timestamp_format = "strict"

\* ... and the rest
ServicesValid(conf) ==
  /\ conf.rtsp.port > 0 /\ conf.onvif.port > 0 /\ conf.onvif.ip_filter # "bad"
  /\ conf.web.enabled => conf.web.port > 0
  /\ conf.ai.model_path = "built in" => conf.ai.model # "Not An Id"
  /\ conf.logging.level \in {"debug", "info", "warn", "error"}
  /\ conf.recording.enabled => conf.recording.segment_secs >= 60

ConfigValid(conf) ==
  /\ SubValid(conf.substream) /\ CameraValid(conf.camera)
  /\ WatermarkValid(conf.watermark) /\ ServicesValid(conf)

ValidateConfig ==
  /\ bootAt = "validate"
  /\ IF ConfigValid(loading) THEN bootAt' = "camera" /\ UNCHANGED <<loading, source>>
     ELSE FallBack
  /\ UNCHANGED <<document, variables, serial, cameraUp>>

-----------------------------------------------------------------------------
(* start_camera_pipeline, with an encoder and a sensor that work           *)

\* effective_dims
Effective(camera) ==
  IF camera.rotation \in {90, 270} THEN <<camera.height, camera.width>>
  ELSE <<camera.width, camera.height>>

\* CameraConfig::new, of the main stream ...
MainStream(conf) ==
  [dims |-> Effective(conf.camera), fps |-> conf.camera.fps,
   bitrate |-> conf.camera.bitrate, device |-> conf.camera.encoder_device]

\* ... and of the substream, effective_fps
SubStream(conf) ==
  [dims |-> <<conf.substream.width, conf.substream.height>>,
   fps |-> IF conf.substream.fps = 0 THEN conf.camera.fps ELSE conf.substream.fps,
   bitrate |-> conf.substream.bitrate, device |-> conf.camera.encoder_device]

\* CameraConfig::validate, which every encoder's start calls first
StreamAccepted(stream) ==
  /\ stream.dims[1] \in Widths /\ stream.dims[2] \in Heights
  /\ stream.bitrate \in Bitrates /\ stream.fps \in Rates
  /\ stream.device # ""

TryCamera ==
  /\ bootAt = "camera" /\ bootAt' = "up"
  /\ cameraUp' = IF StreamAccepted(MainStream(loading)) THEN "started" ELSE "refused"
  /\ UNCHANGED <<document, variables, serial, loading, source>>

\* Mutant: the substream is measured against the picture as captured.
Downscales_Captured(conf) ==
  conf.substream.width <= conf.camera.width /\ conf.substream.height <= conf.camera.height

\* "downscaler never upscales"
Downscales(conf) ==
  /\ conf.substream.width <= Effective(conf.camera)[1]
  /\ conf.substream.height <= Effective(conf.camera)[2]

\* The substream's pipeline started: its geometry is in main's sub_profile.
SubStarts(conf) ==
  /\ cameraUp = "started" /\ conf.substream.enabled
  /\ Downscales(conf) /\ StreamAccepted(SubStream(conf))

SchemaNext ==
  ReadDocument \/ OverrideEnv \/ BackfillIdentity \/ ValidateConfig \/ TryCamera

SchemaSpec == SchemaInit /\ [][SchemaNext]_schemaVars

-----------------------------------------------------------------------------
(* Properties                                                              *)

(* Whatever the file says and whichever variable is set, the device runs   *)
(* under an identity the ONVIF library accepts, with the board's serial    *)
(* number unless one was configured; nothing an earlier stage let through  *)
(* is undone by a later one: a variable that parses is what runs, unless   *)
(* the whole document was refused.                                         *)
LoadedSound ==
  bootAt = "up" =>
    /\ \A f \in DOMAIN loading.device : loading.device[f] \notin Placeholders
    /\ loading.device.serial_number = "" => serial = ""
    /\ ConfigValid(loading)
    /\ source = "file" =>
         \A p \in DOMAIN variables :
           /\ variables[p].parses
           /\ p[1] = "device" => variables[p].value \notin Placeholders \cup {""}
           => loading[p[1]][p[2]] = variables[p].value

(* A substream that runs is one its encoder and its scaler can produce and *)
(* ONVIF may advertise: even sides, because of the chroma planes, neither  *)
(* larger than the picture after rotation, and never faster than 120.      *)
SubstreamFits ==
  bootAt = "up" /\ SubStarts(loading) =>
    LET sub == SubStream(loading).dims IN
      /\ Even(sub[1]) /\ Even(sub[2])
      /\ sub[1] \in 1..Effective(loading.camera)[1]
      /\ sub[2] \in 1..Effective(loading.camera)[2]
      /\ SubStream(loading).fps \in 1..120

=============================================================================
