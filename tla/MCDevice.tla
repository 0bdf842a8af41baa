------------------------------ MODULE MCDevice ------------------------------
(***************************************************************************)
(* The device around its streams, side by side in one run: machine says    *)
(* which part runs, the others rest where they began.  No step of one is   *)
(* combined with a step of another.                                        *)
(***************************************************************************)
EXTENDS Startup, ConfigSchema, Observe, Sampler, OnvifDevice, Detection,
        MotionDetector, ImagingParams, LivePlayer, Watermark, ThermalPicture

VARIABLE machine

deviceVars == <<machine, startVars, schemaVars, observeVars,
                samplerVars, onvifVars, detectionVars, motionVars,
                paramVars, playerVars, markVars, pictureVars>>

\* The machine works or rests, with an interface besides the loopback.
WorkSet == {[user |-> u, idle |-> 2, iowait |-> i, lo |-> 5, eth |-> e, own |-> u] :
              u \in {0, 1}, i \in {0, 1}, e \in {0, 3}}
StepSet == {-2000, 0, 2000}

\* A network and a single host as entries of the allow-list.
Net == [addr |-> 4, prefix |-> 1]
Single == [addr |-> 2, prefix |-> 3]
Host(password, identity, entries) ==
  [password |-> password, identity |-> identity, events |-> identity,
   media2 |-> password = "", entries |-> entries, encoder |-> 3]
HostSet == {Host("right", TRUE, <<Net, Blank>>), Host("right", TRUE, <<Single>>),
            Host("", FALSE, <<Blank>>), Host("right", TRUE, <<>>)}

\* Three points whose boxes may overlap, with whole and with half pixels; pictures
\* of both orientations, with odd sides, and one cut short by a byte.
Scores == {[c \in Classes |-> s[c + 1]] : s \in {<<2, 0, 0>>, <<0, 2, 1>>, <<1, 0, 2>>}}
BoxSet == {<<0, 0, 16, 16>>, <<0, 0, 48, 16>>, <<16, 0, 48, 35>>}
RowsAt(points, boxes) == [point : points, scores : Scores, object : {1}, box : boxes]
OutSet == {<<a, b, c>> : a \in RowsAt({0, 1}, BoxSet), b \in RowsAt({13}, BoxSet),
                         c \in RowsAt({18}, BoxSet)}
FrameSet == {<<64, 32, 3072>>, <<20, 38, 1140>>, <<38, 19, 1083>>, <<15, 20, 450>>,
             <<20, 15, 450>>, <<20, 20, 599>>}

\* Pictures twice as wide as the grid, one smaller than it, and one cut short.
PictureSet ==
  [width : {4}, height : {2}, y : {<<a, 9, b, 9, c, 9, 9, 9>> : a, b, c \in {0, 200}}]
    \cup {[width |-> 1, height |-> 2, y |-> <<200, 64>>],
          [width |-> 4, height |-> 2, y |-> <<200>>]}

\* Glyphs with ink above, below and beside their box, one barely visible; a
\* line that fits, one that is cut, pictures with odd sides.
FontDef ==
  [c \in {"A", "g", "-", ",", " "} |->
    CASE c = "A" -> [xmin |-> 0, ymin |-> 0, width |-> 2, height |-> 3, advance |-> 2,
                     rows |-> <<<<0, 200>>, <<255, 0>>, <<255, 255>>>>]
      [] c = "g" -> [xmin |-> -1, ymin |-> -1, width |-> 2, height |-> 3, advance |-> 2,
                     rows |-> <<<<200, 9>>, <<255, 0>>, <<255, 90>>>>]
      [] c = "-" -> [xmin |-> 0, ymin |-> 1, width |-> 1, height |-> 1, advance |-> 2,
                     rows |-> <<<<255>>>>]
      [] c = " " -> [xmin |-> 0, ymin |-> 0, width |-> 0, height |-> 0, advance |-> 1,
                     rows |-> <<>>]
      [] c = "," -> [xmin |-> 0, ymin |-> 0, width |-> 1, height |-> 1, advance |-> 1,
                     rows |-> <<<<5>>>>]]
TextSet == {<<>>, <<"A">>, <<"g", ",">>}
ClockSet == {<<"-", "A">>, <<"A", "-">>}
MarkFrameSet == {<<16, 12>>, <<10, 8>>, <<6, 5>>, <<5, 6>>, <<7, 7>>, <<4, 4>>}

\* Hot and cold cells in corners, at edges and in the middle, all of one
\* temperature; readings from "-9.5" to "-40.0" and "120.3".
ThermalSizeSet == {<<320, 240>>, <<640, 480>>, <<96, 72>>, <<130, 90>>, <<321, 240>>,
                   <<480, 72>>}
Letters(h, c, m, bar) == [hot |-> h, cold |-> c, centre |-> m, bar |-> bar]
GridSet == {[hot |-> 0, cold |-> 767, letters |-> Letters(6, 6, 6, <<5, 5, 5>>)],
            [hot |-> 31, cold |-> 736, letters |-> Letters(7, 6, 5, <<6, 5, 4>>)],
            [hot |-> 400, cold |-> 645, letters |-> Letters(5, 7, 6, <<4, 5, 6>>)],
            [hot |-> 0, cold |-> 0, letters |-> Letters(6, 6, 6, <<5, 5, 5>>)]}

\* The configuration of a device without a file, for the machines that do not
\* load it: a board without a serial number is among those that are run.
ASSUME RestsAssumption == "" \in Serials

SchemaRests ==
  /\ bootAt = "read" /\ serial = "" /\ source = "file"
  /\ loading = SerdeDefaults /\ cameraUp = "off" /\ variables = NoValues
  /\ document = [state |-> "absent", gives |-> NoValues]

MarkRests ==
  mark = [text |-> <<>>, stamp |-> FALSE, position |-> "top-left"] /\ clock = <<"-", "A">>
PictureRests ==
  params = <<320, 240>> /\ grid.cold = 767 /\ encThread = "turn"

MCInit ==
  /\ machine \in {"startup", "schema", "observe", "sampler", "onvif", "detection",
                  "motion", "params", "player", "watermark", "thermal"}
  /\ StartInit /\ (machine # "startup" => build = {} /\ enabled = {})
  /\ IF machine = "schema" THEN SchemaInit ELSE SchemaRests
  /\ ObserveInit /\ SamplerInit
  /\ OnvifInit /\ (machine # "onvif" => host.password = "")
  /\ DetectionInit
  /\ MotionInit /\ (machine # "motion" => motion.sensitivity = 0)
  /\ ParamInit /\ PlayerInit /\ (machine # "player" => plays = "mse")
  /\ MarkInit /\ (machine # "watermark" => MarkRests)
  /\ PictureInit /\ (machine # "thermal" => PictureRests)

MCNext ==
  \/ /\ machine = "startup" /\ StartNext
     /\ UNCHANGED <<machine, schemaVars, observeVars, samplerVars,
                    onvifVars, detectionVars, motionVars, paramVars,
                    playerVars, markVars, pictureVars>>
  \/ /\ machine = "schema" /\ SchemaNext
     /\ UNCHANGED <<machine, startVars, observeVars, samplerVars,
                    onvifVars, detectionVars, motionVars, paramVars,
                    playerVars, markVars, pictureVars>>
  \/ /\ machine = "observe" /\ ObserveNext
     /\ UNCHANGED <<machine, startVars, schemaVars, samplerVars, onvifVars,
                    detectionVars, motionVars, paramVars, playerVars,
                    markVars, pictureVars>>
  \/ /\ machine = "sampler" /\ SamplerNext
     /\ UNCHANGED <<machine, startVars, schemaVars, observeVars, onvifVars,
                    detectionVars, motionVars, paramVars, playerVars,
                    markVars, pictureVars>>
  \/ /\ machine = "onvif" /\ OnvifNext
     /\ UNCHANGED <<machine, startVars, schemaVars, observeVars,
                    samplerVars, detectionVars, motionVars, paramVars,
                    playerVars, markVars, pictureVars>>
  \/ /\ machine = "detection" /\ DetectionNext
     /\ UNCHANGED <<machine, startVars, schemaVars, observeVars,
                    samplerVars, onvifVars, motionVars, paramVars,
                    playerVars, markVars, pictureVars>>
  \/ /\ machine = "motion" /\ MotionNext
     /\ UNCHANGED <<machine, startVars, schemaVars, observeVars,
                    samplerVars, onvifVars, detectionVars, paramVars,
                    playerVars, markVars, pictureVars>>
  \/ /\ machine = "params" /\ ParamNext
     /\ UNCHANGED <<machine, startVars, schemaVars, observeVars,
                    samplerVars, onvifVars, detectionVars, motionVars,
                    playerVars, markVars, pictureVars>>
  \/ /\ machine = "player" /\ PlayerNext
     /\ UNCHANGED <<machine, startVars, schemaVars, observeVars,
                    samplerVars, onvifVars, detectionVars, motionVars,
                    paramVars, markVars, pictureVars>>
  \/ /\ machine = "watermark" /\ MarkNext
     /\ UNCHANGED <<machine, startVars, schemaVars, observeVars,
                    samplerVars, onvifVars, detectionVars, motionVars,
                    paramVars, playerVars, pictureVars>>
  \/ /\ machine = "thermal" /\ PictureNext
     /\ UNCHANGED <<machine, startVars, schemaVars, observeVars,
                    samplerVars, onvifVars, detectionVars, motionVars,
                    paramVars, playerVars, markVars>>

MCSpec == MCInit /\ [][MCNext]_deviceVars

(* The type invariant of every machine.                                    *)
MCTypeOK ==
  /\ StartTypeOK /\ SchemaTypeOK /\ ObserveTypeOK /\ SamplerTypeOK
  /\ OnvifTypeOK /\ DetectionTypeOK /\ MotionTypeOK /\ ParamTypeOK
  /\ PlayerTypeOK /\ MarkTypeOK /\ PictureTypeOK

(* What main starts is what the web API says, and nothing that starts late *)
(* lacks what did not start early (Startup).                               *)
StartupSound == AdvertisedRuns /\ StartedSound

(* A configuration runs as it was given, under a real identity, and with a *)
(* substream its encoder can produce (ConfigSchema).                       *)
ConfigSound == LoadedSound /\ SubstreamFits

(* What the device tells of its work and of its load is what happened      *)
(* (Observe, Sampler).                                                     *)
ObservationsSound == ObservedSound /\ RatesTellTheMachine

(* Motion is told of two frames that followed each other, a parameter that *)
(* was set is read back, and what is burnt or drawn into a picture is      *)
(* whole and where it belongs (MotionDetector, ImagingParams, Watermark,   *)
(* ThermalPicture).                                                        *)
PicturesSound == MotionSound /\ ParamsReadBack /\ WatermarkSound /\ ThermalPictureSound
=============================================================================
