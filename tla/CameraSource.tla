---------------------------- MODULE CameraSource ----------------------------
(***************************************************************************)
(* From the sensor to the hub: the V4L2 capture producer                   *)
(* (src/src/camera/v4l2_capture.rs), the encoder threads of the hardware   *)
(* and the software source (camera/v4l2.rs, camera/software.rs), the       *)
(* choice between them (camera/encoder_probe.rs), the substream tap        *)
(* (camera/substream.rs) and the pump of main.rs.  The hardware session    *)
(* itself is M2mEncoder; here it is the number of frames inside it.        *)
(*                                                                         *)
(* A frame is "frame", an error event "error"; pixels are left out.        *)
(***************************************************************************)
EXTENDS Naturals, Sequences, FiniteSets

CONSTANTS
  CamModes,      \* camera.encoder settings to start from
  CaptureBuf,    \* NUM_BUFFERS of the capture device
  SessionCap,    \* frames the hardware session holds (4 OUTPUT buffers)
  InnerCap,      \* the handler's channel (8)
  EventCap,      \* the source's channel (64 and 16)
  TapCap,        \* TAP_CAPACITY
  IPeriod,       \* i_period: two seconds of frames
  FpsDiv,        \* the substream takes every FpsDiv-th frame
  MaxIdr,        \* bound: IFrameCmd requests
  MaxCamFailures      \* bound: failing device calls

ASSUME CamAssumption ==
  /\ CamModes \subseteq {"auto", "hardware", "software"} /\ CaptureBuf # {}
  /\ {SessionCap, InnerCap, EventCap, TapCap, MaxIdr, MaxCamFailures} \subseteq Nat
  /\ {IPeriod, FpsDiv} \subseteq Nat \ {0}

VARIABLES
  encoderKind,   \* SelectedEncoder: "hardware" | "software"
  captureDev,    \* "closed" | "open" | "streaming": V4l2CaptureProducer.inner
  atKernel,      \* capture buffers queued to the kernel
  camThread,     \* [at, force, skip]: the encoder thread
  frameCounter,  \* modulo IPeriod
  inSession,     \* frames inside the hardware session
  inner,         \* inner_tx/inner_rx of the hardware source
  events,        \* frame_tx/frame_rx
  pump,          \* "recv" | "sleep"
  pumped,        \* toggled by every frame the pump writes to the hub
  idrFlag,       \* the shared on-demand IDR flag
  idrOwed,       \* raised and no forced encode since (history)
  idrs, camFailures,  \* requests made, device calls that failed
  tap,           \* frames in the substream tap
  subThread,     \* "recv" | "send" | "exited"
  subCounter     \* SubFrameProducer.counter modulo FpsDiv

captureVars == <<captureDev, atKernel>>
queueVars == <<inSession, inner, events>>
idrVars == <<idrFlag, idrOwed, idrs>>
subVars == <<tap, subThread, subCounter>>
camVars == <<encoderKind, captureVars, camThread, frameCounter, queueVars, pump,
             pumped, idrVars, camFailures, subVars>>

(* Type invariant: all queues keep their bounds.                           *)
CamTypeOK ==
  /\ encoderKind \in {"hardware", "software"}
  /\ captureDev \in {"closed", "open", "streaming"} /\ atKernel \subseteq CaptureBuf
  /\ camThread \in [at : {"create", "top", "grab", "encode", "send", "backoff", "exited"},
                    force : BOOLEAN, skip : BOOLEAN]
  /\ frameCounter \in 0..IPeriod - 1 /\ inSession \in 0..SessionCap
  /\ inner \in Seq({"frame", "error"}) /\ Len(inner) <= InnerCap
  /\ events \in Seq({"frame", "error", "disconnected"}) /\ Len(events) <= EventCap
  /\ pump \in {"recv", "sleep"} /\ pumped \in BOOLEAN
  /\ {idrFlag, idrOwed} \subseteq BOOLEAN
  /\ idrs \in 0..MaxIdr /\ camFailures \in 0..MaxCamFailures /\ tap \in 0..TapCap
  /\ subThread \in {"recv", "send", "exited"} /\ subCounter \in 0..FpsDiv - 1

\* encoder_probe::decide; "error" ends start_camera_pipeline
Decide(mode, node) ==
  CASE mode = "software" -> "software"
    [] mode = "hardware" -> IF node = "M2M" THEN "hardware" ELSE "error"
    [] mode = "auto" -> IF node = "M2M" THEN "hardware" ELSE "software"

Thread(at) == [at |-> at, force |-> FALSE, skip |-> FALSE]

\* start_camera_pipeline has started the sources
CamInit ==
  /\ \E mode \in CamModes, node \in {"M2M", "missing", "not M2M"} :
       encoderKind = Decide(mode, node)
  /\ encoderKind # "error"
  /\ captureDev = "closed" /\ atKernel = {}
  /\ camThread = Thread("create")
  /\ frameCounter = 0 /\ inSession = 0 /\ inner = <<>> /\ events = <<>>
  /\ pump = "recv" /\ pumped = FALSE
  /\ idrFlag = FALSE /\ idrOwed = FALSE /\ idrs = 0 /\ camFailures = 0
  /\ tap = 0 /\ subThread = "recv" /\ subCounter = 0

Hardware == encoderKind = "hardware"
CamAt(step) == camThread.at = step
Goto(step) == camThread' = [camThread EXCEPT !.at = step]

\* try_send: a full channel drops the event
TrySend(queue, cap, e) == IF Len(queue) < cap THEN Append(queue, e) ELSE queue

\* A device call that may fail, as often as the bound allows.
Works == camFailures' = camFailures
Fails == camFailures < MaxCamFailures /\ camFailures' = camFailures + 1

-----------------------------------------------------------------------------
(* V4l2CaptureProducer::next_yuv_frame, on the encoder thread.             *)

\* ensure_opened; a failure leaves the device closed
OpenCapture ==
  /\ captureDev = "closed" /\ captureDev' = "open" /\ UNCHANGED atKernel

\* start_streaming queues every buffer; one that is queued already is refused
StartStreaming ==
  /\ captureDev = "open" /\ atKernel = {}
  /\ captureDev' = "streaming" /\ atKernel' = CaptureBuf

\* It fails, by the device or by what an earlier failure left queued.
StartFails ==
  /\ captureDev = "open"
  /\ IF atKernel = {}
     THEN Fails /\ \E queued \in {CaptureBuf, {CHOOSE b \in CaptureBuf : TRUE}} :
                     atKernel' = queued
     ELSE Works /\ UNCHANGED atKernel
  /\ UNCHANGED captureDev

\* DQBUF, copy, transform, QBUF of the same buffer: nothing is lost
FrameCaptured ==
  /\ captureDev = "streaming" /\ atKernel # {} /\ UNCHANGED captureVars

\* The QBUF fails: the buffer stays with the process and the frame is dropped.
RequeueFails ==
  /\ captureDev = "streaming" /\ atKernel # {} /\ UNCHANGED captureDev
  /\ \E b \in atKernel : atKernel' = atKernel \ {b}

\* 5 s without a frame, or no buffer left for one
CaptureTimesOut == captureDev = "streaming" /\ UNCHANGED captureVars

-----------------------------------------------------------------------------
(* The top of the loop.                                                    *)

\* The producer is dropped with its thread, and with it the tap's sender; the
\* software thread waits for room for its last event.
ThreadEnds(e) ==
  /\ ~Hardware => Len(events) < EventCap
  /\ camThread' = Thread("exited") /\ events' = TrySend(events, EventCap, e)
  /\ UNCHANGED <<inSession, inner>>

\* Mutant: a failing encoder ends its thread.
CreateEncoder_GivesUp ==
  /\ CamAt("create")
  /\ \/ Works /\ Goto("top") /\ frameCounter' = 0 /\ UNCHANGED events
     \/ /\ Hardware /\ Fails /\ Goto("exited") /\ UNCHANGED frameCounter
        /\ events' = TrySend(events, EventCap, "error")
  /\ UNCHANGED <<encoderKind, captureVars, inSession, inner, pump, pumped, idrVars, subVars>>

\* H264Encoder::new, or openh264's
CreateEncoder ==
  /\ CamAt("create")
  /\ \/ Works /\ Goto("top") /\ frameCounter' = 0 /\ UNCHANGED events
     \/ /\ Hardware /\ Fails /\ Goto("backoff") /\ UNCHANGED frameCounter
        /\ events' = TrySend(events, EventCap, "error")
  /\ UNCHANGED <<encoderKind, captureVars, inSession, inner, pump, pumped, idrVars, subVars>>

\* sleep(current_backoff), at most 30 s; the old session is dropped
BackoffEnds ==
  /\ CamAt("backoff") /\ Goto("create") /\ inSession' = 0 /\ inner' = <<>>
  /\ UNCHANGED <<encoderKind, captureVars, frameCounter, events, pump, pumped,
                 idrVars, camFailures, subVars>>

\* The hardware loop forwards one event of the handler's channel.
ForwardInner ==
  /\ CamAt("top") /\ inner # <<>>
  /\ events' = TrySend(events, EventCap, Head(inner)) /\ inner' = Tail(inner)
  /\ UNCHANGED <<encoderKind, captureVars, camThread, frameCounter, inSession, pump,
                 pumped, idrVars, camFailures, subVars>>

\* force_kf and the throttling test come before the frame; every second
\* frame of a throttled system is skipped
BeginTurnHardware ==
  /\ Hardware /\ CamAt("top") /\ inner = <<>>
  /\ frameCounter' = (frameCounter + 1) % IPeriod
  /\ idrFlag' = IF frameCounter = 0 THEN idrFlag ELSE FALSE
  /\ \E throttled \in BOOLEAN :
       camThread' = [at |-> "grab", force |-> frameCounter = 0 \/ idrFlag,
                     skip |-> throttled /\ frameCounter' % 2 = 1]
  /\ UNCHANGED <<encoderKind, captureVars, queueVars, pump, pumped, idrOwed, idrs,
                 camFailures, subVars>>

BeginTurnSoftware ==
  /\ ~Hardware /\ CamAt("top") /\ Goto("grab")
  /\ UNCHANGED <<encoderKind, captureVars, frameCounter, queueVars, pump, pumped,
                 idrVars, camFailures, subVars>>

-----------------------------------------------------------------------------
(* next_yuv_frame through the tap.                                         *)

\* TappingFrameProducer: a clone for the substream, dropped when full
FrameGrabbed ==
  /\ CamAt("grab") /\ FrameCaptured
  /\ tap' = IF tap < TapCap /\ subThread # "exited" THEN tap + 1 ELSE tap
  /\ Goto(IF camThread.skip THEN "top" ELSE "encode")
  /\ UNCHANGED <<encoderKind, frameCounter, queueVars, pump, pumped, idrVars, camFailures,
                 subThread, subCounter>>

\* an error that is not Disconnected: the hardware loop goes on, the
\* software loop ends
GrabFails ==
  /\ CamAt("grab")
  /\ \/ captureDev # "open" /\ Fails /\ UNCHANGED captureVars
     \/ StartFails
     \/ RequeueFails /\ Fails
  /\ IF Hardware
     THEN /\ Goto("top") /\ events' = TrySend(events, EventCap, "error")
          /\ UNCHANGED <<inSession, inner>>
     ELSE ThreadEnds("error")
  /\ UNCHANGED <<encoderKind, frameCounter, pump, pumped, idrVars, subVars>>

\* the lazy part of the first call
Prepare ==
  /\ CamAt("grab") /\ (OpenCapture \/ StartStreaming) /\ Works
  /\ UNCHANGED <<encoderKind, camThread, frameCounter, queueVars, pump, pumped,
                 idrVars, subVars>>

\* Disconnected: "Producer is dead; exit entire thread"
GrabDisconnects ==
  /\ CamAt("grab") /\ CaptureTimesOut
  /\ IF atKernel = {} THEN Works ELSE Fails
  /\ ThreadEnds("disconnected")
  /\ UNCHANGED <<encoderKind, frameCounter, pump, pumped, idrVars, subVars>>

-----------------------------------------------------------------------------
(* encode                                                                  *)

\* a frame encoded as a forced key frame settles what was owed
Settles(forced) == idrOwed' = (idrOwed /\ ~forced)

\* encode has a free OUTPUT buffer and the device takes it
EncodeHardware ==
  /\ Hardware /\ CamAt("encode") /\ inSession < SessionCap /\ Works
  /\ inSession' = inSession + 1 /\ Settles(camThread.force) /\ Goto("top")
  /\ UNCHANGED <<encoderKind, captureVars, frameCounter, inner, events, pump, pumped,
                 idrFlag, idrs, subVars>>

\* The device refuses, or has been too slow to leave a free buffer, which
\* counts as a failure of its own: leave the loop and back off.
EncodeFails ==
  /\ Hardware /\ CamAt("encode") /\ Fails
  /\ events' = TrySend(events, EventCap, "error") /\ Goto("backoff")
  /\ UNCHANGED <<encoderKind, captureVars, frameCounter, inSession, inner, pump,
                 pumped, idrVars, subVars>>

\* Mutant: the request is taken whether or not this frame can be forced.
EncodeSoftware_Forgets ==
  /\ ~Hardware /\ CamAt("encode") /\ Works /\ idrFlag' = FALSE
  /\ Settles(FALSE) /\ Goto("send")
  /\ UNCHANGED <<encoderKind, captureVars, frameCounter, queueVars, pump, pumped,
                 idrs, subVars>>

\* openh264: the request is consumed next to the encode it forces
EncodeSoftware ==
  /\ ~Hardware /\ CamAt("encode") /\ Works /\ idrFlag' = FALSE
  /\ Settles(idrFlag) /\ Goto("send")
  /\ UNCHANGED <<encoderKind, captureVars, frameCounter, queueVars, pump, pumped,
                 idrs, subVars>>

\* openh264 cannot be set up, or refuses a frame: the thread ends
SoftwareFails ==
  /\ ~Hardware /\ (CamAt("create") \/ CamAt("encode")) /\ Fails
  /\ idrFlag' = (idrFlag /\ CamAt("create"))
  /\ ThreadEnds("error")
  /\ UNCHANGED <<encoderKind, captureVars, frameCounter, pump, pumped, idrOwed, idrs,
                 subVars>>

\* blocking_send waits for room
SendSoftware ==
  /\ CamAt("send") /\ Len(events) < EventCap
  /\ events' = Append(events, "frame") /\ Goto("top")
  /\ UNCHANGED <<encoderKind, captureVars, frameCounter, inSession, inner, pump, pumped,
                 idrVars, camFailures, subVars>>

\* The session's poller thread hands a bitstream to the handler (M2mEncoder).
SessionEmits ==
  /\ inSession > 0 /\ inSession' = inSession - 1
  /\ inner' = TrySend(inner, InnerCap, "frame")
  /\ UNCHANGED <<encoderKind, captureVars, camThread, frameCounter, events, pump,
                 pumped, idrVars, camFailures, subVars>>

-----------------------------------------------------------------------------
(* main.rs: the pump and the IFrameCmd handler; the substream.             *)

PumpReceives ==
  /\ pump = "recv" /\ events # <<>> /\ events' = Tail(events)
  /\ IF Head(events) = "frame" THEN pumped' = ~pumped /\ UNCHANGED pump
                               ELSE pump' = "sleep" /\ UNCHANGED pumped
  /\ UNCHANGED <<encoderKind, captureVars, camThread, frameCounter, inSession, inner,
                 idrVars, camFailures, subVars>>

\* the channel is closed and empty: an error every second, for good
PumpFindsClosed ==
  /\ pump = "recv" /\ CamAt("exited") /\ events = <<>> /\ pump' = "sleep"
  /\ UNCHANGED <<encoderKind, captureVars, camThread, frameCounter, queueVars, pumped,
                 idrVars, camFailures, subVars>>

PumpWakes ==
  /\ pump = "sleep" /\ pump' = "recv"
  /\ UNCHANGED <<encoderKind, captureVars, camThread, frameCounter, queueVars, pumped,
                 idrVars, camFailures, subVars>>

\* ControlGlue::on_force_iframe
RaiseIdr ==
  /\ idrs < MaxIdr /\ idrs' = idrs + 1 /\ idrFlag' = TRUE /\ idrOwed' = TRUE
  /\ UNCHANGED <<encoderKind, captureVars, camThread, frameCounter, queueVars, pump,
                 pumped, camFailures, subVars>>

\* SubFrameProducer: every FpsDiv-th tapped frame goes on to the encoder
SubReceives ==
  /\ subThread = "recv" /\ tap > 0 /\ tap' = tap - 1
  /\ subCounter' = (subCounter + 1) % FpsDiv
  /\ subThread' = IF subCounter' = 0 THEN "send" ELSE "recv"
  /\ UNCHANGED <<encoderKind, captureVars, camThread, frameCounter, queueVars, pump,
                 pumped, idrVars, camFailures>>

SubSends ==
  /\ subThread = "send" /\ subThread' = "recv"
  /\ UNCHANGED <<encoderKind, captureVars, camThread, frameCounter, queueVars, pump,
                 pumped, idrVars, camFailures, tap, subCounter>>

\* the tap's sender went with the main thread's producer
SubFindsClosed ==
  /\ subThread = "recv" /\ tap = 0 /\ CamAt("exited") /\ subThread' = "exited"
  /\ UNCHANGED <<encoderKind, captureVars, camThread, frameCounter, queueVars, pump,
                 pumped, idrVars, camFailures, tap, subCounter>>

CamThreadStep ==
  \/ CreateEncoder \/ BackoffEnds \/ ForwardInner
  \/ BeginTurnHardware \/ BeginTurnSoftware
  \/ Prepare \/ FrameGrabbed \/ GrabFails \/ GrabDisconnects
  \/ EncodeHardware \/ EncodeFails \/ EncodeSoftware \/ SoftwareFails
  \/ SendSoftware

PumpStep == PumpReceives \/ PumpFindsClosed \/ PumpWakes
SubStep == SubReceives \/ SubSends \/ SubFindsClosed

CamNext == CamThreadStep \/ SessionEmits \/ PumpStep \/ RaiseIdr \/ SubStep

\* Threads and tasks run on, and a session that holds frames encodes them.
CamFairness ==
  /\ WF_camVars(CamThreadStep) /\ WF_camVars(SessionEmits)
  /\ WF_camVars(PumpStep) /\ WF_camVars(SubStep)

CamSpec == CamInit /\ [][CamNext]_camVars /\ CamFairness

-----------------------------------------------------------------------------
(* Properties                                                              *)

(* The hardware source never gives up on its encoder: once device calls no *)
(* longer fail, and unless the capture device itself was lost, frames      *)
(* reach the hub for ever, whatever was dropped, refused or recreated      *)
(* before, and whatever the substream does.                                *)
CaptureLost ==
  \/ captureDev = "open" /\ atKernel # {}            \* it cannot be started
  \/ captureDev = "streaming" /\ (CamAt("exited") \/ atKernel = {})
HardwareRecovers ==
  Hardware => (<>CaptureLost \/ []<><<pumped' # pumped>>_camVars)

(* A force-IDR request raised by the platform is not lost between threads: *)
(* with the software encoder it stays raised until a frame has been encoded*)
(* as forced, further requests and lost frames notwithstanding, and one is *)
(* unless the source ends.                                                 *)
ForcedIdrComes ==
  ~Hardware => (idrOwed ~> (~idrOwed \/ CamAt("exited")))
=============================================================================
