# mibee-eye in TLA+

A formal model of mibee-eye-rs, the camera daemon in `src/` (Rust): it captures
pictures from a camera, encodes them to H.264, fans the access units out to RTSP
clients, browsers (MSE), a GB28181 platform and a disk recorder, detects objects and
reads a thermal sensor, is configured through a web API, and is supervised and
restarted through a GB28181 handshake.

The modules follow the code, not its documentation. A definition has the name
of the function or variable it stands for; `PROJECT.json` maps every one to
its lines. Paths below are relative to `src/src/`.

## 1. Inventory

| Component | State | Operations | Modules |
|---|---|---|---|
| Start `main.rs`, capabilities | a dozen Option variables: what was started | each part starts or fails, the rest goes on; what the web API then advertises | Startup |
| Configuration `config/mod.rs`, `camera/source.rs` | the loaded Config | defaults, file, environment, identity, validate, fallback | ConfigSchema |
| Camera `camera/` | encoder thread, event queues, encoder session, substream tap | grab, encode, back off, re-create, force IDR, pump | CameraSource, M2mEncoder, ImageGeometry |
| Watermark `watermark.rs`, parameters `camera/params.rs` | cached mask; driver controls | rasterise, burn; set, get | Watermark, ImagingParams |
| H.264 and fMP4 bytes `h264/parser.rs`, `web/fmp4.rs` | splitter position | split, wrap | AnnexB |
| Access-unit hub `h264/hub.rs` | map id -> slot behind a mutex, atomic id counter, drop counters | subscribe, unsubscribe, write | HubSlot, AuHub, AuHubSlot |
| MSE streaming `web/video_stream.rs` | a bridge thread, a realign gate and a generator per connection; one media clock | connect, bridge loop, poll, disconnect | MseStream, MseClock |
| Live view `static/js/live.js` | engine, MediaSource, fetches, timers | start, chunks, refetch, reconnect, give up | LivePlayer |
| Recorder `recording/writer.rs` | bridge thread, async channel, open segment, pause gate | run_inner, roll, shutdown, errors | Recorder |
| Recording directory `recording/{index,retention,mod}.rs` | `.h264` files, `index.jsonl`, footprint counter | open, close, append, load, sweep, restart | RecordingStore |
| RTSP `streaming/rtsp.rs` | connection locals, sessions, a hub slot and bridge thread per PLAY | requests, delivery over TCP/UDP, packets | RtspSession, RtspFront, RtpWire |
| Inference and models `ai/` | detector slot, active model, latest detections, registry on disk, guardrails | loop, set_detector, upload, delete, activate | AiModels, Detection |
| Motion `motion/detector.rs` | previous frame, cooldown | process, reset, sensitivity | MotionDetector |
| Events `pipeline/bus.rs`, `web/events.rs` | bounded broadcast channel, SSE clients | publish, bridge, broadcast, leave | EventFanout |
| Alarms `gb28181_alarm.rs`, `thermal/alarm.rs` | last edge, cooldown, gate, hysteresis | batch, switch, evaluate | Alarms |
| Web API `web/api.rs` | Config in memory and its file | read-modify-write by concurrent handlers, restart | WebConfig, AiModels |
| Login `web/auth.rs` | sessions, their file, failures, lock | login, logout, sweep, setup, reset, restart | WebSessions |
| Observation `web/observe.rs`, middleware in `web/server.rs` | rings of log lines and requests, last reading | push, answer, sample | Observe, Sampler |
| ONVIF `onvif_glue.rs`, `ptz/` | handler map, filter, device settings | wire, direct and proxied requests, restart | OnvifDevice |
| Thermal sensor `thermal/` | bound address, calibration block, bus | poll, retarget, scan, restart; line by line | Thermal, I2cBus |
| Thermal picture `thermal/{render,gb_stream}.rs` | encoder, key-frame flag | draw, encode, re-create | ThermalPicture |
| Exit and supervision `main.rs`, `web/server.rs` | want/done channels per supervisor, retry loops | request, ack, deregister, time out | GracefulExit |

`PROJECT.json` lists all components with their files and status, and the reason for
each one left out; section 6 sums those up.

### How they interact

    sensor -> capture -> rotate, burn -> encoder session -> pump -> AuHub.write
                             |                                  +-> slot -> bridge thread -> RTSP connection
                             +-> tap -> substream encoder       +-> slot -> bridge thread -> MSE generator -> live.js
                                                                +-> slot -> bridge thread -> recorder -> files <- sweep
                                                                +-> slot -> GB28181 stream (external crate)
    frames -> detector loop -> latest detections -> alarm bridge -> NOTIFY, SSE, ONVIF
                                              +--> event bus -> SSE hub -> browsers
    requests -> middleware -> handlers -> Config (memory, file), models, sessions
    signal / restart -> graceful_exit -> supervisors (want/done) -> deregister

Everything downstream of the hub has the same form: a bounded std channel filled by
the hub's pump, a *blocking* bridge thread that reads it, and a bounded async channel
to a task. What makes these hard is the same everywhere: losses happen at the hub and
are noticed elsewhere, later and through a counter; a blocking thread must be woken
when its consumer leaves; P-frames are useless after any loss until the next key
frame. The camera adds a hardware session whose buffers and user data must stay
paired through every failed ioctl. Recording, configuration, models and sessions add
files that several tasks write without a lock spanning the write, and exits at any
point. The exit handshake adds timeouts that race the network, the browser adds
timers and callbacks that outlive what they were made for, and the start adds parts
that run without those that failed before them.

### What makes each component correct

* Hub: one slot per live subscriber; order, no duplicates; every unit received,
  queued or counted as dropped; silence after unsubscribe; the writer never waits.
* Camera: a frame comes out upright, with its own timestamp, and a hardware encoder
  that failed is tried again; a forced IDR comes; threads that are dropped end.
* Bytes: a NAL unit is found whole wherever it is cut.
* MSE and live view: a P-frame follows a loss only behind an overtaken key frame; a
  new connection's timestamps lie past those of the one it replaces; the player shows
  one stream, and gives up rather than stay black.
* Recorder and store: what the hub queued is recorded once or discarded for a
  stated reason, segments tile the stream; oldest first, index, files and counter agree.
* RTSP: order across PLAYs, no P-frame without its reference, contiguous sequence
  numbers, answers to the requests they belong to, packets that reassemble.
* Configuration and web: what is saved is what runs after a restart, what was given is
  what the camera gets; a session that ended stays ended; a listed model loads.
* Detections: belong to the running model; boxes are where the network saw them.
* Alarms and events: an edge leads to an alarm as long as targets keep appearing; a
  browser sees every event the bus did not lose.
* Sensors: a temperature is computed from the calibration and the bytes of the sensor
  it was read from; a sensor and a bus come back.
* Exit: the process ends whatever the network does, no supervisor acks unasked.

## 2. Modules

### The media path

**HubSlot** is what one subscriber may rely on: a bounded FIFO that loses the newest
unit when full, a counter that lags at most one loss, silence after the unlink. It is
the *abstract specification* of the hub and the environment `MseStream` and `Recorder`
are composed with (`Slot == INSTANCE HubSlot`).

**AuHub** is `hub.rs` itself. Taking an id (`Reserve`) and entering the map (`Insert`)
are two steps, since `next_id` is read outside the mutex. A write is many steps:
`BeginWrite`, a `TrySend` per slot, a `CountDrop` for each failure, `EndWrite`; receivers
run between any two of them, the mutex keeps (un)subscribe out. **AuHubSlot** maps one
subscriber of the hub to a HubSlot (`ImplementsSlot`).

**CameraSource** has the choice of an encoder, the capture producer, the thread that
grabs, encodes and emits events, its back-off and re-creation, the substream's tap and
the pump. **M2mEncoder** is the hardware session below it: both buffer queues, the
poller thread, user data paired by position, any ioctl failing, the drop that joins the
poller. **ImageGeometry** names every sample of a picture by where it was captured:
rotation, mirror, scaling, padding, the colours of a snapshot. **AnnexB** scans a byte
stream step by step, builds the fragment's nested boxes and reads them back; `Units` are
the NAL units an encoder may make (`MCNals` in the run).

**MseStream** is one `/stream` connection. The bridge's loop is kept statement by
statement where another actor can interfere: receive, read the drop counter, drain to
the latest unit, pass the gate, send. `Poll` is the first poll of the body, which is
what creates the unsubscribe guard. **MseClock** is `MSE_FLOOR_TICKS` and every
connection's `MseTimeline`. **LivePlayer** is the browser's side: a callback is a step,
and timers, pending fetches and closures of older engines are state of their own.

**Recorder** is `run_inner`: bridge thread, pause gate, `Roll`, `Fail` for each early
return, the shutdown drain. **RecordingStore** is the directory; the sweep (`Load` ...
`RewriteDone`) is split at every file operation, the writer at file, index and counter;
`Restart` loses memory and keeps files; up to `MaxFaults` operations fail. Segments
have any of `Sizes`, and cap and retention are whatever `validate` lets through: 0, and
caps below one segment, take the newest segment too.

**RtspSession** is one connection's handler and the bridge threads of its PLAYs. A
write pass of the hub is one step, since each bridge thread sees one slot and nobody in
`rtsp.rs` reads a drop counter; taking a unit and the outcome of its write are one step,
since the handler awaits the write and serves nothing meanwhile. A write succeeds,
fails, or times out with any number of whole packets in the stream. **RtspFront** is
the request side: messages in two pieces, reads that return half a message or several,
credentials, answers. **RtpWire** turns a unit into packets: parameter sets, fragments,
markers, 32-bit timestamps.

### Around it

**AiModels**: the inference loop against `set_detector`, and the model handlers, with a
step for each lock or file operation; the registry is how many entries an id has.
**Detection**: guardrails, sampling, decoders, the stable sort (`Ranked`), suppression,
unmapping, rounding of origin and extent; the network is any output of the right form
(`OutputRows`), a picture has any sides and length, and one behind whose end is read ends
the task (`TurnPanics`). **MotionDetector**, **EventFanout**,
**Alarms** (clock may be set back), **WebConfig** (handlers interleave; `persist_config`
is cut where `fs::write` truncates and writes), **WebSessions** (every write of
`web-sessions.json` is a `Persist`, which may fail and then says nothing; expiries go
through the file in whole seconds; a password reset clears and creates in two steps),
**GracefulExit** (the SIP crate is free to fail, stop or hang), **Thermal** (sensors that move between addresses,
pins bound to a controller or not), **I2cBus** (every line operation, and a process that
dies between any two), **Startup** (a part's success is a free choice), **ConfigSchema**
(every section; only fields something checks or combines have names), **Observe**
(middleware steps of several handlers interleave), **Sampler** (the machine counts on, a
reading may fail), **OnvifDevice** (the order of registrations decides three shared
names), **ImagingParams** (the code's own table of ranges in the run), **Watermark** (a picture is the set of indices the burn
touches), **ThermalPicture** (marks, labels and bar as rectangles; encoder, key-frame
flag and failures as steps).

`AuHub` and `HubSlot` are joined by a refinement, `MseStream` and `Recorder` are each
composed with `HubSlot`; the remaining modules meet at values one of them takes as a
free choice: CameraSource's session is a count of frames and M2mEncoder what is inside
it; AiModels chooses freely whether a turn runs and Detection says when it does.

**MC\*** modules put machines side by side in one run: `machine` says which runs, the
others rest in one initial state. *No step of one is combined with a step of another*;
such a run is the union of the runs of its machines. Definitions named
`Something_Variant` next to `Something` are plausible bugs of that definition. Each
property is paired with at least one in `PROJECT.json`: with the variant in place TLC
refutes the property, so the property does say something about the code.

**\*Proofs** modules hold the theorems (section 4): `AuHubProofs` for the hub and its
refinement; `MseProofs` (media clock, bridge, bytes), `RecordingProofs` (recorder,
directory), `CameraProofs` (geometry, encoder session, and MCMedia as a whole) and
`RtspProofs` for the rest of the media path; `ControlProofs` and `DeviceProofs` for what
surrounds it. `FoldFacts` has what they share: what folds and flattenings compute,
smallest counterexamples, quotients, rows and columns. They EXTEND the modules they are
about and add no behaviour.

## 3. Runs

| Run | Machines | Asks | States |
|---|---|---|---|
| MCAuHub | AuHub | Do two subscribers keep slots, order and accounts under every interleaving with write passes? Does the hub implement HubSlot? Does a pass end? | 131k, 15 s |
| MCMedia | ImageGeometry, CameraSource, M2mEncoder, AnnexB, MseStream, MseClock, Recorder, RecordingStore | Are frames upright and paired, units whole, holes realigned, the clock handed on, recordings whole, the directory sound? Do threads end, does the encoder recover? | 875k, 83 s |
| MCControl | WebConfig, WebSessions, AiModels, EventFanout, Alarms, GracefulExit, Thermal, I2cBus | Is what is saved running, a session kept and ended, a listed model loadable, every event seen, no exit cut short, a sensor trusted? Do alarms, detections, sensor, bus and exit get there? | 974k, 100 s |
| MCRtsp | RtspSession, RtspFront, RtpWire | Order, key-frame rules, sequence numbers, answers, reassembly; does an orphaned thread end? | 1.0M, 99 s |
| MCDevice | Startup, ConfigSchema, Observe, Sampler, OnvifDevice, Detection, MotionDetector, ImagingParams, LivePlayer, Watermark, ThermalPicture | Is the start, the configuration, the ONVIF wiring, a detection, an observation, a drawing, the player sound? | 573k, 101 s |
| MCStoreLost, MCExitReregister, MCRtspLeak, MCRtspDigest, MCRtspTimestamps, MCSavedLoads, MCDetectClass | | each refutes one statement the repository makes | |

Joint properties are conjunctions named where they are defined: `DirectorySound`,
`RecordingsWhole`, `FairMedia` (MCMedia); `SensorsTrusted`, `FairControl` (MCControl);
`FairOrphanThreadEnds` (MCRtsp); `StartupSound`, `ConfigSound`, `ObservationsSound`,
`PicturesSound` (MCDevice). The mutants show that each of their parts is load-bearing.

### What the less obvious properties say

* `HoleOnlyBehindOvertakenKey`: the only case in which a P-frame follows a hole in a
  browser's stream is a loss counted while an older key frame was still queued.
* `FramesPaired`: no encoder buffer is ever in two places, and a unit comes out with the
  data of the frame it was made of, although data is queued beside the frames and any
  ioctl may fail. `EncoderDrops` (in `FairMedia`): dropping the encoder joins its poller.
* `SavedIsRunning`: when no request is under way, none overlapped another and no write
  failed, the file holds the configuration in memory, after any sequence of handlers.
  `ListedLoads`: with no two requests for one id overlapping, a listed model is there and
  was validated, whatever failed and whenever the process restarted.
* `SignedInStays`: a session that was ended stays ended in memory and in the file; no
  sweep, restart or other login ends one within its lifetime, which each restart may
  shorten by up to two seconds and lengthen by up to one (`OnTime`). The exception is a
  token in `undone`: the write of its last change failed, and a restart came before any
  later write, each of which writes the whole store (`stale`).
* `DirectorySound`: no listed segment on disk is older than a deleted one; a sweep
  deletes no more than ages and cap ask for; the counter is exact but for what writer and
  sweep still owe, and too large, never too small, once a subtraction saturated, which
  happens only when a sweep deletes the segment listed but not counted yet; the index
  names no file that is gone. A crash or fault in between voids the last three (below).
* `AnswersPair`: a request that begins a read and lies in it whole is answered once, in
  order and with its own CSeq. `SeqContiguousExtent` is the whole extent to which
  sequence numbers have no gaps. `UnitsReassemble`: a receiver gets every unit back byte
  for byte, with the parameter sets of its own mount and, away from the end of the u32
  range, growing timestamps.
* `StartupSound`: an advertised capability is served and fed by a task that runs; each
  exit handshake is done or watched; nothing runs without what it reads.
* `ConfigSound`: what a variable or the file gave is what runs unless the whole document
  was refused, under a usable identity, with a substream its encoder can produce.
* `OnvifSound`: each action reaches the face meant for it through the shared map, and an
  unlisted peer or one without the password gets no further than it should.
* `DetectionsSound`: every cell of the grid has one point; luma is read in its plane, and
  chroma too where both sides are even; a picture behind whose end is read has an odd
  side; each object is kept once and the rest is overlapped by a surer one; a box with an
  extent lies inside the frame, one of YOLOX's to within the one pixel by which two
  roundings up exceed one.
* `ObservationsSound`: the rings are the recent past, a filtered answer is not crowded
  out, and rates tell what happened between two whole readings.
* `PlayerSound`: an engine that has not given up always has something pending; it holds
  at most one connection and stop reaches it unless a refetch and a rebuild crossed; an
  engine is left behind only after one gave up or when two starts crossed.
* `PicturesSound`: motion is told of consecutive frames; a parameter reads back what was
  set; the watermark is whole where it fits and touches nothing else; a thermal mark lies
  on its cell with its label beside it, and the thermal stream can be joined where it
  was asked to be, through failures of its encoder.

### Bounds, and why they are enough

Capacities are 1 or 2, so every channel, ring and queue is full within the run and
three to five units fill slot, hand and async channel and leave some to lose, skip or
realign on. Two actors of a kind (subscribers, sessions, PLAYs, supervisors, exit tasks,
login or model requests, SSE clients, handlers, engines, closures) are the least that
interfere; three connections share the media clock, since a handover of a handover must
hold. Three segments of size 1 or 3 against a cap of two: one fits, two do not, and one alone
may exceed it; with any ages this gives sweeps with appends before, in and after each. One
restart separates files from memory; for sessions one restart, one failing write and five
ticks, two to the second, of a five-tick lifetime reach every order of expiry, failed
write and restart, with expiries that the file rounds; two deaths
park the I2C sensor anywhere in a transfer. Sequence numbers have 8 values and start at
6, timestamps 9, so both wrap within three units. Encoder: four encodes over two buffers
a side. Pictures have a few pixels, but of every parity and both orientations that the
code distinguishes, for the detectors with odd sides and one cut short; box corners have
two places to a pixel of the finest level, so that halves round; the thermal picture has real sizes, because its geometry rounds.
In the browser two rebuilds of one engine may wait (`MaxRebuilds`) and one call of
`startLive` for the configuration (`MaxWaiting`), which is enough for them to cross.
`Remount = FALSE`: a sensor keeps its address in the passing run; with `TRUE` an address
is taken over by another sensor of the same kind, whose calibration the code does not
read again (see below). Every disjunct of every next-state relation is taken.

`CHECK_DEADLOCK FALSE`: each machine stops when its bounds are used up, or when its
process, connection or thread has ended.

### Fairness, and why the code justifies it

Weak fairness is assumed of running threads and polled tasks only, never of a client, a
platform, a network or an operator:

* AuHub: the pump inside `write` waits for nothing.
* CameraSource: the camera thread, the session's device, the pump, the substream loop.
* M2mEncoder: the poller, and the join that waits for it.
* MseStream: the bridge thread, and hyper polling a ready stream. Recorder: bridge
  thread, writer task, and the pump leaving `write`. RtspSession: each bridge thread.
* AiModels: an inference that began ends (`spawn_blocking` runs to its end), a request
  in progress is polled. Alarms: batches are evaluated, time passes.
* GracefulExit: timers fire; nothing of supervisors.
* Thermal: the poll thread and a scan in progress; *strong* fairness of a sweep that
  starts, since poll and sweep take turns at one mutex. I2cBus: the master clocks on.

### Findings of the runs

* **MCStoreLost** (`recording/retention.rs:86`): a line appended to the index between
  a sweep's load and its rewrite is lost; the segment is never listed or deleted again.
* **MCExitReregister** (`main.rs:763`): after its ack the supervisor loops and
  registers again while the exit waits for the other supervisor.
* **MCRtspLeak** (`streaming/rtsp.rs:1438`): nothing in `rtsp.rs` unsubscribes, each
  PLAY leaves a slot in the hub for ever, against the comment at 1444.
* **MCRtspDigest** (`rtsp.rs:1137`): a digest is checked against the nonce "", so the
  correct answer to a challenge is challenged again.
* **MCRtspTimestamps** (`rtsp.rs:1591`): after 13 h the timestamp goes back in a burst
  and then stays where it is.
* **MCSavedLoads** (`web/api.rs:341`): the recording switch saves a configuration the
  next start refuses.
* **MCDetectClass** (`ai/yolox.rs:210`): class 1 is skipped and never wins.

### Other disagreements met while modelling

The models contain these behaviours, or exclude them by a named choice. They have no run.

Media path

* `h264/hub.rs:51` says drops are "due to full channel buffers"; a slot whose Receiver
  was dropped without unsubscribe counts every unit as dropped.
* `web/video_stream.rs:81` says that after a loss "only a key frame passes until one
  realigns": see `HoleOnlyBehindOvertakenKey`. `video_stream.rs:181` "Unsubscribe when
  the response stream is dropped": the guard is created at the first poll, so a body
  dropped before leaks slot and thread. `video_stream.rs:59` "gapless": a frame is
  stamped after its interval was added and carries that interval as duration.
* `recording/writer.rs:220` "resumes writing at a fresh segment boundary": the open
  segment goes on, at a P-frame if that comes first. `writer.rs:298`: error returns skip
  the unsubscribe.
* `retention.rs:4`: a segment that is open when the process ends is never indexed,
  counted or deleted. `retention.rs:5` "updated after each deletion": the index is
  rewritten once at the end, so an exit in between leaves lines of deleted files; the next
  sweep counts what they name as in use and deletes that much more than it must.
  `max_storage_mb` and `retention_days` have no lower bound: 0 deletes every segment as
  soon as it is closed.
* `rtsp.rs:376` waits for a key frame once per connection; a second PLAY may begin with a
  P-frame. A key frame lost to a timeout does not set `pframe_dropped`, so the P-frames
  that refer to it are sent. `rtsp.rs:433` "NO GAPS": over TCP the number goes back after
  a unit of several packets, and a skipped P-frame leaves a gap. `rtsp.rs:401`: a timed-out
  `write_all` may leave part of the buffer in the stream, and the next unit follows it.
* The software encoder ends on an error that the hardware loop survives; an IDR asked for
  while the encoder is re-created is answered by the re-creation.
* `watermark.rs` aligns glyphs by `ascent + ymin` although fontdue's ymin is the bottom
  edge measured upwards; odd picture sizes bleed chroma into the next row or plane.
* `yuv420_to_rgb` (`web/api.rs`) misreads odd sizes, which rotation 0 lets through.

Web, configuration, models

* Handlers clone the configuration, await the file and store the clone: two of them lose
  one's field. A login checked before a factory reset gets its session after it.
  `web/auth.rs:73` "logout and password reset still clear the file": the error of the write
  is dropped (`auth.rs:210`), so after a failed one the ended session is back with the next
  restart, unless another login or logout wrote the file before.
  `web/auth.rs:42` "doubling": the failure count is forgotten when a lock expires.
* `Config::validate` accepts what the camera refuses (fps over 120, width over 7680, bit
  rate over 200 M, an empty encoder device with a software source), and a fallback to the
  defaults drops the MIBEE_EYE_ variables. The thermal `local_sip_port` "must differ" is
  not checked. `web.enabled = false` ends the whole service.
* Capability `ai_upload` is false without the module while the models list offers the
  upload; `mse` is advertised without a camera.
* SetVideoEncoderConfiguration "applies new encoder parameters on restart"
  (`onvif_glue.rs:335`) but nothing applies them. Proxied ONVIF requests come from
  loopback and all go to device_service; a body with a blank line is cut there.
* `web/observe.rs`: a failed /proc reading counts as zero, so the next pass shows every
  byte since boot; a clock set back makes an interval of 1 ms; a request is listed when
  it completes, a client that drops leaves no trace.
* `main.rs:697` "the server never came up": it did, `retry_start` returns only then.
  `main.rs:1046`: on SIGINT the web server returns too and main ends without the handshake.

Detection, alarms, sensors

* `yolox.rs:262` rounds corner and extent each on its own and clamps neither: a box clipped
  at the frame's edge may end one pixel outside. `Config::validate` lets odd sides through
  at rotation 0: the length check of a frame (`preprocess.rs`, `yolox.rs`) then misses half
  a row or column, chroma is read from the next row or plane, and where the index leaves
  the frame the inference task panics and nobody starts it again.
* A YOLOX box in the letterbox's padding has no extent and lies outside the frame; while
  guardrails skip, detections of the last run stand; `interval_frames` counts turns.
* `motion/detector.rs:35`: the box excludes the last row and column; a change during the
  cooldown is lost.
* A sensor swapped for another of its kind, or a bus found by `auto`, keeps the old
  calibration; bus recovery stops at the first clock that finds SDA high, which
  may be a data bit; a temperature that only stays in the hysteresis band counts towards
  the time an alarm has to be sustained.
* `[gb28181_thermal]` sizes are not validated: an odd one panics the encoder thread while
  the channel goes on registering, a zero one re-creates the encoder for ever; marks
  drift when the picture is no multiple of 32 x 24; the brackets' outline is drawn on
  the pixels of the core, and arms go outward (`render.rs:344` says inward).

Browser

* `live.js`: a refetch timer that is pending during a reconnect starts a second fetch
  whose controller is overwritten in `abort`; its chunks reconnect again and again.
  `onGiveUp` replaces the engine without stopping it; two starts awaiting
  `/api/config` both create an engine.

## 4. Proofs

TLAPS proves, for every value of the constants (any set of subscribers, any capacities,
any number of units, sessions, segments, requests, engines, failing writes, any sizes of
segments and pictures (even ones for the geometry), any caps, tables of controls, fonts,
grids, documents and outputs of the network), every invariant and action property
and the refinement that the passing runs check. What is left to TLC is liveness.

| Module | Theorem | Statement |
|---|---|---|
| AuHubProofs | `TypeCorrect` | `Spec => []TypeOK` |
| | `OwnershipHolds` | `Spec => []SlotOwnership` |
| | `NothingVanishes` | `Spec => []Accounted` |
| | `DeliveredInOrder` | `Spec => []InOrder` |
| | `QuietHolds` | `Spec => QuietAfterUnsubscribe` |
| | `DropsCounted` | `Spec => []DropsAddUp` |
| | `SlotRefined` | `Spec => ImplementsSlot`: the hub implements HubSlot for each subscriber |
| MseProofs | `HandoffHolds` (by `ClockInvariance`) | `ClockSpec => []Handoff` |
| | `HoleAlwaysPaid` | `MseSpec => []HoleOnlyBehindOvertakenKey` |
| | `UnitsAlwaysArriveWhole` | `NalSpec => []UnitsArriveWhole` |
| RecordingProofs | `RecordingsWholeAlways` | `RecSpec => []RecordingsWhole` |
| | `RecorderTypeCorrect` | `RecSpec => []RecTypeOK` |
| | `DirectoryAlwaysSound` | `StoreSpec => []DirectorySound` |
| CameraProofs | `UprightFramesAlways` | `GeoSpec => []UprightFrames` |
| | `FramesPairedAlways` | `M2mSpec => []FramesPaired` |
| | `MediaAlwaysTyped`, `MediaAlwaysSound` | MCMedia: `MCTypeOK`, and all seven invariants of the run |
| RtspProofs | `SessionTypeCorrect` | `Spec => []TypeOK` |
| | `WireInOrderAlways` | `Spec => []WireInOrder` |
| | `NoPAfterLostPAlways` | `Spec => []NoPAfterLostP` |
| | `SeqContiguousAlways` | `Spec => []SeqContiguousExtent` |
| | `AnswersPairAlways` | `FrontSpec => []AnswersPair` |
| | `UnitsReassembleAlways` | `WireSpec => []UnitsReassemble` |
| | `ConnectionAlwaysTyped`, `ConnectionAlwaysSound` | MCRtsp: `MCTypeOK`, and all five invariants of the run |
| ControlProofs | `SignedInStaysAlways` | `SessSpec => []SignedInStays` |
| | `NotCutShortAlways` | `ExitSpec => []NotCutShort` |
| | `BrowserSeesAllAlways` | `FanoutSpec => []BrowserSeesAll` |
| | `SavedIsRunningAlways` | `ConfSpec => []SavedIsRunning` |
| | `ListedLoadsAlways` | `AiSpec => []ListedLoads` |
| | `CalibrationAlwaysFits` | `ThermalSpec => [](CalibrationFits /\ PassLocked)` |
| | `SensorsAlwaysTrusted` | `MCSpec => []SensorsTrusted`, for any byte width and memory of the sensor |
| | `MachinesAlwaysTyped`, `ControlAlwaysSound` | MCControl: `MCTypeOK`, and all six invariants of the run |
| DeviceProofs | `JoinableAlways` | `PictureSpec => []JoinableWhereAsked` |
| | `PlayerAlwaysSound` | `PlayerSpec => []PlayerSound` |
| | `StartupAlwaysSound` | `StartSpec => []StartupSound` |
| | `OnvifAlwaysSound` | `OnvifSpec => []OnvifSound` |
| | `ConfigAlwaysSound` | `SchemaSpec => []ConfigSound` |
| | `RatesAlwaysTell` | `SamplerSpec => []RatesTellTheMachine` |
| | `RecentPastAnswered` | `ObserveSpec => []ObservedSound` |
| | `MotionAlwaysSound` | `MotionSpec => []MotionSound` |
| | `ParamsAlwaysReadBack` | `ParamSpec => []ParamsReadBack` |
| | `WatermarkAlwaysSound` | `MarkSpec => []WatermarkSound` |
| | `ThermalAlwaysSound` | `PictureSpec => []ThermalPictureSound` |
| | `DeviceAlwaysTyped`, `DeviceAlwaysSound` | MCDevice: `MCTypeOK`; start, configuration, ONVIF and player |
| | `ObservationsAlwaysSound`, `PicturesAlwaysSound`, `DetectionsAlwaysSound` | MCDevice: the other three invariants of the run |

Each theorem has the same frame: an invariant with `Init => Inv`, a step lemma
`Inv /\ [Next]_vars => Inv'` with one step per action, and `Inv => property`. What the
invariants add to the properties is where the arguments are.

**Hub.** `IInv` adds to the type invariant and `SlotOwnership`: ids given out lie below
`nextId` and are pairwise distinct (`IdsFresh`), which is why an `Insert` never
overwrites although it comes after any number of other ones; the state of the pass in
progress is consistent (`PassState`); a subscriber that is not live yet has an empty
channel. `Accounted` then needs each of a pass's steps to move one unit between two terms
of a sum; `InOrder` needs that everything in a channel is older than the unit about to be
sent. The refinement is shown step by step: the steps of the observed subscriber map to
steps of the slot, all others to stutters. `DropsAddUp` is about a sum over the
subscribers; `DropCount` takes the largest of them off at a time, so that one more drop of
one subscriber is one more in the sum (`FoldExists` below).

**Geometry.** `UprightFrames` speaks of finished pictures, `GeoInv` of each stage on the
way. A sample is found again from its place in a buffer because a place determines row
and column (`RowAndColumn`, `PlaneFacts`, `PlaceFound`). The flips work in place, a pair
of rows at a time: `FlipPlace` says where they are, `FlipProgress` that the lines they
have dealt with show the mirrored picture and the others still the turned one. Chroma is
where its luma is because halving commutes with turning and mirroring when the sides are
even (`HalfFromTheEnd`, `ShownHalves`), which is what the even sizes of `GeoAssumption`
are for; scaling picks one place for both planes and padding moves rows only.

**Encoder session.** The buffers of a side are parted between the queues and the hand
that hold them. The pairing of frame and user data is by position, so the invariant needs
the whole line: the user data is the frame the poller has off the device, then those of
the filled buffers, then those the device has not read, in that order. Each step takes
from the front of that line, puts at its end, or moves the boundary between two parts.

**MSE.** `Handoff` says nothing of what lies below the floor a connection is seeded from:
`FloorCovers` (nobody emits past the floor) and `SeededPast` close it. For
`HoleOnlyBehindOvertakenKey` the reason is in what is still to come: a unit is lost only
while two others wait, so the bridge will skip one of them, and until a key frame has
gone out behind the loss something in its state still asks for one (`Owing`: the gate, a
skip not yet looked at, or the full queue itself). `NothingSkipped` says that the gate
knows of everything passed over. The drop counter plays no part in the argument.

**Bytes.** For `UnitsArriveWhole`, `off` says where each frame of the stream lies, and with
k start codes found the scan stands between the end of the k-th and the place where the
next one shows (`Between`). No start code can be seen inside a unit, which is what
emulation prevention is for (`NalAssumption`), and a unit never ends in a zero, so a zero
before a pattern of three bytes belongs to a code of four. What the muxer lays down behind
its lengths is read back one unit per length (`Reads`).

**Recorder.** The units between hub and writer are a line in the order written (`RecLine`)
that lies past everything recorded or passed over (`LineAhead`), every unit is in exactly
one place (`AllAccounted`), and the last unit of the open segment is the newest recorded
(`NewestLast`), so whatever lies between it and the next of the line was lost at the hub
or fell into a pause.

**Recording directory.** A sweep works on a list it read long before. `SweepKnows` says
what that list still tells of index and files after any number of appends, as long as
nothing failed; `FootprintExact` that what the counter is off by is the step that is
still to come, and what a saturated subtraction left; `KeepsCap` that what a sweep means
to keep fits, `HadToGo` that what it gave up before its time did not. `InOrderOfTime`
and `OldGone` (what was deleted is older than what stays) give the oldest first. Sizes
are any numbers, so the sums are over sets: `AddsUp` splits one into a segment and the
rest.

**RTSP connection.** `WireInOrder` speaks of what was taken; what keeps it is what waits.
`Line(pl, lo, n)`: the channel, the hand and the queue of a play are a line of units in
the order written, all after `lo` and up to `n`. The invariant `WireInv` says that every
play is a line up to the last unit written, and the play whose Receiver is held one that
begins after *everything* taken before (`HeldNext`). A new PLAY meets that with an empty
queue, a publish appends the latest unit, bridge steps move a unit along its line, and a
delivery takes the head. The key-frame rules need `KeyTried` and `LossKnown`: the two
flags remember what the wire has seen, through requests that replace sessions and plays
but never the flags. `SeqContiguousExtent` needs that the number a session will use next
is the one after its last packet on the wire (`NextNumber`), modulo the sequence space.

**RTSP requests.** What is unread is the end of the row of all pieces sent (`WireRow`), so
a buffer that holds half a message cannot hide a whole one behind it; only requests
read in full are answered, in the order read (`AnsweredRead`).

**RTP packets.** A receiver that has taken the first k fragments of a unit holds its bytes
up to the k-th cut, the end flag is on the last fragment and on no other, the marker on the
last packet, and a session remembers the timestamp it sent last (`UnitsInv`). The receiver
is a fold over the packets; that it has these values at every k is shown along the run of
that fold.

**Sessions.** Store and file are kept apart. `InMemory` says of a token what its last change
left in the store, `InFile` what a write made of that: an expiry is rounded down once as a
moment and once as a duration, so it loses less than two seconds, and reading it back adds
less than one (`Written`, `ReadBack`; an entry is over exactly when its moment is past,
`OverOrNot`). `PersistKeeps` is the step both outcomes of a write share: afterwards the file
holds the store, or the tokens just changed are stale, of which `InFile` says less. A
restart makes what was in the file the store and the stale tokens undone.
The lock after failed logins plays no part. For the type invariant it does:
the shift that lengthens the lock is bounded, because behind a lock nobody is let in and
only logins already checked can still fail (`LockOK`).

**Configuration.** `OneAtATime`: as long as no two requests overlapped and no write
failed, at most one is under way, the document it carries was cloned from what runs, and
the file agrees with memory except between its write and its store, where the file holds
the very document about to be stored.

**Models.** For an id without overlapping requests at most one request is about it
(`Alone`), and how far it got says what is in the temporary file and in the file
(`Progress`); entry, manifest and file of an id agree at every step and so at every
crash (`EntrySound`). Nothing is assumed of ids whose requests did overlap.

**Events, exit, sensor.** A browser's channel and response together are the broadcasts
since it asked (`StreamsOK`, `Listens`). An ack is the last thing a supervisor does before
it leaves the exit alone (`AckIsLast`), and a task passes a supervisor only with its ack
or having given up on it (`AwaitedPassed`). Poll and sweep hold the bus mutex whenever
they touch the pins (`PassLocked`), and what a pass holds, its calibration included, belongs
to the target it was last aimed at (`AimedAt`), where sensors keep their addresses.

**Sensor bus.** `ReadsRight`: each step of a transfer is a script of line levels. When the
script has run out, the lines and the sensor are where the step means them to be (`Meant`,
by running the script from the state it began in), whatever the sensor did between two
clocks and wherever an earlier process died; the byte shifted in is then the sum of its
bits, with `Power` for the shifts.

**Thermal encoder.** A request that was taken is known to the encoder while the thread
holds a working one (`RequestKnown`: a fresh encoder owes a key frame anyway), an encoder
in the middle of a period is the one the last unit came from, and one that is being
replaced has failed (`FailedIsUnsound`).

**Drawings.** A thermal mark lies on its cell and its label beside it because a cell's sides
are the only quotients that occur, and the picture has room for a label in each direction
(`Roomy`; `GridW`, `GridH` are the sensor's). The watermark's mask is always the one of its
line and a picture the blit of the mask of its moment (`MarkInv`); what is left is geometry
of rectangles, and a glyph's place is the sum of the advances before it. A parameter misses
by half a step of its control at most and never leaves its range (`SetNear`); a range of
one value divides by two halves instead of nothing and still writes back what it read. For motion:
the frame kept is the last one compared, and no event is later than the detector's last.

**Detections.** A turn's result is what its inputs are decoded to (`DetInv`), so the
rest is about the operators. A cell of a level has one point because the offsets of the
levels rise by the cells between them (`OffsetsRise`) and a place in a square determines
row and column (`CellIs`). Scaled indices stay in their planes because a part of n lies
in its whole (`PartInside`), which a halved side needs to be even for; a reading behind
the end of a frame that is long enough therefore means an odd side (`OverrunIsOdd`). A
corner and an extent rounded apart end at most half a pixel each beyond where they were
(`RoundedNear`), so the far side of a box that is not empty is at most one pixel outside
of the frame (`RoundedEnds`); all of NanoDet's are whole pixels and inside. Putting a
candidate behind all that are as sure keeps the order (`RankedFalls`). After i
candidates of the suppression, what is kept falls in confidence, nothing kept suppresses
anything behind it, and each of the i is kept or suppressed by one as sure (`KeptOf`).

**Observation.** The ring is the end of all that was pushed (`EndOf`), and who is in flight
has an identity of its own (`IdsApart`). `Keeping` keeps every wanted line and nothing else
(`KeepingCounts`). The reading that rates are computed from is the one of the pass before,
whole or not.

**ONVIF and configuration.** The shared map is the one the registrations built, whoever
asked what before, and the filter is the configured one until a listed peer changes it
(`OnvifInv`). A document is followed from defaults to start: at each place of `bootAt` the
invariant says what has been filled, checked and heard so far (`SchemaInv`).

**Live view.** Each engine satisfies `Engine`: what its flags say of pending timers, open
fetches and closures (`Base`), and that something is pending until it gives up (`Tries`).
Each function of `startMse` is shown to keep it on a record, before the actions put the
record into the page; `PageOK` says which engine the page can reach. `mixed` and
`crossed` are the exact exceptions, and are only ever set.

**Start.** What a section of `main` leaves behind (`CameraLeaves`, `DetectorLeaves`,
`ThermalLeaves`, `GbLeaves`) holds from that section on, whatever starts or fails later.

**Side by side.** A step of an MC module's run is a step of one machine and a stutter of all
others (`OneMoves`, `MachinesMove`), so the conjunction of the machines' invariants is one
of the run (`MediaInv`, `ConnectionInv`, `ControlInv`, `DeviceInv`); the joint types and the
joint properties follow from it. No machine's argument uses another's state.

**Induction.** The library's induction theorems cannot be instantiated here, so everything
that needs one goes by a smallest counterexample: `Least` and `Smallest` (of naturals, of
subsets of a finite set), `UpTo` (a property of 0 that passes from i - 1 to i). Folds of the
community modules are recursive functions on subsets; `FoldExists` shows that there is such
a function, and each use of a fold is then a run along the sequence (`KeepingRuns`,
`FlattenRuns`, `NmsRuns`, ...). `SelectSeq` and `SortSeq` are opaque to the provers;
where a theorem needs one the model has a fold instead (`Keeping`, `Ranked`).

Assumptions: those the modules name, which TLC evaluates on the runs. Most say that a
bound is a natural number, that a capacity is not zero or that a set is finite. The others:

* media: `GeoAssumption` (sides are even, as the code rounds them), `M2mAssumption`
  (finitely many buffers), `CamAssumption` (which encoders and nodes there are to choose
  from), `NalAssumption` (a unit is not empty, does not end in a zero and has no start code
  inside: what H.264 guarantees), `UnitsAssumption` (a unit has at least one packet),
  `WireAssumption` (the MTU holds more than the fragment header);
* control: `SupsAssumption` (there is a supervisor), `ThermalAssumption` (address 0 is
  nobody's), `AiAssumption` (uploads use no built-in id, which the handler refuses),
  `ConfAssumption` (the environment gives values of the right kind), `SessAssumption` (a
  second has at least one tick),
  `AlarmAssumption`, `I2cAssumption` (a byte has at least one bit and the sensor's
  address fits the bus);
* device: `SerialsAssumption` (no serial number is one of the placeholders),
  `RestsAssumption` (a board may have none), `HostsAssumption` (the allow-list is made of
  entries that `Config::validate` accepts), `SamplerAssumption` (between two passes a
  counter goes on by less than it takes to wrap) and `ObserveCaps`, `MotionAssumption`,
  `ParamAssumption` (a default lies in its range), `DetectionAssumption` (a frame's sides
  are positive, a row of an output names a point of the grid), `MarkAssumption` (advances and heights are naturals, the text
  is made of glyphs the font has, no frame has a single row), `GridsAssumption` and `PeriodAssumption` (hottest and
  coldest cell are cells of the grid, a reading has at most seven letters).

`SizesAssumption`: a segment that was closed is not empty, since it is opened with a key
unit in hand. The span of a control fits an i32 for the code's six tables; the widths of
detector coordinates and the rounding of f32 are not modelled, and no score is a NaN.
The media clock is a natural number; its wrap at 2^64 ticks is out of any run time.

Only model-checked: liveness (`WriteReturns`, `FairMedia`, `FairControl`,
`FairOrphanThreadEnds`), since fairness and ENABLED are out of the prover's reach. Of the
statements that runs refute there is nothing to prove.

## 5. Plan

Theorems: every safety property of the runs is proved. Worth adding are those of new
models, first of all that a composition below implements the two it is made of.

Models still worth composing: two connections that play one RTSP session; the recorder
with its directory, so that a rename or a full disk meets a roll; LivePlayer with
MseStream, so that a refetch meets a bridge that has not ended.

## 6. Not modelled

* **RTMP** (`streaming/rtmp.rs`): configuration and an error value; it pushes nothing.
* **NTP wait**: a bounded poll that delays the recorder's start only.
* **Network storage** (`storage/`): implementations of a trait that nothing on the
  recording path calls; requests without shared state.
* **Pipeline traits and errors**: interfaces and values.
* **Vendored V4L2 crate**: its decoder and converter are not used by this program; its
  ioctl wrappers (`sys.rs`) are the device, which may refuse any call.
* **GB28181 glue** for snapshot, date and position: each forwards one call to the external
  crate and keeps nothing. GB35114's authenticators are in Startup.
* **Web**: routing, embedded pages, the text of the metrics, cookies and the CSRF
  comparison (the gate only reads), status handlers; the pages' scripts except `live.js`,
  which show what the API answers.
* **Bytes and text**: SDP, digest and bcrypt, TOML and JSON syntax, the initialisation
  segment's constant boxes, colours, the bitmap of a snapshot.
* **Floating point**: the thermal calibration of `mlx90640.rs` and `ee.rs`, neural
  networks. Where rounding decides (parameters, boxes, labels) integers are used.
* **Wall-clock time**, except as ticks and free choices; so also segment names, which have
  a resolution of a second and may collide after a clock step (`recording/writer.rs:54`).
  Segments end in the order they begin, so what is past its age is a prefix of the index;
  the clock of the sessions' file agrees with the monotonic one.
* **Torn index lines**: an append that a crash cuts is a line that is there or not.
* **External crates**: V4L2, GB28181, ONVIF, tokio, the font library and the thermal
  encoder, of which only what the code here uses is assumed.
