----------------------------- MODULE M2mEncoder -----------------------------
(***************************************************************************)
(* The hardware encoder session of the vendored v4l2 crate                 *)
(* (.cargo/patches/shiguredo_v4l2/src/encoder.rs, poller.rs, queue.rs,     *)
(* buffer.rs) as the camera thread uses it: MMAP buffers on both sides, a  *)
(* poller thread that takes finished buffers off the device, and user data *)
(* queued beside the frames and paired with them by position.              *)
(*                                                                         *)
(* Frames are numbered in the order encode is called; a frame's number     *)
(* also stands for its user data.                                          *)
(***************************************************************************)
EXTENDS Naturals, Sequences, SequencesExt, FiniteSets

CONSTANTS
  OutBuf,       \* OUTPUT buffers (raw frames in)
  CapBuf,       \* CAPTURE buffers (bitstream out)
  MaxEncodes,   \* bound: calls of encode
  IoctlsFail    \* whether an ioctl may fail

ASSUME M2mAssumption ==
  /\ IsFiniteSet(OutBuf) /\ IsFiniteSet(CapBuf)
  /\ MaxEncodes \in Nat /\ IoctlsFail \in BOOLEAN

VARIABLES
  outFree,      \* OutputQueue.available
  outQueued,    \* at the device, with the frame each buffer carries
  outSpent,     \* read by the device, to be dequeued
  capEmpty,     \* at the device, to be filled
  capFull,      \* filled: [buf, frame, fits]
  userData,     \* EncoderRuntime.pending_values
  streaming,    \* EncoderRuntime.started
  poller,       \* [at, buf, frame, user, fits]: where the poller thread is
  abort,        \* Poller.abort
  encoder,      \* "live" | "joining" | "dropped": the H264Encoder
  encodes,      \* calls of encode so far
  produced,     \* what the handler was given, [frame, user] (history)
  capLost       \* CAPTURE buffers whose requeue failed (history)

outVars == <<outFree, outQueued, outSpent>>
capVars == <<capEmpty, capFull>>
m2mVars == <<outVars, capVars, userData, streaming, poller, abort, encoder,
             encodes, produced, capLost>>

Idle(at) == [at |-> at, buf |-> "none", frame |-> 0, user |-> 0, fits |-> TRUE]

(* Type invariant: the poller runs only once the session streams.          *)
M2mTypeOK ==
  /\ ToSet(outFree) \cup ToSet(outSpent) \subseteq OutBuf
  /\ \A i \in DOMAIN outQueued : outQueued[i].buf \in OutBuf /\ outQueued[i].frame \in 1..encodes
  /\ ToSet(capEmpty) \cup capLost \subseteq CapBuf
  /\ \A i \in DOMAIN capFull : capFull[i].buf \in CapBuf /\ capFull[i].fits \in BOOLEAN
  /\ ToSet(userData) \subseteq 1..encodes
  /\ streaming \in BOOLEAN /\ abort \in BOOLEAN
  /\ encoder \in {"live", "joining", "dropped"}
  /\ poller.at \in {"off", "poll", "output", "capture", "handler", "gone"}
  /\ poller.at \notin {"off", "gone"} => streaming
  /\ encodes \in 0..MaxEncodes

\* H264Encoder::new: all CAPTURE buffers queued, nothing started
M2mInit ==
  /\ outFree = SetToSeq(OutBuf) /\ outQueued = <<>> /\ outSpent = <<>>
  /\ capEmpty = SetToSeq(CapBuf) /\ capFull = <<>>
  /\ userData = <<>> /\ streaming = FALSE
  /\ poller = Idle("off") /\ abort = FALSE /\ encoder = "live"
  /\ encodes = 0 /\ produced = <<>> /\ capLost = {}

Ioctl == IF IoctlsFail THEN BOOLEAN ELSE {TRUE}

-----------------------------------------------------------------------------
(* The caller of encode.                                                   *)

CanEncode ==
  /\ encoder = "live" /\ encodes < MaxEncodes /\ outFree # <<>>
  /\ encodes' = encodes + 1

\* Mutant: user data is queued before it is known that its frame is.
EncodeRefused_KeepsData ==
  /\ CanEncode /\ IoctlsFail
  /\ outFree' = Append(Tail(outFree), Head(outFree))
  /\ userData' = Append(userData, encodes')
  /\ UNCHANGED <<outQueued, outSpent, capVars, streaming, poller, abort,
                 encoder, produced, capLost>>

\* force_keyframe fails first; or the fill closure or QBUF does, and the
\* buffer goes back to the end
EncodeRefused ==
  /\ CanEncode /\ IoctlsFail
  /\ outFree' \in {outFree, Append(Tail(outFree), Head(outFree))}
  /\ UNCHANGED <<outQueued, outSpent, capVars, userData, streaming, poller, abort,
                 encoder, produced, capLost>>

\* Queued; the first time both queues are turned on and the poller started.
\* When that fails the frame stays queued and the next call tries again.
EncodeQueues ==
  /\ CanEncode
  /\ outFree' = Tail(outFree)
  /\ outQueued' = Append(outQueued, [buf |-> Head(outFree), frame |-> encodes'])
  /\ userData' = Append(userData, encodes')
  /\ \E ok \in Ioctl :
       /\ streaming' = (streaming \/ ok)
       /\ poller' = IF streaming' /\ poller.at = "off" THEN Idle("poll") ELSE poller
  /\ UNCHANGED <<outSpent, capVars, abort, encoder, produced, capLost>>

\* Drop: stop the poller, join it, turn the queues off
DropEncoder ==
  /\ encoder = "live" /\ encoder' = "joining" /\ abort' = TRUE
  /\ UNCHANGED <<outVars, capVars, userData, streaming, poller, encodes, produced, capLost>>

PollerJoined ==
  /\ encoder = "joining" /\ poller.at \in {"off", "gone"}
  /\ encoder' = "dropped" /\ streaming' = FALSE
  /\ UNCHANGED <<outVars, capVars, userData, poller, abort, encodes, produced, capLost>>

-----------------------------------------------------------------------------
(* The device (external): first in, first out, one bitstream buffer for    *)
(* each frame.                                                             *)

DeviceEncodes ==
  /\ streaming /\ outQueued # <<>> /\ capEmpty # <<>>
  /\ outSpent' = Append(outSpent, Head(outQueued).buf)
  /\ outQueued' = Tail(outQueued)
  /\ \E fits \in Ioctl :
       capFull' = Append(capFull, [buf |-> Head(capEmpty),
                                   frame |-> Head(outQueued).frame, fits |-> fits])
  /\ capEmpty' = Tail(capEmpty)
  /\ UNCHANGED <<outFree, userData, streaming, poller, abort, encoder, encodes,
                 produced, capLost>>

-----------------------------------------------------------------------------
(* Poller::poll_loop and H264Encoder::handle_event.                        *)

Polling == poller.at = "poll" /\ ~abort

\* process_output: DQBUF
PollOutput ==
  /\ Polling /\ outSpent # <<>>
  /\ poller' = [Idle("output") EXCEPT !.buf = Head(outSpent)]
  /\ outSpent' = Tail(outSpent)
  /\ UNCHANGED <<outFree, outQueued, capVars, userData, streaming, abort, encoder,
                 encodes, produced, capLost>>

\* OutputDequeued: return_buffer under the lock
ReturnOutput ==
  /\ poller.at = "output" /\ poller' = Idle("poll")
  /\ outFree' = Append(outFree, poller.buf)
  /\ UNCHANGED <<outQueued, outSpent, capVars, userData, streaming, abort, encoder,
                 encodes, produced, capLost>>

\* process_capture: DQBUF
PollCapture ==
  /\ Polling /\ capFull # <<>>
  /\ poller' = [at |-> "capture", buf |-> Head(capFull).buf, frame |-> Head(capFull).frame,
                user |-> 0, fits |-> Head(capFull).fits]
  /\ capFull' = Tail(capFull)
  /\ UNCHANGED <<outVars, capEmpty, userData, streaming, abort, encoder, encodes,
                 produced, capLost>>

\* The CAPTURE buffer goes back to the device, unless QBUF fails.
Requeue(buf) ==
  \E ok \in Ioctl :
    /\ capEmpty' = IF ok THEN Append(capEmpty, buf) ELSE capEmpty
    /\ capLost' = IF ok THEN capLost ELSE capLost \cup {buf}

\* handle_capture takes the oldest user data; a buffer there is none for, or
\* whose size is impossible, is reported as an error and requeued at once.
TakeUserData ==
  /\ poller.at = "capture"
  /\ userData' = IF userData = <<>> THEN userData ELSE Tail(userData)
  /\ IF userData # <<>> /\ poller.fits
     THEN /\ poller' = [poller EXCEPT !.at = "handler", !.user = Head(userData)]
          /\ UNCHANGED <<capEmpty, capLost>>
     ELSE poller' = Idle("poll") /\ Requeue(poller.buf)
  /\ UNCHANGED <<outVars, capFull, streaming, abort, encoder, encodes, produced>>

\* on_encoded copies the bytes; the EncodedFrame's Drop requeues its buffer
HandleFrame ==
  /\ poller.at = "handler" /\ poller' = Idle("poll")
  /\ produced' = Append(produced, [frame |-> poller.frame, user |-> poller.user])
  /\ Requeue(poller.buf)
  /\ UNCHANGED <<outVars, capFull, userData, streaming, abort, encoder, encodes>>

\* an error of poll or of DQBUF is reported and ends the thread
PollFails ==
  /\ Polling /\ IoctlsFail
  /\ poller' = Idle("gone")
  /\ UNCHANGED <<outVars, capVars, userData, streaming, abort, encoder, encodes,
                 produced, capLost>>

\* Mutant: the flag is looked at only after an event.
PollerAborts_OnEvent ==
  /\ poller.at = "poll" /\ abort /\ (outSpent # <<>> \/ capFull # <<>>)
  /\ poller' = Idle("gone")
  /\ UNCHANGED <<outVars, capVars, userData, streaming, abort, encoder, encodes,
                 produced, capLost>>

\* every 500 ms poll returns and the loop looks at abort
PollerAborts ==
  /\ poller.at = "poll" /\ abort /\ poller' = Idle("gone")
  /\ UNCHANGED <<outVars, capVars, userData, streaming, abort, encoder, encodes,
                 produced, capLost>>

PollerStep ==
  PollOutput \/ ReturnOutput \/ PollCapture \/ TakeUserData \/ HandleFrame \/ PollerAborts

M2mNext ==
  \/ EncodeRefused \/ EncodeQueues \/ DropEncoder \/ PollerJoined
  \/ DeviceEncodes
  \/ PollerStep \/ PollFails

\* The poller thread and the dropping thread run on; the device and the
\* caller promise nothing.
M2mFairness == WF_m2mVars(PollerStep) /\ WF_m2mVars(PollerJoined)

M2mSpec == M2mInit /\ [][M2mNext]_m2mVars /\ M2mFairness

-----------------------------------------------------------------------------
(* Properties                                                              *)

(* Every buffer is in one place: an OUTPUT buffer is free, at the device or*)
(* in the poller's hand and a CAPTURE buffer likewise or lost by a failed  *)
(* requeue, never in two places; and a frame comes out with the user data  *)
(* it went in with, in order, after any refused call, failed start,        *)
(* oversized result or lost buffer.                                        *)
FramesPaired ==
  LET outs == outFree \o [i \in DOMAIN outQueued |-> outQueued[i].buf] \o outSpent
      caps == capEmpty \o [i \in DOMAIN capFull |-> capFull[i].buf]
  IN /\ Len(outs) + (IF poller.at = "output" THEN 1 ELSE 0) = Cardinality(OutBuf)
     /\ Len(caps) + (IF poller.at \in {"capture", "handler"} THEN 1 ELSE 0)
          + Cardinality(capLost) = Cardinality(CapBuf)
     /\ IsInjective(outs) /\ IsInjective(caps)
     /\ \A i \in DOMAIN produced : produced[i].frame = produced[i].user
     /\ \A i, j \in DOMAIN produced : i < j => produced[i].frame < produced[j].frame

(* Dropping the encoder returns: the poller is out of the device before    *)
(* the queues are turned off and unmapped, whatever it was doing.          *)
EncoderDrops == encoder = "joining" ~> encoder = "dropped"
=============================================================================
