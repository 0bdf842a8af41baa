--------------------------- MODULE MotionDetector ---------------------------
(***************************************************************************)
(* The frame-differencing detector (src/src/motion/detector.rs): a picture *)
(* is sampled down to a small grid and compared with the one before, and a *)
(* change that is large enough and not too soon becomes an event.  Nothing *)
(* in the program calls it yet; its calls are made in any order.           *)
(***************************************************************************)
EXTENDS Integers, Sequences, FiniteSets, FiniteSetsExt

CONSTANTS
  DetectWidth, DetectHeight,     \* the grid (320 x 240 in the code)
  Pictures,       \* [width, height, y]: the luma of a picture, row by row
  MinArea,        \* changed pixels that make an event, not zero
  EventGap,       \* cooldown_ms
  MaxMotionTime   \* bound: the clock

ASSUME MotionAssumption ==
  /\ {DetectWidth, DetectHeight} \subseteq Nat \ {0}
  /\ \A pic \in Pictures : {pic.width, pic.height} \subseteq Nat /\ pic.y \in Seq(0 .. 255)
  /\ {MinArea, EventGap, MaxMotionTime} \subseteq Nat

Pixels == 0 .. DetectWidth * DetectHeight - 1
Missing == <<>>      \* None

VARIABLES
  motion,      \* the detector: sensitivity (in quarters), lastEvent, prevFrame
  motionTime,
  event,       \* what the last call returned
  seen,        \* the frames since the reset that were compared (history)
  raised       \* the times of the events since the reset (history)

motionVars == <<motion, motionTime, event, seen, raised>>

(* Type invariant.                                                         *)
MotionTypeOK ==
  /\ motion.sensitivity \in 0 .. 4 /\ motion.lastEvent \in -1 .. MaxMotionTime
  /\ motion.prevFrame # Missing => DOMAIN motion.prevFrame = Pixels
  /\ motionTime \in 0 .. MaxMotionTime /\ Len(seen) <= 2

MotionInit ==
  /\ motion \in [sensitivity : {0, 3, 4}, lastEvent : {-1}, prevFrame : {Missing}]
  /\ motionTime = 0 /\ event = Missing /\ seen = <<>> /\ raised = {}

\* downscale_y_plane: every step-th pixel of every step-th row; a picture
\* smaller than the grid is copied as it lies in memory, over black.
DownscaleYPlane(pic) ==
  LET stepX == pic.width \div DetectWidth
      stepY == pic.height \div DetectHeight
      from(i) == IF stepX = 0 \/ stepY = 0 THEN i
                 ELSE (i \div DetectWidth) * stepY * pic.width
                        + (i % DetectWidth) * stepX
  IN [i \in Pixels |->
        IF from(i) < pic.width * pic.height THEN pic.y[from(i) + 1] ELSE 0]

\* abs_diff against the threshold the sensitivity leaves
Changed(prev, cur) ==
  LET threshold == ((4 - motion.sensitivity) * 255) \div 4 IN
    {i \in Pixels : Max({prev[i], cur[i]}) - Min({prev[i], cur[i]}) > threshold}

\* The extent is the distance between the outermost pixels, 1 if there is none.
Bbox(changed) ==
  LET xs == {i % DetectWidth : i \in changed}
      ys == {i \div DetectWidth : i \in changed}
      span(s) == Max({1, Max(s) - Min(s)})
  IN [x |-> Min(xs), y |-> Min(ys), w |-> span(xs), h |-> span(ys)]

\* Mutant: a frame too little changed for an event is not the next one's
\* previous frame.
Stored_WhenLarge(cur, changed) ==
  IF Cardinality(changed) < MinArea THEN motion.prevFrame ELSE cur

\* What the next frame is compared with, whatever becomes of this one.
Stored(cur, changed) == cur

\* Mutant: the distance is measured from the first event.
Cooled_Late == IF raised = {} THEN TRUE ELSE motionTime - Min(raised) >= EventGap

Cooled == motion.lastEvent = -1 \/ motionTime - motion.lastEvent >= EventGap

\* process_frame: the guards, the first frame, the comparison, the gates.
ProcessFrame ==
  /\ \E pic \in Pictures :
       IF pic.width * pic.height = 0 \/ Len(pic.y) < pic.width * pic.height
       THEN event' = Missing /\ UNCHANGED <<motion, seen, raised>>
       ELSE LET cur     == DownscaleYPlane(pic)
                changed == Changed(motion.prevFrame, cur)
            IN
         /\ seen' = (IF seen = <<>> THEN <<>> ELSE <<seen[Len(seen)]>>) \o <<cur>>
         /\ \/ /\ motion.prevFrame = Missing
               /\ motion' = [motion EXCEPT !.prevFrame = cur]
               /\ event' = Missing /\ UNCHANGED raised
            \/ /\ motion.prevFrame # Missing
               /\ Cardinality(changed) >= MinArea /\ Cooled
               /\ motion' = [motion EXCEPT !.prevFrame = Stored(cur, changed),
                                           !.lastEvent = motionTime]
               /\ event' = <<Bbox(changed), Cardinality(changed)>>
               /\ raised' = raised \cup {motionTime}
            \/ /\ motion.prevFrame # Missing
               /\ Cardinality(changed) < MinArea \/ ~Cooled
               /\ motion' = [motion EXCEPT !.prevFrame = Stored(cur, changed)]
               /\ event' = Missing /\ UNCHANGED raised
  /\ UNCHANGED motionTime

\* set_sensitivity clamps; reset forgets the frame and the last event.
SetSensitivity ==
  /\ \E s \in {0, 3, 4} : motion' = [motion EXCEPT !.sensitivity = s]
  /\ event' = Missing /\ UNCHANGED <<motionTime, seen, raised>>

ResetMotion ==
  /\ motion' = [motion EXCEPT !.prevFrame = Missing, !.lastEvent = -1]
  /\ event' = Missing /\ seen' = <<>> /\ raised' = {} /\ UNCHANGED motionTime

MotionTimePasses ==
  /\ motionTime < MaxMotionTime /\ motionTime' = motionTime + 1
  /\ event' = Missing /\ UNCHANGED <<motion, seen, raised>>

MotionNext == ProcessFrame \/ SetSensitivity \/ ResetMotion \/ MotionTimePasses

MotionSpec == MotionInit /\ [][MotionNext]_motionVars

-----------------------------------------------------------------------------
(* An event tells of two frames that followed each other, however many     *)
(* frames the gates held back before: at least MinArea pixels differ       *)
(* between just these, and noise that adds up over several frames raises   *)
(* nothing.  Between two events lies the cooldown, whichever changes were  *)
(* refused in between.                                                     *)
MotionSound ==
  /\ event # Missing =>
       /\ Len(seen) = 2
       /\ Cardinality({i \in Pixels : seen[1][i] # seen[2][i]}) >= MinArea
       /\ Cardinality(Changed(seen[1], seen[2])) = event[2]
  /\ \A s, t \in raised : s < t => t - s >= EventGap
=============================================================================
