------------------------------ MODULE Detection ------------------------------
(***************************************************************************)
(* One inference: the guardrails of src/src/ai/guardrails.rs, the sampling *)
(* of the frame for the model's input (preprocess.rs, yolox.rs), and what  *)
(* the decoders make of the model's output (postprocess.rs, yolox.rs,      *)
(* ortv.rs): candidates from the points of a grid, the non-maximum         *)
(* suppression, and boxes in pixels of the frame.                          *)
(*                                                                         *)
(* The network is external: any output of the right length, with lengths   *)
(* in Fine parts of a pixel at the finest stride.  Lengths are exact until *)
(* the code rounds them; a confidence is a small integer.                  *)
(***************************************************************************)
EXTENDS Integers, Sequences, SequencesExt, FiniteSets, FiniteSetsExt

CONSTANTS
  Input,        \* side of the model's square input
  Fine,         \* parts of a pixel
  Frames,       \* <<width, height, bytes>> of the pictures the driver delivers
  Outputs       \* what the network may answer: sequences of rows

Classes == 0 .. 2
Families == {"NanoDet", "Yolox"}

VARIABLES
  metrics,      \* memory (MiB) and temperature, or -1 when unreadable
  frame, family, rows,
  inference     \* the loop's turn: what was decided and what came out

detectionVars == <<metrics, frame, family, rows, inference>>

(***************************************************************************)
(* Guardrails.  Memory first; a metric that cannot be read allows it.      *)
(***************************************************************************)
MaxMemoryMb == 2

CheckMemoryCap(m) == IF m > MaxMemoryMb THEN "skip" ELSE "continue"

CheckThermal(t) == IF t > 85 THEN "pause" ELSE IF t > 80 THEN "throttle"
                   ELSE "continue"

CheckGuardrails(m) ==
  IF CheckMemoryCap(m.memory) # "continue" THEN CheckMemoryCap(m.memory)
  ELSE CheckThermal(m.celsius)

(***************************************************************************)
(* Grids: the levels' cells, level by level and row by row within one.     *)
(* NanoDet rounds the size of a level up, YOLOX down.                      *)
(***************************************************************************)
Strides(f) == IF f = "NanoDet" THEN <<8, 16, 32, 64>> ELSE <<8, 16, 32>>

Size(f, level) == IF f = "NanoDet"
                    THEN (Input + Strides(f)[level] - 1) \div Strides(f)[level]
                    ELSE Input \div Strides(f)[level]

\* the points before a level: its offset
Offset(f, level) ==
  LET below[i \in 1 .. Len(Strides(f)) + 1] ==
        IF i = 1 THEN 0 ELSE below[i - 1] + Size(f, i - 1) * Size(f, i - 1)
  IN below[level]

NumPoints(f) == Offset(f, Len(Strides(f)) + 1)

\* as a search for the offset that stops at the one after it
Level_Before(f, p) == Max({1} \cup {i \in DOMAIN Strides(f) : Offset(f, i) < p})

Level(f, p) == Max({i \in DOMAIN Strides(f) : Offset(f, i) <= p})

Grid == [f \in Families |-> [p \in 0 .. NumPoints(f) - 1 |->
  LET level == Level(f, p)
      at    == p - Offset(f, level)
  IN [stride |-> Strides(f)[level], x |-> at % Size(f, level),
      y |-> at \div Size(f, level)]]]

\* A row of the output: one point of the grid, with its scores.
OutputRows == [point : {p \in Nat : \A f \in Families : p < NumPoints(f)},
         scores : [Classes -> Int], object : Int, box : Int \X Int \X Int \X Int]

ASSUME DetectionAssumption ==
  /\ Input \in Nat \ {0, 1} /\ Fine \in Nat \ {0} /\ Outputs \subseteq Seq(OutputRows)
  /\ Frames \subseteq (Nat \ {0}) \X (Nat \ {0}) \X Nat

(***************************************************************************)
(* Sampling.  A frame is y, u and v planes; a frame that is too short for  *)
(* them is refused.  Both families pick the nearest pixel, NanoDet         *)
(* stretching the frame and YOLOX keeping its aspect.  With an odd side    *)
(* the last column or row has no chroma of its own: the index leaves its   *)
(* plane, and where it leaves the frame too the task ends in a panic.      *)
(***************************************************************************)
UvSize(w, h) == ((w \div 2) * h) \div 2

\* as the chroma counted once
Required_OneChroma(w, h) == w * h + UvSize(w, h)

Required(w, h) == w * h + 2 * UvSize(w, h)

\* as the chroma rows taken to be as long as the luma rows
ChromaIndex_FullRows(w, sx, sy) == (sy \div 2) * w + sx \div 2

ChromaIndex(w, sx, sy) == (sy \div 2) * (w \div 2) + sx \div 2

\* f32::round, for what is not negative
Rounded(n, d) == (2 * n + d) \div (2 * d)

Smaller(a, b) == IF a < b THEN a ELSE b
Larger(a, b) == IF a > b THEN a ELSE b

\* Indices into the frame that one pixel of the input is made from.
Sampled(w, h, sx, sy) ==
  [y |-> sy * w + sx,
   u |-> w * h + ChromaIndex(w, sx, sy),
   v |-> w * h + UvSize(w, h) + ChromaIndex(w, sx, sy)]

PreprocessPixel(w, h, dx, dy) ==
  Sampled(w, h, (dx * w) \div Input, (dy * h) \div Input)

\* The scale is Input over the longer side; its inverse is kept.
Letterbox(w, h) ==
  LET long == Larger(w, h)
      tw == Larger(Rounded(w * Input, long), 1)
      th == Larger(Rounded(h * Input, long), 1)
  IN [long |-> long, tw |-> tw, th |-> th,
      padX |-> (Input - tw) \div 2, padY |-> (Input - th) \div 2]

LetterboxPixel(w, h, dx, dy) ==
  LET long == Larger(w, h)
  IN Sampled(w, h, Smaller((dx * long) \div Input, w - 1),
                   Smaller((dy * long) \div Input, h - 1))

\* The bytes behind a pixel of the input, if it is filled from the frame.
FromFrame(f, w, h, dx, dy) ==
  f = "NanoDet" \/ (dx < Letterbox(w, h).tw /\ dy < Letterbox(w, h).th)

BytesOf(f, w, h, dx, dy) ==
  IF f = "NanoDet" THEN PreprocessPixel(w, h, dx, dy) ELSE LetterboxPixel(w, h, dx, dy)

LongEnough(d) == d[3] >= Required(d[1], d[2])

ReadsBehind(f, d) ==
  \E dx, dy \in 0 .. Input - 1 : /\ FromFrame(f, d[1], d[2], dx, dy)
                                 /\ BytesOf(f, d[1], d[2], dx, dy).v >= d[3]

\* The frames with which a family reads behind the last byte.
Overruns ==
  {p \in Families \X Frames : LongEnough(p[2]) /\ ReadsBehind(p[1], p[2])}

(***************************************************************************)
(* Decoding.  A row is the output for one point: the scores of the         *)
(* classes, the objectness (YOLOX), and the distances to the four sides    *)
(* (NanoDet) or the offset and the extent (YOLOX), in Fine parts of 1/8 of *)
(* a stride.  A box of NanoDet is in parts of a pixel of the input, one of *)
(* YOLOX in parts of 1/Input of a pixel of the frame.                      *)
(***************************************************************************)
BestOf(scores, classes) ==
  Min({c \in classes : \A d \in classes : scores[d] <= scores[c]})

\* YOLOX starts with class 0 and goes on with the second of the others.
Label(f, scores) ==
  IF f = "NanoDet" THEN BestOf(scores, Classes)
  ELSE BestOf(scores, Classes \ {1})

Confidence(f, row) ==
  row.scores[Label(f, row.scores)] * (IF f = "NanoDet" THEN 1 ELSE row.object)

Corner(c) == [x |-> c.x * c.stride * Fine, y |-> c.y * c.stride * Fine]
Eighth(c) == c.stride \div 8

NanoDetBox(row) ==
  LET c == Grid["NanoDet"][row.point]
      at == Corner(c)
      e == Eighth(c)
  IN [x1 |-> Larger(at.x - row.box[1] * e, 0),
      y1 |-> Larger(at.y - row.box[2] * e, 0),
      x2 |-> Smaller(at.x + row.box[3] * e, Input * Fine),
      y2 |-> Smaller(at.y + row.box[4] * e, Input * Fine)]

\* The box is unmapped from the letterbox before the suppression.
YoloxBox(row, w, h) ==
  LET c == Grid["Yolox"][row.point]
      e == Eighth(c)
      lb == Letterbox(w, h)
      x1 == Corner(c).x + row.box[1] * e
      y1 == Corner(c).y + row.box[2] * e
      x2 == Smaller(x1 + row.box[3] * e, Input * Fine)
      y2 == Smaller(y1 + row.box[4] * e, Input * Fine)
      Back(v, pad) == (v - pad * Fine) * lb.long
  IN [x1 |-> Larger(Back(Larger(x1, 0), lb.padX), 0),
      y1 |-> Larger(Back(Larger(y1, 0), lb.padY), 0),
      x2 |-> Smaller(Back(x2, lb.padX), w * (Input * Fine)),
      y2 |-> Smaller(Back(y2, lb.padY), h * (Input * Fine))]

Candidate(f, row, w, h) ==
  [label |-> Label(f, row.scores), confidence |-> Confidence(f, row),
   box |-> IF f = "NanoDet" THEN NanoDetBox(row) ELSE YoloxBox(row, w, h)]

\* A candidate behind those that are at least as sure: sort_by is stable.
Ranked(sorted, c) ==
  LET surer == {i \in DOMAIN sorted : sorted[i].confidence >= c.confidence}
  IN InsertAt(sorted, Max({0} \cup surer) + 1, c)

\* What passes the pre-filter, by falling confidence.
Candidates(f, out, w, h) ==
  FoldLeft(LAMBDA sorted, row :
             LET c == Candidate(f, row, w, h)
             IN IF c.confidence >= 1 THEN Ranked(sorted, c) ELSE sorted, <<>>, out)

(***************************************************************************)
(* Suppression: a candidate goes when one kept before it, of its class,    *)
(* overlaps it by more than the threshold (0.5, or 0.45 with YOLOX).       *)
(***************************************************************************)
Area(b) == (b.x2 - b.x1) * (b.y2 - b.y1)

Intersection(a, b) ==
  LET w == Smaller(a.x2, b.x2) - Larger(a.x1, b.x1)
      h == Smaller(a.y2, b.y2) - Larger(a.y1, b.y1)
  IN IF w <= 0 \/ h <= 0 THEN 0 ELSE w * h

\* in twentieths
Threshold(f) == IF f = "NanoDet" THEN 10 ELSE 9

Overlap(f, a, b) ==
  LET i == Intersection(a, b)
  IN 20 * i > Threshold(f) * (Area(a) + Area(b) - i)

\* as the suppression across classes
Suppresses_AnyClass(f, k, c) == Overlap(f, k.box, c.box)

Suppresses(f, k, c) == k.label = c.label /\ Overlap(f, k.box, c.box)

\* as a candidate compared with the last one kept only
Nms_LastOnly(f, cs) ==
  FoldLeft(LAMBDA kept, c :
             IF kept # <<>> /\ Suppresses(f, Last(kept), c) THEN kept
             ELSE Append(kept, c), <<>>, cs)

Nms(f, cs) ==
  FoldLeft(LAMBDA kept, c :
             IF \E k \in ToSet(kept) : Suppresses(f, k, c) THEN kept
             ELSE Append(kept, c), <<>>, cs)

(***************************************************************************)
(* The result, in pixels: each corner and each extent is rounded by        *)
(* itself, and a negative extent becomes 0 as an unsigned.  NanoDet's are  *)
(* pixels of the input, scaled to the frame and cut to it afterwards;      *)
(* YOLOX's are pixels of the frame already and stay as they are.           *)
(***************************************************************************)
Unit(f) == IF f = "NanoDet" THEN Fine ELSE Input * Fine

Extent(f, b) == [x |-> Rounded(b.x1, Unit(f)), y |-> Rounded(b.y1, Unit(f)),
                 w |-> Rounded(Larger(b.x2 - b.x1, 0), Unit(f)),
                 h |-> Rounded(Larger(b.y2 - b.y1, 0), Unit(f))]

\* as the extent bounded by the frame and not by what is left of it
ScaleToFrame_WholeFrame(e, w, h) ==
  [x |-> Smaller(Rounded(e.x * w, Input), w - 1),
   y |-> Smaller(Rounded(e.y * h, Input), h - 1),
   w |-> Smaller(Rounded(e.w * w, Input), w),
   h |-> Smaller(Rounded(e.h * h, Input), h)]

ScaleToFrame(e, w, h) ==
  LET x == Smaller(Rounded(e.x * w, Input), w - 1)
      y == Smaller(Rounded(e.y * h, Input), h - 1)
  IN [x |-> x, y |-> y,
      w |-> Smaller(Rounded(e.w * w, Input), w - x),
      h |-> Smaller(Rounded(e.h * h, Input), h - y)]

Detect(f, out, w, h) ==
  LET cs == Candidates(f, out, w, h)
      kept == Nms(f, cs)
  IN [action |-> "continue", candidates |-> cs, kept |-> kept,
      boxes |-> [i \in DOMAIN kept |->
                   LET e == Extent(f, kept[i].box)
                   IN IF f = "NanoDet" THEN ScaleToFrame(e, w, h) ELSE e]]

(***************************************************************************)
(* A turn of the loop: the guardrails, then the newest frame.              *)
(***************************************************************************)
NoTurn == [action |-> "none"]

TurnSkipped ==
  /\ inference = NoTurn
  /\ \E mem \in {-1, 2, 3}, t \in {-1, 70, 81, 86} :
       metrics' = [memory |-> mem, celsius |-> t]
  /\ CheckGuardrails(metrics') # "continue"
  /\ inference' = [action |-> CheckGuardrails(metrics')]
  /\ UNCHANGED <<frame, family, rows>>

\* The guardrails allow a turn with the newest frame.
TurnWith(f, d) ==
  /\ \E mem \in {-1, 2} : metrics' = [memory |-> mem, celsius |-> 70]
  /\ CheckGuardrails(metrics') = "continue"
  /\ family' = f /\ frame' = d

TurnInfers ==
  /\ inference = NoTurn
  /\ \E f \in Families, d \in Frames :
       /\ LongEnough(d) /\ <<f, d>> \notin Overruns
       /\ \E out \in Outputs : rows' = out /\ inference' = Detect(f, out, d[1], d[2])
       /\ TurnWith(f, d)

\* An error is logged, and the detections that were there are cleared.
TurnFails ==
  /\ inference = NoTurn
  /\ \E f \in Families, d \in Frames : ~LongEnough(d) /\ TurnWith(f, d)
  /\ rows' = <<>> /\ inference' = [action |-> "error"]

\* The task is gone, and nobody waits for it.
TurnPanics ==
  /\ inference = NoTurn
  /\ \E f \in Families, d \in Frames : <<f, d>> \in Overruns /\ TurnWith(f, d)
  /\ rows' = <<>> /\ inference' = [action |-> "panic"]

TurnEnds ==
  /\ inference.action \notin {"none", "panic"} /\ inference' = NoTurn
  /\ metrics' = [memory |-> 0, celsius |-> 0] /\ rows' = <<>>
  /\ UNCHANGED <<frame, family>>

DetectionInit ==
  /\ metrics = [memory |-> 0, celsius |-> 0]
  /\ frame = <<2, 2, 6>> /\ family = "NanoDet" /\ rows = <<>>
  /\ inference = NoTurn

DetectionNext == TurnSkipped \/ TurnInfers \/ TurnFails \/ TurnPanics \/ TurnEnds

DetectionSpec == DetectionInit /\ [][DetectionNext]_detectionVars

-----------------------------------------------------------------------------
DetectionTypeOK ==
  /\ family \in Families
  /\ inference.action \in {"none", "continue", "skip", "pause", "throttle", "error", "panic"}

\* Numbering the points loses no cell and names none twice: for every level
\* and cell of the grid there is exactly one point, and all points are used.
GridCovered ==
  inference.action = "continue" =>
    \A level \in DOMAIN Strides(family) :
      \A x, y \in 0 .. Size(family, level) - 1 :
        Cardinality({p \in 0 .. NumPoints(family) - 1 :
          Grid[family][p] = [stride |-> Strides(family)[level], x |-> x, y |-> y]}) = 1

\* No pixel of the input is made from a byte outside its plane, for every
\* frame of even sides that passed the length check; the luma is in its plane
\* whatever the sides, and the task panics at no frame but one with an odd side.
SamplesInPlane ==
  LET w == frame[1]
      h == frame[2]
      even == w % 2 = 0 /\ h % 2 = 0
      uv == UvSize(w, h)
  IN /\ inference.action = "panic" => ~even
     /\ inference.action = "continue" =>
          \A dx, dy \in {0, 1, Input \div 2, Input - 1} :
            FromFrame(family, w, h, dx, dy) =>
              LET s == BytesOf(family, w, h, dx, dy) IN
              /\ s.y \in 0 .. w * h - 1
              /\ even => /\ s.u \in w * h .. w * h + uv - 1
                         /\ s.v \in w * h + uv .. Required(w, h) - 1

\* What the suppression is for: no object is reported twice and none is lost.
\* The results fall in confidence, no two of one class overlap by more than
\* the threshold, and whatever was dropped is overlapped so by a result of its
\* class that is at least as sure.
ObjectsOnce ==
  inference.action = "continue" =>
    LET kept == inference.kept IN
    /\ \A i, j \in DOMAIN kept : i < j =>
         /\ kept[i].confidence >= kept[j].confidence
         /\ ~(kept[i].label = kept[j].label
              /\ Overlap(family, kept[i].box, kept[j].box))
    /\ \A c \in ToSet(inference.candidates) \ ToSet(kept) :
         \E k \in ToSet(kept) : /\ k.label = c.label
                                /\ k.confidence >= c.confidence
                                /\ Overlap(family, k.box, c.box)

\* A reported box that has an extent lies inside the camera's picture, except
\* that the end of one of YOLOX's, whose corner and extent were both rounded up,
\* may be one pixel outside.
BoxesInFrame ==
  inference.action = "continue" =>
    \A i \in DOMAIN inference.boxes :
      LET b == inference.boxes[i]
          out == IF family = "Yolox" THEN 1 ELSE 0
      IN b.w > 0 /\ b.h > 0 =>
           b.x >= 0 /\ b.y >= 0 /\ b.x + b.w <= frame[1] + out /\ b.y + b.h <= frame[2] + out

DetectionsSound == /\ GridCovered /\ SamplesInPlane
                   /\ ObjectsOnce /\ BoxesInFrame

\* The label of a result is the class with the best score
\* (src/src/ai/yolox.rs:15).
BestClassWins ==
  inference.action = "continue" =>
    \A i \in DOMAIN rows : rows[i].object > 0 =>
      Label(family, rows[i].scores) = BestOf(rows[i].scores, Classes)
=============================================================================
