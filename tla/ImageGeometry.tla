----------------------------- MODULE ImageGeometry -----------------------------
(***************************************************************************)
(* What happens to a captured YU12 frame before it is encoded: rotation    *)
(* and flips (src/src/camera/v4l2_capture.rs), the substream's downscaling *)
(* (camera/downscale.rs), the copy into the encoder's padded buffer        *)
(* (camera/v4l2.rs), and the pixels of a snapshot and of the live pictures *)
(* (web/api.rs), which are read from the frame that is shared.             *)
(*                                                                         *)
(* A frame is a buffer of three planes behind one another; a sample is     *)
(* named by its index in the captured buffer.                              *)
(***************************************************************************)
EXTENDS Integers

CONSTANTS
  Widths, Heights, \* capture sizes, even as Config::validate wants for turns
  Align            \* the encoder pads rows to a multiple of this

ASSUME GeoAssumption ==
  /\ \A n \in Widths \cup Heights : n \in Nat \ {0} /\ n % 2 = 0
  /\ Align \in Nat \ {0}

VARIABLES
  rotation, mirror,       \* camera.rotation; frameMirrorCfgType 0..3
  geoAt,                  \* "captured" | "flip" | "oriented" | "scaled" | "padded"
  width, height, buf,     \* the frame: effective size and samples
  todo,                   \* flips of the capture loop: horizontal, vertical
  plane, row,             \* flip_yu12_in_place: plane and row it is at
  stride, captured        \* the padded buffer's stride; the captured size

geoVars == <<rotation, mirror, geoAt, width, height, buf, todo, plane, row,
             stride, captured>>

Len3(w, h) == w * h + 2 * ((w \div 2) * (h \div 2))

\* The three planes of a w x h frame.
Planes(w, h) ==
  LET c == (w \div 2) * (h \div 2) IN
    << [off |-> 0, w |-> w, h |-> h],
       [off |-> w * h, w |-> w \div 2, h |-> h \div 2],
       [off |-> w * h + c, w |-> w \div 2, h |-> h \div 2] >>

\* Where the sample at column x of row y of plane p lies ...
SampleIndex(w, h, p, x, y) == LET q == Planes(w, h)[p] IN q.off + y * q.w + x

\* ... and which sample lies at i.
PlaneOf(w, h, i) ==
  CHOOSE p \in 1..3 : LET q == Planes(w, h)[p] IN q.off <= i /\ i < q.off + q.w * q.h
ColumnOf(w, h, i) == LET q == Planes(w, h)[PlaneOf(w, h, i)] IN (i - q.off) % q.w
RowOf(w, h, i) == LET q == Planes(w, h)[PlaneOf(w, h, i)] IN (i - q.off) \div q.w

\* A function given for each plane and position, as a buffer.
Laid(w, h, At(_, _, _)) ==
  [i \in 0..Len3(w, h) - 1 |->
     At(PlaneOf(w, h, i), ColumnOf(w, h, i), RowOf(w, h, i))]

Sample(p, x, y) == buf[SampleIndex(width, height, p, x, y)]

(* Type invariant: the buffer has the length its size asks for.            *)
GeoTypeOK ==
  /\ rotation \in {0, 90, 180, 270} /\ mirror \in 0..3
  /\ geoAt \in {"captured", "flip", "oriented", "scaled", "padded"}
  /\ plane \in 1..4 /\ row \in 0..width + height
  /\ geoAt # "padded" => DOMAIN buf = 0..Len3(width, height) - 1

\* mirror_mode_to_flips
Flips(mode) == [h |-> mode \in {1, 3}, v |-> mode \in {2, 3}]

GeoInit ==
  /\ rotation \in {0, 90, 180, 270} /\ mirror \in 0..3 /\ geoAt = "captured"
  /\ width \in Widths /\ height \in Heights /\ captured = <<width, height>>
  /\ buf = [i \in 0..Len3(width, height) - 1 |-> i]
  /\ todo = Flips(0) /\ plane = 1 /\ row = 0 /\ stride = 0

\* Mutant: half a turn leaves the flips as they are.
Compose_HalfTurnLost(r, f) == IF r = 180 THEN f ELSE f

\* compose_rotation_flips: half a turn is both flips
Compose(r, f) == IF r = 180 THEN [h |-> ~f.h, v |-> ~f.v] ELSE f

\* rotated_dims
RotatedDims(w, h, r) == IF r \in {90, 270} THEN <<h, w>> ELSE <<w, h>>

\* rotate_yu12, transpose_plane; the capture loop then flips
Rotate ==
  /\ geoAt = "captured" /\ geoAt' = "flip"
  /\ todo' = Compose(rotation, Flips(mirror))
  /\ width' = RotatedDims(width, height, rotation)[1]
  /\ height' = RotatedDims(width, height, rotation)[2]
  /\ IF rotation \in {90, 270}
     THEN /\ buf' = Laid(height, width, LAMBDA p, x, y :
               LET q == Planes(width, height)[p] IN
                 IF rotation = 90 THEN Sample(p, y, q.h - 1 - x)
                 ELSE Sample(p, q.w - 1 - y, x))
     ELSE UNCHANGED buf
  /\ UNCHANGED <<rotation, mirror, plane, row, stride, captured>>

\* One turn of flip_plane_in_place: rows `row` and its opposite change
\* places, mirrored if asked; the middle row of an odd plane mirrors itself,
\* and without a vertical flip every row does.
FlipRow ==
  /\ geoAt = "flip" /\ plane <= 3 /\ (todo.h \/ todo.v)
  /\ LET q == Planes(width, height)[plane]
         there == IF todo.v THEN q.h - 1 - row ELSE row
         Source(p, x, y) ==
           IF p = plane /\ y \in {row, there}
           THEN Sample(p, IF todo.h THEN q.w - 1 - x ELSE x,
                       IF y = row THEN there ELSE row)
           ELSE Sample(p, x, y)
         done == IF todo.v THEN row + 1 >= q.h - 1 - row ELSE row + 1 = q.h
     IN /\ buf' = Laid(width, height, Source)
        /\ plane' = IF done THEN plane + 1 ELSE plane
        /\ row' = IF done THEN 0 ELSE row + 1
  /\ UNCHANGED <<rotation, mirror, geoAt, width, height, todo, stride, captured>>

FlipDone ==
  /\ geoAt = "flip" /\ (plane = 4 \/ ~(todo.h \/ todo.v)) /\ geoAt' = "oriented"
  /\ UNCHANGED <<rotation, mirror, width, height, buf, todo, plane, row, stride, captured>>

\* map_axis
MapAxis(d, dst, src) == (d * src) \div dst

\* downscale_yu420: one table for each axis serves all planes
Downscale(w, h) ==
  /\ geoAt = "oriented" /\ w <= width /\ h <= height
  /\ buf' = Laid(w, h, LAMBDA p, x, y :
       IF p = 1 THEN Sample(1, MapAxis(x, w, width), MapAxis(y, h, height))
       ELSE Sample(p, MapAxis(2 * x, w, width) \div 2, MapAxis(2 * y, h, height) \div 2))
  /\ width' = w /\ height' = h /\ geoAt' = "scaled"
  /\ UNCHANGED <<rotation, mirror, todo, plane, row, stride, captured>>

Empty == -1

\* Where a plane of the padded buffer begins and how long its rows are ...
PadStart(s, h, p) ==
  CASE p = 1 -> 0 [] p = 2 -> s * h [] p = 3 -> s * h + (s \div 2) * (h \div 2)
PadWide(s, p) == IF p = 1 THEN s ELSE s \div 2

\* ... and which plane has the place i.
PadPlane(s, h, i) ==
  IF i >= PadStart(s, h, 3) THEN 3 ELSE IF i >= PadStart(s, h, 2) THEN 2 ELSE 1

\* fill_padded_i420: rows at the stride, half of it for the chroma planes
Pad ==
  /\ geoAt \in {"oriented", "scaled"} /\ geoAt' = "padded"
  /\ stride' = ((width + Align - 1) \div Align) * Align
  /\ buf' = [i \in 0..PadStart(stride', height, 3)
                      + PadWide(stride', 3) * (height \div 2) - 1 |->
       LET p == PadPlane(stride', height, i)
           wide == PadWide(stride', p)
           k == i - PadStart(stride', height, p)
       IN IF k % wide < Planes(width, height)[p].w
          THEN Sample(p, k % wide, k \div wide) ELSE Empty]
  /\ UNCHANGED <<rotation, mirror, width, height, todo, plane, row, captured>>

\* Mutant: the chroma planes change places.
RgbPixel_SwapsChroma(x, y) ==
  LET c == (y \div 2) * (width \div 2) + x \div 2
      size == width * height
  IN <<buf[y * width + x], buf[size + size \div 4 + c], buf[size + c]>>

\* yuv420_to_rgb: the three samples a pixel of a snapshot is made of
RgbPixel(x, y) ==
  LET c == (y \div 2) * (width \div 2) + x \div 2
      size == width * height
  IN <<buf[y * width + x], buf[size + c], buf[size + size \div 4 + c]>>

\* yuv420_to_rgb_scaled: a live picture has every other pixel of every other
\* row
LivePixel(i, j) == RgbPixel(2 * i, 2 * j)

GeoNext ==
  \/ Rotate \/ FlipRow \/ FlipDone \/ Pad
  \/ \E w \in Widths, h \in Heights : Downscale(w, h)

GeoSpec == GeoInit /\ [][GeoNext]_geoVars

-----------------------------------------------------------------------------
(* Properties                                                              *)

\* The position, in a plane of the captured w x h picture, that a quarter
\* turn clockwise brings to (x, y).
Quarter(xy, h) == <<xy[2], h - 1 - xy[1]>>

\* The captured position shown at (x, y) of an upright plane: mirrors undone
\* first, then the turns, one quarter at a time.
Shown(p, x, y) ==
  LET f == Flips(mirror)
      o == Planes(captured[1], captured[2])[p]     \* as captured
      n == IF rotation \in {90, 270} THEN [w |-> o.h, h |-> o.w] ELSE o
      a == <<IF f.h THEN n.w - 1 - x ELSE x, IF f.v THEN n.h - 1 - y ELSE y>>
  IN CASE rotation = 0 -> a
       [] rotation = 90 -> Quarter(a, o.h)
       [] rotation = 180 -> Quarter(Quarter(a, o.w), o.h)
       [] rotation = 270 -> Quarter(Quarter(Quarter(a, o.h), o.w), o.h)

Captured(p, xy) ==
  SampleIndex(captured[1], captured[2], p, xy[1], xy[2])

\* A sample as its reader finds it, in the padded buffer by stride.
View(p, x, y) ==
  LET wide == IF p = 1 THEN stride ELSE stride \div 2
      off == CASE p = 1 -> 0 [] p = 2 -> stride * height
               [] p = 3 -> stride * height + (stride \div 2) * (height \div 2)
  IN IF geoAt = "padded" THEN buf[off + y * wide + x] ELSE Sample(p, x, y)

\* The chroma sample of plane p that covers a captured luma sample.
Covering(p, i) ==
  LET w == captured[1] IN Captured(p, <<(i % w) \div 2, (i \div w) \div 2>>)

Unscaled == <<width, height>> = RotatedDims(captured[1], captured[2], rotation)

(* The frame every consumer gets is the captured one turned clockwise and  *)
(* then mirrored along the turned axes, in all three planes alike; the     *)
(* substream's chroma samples belong to the luma samples it kept; and the  *)
(* encoder, reading its buffer by stride, sees that very frame.  A pixel of*)
(* a snapshot or a live picture has the brightness and the colour of one   *)
(* place of it.                                                            *)
UprightFrames ==
  geoAt \notin {"captured", "flip"} =>
    \A p \in 1..3 : LET q == Planes(width, height)[p] IN
      \A x \in 0..q.w - 1, y \in 0..q.h - 1 :
        /\ Unscaled => View(p, x, y) = Captured(p, Shown(p, x, y))
        /\ p # 1 => View(p, x, y) = Covering(p, View(1, 2 * x, 2 * y))
        /\ p = 1 /\ geoAt = "oriented" =>
             RgbPixel(x, y) = <<View(1, x, y), View(2, x \div 2, y \div 2),
                                View(3, x \div 2, y \div 2)>>
        /\ p = 2 /\ geoAt = "oriented" =>
             LivePixel(x, y) = <<View(1, 2 * x, 2 * y), View(2, x, y), View(3, x, y)>>
=============================================================================
