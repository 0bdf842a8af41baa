---------------------------- MODULE CameraProofs ----------------------------
(***************************************************************************)
(* UprightFrames, for every size, turn, mirror and alignment, and then     *)
(* FramesPaired of the hardware encoder session, for any numbers of buffers*)
(* and any number of calls; then the types of the threads between them, and*)
(* what holds of the machines of MCMedia side by side (MediaInv: a step of *)
(* the run is a step of one of them and leaves the others alone, OneMoves).*)
(*                                                                         *)
(* A frame: rows and columns are found again from their place in a buffer  *)
(* (RowAndColumn), and with them a sample of a plane from its index        *)
(* (PlaceFound), so what a step lays down is what is read back.  The flips *)
(* work in place, one pair of rows at a time: FlipProgress says which rows *)
(* they have dealt with (FlippedLine), and that a row not yet dealt with   *)
(* still shows the turned picture; when none is left the frame is the      *)
(* captured one under Shown (TurnedThenFlipped).  A chroma sample is shown *)
(* where its luma samples are because halving a place commutes with turning*)
(* and mirroring it, the sides being even (HalfFromTheEnd); downscaling    *)
(* picks one place for both, and padding moves rows only.                  *)
(*                                                                         *)
(* The encoder: no buffer is in two places or in none, and the             *)
(* bitstream of a frame is handed on with the user data of that frame.     *)
(* The buffers of a side are parted between the queues and the hand that   *)
(* hold them, and a step moves one from the head of a queue to the end of  *)
(* another.  The pairing is by position, so it needs the whole line: the   *)
(* user data is the frame the poller has taken off the device, then the    *)
(* frames of the filled buffers, then those the device has not read, in    *)
(* that order; every step that takes a frame from the front of the line    *)
(* takes its user data, and every step that refuses a frame adds neither.  *)
(***************************************************************************)
EXTENDS MCMedia, MseProofs, RecordingProofs

-----------------------------------------------------------------------------
(* Planes.                                                                 *)

\* a side of a picture
Side == {n \in Nat \ {0} : n % 2 = 0}

Cols(w, h, p) == 0..Planes(w, h)[p].w - 1
Lines(w, h, p) == 0..Planes(w, h)[p].h - 1

LEMMA Halves ==
  ASSUME NEW n \in Side
  PROVE  n \in Nat \ {0} /\ n \div 2 \in Nat \ {0} /\ n = 2 * (n \div 2)
BY DEF Side

\* where a plane starts and ends in the buffer
From(w, h, p) == Planes(w, h)[p].off
End(w, h, p) == From(w, h, p) + Planes(w, h)[p].w * Planes(w, h)[p].h

LEMMA PlaneFields ==
  ASSUME NEW w, NEW h
  PROVE  /\ Planes(w, h)[1] = [off |-> 0, w |-> w, h |-> h]
         /\ Planes(w, h)[2] = [off |-> w * h, w |-> w \div 2, h |-> h \div 2]
         /\ Planes(w, h)[3] = [off |-> w * h + (w \div 2) * (h \div 2),
                               w |-> w \div 2, h |-> h \div 2]
BY DEF Planes

(* The planes lie one behind another in the buffer.                        *)
LEMMA PlaneFacts ==
  ASSUME NEW w \in Side, NEW h \in Side
  PROVE  /\ Len3(w, h) \in Nat
         /\ \A p \in 1..3 :
              /\ From(w, h, p) \in Nat /\ End(w, h, p) \in Nat
              /\ Planes(w, h)[p].w \in Nat \ {0} /\ Planes(w, h)[p].h \in Nat \ {0}
              /\ End(w, h, p) <= Len3(w, h)
         /\ \A p, q \in 1..3 : p < q => End(w, h, p) <= From(w, h, q)
<1> DEFINE a == w \div 2
           b == h \div 2
           s == w * h
           c == a * b
<1>1. w \in Nat \ {0} /\ h \in Nat \ {0} /\ a \in Nat \ {0} /\ b \in Nat \ {0}
  BY Halves
<1>2. s \in Nat /\ c \in Nat
  BY <1>1, ProductNat
<1>3. /\ Planes(w, h)[1] = [off |-> 0, w |-> w, h |-> h]
      /\ Planes(w, h)[2] = [off |-> s, w |-> a, h |-> b]
      /\ Planes(w, h)[3] = [off |-> s + c, w |-> a, h |-> b]
      /\ Len3(w, h) = s + 2 * c
  BY PlaneFields DEF Len3
<1>4. w * h = s /\ a * b = c
  OBVIOUS
<1> HIDE DEF a, b, s, c
<1>5. \A p \in 1..3 : p = 1 \/ p = 2 \/ p = 3
  OBVIOUS
<1>6. Planes(w, h)[1].w * Planes(w, h)[1].h = s
      /\ Planes(w, h)[2].w * Planes(w, h)[2].h = c
      /\ Planes(w, h)[3].w * Planes(w, h)[3].h = c
  BY <1>3, <1>4
<1>7. /\ From(w, h, 1) = 0 /\ End(w, h, 1) = s
      /\ From(w, h, 2) = s /\ End(w, h, 2) = s + c
      /\ From(w, h, 3) = s + c /\ End(w, h, 3) = s + c + c
  BY <1>2, <1>3, <1>6 DEF From, End
<1> QED
  BY <1>1, <1>2, <1>3, <1>5, <1>7

(* A place of a plane lies within it, ...                                  *)
LEMMA PlaceInPlane ==
  ASSUME NEW w \in Side, NEW h \in Side, NEW p \in 1..3,
         NEW x \in Cols(w, h, p), NEW y \in Lines(w, h, p)
  PROVE  /\ SampleIndex(w, h, p, x, y) \in From(w, h, p)..End(w, h, p) - 1
         /\ SampleIndex(w, h, p, x, y) = From(w, h, p) + (y * Planes(w, h)[p].w + x)
         /\ x \in Nat /\ y \in Nat
<1> DEFINE off == From(w, h, p)
           wd == Planes(w, h)[p].w
           ht == Planes(w, h)[p].h
<1>1. off \in Nat /\ wd \in Nat \ {0} /\ ht \in Nat \ {0}
  BY PlaneFacts
<1>2. x \in 0..wd - 1 /\ y \in 0..ht - 1 /\ SampleIndex(w, h, p, x, y) = off + y * wd + x
      /\ End(w, h, p) = off + wd * ht
  BY DEF Cols, Lines, SampleIndex, From, End
<1> HIDE DEF off, wd, ht
<1>3. (y + 1) * wd <= ht * wd /\ ht * wd = wd * ht /\ (y + 1) * wd = y * wd + wd
  BY <1>1, <1>2, ProductMono
<1>4. y * wd \in Nat /\ wd * ht \in Nat
  BY <1>1, <1>2, ProductNat
<1>5. SampleIndex(w, h, p, x, y) \in off..End(w, h, p) - 1
      /\ SampleIndex(w, h, p, x, y) = off + (y * wd + x)
  BY <1>1, <1>2, <1>3, <1>4
<1> QED
  BY <1>1, <1>2, <1>5 DEF off, wd, ht

(* ... and is found again from its index.                                  *)
LEMMA PlaceFound ==
  ASSUME NEW w \in Side, NEW h \in Side, NEW p \in 1..3,
         NEW x \in Cols(w, h, p), NEW y \in Lines(w, h, p),
         NEW i, i = SampleIndex(w, h, p, x, y)
  PROVE  /\ i \in 0..Len3(w, h) - 1
         /\ PlaneOf(w, h, i) = p /\ ColumnOf(w, h, i) = x /\ RowOf(w, h, i) = y
<1> DEFINE off(q) == From(w, h, q)
           end(q) == End(w, h, q)
<1>1. /\ \A q \in 1..3 : off(q) \in Nat /\ end(q) \in Nat /\ end(q) <= Len3(w, h)
      /\ \A q, r \in 1..3 : q < r => end(q) <= off(r)
      /\ Len3(w, h) \in Nat
  BY PlaneFacts
<1>2. i \in off(p)..end(p) - 1 /\ i = off(p) + (y * Planes(w, h)[p].w + x)
  BY PlaceInPlane
<1>3. \A q \in 1..3 : (off(q) <= i /\ i < end(q)) <=> q = p
  <2> HIDE DEF off, end
  <2>1. \A q \in 1..3 : q < p \/ q = p \/ p < q
    OBVIOUS
  <2> QED
    BY <1>1, <1>2, <2>1
<1>4. PlaneOf(w, h, i) = p
  <2>1. PlaneOf(w, h, i) = CHOOSE q \in 1..3 : From(w, h, q) <= i /\ i < End(w, h, q)
    BY DEF PlaneOf, From, End
  <2> HIDE DEF off, end
  <2>2. \A q \in 1..3 : (From(w, h, q) <= i /\ i < End(w, h, q)) <=> q = p
    BY <1>3 DEF off, end
  <2> QED
    BY <2>1, <2>2
<1>5. Planes(w, h)[p].w \in Nat \ {0} /\ x \in 0..Planes(w, h)[p].w - 1 /\ y \in Nat
  BY PlaneFacts, PlaceInPlane DEF Cols
<1>6. ColumnOf(w, h, i) = x /\ RowOf(w, h, i) = y
  <2>1. y * Planes(w, h)[p].w \in Nat
    BY <1>5, ProductNat
  <2>2. i - From(w, h, p) = y * Planes(w, h)[p].w + x
    BY <1>1, <1>2, <1>5, <2>1
  <2>3. (i - From(w, h, p)) % Planes(w, h)[p].w = x
        /\ (i - From(w, h, p)) \div Planes(w, h)[p].w = y
    <3>1. PICK n, k : n = Planes(w, h)[p].w /\ k = i - From(w, h, p)
      OBVIOUS
    <3>2. n \in Nat \ {0} /\ x \in 0..n - 1 /\ y \in Nat
      BY <1>5, <3>1
    <3>3. k = y * n + x
      BY <2>2, <3>1
    <3>4. (y * n + x) % n = x /\ (y * n + x) \div n = y
      BY <3>2, RowAndColumn
    <3> QED
      BY <3>1, <3>3, <3>4
  <2> QED
    BY <1>4, <2>3 DEF ColumnOf, RowOf, From
<1>7. i \in 0..Len3(w, h) - 1
  <2> HIDE DEF off, end
  <2> QED
    BY <1>1, <1>2
<1> QED
  BY <1>4, <1>6, <1>7

-----------------------------------------------------------------------------
(* What every step leaves of a frame.                                      *)

\* what the frame holds before it is flipped
Turned(p, x, y) ==
  LET o == Planes(captured[1], captured[2])[p] IN
    CASE rotation \in {0, 180} -> Captured(p, <<x, y>>)
      [] rotation = 90 -> Captured(p, <<y, o.h - 1 - x>>)
      [] rotation = 270 -> Captured(p, <<o.w - 1 - y, x>>)

\* where a sample of the flipped frame comes from
FromColumn(p, x) == IF todo.h THEN Planes(width, height)[p].w - 1 - x ELSE x
FromLine(p, y) == IF todo.v THEN Planes(width, height)[p].h - 1 - y ELSE y

\* the lines the flips have dealt with
FlippedLine(p, y) ==
  \/ p < plane
  \/ p = plane /\ (y < row \/ (todo.v /\ y > Planes(width, height)[p].h - 1 - row))

FlipProgress ==
  \A p \in 1..3 : \A x \in Cols(width, height, p), y \in Lines(width, height, p) :
    Sample(p, x, y) = IF FlippedLine(p, y)
                      THEN Turned(p, FromColumn(p, x), FromLine(p, y))
                      ELSE Turned(p, x, y)

\* where flip_yu12_in_place can be
FlipPlace ==
  /\ plane \in 1..4 /\ row \in Nat
  /\ plane = 4 => row = 0
  /\ plane <= 3 => /\ row \in Lines(width, height, plane)
                   /\ todo.v => row <= Planes(width, height)[plane].h - 1 - row
  /\ ~(todo.h \/ todo.v) => plane = 1 /\ row = 0

\* what UprightFrames says of the frame itself
ViewSound ==
  \A p \in 1..3 : \A x \in Cols(width, height, p), y \in Lines(width, height, p) :
    /\ Unscaled => View(p, x, y) = Captured(p, Shown(p, x, y))
    /\ p # 1 => View(p, x, y) = Covering(p, View(1, 2 * x, 2 * y))

GeoTypes ==
  /\ rotation \in {0, 90, 180, 270} /\ mirror \in 0..3
  /\ geoAt \in {"captured", "flip", "oriented", "scaled", "padded"}
  /\ width \in Side /\ height \in Side
  /\ captured = <<captured[1], captured[2]>> /\ captured[1] \in Side /\ captured[2] \in Side

GeoInv ==
  /\ GeoTypes
  /\ geoAt = "captured" =>
       /\ width = captured[1] /\ height = captured[2] /\ plane = 1 /\ row = 0
       /\ \A p \in 1..3 : \A x \in Cols(width, height, p), y \in Lines(width, height, p) :
            Sample(p, x, y) = Captured(p, <<x, y>>)
  /\ geoAt = "flip" =>
       /\ Unscaled /\ todo = Compose(rotation, Flips(mirror))
       /\ FlipPlace /\ FlipProgress
  /\ geoAt = "oriented" => Unscaled
  /\ geoAt \in {"oriented", "scaled", "padded"} => ViewSound

LEMMA GeoInitInv == GeoInit => GeoInv
<1> SUFFICES ASSUME GeoInit PROVE GeoInv
  OBVIOUS
<1>1. width \in Side /\ height \in Side /\ captured = <<width, height>>
  BY GeoAssumption DEF GeoInit, Side
<1>2. GeoTypes
  BY <1>1 DEF GeoInit, GeoTypes
<1>3. ASSUME NEW p \in 1..3, NEW x \in Cols(width, height, p), NEW y \in Lines(width, height, p)
      PROVE  Sample(p, x, y) = Captured(p, <<x, y>>)
  <2>1. SampleIndex(width, height, p, x, y) \in 0..Len3(width, height) - 1
    BY <1>1, PlaceFound
  <2> QED
    BY <1>1, <2>1 DEF GeoInit, Sample, Captured
<1> QED
  BY <1>1, <1>2, <1>3 DEF GeoInit, GeoInv

(* A picture turned by a quarter has the planes of the other orientation.  *)
LEMMA PlanesTurned ==
  ASSUME NEW w, NEW h, NEW p \in 1..3
  PROVE  Planes(h, w)[p].w = Planes(w, h)[p].h /\ Planes(h, w)[p].h = Planes(w, h)[p].w
<1>1. p = 1 \/ p = 2 \/ p = 3
  OBVIOUS
<1>2. /\ Planes(h, w)[1] = [off |-> 0, w |-> h, h |-> w]
      /\ Planes(h, w)[2] = [off |-> h * w, w |-> h \div 2, h |-> w \div 2]
      /\ Planes(h, w)[3] = [off |-> h * w + (h \div 2) * (w \div 2),
                            w |-> h \div 2, h |-> w \div 2]
  BY PlaneFields
<1>3. /\ Planes(w, h)[1] = [off |-> 0, w |-> w, h |-> h]
      /\ Planes(w, h)[2] = [off |-> w * h, w |-> w \div 2, h |-> h \div 2]
      /\ Planes(w, h)[3] = [off |-> w * h + (w \div 2) * (h \div 2),
                            w |-> w \div 2, h |-> h \div 2]
  BY PlaneFields
<1> QED
  BY <1>1, <1>2, <1>3

(* The planes of an oriented frame.                                        *)
LEMMA UnscaledPlanes ==
  ASSUME GeoTypes, Unscaled, NEW p \in 1..3
  PROVE  LET o == Planes(captured[1], captured[2])[p]
             q == Planes(width, height)[p]
         IN IF rotation \in {90, 270} THEN q.w = o.h /\ q.h = o.w ELSE q = o
<1>1. IF rotation \in {90, 270} THEN width = captured[2] /\ height = captured[1]
      ELSE width = captured[1] /\ height = captured[2]
  BY DEF Unscaled, RotatedDims
<1> QED
  BY <1>1, PlanesTurned

(* Turned and then flipped is Shown.                                       *)
LEMMA TurnedThenFlipped ==
  ASSUME GeoTypes, Unscaled, todo = Compose(rotation, Flips(mirror)),
         NEW p \in 1..3, NEW x \in Cols(width, height, p), NEW y \in Lines(width, height, p)
  PROVE  Turned(p, FromColumn(p, x), FromLine(p, y)) = Captured(p, Shown(p, x, y))
<1> DEFINE o == Planes(captured[1], captured[2])[p]
           q == Planes(width, height)[p]
<1>1. o.w \in Nat \ {0} /\ o.h \in Nat \ {0} /\ q.w \in Nat \ {0} /\ q.h \in Nat \ {0}
  BY PlaneFacts DEF GeoTypes
<1>2. x \in 0..q.w - 1 /\ y \in 0..q.h - 1
  BY DEF Cols, Lines
<1>3. IF rotation \in {90, 270} THEN q.w = o.h /\ q.h = o.w ELSE q.w = o.w /\ q.h = o.h
  BY UnscaledPlanes
<1>4. PICK fh \in BOOLEAN, fv \in BOOLEAN : Flips(mirror) = [h |-> fh, v |-> fv]
  <2>1. Flips(mirror) = [h |-> mirror \in {1, 3}, v |-> mirror \in {2, 3}]
    BY DEF Flips
  <2>2. (mirror \in {1, 3}) \in BOOLEAN /\ (mirror \in {2, 3}) \in BOOLEAN
    OBVIOUS
  <2> QED
    BY <2>1, <2>2, Zenon
<1>5. todo = IF rotation = 180 THEN [h |-> ~fh, v |-> ~fv] ELSE [h |-> fh, v |-> fv]
  BY <1>4 DEF Compose
<1>6. PICK a, b : /\ a = IF fh THEN q.w - 1 - x ELSE x
                  /\ b = IF fv THEN q.h - 1 - y ELSE y
  OBVIOUS
<1>7. a \in 0..q.w - 1 /\ b \in 0..q.h - 1
  BY <1>1, <1>2, <1>6
<1>8. CASE rotation = 180
  <2>0. todo.h = ~fh /\ todo.v = ~fv
    <3>1. todo = [h |-> ~fh, v |-> ~fv]
      BY <1>5, <1>8, Zenon
    <3>2. [h |-> ~fh, v |-> ~fv].h = ~fh /\ [h |-> ~fh, v |-> ~fv].v = ~fv
      BY Zenon
    <3> QED
      BY <3>1, <3>2, Zenon
  <2>1. FromColumn(p, x) = IF ~fh THEN q.w - 1 - x ELSE x
    BY <2>0, Zenon DEF FromColumn
  <2>2. FromLine(p, y) = IF ~fv THEN q.h - 1 - y ELSE y
    BY <2>0, Zenon DEF FromLine
  <2>3. FromColumn(p, x) = q.w - 1 - a /\ FromLine(p, y) = q.h - 1 - b
    BY <1>1, <1>2, <1>6, <2>1, <2>2
  <2>4. Shown(p, x, y) = Quarter(Quarter(<<a, b>>, o.w), o.h)
    BY <1>3, <1>4, <1>6, <1>8 DEF Shown
  <2>5. Shown(p, x, y) = <<o.w - 1 - a, o.h - 1 - b>>
    BY <2>4 DEF Quarter
  <2> QED
    BY <1>3, <1>8, <2>3, <2>5 DEF Turned
<1>9. CASE rotation # 180
  <2>1. FromColumn(p, x) = a
    BY <1>5, <1>6, <1>9 DEF FromColumn
  <2>2. FromLine(p, y) = b
    BY <1>5, <1>6, <1>9 DEF FromLine
  <2>3. CASE rotation = 0
    <3>1. Shown(p, x, y) = <<a, b>>
      BY <1>3, <1>4, <1>6, <2>3 DEF Shown
    <3> QED
      BY <2>1, <2>2, <2>3, <3>1 DEF Turned
  <2>4. CASE rotation = 90
    <3>1. Shown(p, x, y) = Quarter(<<a, b>>, o.h)
      BY <1>3, <1>4, <1>6, <2>4 DEF Shown
    <3> QED
      BY <2>1, <2>2, <2>4, <3>1 DEF Turned, Quarter
  <2>5. CASE rotation = 270
    <3>1. Shown(p, x, y) = Quarter(Quarter(Quarter(<<a, b>>, o.h), o.w), o.h)
      BY <1>3, <1>4, <1>6, <2>5 DEF Shown
    <3>2. Shown(p, x, y) = <<o.w - 1 - b, o.h - 1 - (o.h - 1 - a)>>
      BY <3>1 DEF Quarter
    <3>3. o.h - 1 - (o.h - 1 - a) = a
      BY <1>1, <1>3, <1>7, <2>5
    <3> QED
      BY <2>1, <2>2, <2>5, <3>2, <3>3 DEF Turned
  <2> QED
    BY <1>9, <2>3, <2>4, <2>5 DEF GeoTypes
<1> QED
  BY <1>8, <1>9

-----------------------------------------------------------------------------
(* The steps.                                                              *)

LEMMA RotateInv == ASSUME GeoInv, Rotate PROVE GeoInv'
<1>1. PICK w, h : w = width' /\ h = height'
  OBVIOUS
<1>2. /\ GeoTypes /\ width = captured[1] /\ height = captured[2] /\ plane = 1 /\ row = 0
      /\ \A p \in 1..3 : \A x \in Cols(width, height, p), y \in Lines(width, height, p) :
           Sample(p, x, y) = Captured(p, <<x, y>>)
  BY DEF Rotate, GeoInv
<1>3. /\ w = (IF rotation \in {90, 270} THEN height ELSE width)
      /\ h = (IF rotation \in {90, 270} THEN width ELSE height)
      /\ geoAt' = "flip" /\ todo' = Compose(rotation, Flips(mirror))
      /\ UNCHANGED <<rotation, mirror, plane, row, stride, captured>>
  BY <1>1 DEF Rotate, RotatedDims
<1>4. GeoTypes' /\ w \in Side /\ h \in Side
  BY <1>1, <1>2, <1>3 DEF GeoTypes
<1>5. Unscaled' /\ todo' = Compose(rotation', Flips(mirror'))
  BY <1>1, <1>2, <1>3 DEF Unscaled, RotatedDims
<1>6. ASSUME NEW p \in 1..3, NEW x \in Cols(w, h, p), NEW y \in Lines(w, h, p)
      PROVE  Sample(p, x, y)' = Turned(p, x, y)
  <2> DEFINE q == Planes(width, height)[p]
  <2>1. Sample(p, x, y)' = buf'[SampleIndex(w, h, p, x, y)]
    BY <1>1 DEF Sample
  <2>2. q.w \in Nat \ {0} /\ q.h \in Nat \ {0}
    BY <1>2, PlaneFacts DEF GeoTypes
  <2>3. CASE rotation \in {0, 180}
    <3>1. w = width /\ h = height
      BY <1>3, <2>3
    <3>2. buf' = buf
      BY <2>3 DEF Rotate, Laid
    <3> QED
      BY <1>2, <2>1, <2>3, <3>1, <3>2 DEF Turned, Sample
  <2>4. CASE rotation \in {90, 270}
    <3>1. w = height /\ h = width
      BY <1>3, <2>4
    <3>2. PICK i : i = SampleIndex(w, h, p, x, y)
      OBVIOUS
    <3>3. /\ i \in 0..Len3(w, h) - 1
          /\ PlaneOf(w, h, i) = p /\ ColumnOf(w, h, i) = x /\ RowOf(w, h, i) = y
      BY <1>4, <3>2, PlaceFound
    <3>4. x \in 0..q.h - 1 /\ y \in 0..q.w - 1
      BY <3>1, PlanesTurned DEF Cols, Lines
    <3>5. CASE rotation = 90
      <4>1. buf'[i] = Sample(p, y, q.h - 1 - x)
        BY <2>4, <3>1, <3>3, <3>5 DEF Rotate, Laid
      <4>2. y \in Cols(width, height, p) /\ q.h - 1 - x \in Lines(width, height, p)
        BY <2>2, <3>4 DEF Cols, Lines
      <4> QED
        BY <1>2, <2>1, <3>2, <3>5, <4>1, <4>2 DEF Turned
    <3>6. CASE rotation = 270
      <4>1. buf'[i] = Sample(p, q.w - 1 - y, x)
        BY <2>4, <3>1, <3>3, <3>6 DEF Rotate, Laid
      <4>2. q.w - 1 - y \in Cols(width, height, p) /\ x \in Lines(width, height, p)
        BY <2>2, <3>4 DEF Cols, Lines
      <4> QED
        BY <1>2, <2>1, <3>2, <3>6, <4>1, <4>2 DEF Turned
    <3> QED
      BY <2>4, <3>5, <3>6
  <2> QED
    BY <1>2, <2>3, <2>4 DEF GeoTypes
<1>7. \A p \in 1..3 : Planes(w, h)[p].w \in Nat \ {0} /\ Planes(w, h)[p].h \in Nat \ {0}
  BY <1>4, PlaneFacts
<1>8. FlipPlace'
  <2>1. 0 \in Lines(w, h, 1) /\ 0 <= Planes(w, h)[1].h - 1 - 0
    BY <1>7 DEF Lines
  <2> QED
    BY <1>1, <1>2, <1>3, <2>1 DEF FlipPlace
<1>9. FlipProgress'
  <2> SUFFICES ASSUME NEW p \in 1..3, NEW x \in Cols(w, h, p), NEW y \in Lines(w, h, p)
               PROVE  Sample(p, x, y)' = IF FlippedLine(p, y)'
                                         THEN Turned(p, FromColumn(p, x), FromLine(p, y))'
                                         ELSE Turned(p, x, y)'
    BY <1>1 DEF FlipProgress
  <2>1. y \in 0..Planes(w, h)[p].h - 1
    BY DEF Lines
  <2>2. ~FlippedLine(p, y)'
    BY <1>1, <1>2, <1>3, <1>7, <2>1 DEF FlippedLine
  <2>3. Turned(p, x, y)' = Turned(p, x, y)
    BY <1>3 DEF Turned, Captured
  <2> QED
    BY <1>6, <2>2, <2>3
<1> QED
  BY <1>3, <1>4, <1>5, <1>8, <1>9 DEF GeoInv

LEMMA FlipRowInv == ASSUME GeoInv, FlipRow PROVE GeoInv'
<1> DEFINE q == Planes(width, height)[plane]
           there == IF todo.v THEN q.h - 1 - row ELSE row
           done == IF todo.v THEN row + 1 >= q.h - 1 - row ELSE row + 1 = q.h
           Source(p, x, y) ==
             IF p = plane /\ y \in {row, there}
             THEN Sample(p, IF todo.h THEN q.w - 1 - x ELSE x, IF y = row THEN there ELSE row)
             ELSE Sample(p, x, y)
<1>1. GeoTypes /\ Unscaled /\ todo = Compose(rotation, Flips(mirror)) /\ FlipPlace /\ FlipProgress
  BY DEF GeoInv, FlipRow
<1>2. /\ geoAt = "flip" /\ plane \in 1..3 /\ (todo.h \/ todo.v)
      /\ row \in 0..q.h - 1 /\ (todo.v => row <= q.h - 1 - row)
  <2>1. geoAt = "flip" /\ plane <= 3 /\ (todo.h \/ todo.v)
    BY DEF FlipRow, Laid
  <2>2. plane \in 1..3
    BY <1>1, <2>1 DEF FlipPlace
  <2> QED
    BY <1>1, <2>1, <2>2 DEF FlipPlace, Lines
<1>3. /\ plane' = (IF done THEN plane + 1 ELSE plane)
      /\ row' = (IF done THEN 0 ELSE row + 1)
      /\ UNCHANGED <<rotation, mirror, geoAt, width, height, todo, stride, captured>>
  BY DEF FlipRow, Laid
<1>4. GeoTypes' /\ Unscaled' /\ todo' = Compose(rotation', Flips(mirror'))
  BY <1>1, <1>3 DEF GeoTypes, Unscaled
<1>5. \A p \in 1..3 : Planes(width, height)[p].w \in Nat \ {0}
                      /\ Planes(width, height)[p].h \in Nat \ {0}
  BY <1>1, PlaneFacts DEF GeoTypes
<1>6. FlipPlace'
  <2>1. \A p \in 1..3 : Lines(width', height', p) = 0..Planes(width, height)[p].h - 1
    BY <1>3 DEF Lines
  <2>2. CASE done
    <3>1. plane' = plane + 1 /\ row' = 0
      BY <1>3, <2>2
    <3> QED
      BY SMTT(30), <1>2, <1>3, <1>5, <2>1, <3>1 DEF FlipPlace
  <2>3. CASE ~done
    <3>1. plane' = plane /\ row' = row + 1
      BY <1>3, <2>3
    <3>2. q.h \in Nat
      BY <1>2, <1>5
    <3>3. row + 1 \in 0..q.h - 1 /\ (todo.v => row + 1 <= q.h - 1 - (row + 1))
      BY <1>2, <2>3, <3>2
    <3>4. /\ plane' \in 1..3 /\ row' \in Nat /\ (todo'.h \/ todo'.v)
          /\ row' \in Lines(width', height', plane')
          /\ (todo'.v => row' <= Planes(width', height')[plane'].h - 1 - row')
      <4>1. plane' \in 1..3 /\ row' \in Nat /\ row' \in Lines(width', height', plane')
        <5>1. plane' = plane /\ plane' \in 1..3
          BY <1>2, <3>1
        <5>2. Lines(width', height', plane') = 0..q.h - 1
          BY <2>1, <5>1
        <5>3. row' \in 0..q.h - 1 /\ row' \in Nat
          BY <3>1, <3>2, <3>3
        <5> QED
          BY <5>1, <5>2, <5>3
      <4>2. (todo'.h \/ todo'.v) /\ (todo'.v => todo.v)
        BY <1>2, <1>3
      <4>3. todo'.v => row' <= Planes(width', height')[plane'].h - 1 - row'
        BY <1>3, <3>1, <3>3, <4>2
      <4> QED
        BY <4>1, <4>2, <4>3
    <3> QED
      BY <3>4 DEF FlipPlace
  <2> QED
    BY <2>2, <2>3
<1>7. ASSUME NEW p \in 1..3, NEW x \in Cols(width, height, p), NEW y \in Lines(width, height, p)
      PROVE  Sample(p, x, y)' = IF FlippedLine(p, y)'
                                THEN Turned(p, FromColumn(p, x), FromLine(p, y))
                                ELSE Turned(p, x, y)
  <2>1. Sample(p, x, y)' = Source(p, x, y)
    <3>1. PICK i : i = SampleIndex(width, height, p, x, y)
      OBVIOUS
    <3>2. /\ i \in 0..Len3(width, height) - 1 /\ PlaneOf(width, height, i) = p
          /\ ColumnOf(width, height, i) = x /\ RowOf(width, height, i) = y
      BY <1>1, <3>1, PlaceFound DEF GeoTypes
    <3>3. buf'[i] = Source(p, x, y)
      BY <3>2 DEF FlipRow, Laid
    <3> QED
      BY <1>3, <3>1, <3>3 DEF Sample
  <2>2. FlippedLine(p, y)' =
          (p < plane' \/ (p = plane' /\ (y < row' \/ (todo.v /\ y > Planes(width, height)[p].h - 1 - row'))))
    BY <1>3 DEF FlippedLine
  <2>3. y \in 0..Planes(width, height)[p].h - 1 /\ x \in 0..Planes(width, height)[p].w - 1
    BY DEF Cols, Lines
  <2>4. Sample(p, x, y) = IF FlippedLine(p, y)
                          THEN Turned(p, FromColumn(p, x), FromLine(p, y))
                          ELSE Turned(p, x, y)
    BY <1>1 DEF FlipProgress
  <2>5. CASE p # plane
    <3>1. FlippedLine(p, y)' <=> FlippedLine(p, y)
      BY <1>2, <1>3, <1>5, <2>2, <2>3, <2>5 DEF FlippedLine
    <3> QED
      BY <2>1, <2>4, <2>5, <3>1
  <2>6. CASE p = plane /\ y \notin {row, there}
    <3>1. FlippedLine(p, y)' <=> FlippedLine(p, y)
      BY <1>2, <1>3, <1>5, <2>2, <2>3, <2>6 DEF FlippedLine
    <3> QED
      BY <2>1, <2>4, <2>6, <3>1
  <2>7. CASE p = plane /\ y \in {row, there}
    <3> DEFINE z == IF y = row THEN there ELSE row
               u == FromColumn(p, x)
    <3>1. q.h \in Nat \ {0} /\ q.w \in Nat \ {0}
      BY <1>2, <1>5
    <3>2. z \in 0..q.h - 1 /\ z = FromLine(p, y)
      BY <1>2, <2>7, <3>1 DEF FromLine
    <3>3. u \in 0..q.w - 1 /\ u = (IF todo.h THEN q.w - 1 - x ELSE x)
      BY <2>3, <2>7, <3>1 DEF FromColumn
    <3>4. ~FlippedLine(p, z)
      BY <1>2, <2>7, <3>1 DEF FlippedLine
    <3>5. FlippedLine(p, y)'
      <4>1. CASE done
        <5>1. p < plane'
          BY <1>2, <1>3, <2>7, <4>1
        <5> QED
          BY <2>2, <5>1
      <4>2. CASE ~done
        <5>1. p = plane' /\ row' = row + 1
          BY <1>3, <2>7, <4>2
        <5>2. y < row' \/ (todo.v /\ y > Planes(width, height)[p].h - 1 - row')
          BY <1>2, <2>7, <3>1, <5>1
        <5> QED
          BY <2>2, <5>1, <5>2
      <4> QED
        BY <4>1, <4>2
    <3>6. Sample(p, x, y)' = Sample(p, u, z)
      BY <2>1, <2>7, <3>3
    <3>7. Sample(p, u, z) = Turned(p, u, z)
      <4>1. u \in Cols(width, height, p) /\ z \in Lines(width, height, p)
        BY <2>7, <3>2, <3>3 DEF Cols, Lines
      <4> HIDE DEF z, u
      <4> QED
        BY <1>1, <3>4, <4>1 DEF FlipProgress
    <3> QED
      BY <3>2, <3>5, <3>6, <3>7
  <2> QED
    BY <2>5, <2>6, <2>7
<1>8. FlipProgress'
  <2> SUFFICES ASSUME NEW p \in 1..3, NEW x \in Cols(width, height, p),
                      NEW y \in Lines(width, height, p)
               PROVE  Sample(p, x, y)' = IF FlippedLine(p, y)'
                                         THEN Turned(p, FromColumn(p, x), FromLine(p, y))'
                                         ELSE Turned(p, x, y)'
    BY <1>3 DEF FlipProgress
  <2>1. Turned(p, x, y)' = Turned(p, x, y)
        /\ Turned(p, FromColumn(p, x), FromLine(p, y))' = Turned(p, FromColumn(p, x), FromLine(p, y))
    BY <1>3 DEF Turned, Captured, FromColumn, FromLine
  <2> QED
    BY <1>7, <2>1
<1> QED
  BY <1>2, <1>3, <1>4, <1>6, <1>8 DEF GeoInv

(* Shown, turn by turn.                                                    *)
LEMMA ShownByTurns ==
  ASSUME GeoTypes, NEW p, NEW x, NEW y, NEW o, NEW a, NEW b,
         o = Planes(captured[1], captured[2])[p],
         a = IF Flips(mirror).h
             THEN (IF rotation \in {90, 270} THEN o.h ELSE o.w) - 1 - x ELSE x,
         b = IF Flips(mirror).v
             THEN (IF rotation \in {90, 270} THEN o.w ELSE o.h) - 1 - y ELSE y
  PROVE  /\ rotation = 0 => Shown(p, x, y) = <<a, b>>
         /\ rotation = 90 => Shown(p, x, y) = <<b, o.h - 1 - a>>
         /\ rotation = 180 => Shown(p, x, y) = <<o.w - 1 - a, o.h - 1 - b>>
         /\ rotation = 270 => Shown(p, x, y) = <<o.w - 1 - b, o.h - 1 - (o.h - 1 - a)>>
<1>1. CASE rotation = 0
  <2>1. Shown(p, x, y) = <<a, b>>
    BY <1>1 DEF Shown
  <2> QED
    BY <1>1, <2>1
<1>2. CASE rotation = 90
  <2>1. Shown(p, x, y) = Quarter(<<a, b>>, o.h)
    BY <1>2 DEF Shown
  <2> QED
    BY <1>2, <2>1 DEF Quarter
<1>3. CASE rotation = 180
  <2>1. Shown(p, x, y) = Quarter(Quarter(<<a, b>>, o.w), o.h)
    BY <1>3 DEF Shown
  <2> QED
    BY <1>3, <2>1 DEF Quarter
<1>4. CASE rotation = 270
  <2>1. Shown(p, x, y) = Quarter(Quarter(Quarter(<<a, b>>, o.h), o.w), o.h)
    BY <1>4 DEF Shown
  <2> QED
    BY <1>4, <2>1 DEF Quarter
<1> QED
  BY <1>1, <1>2, <1>3, <1>4 DEF GeoTypes

(* Half of a place counted from the other end is counted from that end.    *)
LEMMA HalfFromTheEnd ==
  ASSUME NEW n \in Side, NEW a \in 0..n - 1
  PROVE  /\ a \div 2 \in 0..(n \div 2) - 1
         /\ n - 1 - a \in 0..n - 1
         /\ (n - 1 - a) \div 2 = (n \div 2) - 1 - (a \div 2)
<1>1. PICK k \in Nat \ {0} : n = 2 * k /\ n \div 2 = k
  BY Halves
<1> QED
  BY <1>1

(* The chroma plane is shown as the luma plane it covers.                  *)
LEMMA ShownHalves ==
  ASSUME GeoTypes, Unscaled, NEW p \in {2, 3},
         NEW x \in Cols(width, height, 1), NEW y \in Lines(width, height, 1)
  PROVE  \E u \in 0..captured[1] - 1, v \in 0..captured[2] - 1 :
            /\ Shown(1, x, y) = <<u, v>>
            /\ Shown(p, x \div 2, y \div 2) = <<u \div 2, v \div 2>>
<1> DEFINE o == Planes(captured[1], captured[2])[1]
           c == Planes(captured[1], captured[2])[p]
           turned == rotation \in {90, 270}
           W == IF turned THEN captured[2] ELSE captured[1]
           H == IF turned THEN captured[1] ELSE captured[2]
           a == IF Flips(mirror).h THEN W - 1 - x ELSE x
           b == IF Flips(mirror).v THEN H - 1 - y ELSE y
           ca == IF Flips(mirror).h THEN (W \div 2) - 1 - (x \div 2) ELSE x \div 2
           cb == IF Flips(mirror).v THEN (H \div 2) - 1 - (y \div 2) ELSE y \div 2
<1>1. captured[1] \in Side /\ captured[2] \in Side /\ W \in Side /\ H \in Side
  BY DEF GeoTypes
<1>2. /\ o.w = captured[1] /\ o.h = captured[2]
      /\ c.w = captured[1] \div 2 /\ c.h = captured[2] \div 2
  <2>1. o = [off |-> 0, w |-> captured[1], h |-> captured[2]]
    BY DEF Planes
  <2>2. CASE p = 2
    <3>1. c = [off |-> captured[1] * captured[2], w |-> captured[1] \div 2,
               h |-> captured[2] \div 2]
      BY ZenonT(60), <2>2, PlaneFields
    <3> QED
      BY <2>1, <3>1
  <2>3. CASE p = 3
    <3>1. c = [off |-> captured[1] * captured[2] + (captured[1] \div 2) * (captured[2] \div 2),
               w |-> captured[1] \div 2, h |-> captured[2] \div 2]
      BY <2>3, PlaneFields
    <3> QED
      BY <2>1, <3>1
  <2> QED
    BY <2>2, <2>3
<1>3. width = W /\ height = H /\ x \in 0..W - 1 /\ y \in 0..H - 1
  <2>1. width = W /\ height = H
    BY DEF Unscaled, RotatedDims
  <2>2. Planes(width, height)[1].w = width /\ Planes(width, height)[1].h = height
    BY DEF Planes
  <2>3. x \in 0..width - 1 /\ y \in 0..height - 1
    BY <2>2 DEF Cols, Lines
  <2> QED
    BY <2>1, <2>3
<1>4. a \in 0..W - 1 /\ b \in 0..H - 1 /\ a \div 2 = ca /\ b \div 2 = cb
  BY <1>1, <1>3, HalfFromTheEnd
<1>5. /\ a = IF Flips(mirror).h
             THEN (IF rotation \in {90, 270} THEN o.h ELSE o.w) - 1 - x ELSE x
      /\ b = IF Flips(mirror).v
             THEN (IF rotation \in {90, 270} THEN o.w ELSE o.h) - 1 - y ELSE y
  BY <1>2
<1>6. /\ ca = IF Flips(mirror).h
              THEN (IF rotation \in {90, 270} THEN c.h ELSE c.w) - 1 - (x \div 2) ELSE x \div 2
      /\ cb = IF Flips(mirror).v
              THEN (IF rotation \in {90, 270} THEN c.w ELSE c.h) - 1 - (y \div 2) ELSE y \div 2
  BY <1>2
<1>7. /\ rotation = 0 => Shown(1, x, y) = <<a, b>>
      /\ rotation = 90 => Shown(1, x, y) = <<b, o.h - 1 - a>>
      /\ rotation = 180 => Shown(1, x, y) = <<o.w - 1 - a, o.h - 1 - b>>
      /\ rotation = 270 => Shown(1, x, y) = <<o.w - 1 - b, o.h - 1 - (o.h - 1 - a)>>
  <2> HIDE DEF o, a, b
  <2> QED
    BY <1>5, ShownByTurns DEF o
<1>8. /\ rotation = 0 => Shown(p, x \div 2, y \div 2) = <<ca, cb>>
      /\ rotation = 90 => Shown(p, x \div 2, y \div 2) = <<cb, c.h - 1 - ca>>
      /\ rotation = 180 => Shown(p, x \div 2, y \div 2) = <<c.w - 1 - ca, c.h - 1 - cb>>
      /\ rotation = 270 =>
           Shown(p, x \div 2, y \div 2) = <<c.w - 1 - cb, c.h - 1 - (c.h - 1 - ca)>>
  <2> HIDE DEF c, ca, cb
  <2> QED
    BY <1>6, ShownByTurns DEF c
<1>9. /\ W - 1 - a \in 0..W - 1 /\ (W - 1 - a) \div 2 = (W \div 2) - 1 - ca
      /\ H - 1 - b \in 0..H - 1 /\ (H - 1 - b) \div 2 = (H \div 2) - 1 - cb
      /\ W - 1 - (W - 1 - a) = a /\ (W \div 2) - 1 - ((W \div 2) - 1 - ca) = ca
  <2> HIDE DEF W, H, a, b, ca, cb
  <2>1. /\ W - 1 - a \in 0..W - 1 /\ (W - 1 - a) \div 2 = (W \div 2) - 1 - ca
        /\ H - 1 - b \in 0..H - 1 /\ (H - 1 - b) \div 2 = (H \div 2) - 1 - cb
    BY <1>1, <1>4, HalfFromTheEnd
  <2>2. ca \in Int /\ W \div 2 \in Int /\ W \in Int
    BY <1>1, <1>4, Halves
  <2> QED
    BY <1>4, <2>1, <2>2
<1>10. CASE rotation = 0
  <2>1. W = captured[1] /\ H = captured[2]
    BY <1>10
  <2> HIDE DEF W, H, a, b, ca, cb, o, c
  <2> QED
    BY <1>4, <1>7, <1>8, <1>10, <2>1
<1>11. CASE rotation = 90
  <2>1. W = captured[2] /\ H = captured[1]
    BY <1>11
  <2> HIDE DEF W, H, a, b, ca, cb, o, c
  <2> QED
    BY <1>2, <1>4, <1>7, <1>8, <1>9, <1>11, <2>1
<1>12. CASE rotation = 180
  <2>1. W = captured[1] /\ H = captured[2]
    BY <1>12
  <2> HIDE DEF W, H, a, b, ca, cb, o, c
  <2> QED
    BY <1>2, <1>4, <1>7, <1>8, <1>9, <1>12, <2>1
<1>13. CASE rotation = 270
  <2>1. W = captured[2] /\ H = captured[1]
    BY <1>13
  <2> HIDE DEF W, H, a, b, ca, cb, o, c
  <2> QED
    BY <1>2, <1>4, <1>7, <1>8, <1>9, <1>13, <2>1
<1> QED
  BY <1>10, <1>11, <1>12, <1>13 DEF GeoTypes

(* In an upright frame every chroma sample covers its luma samples.        *)
LEMMA UprightCovers ==
  ASSUME GeoTypes, Unscaled,
         \A p \in 1..3 : \A x \in Cols(width, height, p), y \in Lines(width, height, p) :
           Sample(p, x, y) = Captured(p, Shown(p, x, y)),
         NEW p \in {2, 3}, NEW x \in Cols(width, height, 1), NEW y \in Lines(width, height, 1)
  PROVE  /\ x \div 2 \in Cols(width, height, p) /\ y \div 2 \in Lines(width, height, p)
         /\ Sample(p, x \div 2, y \div 2) = Covering(p, Sample(1, x, y))
<1>1. width \in Side /\ height \in Side /\ captured[1] \in Side /\ captured[2] \in Side
  BY DEF GeoTypes
<1>2. x \in 0..width - 1 /\ y \in 0..height - 1
  <2>1. Planes(width, height)[1].w = width /\ Planes(width, height)[1].h = height
    BY DEF Planes
  <2> QED
    BY <2>1 DEF Cols, Lines
<1>3. x \div 2 \in 0..(width \div 2) - 1 /\ y \div 2 \in 0..(height \div 2) - 1
  BY <1>1, <1>2, HalfFromTheEnd
<1>4. x \div 2 \in Cols(width, height, p) /\ y \div 2 \in Lines(width, height, p)
  <2>1. Planes(width, height)[p].w = width \div 2 /\ Planes(width, height)[p].h = height \div 2
    BY DEF Planes
  <2> QED
    BY <1>3, <2>1 DEF Cols, Lines
<1>5. PICK u \in 0..captured[1] - 1, v \in 0..captured[2] - 1 :
        Shown(1, x, y) = <<u, v>> /\ Shown(p, x \div 2, y \div 2) = <<u \div 2, v \div 2>>
  BY ShownHalves
<1>6. Sample(1, x, y) = v * captured[1] + u
  <2>1. Sample(1, x, y) = Captured(1, <<u, v>>)
    BY <1>5
  <2>2. Captured(1, <<u, v>>) = 0 + v * captured[1] + u
    BY DEF Captured, SampleIndex, Planes
  <2>3. v * captured[1] \in Nat
    BY <1>1, ProductNat DEF Side
  <2> QED
    BY <2>1, <2>2, <2>3
<1>7. Sample(p, x \div 2, y \div 2) = Captured(p, <<u \div 2, v \div 2>>)
  BY <1>4, <1>5
<1>8. (v * captured[1] + u) % captured[1] = u /\ (v * captured[1] + u) \div captured[1] = v
  <2>1. captured[1] \in Nat \ {0} /\ captured[2] \in Nat \ {0}
    BY <1>1 DEF Side
  <2>2. v \in Nat
    BY <2>1
  <2> QED
    BY <2>1, <2>2, RowAndColumn
<1> QED
  BY <1>4, <1>6, <1>7, <1>8 DEF Covering

LEMMA FlipDoneInv == ASSUME GeoInv, FlipDone PROVE GeoInv'
<1>1. /\ geoAt = "flip" /\ (plane = 4 \/ ~(todo.h \/ todo.v)) /\ geoAt' = "oriented"
      /\ UNCHANGED <<rotation, mirror, width, height, buf, todo, plane, row, stride, captured>>
  BY DEF FlipDone
<1>2. GeoTypes /\ Unscaled /\ todo = Compose(rotation, Flips(mirror)) /\ FlipPlace /\ FlipProgress
  BY <1>1 DEF GeoInv
<1>3. GeoTypes' /\ Unscaled'
  BY <1>1, <1>2 DEF GeoTypes, Unscaled
<1>4. \A p \in 1..3 : \A x \in Cols(width, height, p), y \in Lines(width, height, p) :
        Sample(p, x, y) = Captured(p, Shown(p, x, y))
  <2> SUFFICES ASSUME NEW p \in 1..3, NEW x \in Cols(width, height, p),
                      NEW y \in Lines(width, height, p)
               PROVE  Sample(p, x, y) = Captured(p, Shown(p, x, y))
    OBVIOUS
  <2>1. Turned(p, FromColumn(p, x), FromLine(p, y)) = Captured(p, Shown(p, x, y))
    BY <1>2, TurnedThenFlipped
  <2>2. Sample(p, x, y) = IF FlippedLine(p, y)
                          THEN Turned(p, FromColumn(p, x), FromLine(p, y))
                          ELSE Turned(p, x, y)
    BY <1>2 DEF FlipProgress
  <2>3. CASE plane = 4
    <3>1. FlippedLine(p, y)
      BY <2>3 DEF FlippedLine
    <3> QED
      BY <2>1, <2>2, <3>1
  <2>4. CASE ~(todo.h \/ todo.v)
    <3>1. FromColumn(p, x) = x /\ FromLine(p, y) = y
      BY <2>4 DEF FromColumn, FromLine
    <3> QED
      BY <2>1, <2>2, <3>1
  <2> QED
    BY <1>1, <2>3, <2>4
<1>5. ViewSound'
  <2> SUFFICES ASSUME NEW p \in 1..3, NEW x \in Cols(width, height, p),
                      NEW y \in Lines(width, height, p)
               PROVE  /\ View(p, x, y)' = Captured(p, Shown(p, x, y))'
                      /\ p # 1 => View(p, x, y)' = Covering(p, View(1, 2 * x, 2 * y))'
    BY <1>1 DEF ViewSound
  <2>1. /\ View(p, x, y)' = Sample(p, x, y)
        /\ View(1, 2 * x, 2 * y)' = Sample(1, 2 * x, 2 * y)
    BY <1>1 DEF View, Sample
  <2>2. Captured(p, Shown(p, x, y))' = Captured(p, Shown(p, x, y))
    BY <1>1 DEF Captured, Shown
  <2>3. CASE p # 1
    <3>1. /\ Planes(width, height)[p].w = width \div 2
          /\ Planes(width, height)[p].h = height \div 2
          /\ Planes(width, height)[1].w = width /\ Planes(width, height)[1].h = height
      BY <2>3 DEF Planes
    <3>2. /\ width = 2 * (width \div 2) /\ width \div 2 \in Nat
          /\ height = 2 * (height \div 2) /\ height \div 2 \in Nat
      BY <1>2, Halves DEF GeoTypes
    <3>3. x \in 0..(width \div 2) - 1 /\ y \in 0..(height \div 2) - 1
      BY <3>1 DEF Cols, Lines
    <3>4. 2 * x \in 0..width - 1 /\ 2 * y \in 0..height - 1
          /\ (2 * x) \div 2 = x /\ (2 * y) \div 2 = y
      BY <3>2, <3>3
    <3>5. 2 * x \in Cols(width, height, 1) /\ 2 * y \in Lines(width, height, 1)
      BY <3>1, <3>4 DEF Cols, Lines
    <3>6. p \in {2, 3}
      BY <2>3
    <3>7. Sample(p, x, y) = Covering(p, Sample(1, 2 * x, 2 * y))
      <4> DEFINE X == 2 * x
                 Y == 2 * y
      <4> HIDE DEF X, Y
      <4>1. Sample(p, X \div 2, Y \div 2) = Covering(p, Sample(1, X, Y))
        BY <1>2, <1>4, <3>5, <3>6, UprightCovers DEF X, Y
      <4> QED
        BY <3>4, <4>1 DEF X, Y
    <3>8. Covering(p, View(1, 2 * x, 2 * y))' = Covering(p, Sample(1, 2 * x, 2 * y))
      BY <1>1, <2>1 DEF Covering, Captured
    <3> QED
      BY <1>4, <2>1, <2>2, <3>7, <3>8
  <2> QED
    BY <1>4, <2>1, <2>2, <2>3
<1> QED
  BY <1>1, <1>3, <1>5 DEF GeoInv

(* A chroma sample is that of the luma sample at twice its place.          *)
LEMMA Doubled ==
  ASSUME NEW w \in Side, NEW h \in Side, NEW p \in {2, 3},
         NEW x \in Cols(w, h, p), NEW y \in Lines(w, h, p)
  PROVE  /\ 2 * x \in Cols(w, h, 1) /\ 2 * y \in Lines(w, h, 1)
         /\ (2 * x) \div 2 = x /\ (2 * y) \div 2 = y
<1>1. /\ Planes(w, h)[p].w = w \div 2 /\ Planes(w, h)[p].h = h \div 2
      /\ Planes(w, h)[1].w = w /\ Planes(w, h)[1].h = h
  BY DEF Planes
<1>2. /\ w = 2 * (w \div 2) /\ w \div 2 \in Nat
      /\ h = 2 * (h \div 2) /\ h \div 2 \in Nat
  BY Halves
<1>3. x \in 0..(w \div 2) - 1 /\ y \in 0..(h \div 2) - 1
  BY <1>1 DEF Cols, Lines
<1>4. 2 * x \in 0..w - 1 /\ 2 * y \in 0..h - 1
      /\ (2 * x) \div 2 = x /\ (2 * y) \div 2 = y
  BY <1>2, <1>3
<1> QED
  BY <1>1, <1>4 DEF Cols, Lines

(* map_axis stays on the picture, and copies one that keeps its size.      *)
LEMMA MapAxisBound ==
  ASSUME NEW dst \in Nat \ {0}, NEW src \in Nat \ {0}, NEW d \in 0..dst - 1
  PROVE  MapAxis(d, dst, src) \in 0..src - 1 /\ (dst = src => MapAxis(d, dst, src) = d)
<1> DEFINE m == d * src
           e == m \div dst
<1>1. m \in Nat
  BY ProductNat
<1>2. e \in Nat /\ dst * e <= m
  <2> HIDE DEF m
  <2> QED
    BY <1>1
<1>3. m + src <= src * dst
  <2>1. (d + 1) * src <= dst * src
    BY ProductMono
  <2>2. (d + 1) * src = m + src /\ dst * src = src * dst
    OBVIOUS
  <2> QED
    BY <2>1, <2>2
<1>4. e < src
  <2> SUFFICES ASSUME ~(e < src) PROVE FALSE
    OBVIOUS
  <2> HIDE DEF e, m
  <2>1. src <= e
    BY <1>2
  <2>2. src * dst <= e * dst /\ e * dst = dst * e
    BY <1>2, <2>1, ProductMono
  <2>3. src * dst \in Nat /\ e * dst \in Nat
    BY <1>2, ProductNat
  <2> QED
    BY <1>1, <1>2, <1>3, <2>2, <2>3
<1>5. dst = src => e = d
  <2> SUFFICES ASSUME dst = src PROVE (d * dst) \div dst = d
    BY DEF e, m
  <2>1. (d * dst + 0) \div dst = d
    BY RowAndColumn
  <2>2. d * dst + 0 = d * dst
    BY ProductNat
  <2> QED
    BY <2>1, <2>2
<1> QED
  BY <1>2, <1>4, <1>5 DEF MapAxis

LEMMA DownscaleInv ==
  ASSUME GeoInv, NEW w \in Widths, NEW h \in Heights, Downscale(w, h)
  PROVE  GeoInv'
<1>1. /\ geoAt = "oriented" /\ w <= width /\ h <= height
      /\ width' = w /\ height' = h /\ geoAt' = "scaled"
      /\ UNCHANGED <<rotation, mirror, todo, plane, row, stride, captured>>
  BY DEF Downscale, Laid
<1>2. GeoTypes /\ Unscaled /\ ViewSound
  BY <1>1 DEF GeoInv
<1>3. w \in Side /\ h \in Side /\ width \in Side /\ height \in Side
  BY <1>2, GeoAssumption DEF GeoTypes, Side
<1>4. GeoTypes'
  BY <1>1, <1>2, <1>3 DEF GeoTypes
<1>5. \A p \in 1..3 : \A x \in Cols(width, height, p), y \in Lines(width, height, p) :
        Sample(p, x, y) = Captured(p, Shown(p, x, y))
  BY <1>1, <1>2 DEF ViewSound, View
<1>6. ASSUME NEW p \in 1..3, NEW x \in Cols(w, h, p), NEW y \in Lines(w, h, p)
      PROVE  View(p, x, y)' =
               IF p = 1 THEN Sample(1, MapAxis(x, w, width), MapAxis(y, h, height))
               ELSE Sample(p, MapAxis(2 * x, w, width) \div 2, MapAxis(2 * y, h, height) \div 2)
  <2>1. PICK i : i = SampleIndex(w, h, p, x, y)
    OBVIOUS
  <2>2. /\ i \in 0..Len3(w, h) - 1
        /\ PlaneOf(w, h, i) = p /\ ColumnOf(w, h, i) = x /\ RowOf(w, h, i) = y
    BY <1>3, <2>1, PlaceFound
  <2>3. buf'[i] = IF p = 1 THEN Sample(1, MapAxis(x, w, width), MapAxis(y, h, height))
                  ELSE Sample(p, MapAxis(2 * x, w, width) \div 2,
                              MapAxis(2 * y, h, height) \div 2)
    BY <2>2 DEF Downscale, Laid
  <2>4. View(p, x, y)' = buf'[SampleIndex(w, h, p, x, y)]
    BY <1>1 DEF View, Sample
  <2> QED
    BY <2>1, <2>3, <2>4
<1>7. ViewSound'
  <2> SUFFICES ASSUME NEW p \in 1..3, NEW x \in Cols(w, h, p), NEW y \in Lines(w, h, p)
               PROVE  /\ Unscaled' => View(p, x, y)' = Captured(p, Shown(p, x, y))'
                      /\ p # 1 => View(p, x, y)' = Covering(p, View(1, 2 * x, 2 * y))'
    BY <1>1 DEF ViewSound
  <2>1. CASE p = 1
    <3>1. /\ Planes(w, h)[1].w = w /\ Planes(w, h)[1].h = h
          /\ Planes(width, height)[1].w = width /\ Planes(width, height)[1].h = height
      BY DEF Planes
    <3>2. View(p, x, y)' = Sample(1, MapAxis(x, w, width), MapAxis(y, h, height))
      BY <1>6, <2>1
    <3>3. ASSUME Unscaled' PROVE View(p, x, y)' = Captured(p, Shown(p, x, y))'
      <4>1. w = width /\ h = height
        BY <1>1, <1>2, <3>3 DEF Unscaled
      <4>2. x \in 0..w - 1 /\ y \in 0..h - 1 /\ w \in Nat \ {0} /\ h \in Nat \ {0}
        BY <1>3, <2>1, <3>1 DEF Cols, Lines, Side
      <4>3. MapAxis(x, w, w) = x /\ MapAxis(y, h, h) = y
        BY <4>2, MapAxisBound
      <4>4. View(p, x, y)' = Captured(p, Shown(p, x, y))
        BY <1>5, <2>1, <3>2, <4>1, <4>3
      <4> QED
        BY <1>1, <4>4 DEF Captured, Shown
    <3> QED
      BY <2>1, <3>3
  <2>2. CASE p # 1
    <3> DEFINE X == MapAxis(2 * x, w, width)
               Y == MapAxis(2 * y, h, height)
    <3>1. p \in {2, 3}
      BY <2>2
    <3>2. /\ 2 * x \in Cols(w, h, 1) /\ 2 * y \in Lines(w, h, 1)
          /\ (2 * x) \div 2 = x /\ (2 * y) \div 2 = y
      BY <1>3, <3>1, Doubled
    <3>3. /\ Planes(w, h)[1].w = w /\ Planes(w, h)[1].h = h
          /\ Planes(width, height)[1].w = width /\ Planes(width, height)[1].h = height
      BY DEF Planes
    <3>4. 2 * x \in 0..w - 1 /\ 2 * y \in 0..h - 1
      BY <3>2, <3>3 DEF Cols, Lines
    <3>5. /\ w \in Nat \ {0} /\ h \in Nat \ {0} /\ width \in Nat \ {0} /\ height \in Nat \ {0}
      BY <1>3 DEF Side
    <3>6. /\ X \in 0..width - 1 /\ (w = width => X = 2 * x)
          /\ Y \in 0..height - 1 /\ (h = height => Y = 2 * y)
      BY <3>4, <3>5, MapAxisBound
    <3>7. X \in Cols(width, height, 1) /\ Y \in Lines(width, height, 1)
      BY <3>3, <3>6 DEF Cols, Lines
    <3>8. View(p, x, y)' = Sample(p, X \div 2, Y \div 2)
      BY <1>6, <2>2
    <3>9. View(1, 2 * x, 2 * y)' = Sample(1, X, Y)
      BY <1>6, <3>2
    <3> HIDE DEF X, Y
    <3>10. /\ X \div 2 \in Cols(width, height, p) /\ Y \div 2 \in Lines(width, height, p)
           /\ Sample(p, X \div 2, Y \div 2) = Covering(p, Sample(1, X, Y))
      BY <1>2, <1>5, <3>1, <3>7, UprightCovers
    <3>11. Covering(p, View(1, 2 * x, 2 * y))' = Covering(p, Sample(1, X, Y))
      BY <1>1, <3>9 DEF Covering, Captured
    <3>12. ASSUME Unscaled' PROVE View(p, x, y)' = Captured(p, Shown(p, x, y))'
      <4>1. w = width /\ h = height
        BY <1>1, <1>2, <3>12 DEF Unscaled
      <4>2. X \div 2 = x /\ Y \div 2 = y
        BY <3>2, <3>6, <4>1
      <4>3. View(p, x, y)' = Captured(p, Shown(p, x, y))
        BY <1>5, <3>8, <3>10, <4>2
      <4> QED
        BY <1>1, <4>3 DEF Captured, Shown
    <3> QED
      BY <3>8, <3>10, <3>11, <3>12
  <2> QED
    BY <2>1, <2>2
<1> QED
  BY <1>1, <1>4, <1>7 DEF GeoInv

(* Rounded up to a multiple, a number does not shrink.                     *)
LEMMA RoundedUp ==
  ASSUME NEW n \in Nat, NEW a \in Nat \ {0}
  PROVE  ((n + a - 1) \div a) * a \in Nat /\ n <= ((n + a - 1) \div a) * a
<1> DEFINE m == n + a - 1
           e == m \div a
<1>1. m \in Nat
  OBVIOUS
<1>2. e \in Nat /\ m = a * e + (m % a) /\ m % a \in 0..a - 1
  <2> HIDE DEF m
  <2> QED
    BY <1>1
<1>3. e * a = a * e /\ e * a \in Nat
  <2> HIDE DEF e, m
  <2> QED
    BY <1>2, ProductNat
<1>4. n <= e * a
  <2>1. m = n + a - 1
    OBVIOUS
  <2> HIDE DEF e, m
  <2> QED
    BY <1>2, <1>3, <2>1
<1> QED
  BY <1>3, <1>4

(* The padded buffer, read by stride, is the frame.                        *)
LEMMA PadKeeps ==
  ASSUME GeoTypes, Pad, NEW p \in 1..3,
         NEW x \in Cols(width, height, p), NEW y \in Lines(width, height, p)
  PROVE  View(p, x, y)' = Sample(p, x, y)
<1>1. PICK s, c, hh, u, d :
        s = stride' /\ c = s \div 2 /\ hh = height \div 2 /\ u = s * height /\ d = c * hh
  OBVIOUS
<1> DEFINE wide == PadWide(s, p)
           lines == IF p = 1 THEN height ELSE hh
           first == PadStart(s, height, p)
           j == first + (y * wide + x)
<1>2. /\ width \in Nat \ {0} /\ height \in Nat \ {0}
      /\ width \div 2 \in Nat \ {0} /\ hh \in Nat \ {0}
  BY <1>1, Halves DEF GeoTypes
<1>3. /\ geoAt' = "padded" /\ s = ((width + Align - 1) \div Align) * Align
      /\ UNCHANGED <<rotation, mirror, width, height, todo, plane, row, captured>>
  BY <1>1 DEF Pad
<1>4. s \in Nat /\ width <= s
  BY <1>2, <1>3, RoundedUp, GeoAssumption
<1>5. c \in Nat /\ width \div 2 <= c
  <2>1. c = s \div 2
    BY <1>1
  <2> QED
    BY <1>2, <1>4, <2>1
<1>6. u \in Nat /\ d \in Nat
  BY <1>1, <1>2, <1>4, <1>5, ProductNat
<1>7. /\ Planes(width, height)[1].w = width /\ Planes(width, height)[1].h = height
      /\ p # 1 => /\ Planes(width, height)[p].w = width \div 2
                  /\ Planes(width, height)[p].h = hh
  BY <1>1 DEF Planes
<1>8. /\ PadStart(s, height, 1) = 0 /\ PadStart(s, height, 2) = u
      /\ PadStart(s, height, 3) = u + d
      /\ wide = (IF p = 1 THEN s ELSE c) /\ PadWide(s, 3) = c
  BY <1>1 DEF PadStart, PadWide
<1>9. /\ wide \in Nat \ {0} /\ lines \in Nat \ {0} /\ x \in 0..wide - 1 /\ y \in 0..lines - 1
      /\ x < Planes(width, height)[p].w
  <2>1. CASE p = 1
    BY <1>2, <1>4, <1>7, <1>8, <2>1 DEF Cols, Lines
  <2>2. CASE p # 1
    BY <1>2, <1>5, <1>7, <1>8, <2>2 DEF Cols, Lines
  <2> QED
    BY <2>1, <2>2
<1>10. wide * lines = IF p = 1 THEN u ELSE d
  BY <1>1, <1>8
<1> HIDE DEF wide, lines
<1>11. y * wide + x \in 0..(wide * lines) - 1
  <2>1. (y + 1) * wide <= lines * wide
    BY <1>9, ProductMono
  <2>2. (y + 1) * wide = y * wide + wide /\ lines * wide = wide * lines
    BY <1>9
  <2>3. y * wide \in Nat /\ wide * lines \in Nat
    BY <1>9, ProductNat
  <2> QED
    BY <1>9, <2>1, <2>2, <2>3
<1>12. (y * wide + x) % wide = x /\ (y * wide + x) \div wide = y
  <2>1. y \in Nat
    BY <1>9
  <2> QED
    BY <1>9, <2>1, RowAndColumn
<1>13. /\ j \in 0..PadStart(s, height, 3) + PadWide(s, 3) * (height \div 2) - 1
       /\ PadPlane(s, height, j) = p /\ j - first = y * wide + x
  <2>1. PadWide(s, 3) * (height \div 2) = d
    BY <1>1, <1>8
  <2>2. p = 1 \/ p = 2 \/ p = 3
    OBVIOUS
  <2>3. j - first = y * wide + x /\ j \in Nat
    BY <1>6, <1>8, <1>11, <2>2
  <2>4. PadPlane(s, height, j) = p
    BY <1>6, <1>8, <1>10, <1>11, <2>2 DEF PadPlane
  <2> QED
    BY <1>6, <1>8, <1>10, <1>11, <2>1, <2>2, <2>3, <2>4
<1>14. View(p, x, y)' = buf'[j]
  <2>1. View(p, x, y)' = buf'[first + y * wide + x]
    BY <1>1, <1>3 DEF View, PadStart, PadWide, wide
  <2>2. first \in Int /\ y * wide \in Int /\ x \in Int
    BY <1>6, <1>8, <1>9, ProductNat
  <2> HIDE DEF first
  <2>3. first + y * wide + x = j
    BY <2>2
  <2> QED
    BY <2>1, <2>3
<1> HIDE DEF first, j
<1>15. buf'[j] = IF (y * wide + x) % wide < Planes(width, height)[p].w
                 THEN Sample(p, (y * wide + x) % wide, (y * wide + x) \div wide) ELSE Empty
  BY <1>1, <1>13 DEF Pad, wide, first
<1> QED
  BY <1>9, <1>12, <1>14, <1>15

LEMMA PadInv == ASSUME GeoInv, Pad PROVE GeoInv'
<1>1. /\ geoAt \in {"oriented", "scaled"} /\ geoAt' = "padded"
      /\ UNCHANGED <<rotation, mirror, width, height, todo, plane, row, captured>>
  BY DEF Pad
<1>2. GeoTypes /\ ViewSound
  BY <1>1 DEF GeoInv
<1>3. GeoTypes'
  BY <1>1, <1>2 DEF GeoTypes
<1>4. ASSUME NEW p \in 1..3, NEW x \in Cols(width, height, p), NEW y \in Lines(width, height, p)
      PROVE  View(p, x, y)' = View(p, x, y)
  <2>1. View(p, x, y)' = Sample(p, x, y)
    BY <1>2, PadKeeps
  <2>2. View(p, x, y) = Sample(p, x, y)
    BY <1>1 DEF View
  <2> QED
    BY <2>1, <2>2
<1>5. ViewSound'
  <2> SUFFICES ASSUME NEW p \in 1..3, NEW x \in Cols(width, height, p),
                      NEW y \in Lines(width, height, p)
               PROVE  /\ Unscaled' => View(p, x, y)' = Captured(p, Shown(p, x, y))'
                      /\ p # 1 => View(p, x, y)' = Covering(p, View(1, 2 * x, 2 * y))'
    BY <1>1 DEF ViewSound
  <2>1. /\ Unscaled => View(p, x, y) = Captured(p, Shown(p, x, y))
        /\ p # 1 => View(p, x, y) = Covering(p, View(1, 2 * x, 2 * y))
    BY <1>2 DEF ViewSound
  <2>2. View(p, x, y)' = View(p, x, y)
    BY <1>4
  <2>3. Unscaled' = Unscaled /\ Captured(p, Shown(p, x, y))' = Captured(p, Shown(p, x, y))
    BY <1>1 DEF Unscaled, Captured, Shown
  <2>4. ASSUME p # 1
        PROVE  Covering(p, View(1, 2 * x, 2 * y))' = Covering(p, View(1, 2 * x, 2 * y))
    <3>1. 2 * x \in Cols(width, height, 1) /\ 2 * y \in Lines(width, height, 1)
      <4>1. p \in {2, 3} /\ width \in Side /\ height \in Side
        BY <1>2, <2>4 DEF GeoTypes
      <4> QED
        BY <4>1, Doubled
    <3>2. View(1, 2 * x, 2 * y)' = View(1, 2 * x, 2 * y)
      <4> DEFINE X == 2 * x
                 Y == 2 * y
      <4> HIDE DEF X, Y
      <4>1. View(1, X, Y)' = View(1, X, Y)
        BY <1>4, <3>1 DEF X, Y
      <4> QED
        BY <4>1 DEF X, Y
    <3> QED
      BY <1>1, <3>2 DEF Covering, Captured
  <2> QED
    BY <2>1, <2>2, <2>3, <2>4
<1> QED
  BY <1>1, <1>3, <1>5 DEF GeoInv

LEMMA GeoStays == ASSUME GeoInv, UNCHANGED geoVars PROVE GeoInv'
<1>1. UNCHANGED <<rotation, mirror, geoAt, width, height, buf, todo, plane, row, stride, captured>>
  BY DEF geoVars
<1>2. GeoTypes' = GeoTypes /\ Unscaled' = Unscaled /\ FlipPlace' = FlipPlace
  BY <1>1 DEF GeoTypes, Unscaled, FlipPlace, Lines
<1>3. FlipProgress' = FlipProgress
  BY <1>1 DEF FlipProgress, Sample, FlippedLine, Turned, Captured, FromColumn, FromLine, Cols, Lines
<1>4. ViewSound' = ViewSound
  BY <1>1, <1>2 DEF ViewSound, View, Sample, Captured, Shown, Covering, Cols, Lines, Unscaled
<1> QED
  BY <1>1, <1>2, <1>3, <1>4 DEF GeoInv, Sample, Captured, Cols, Lines

-----------------------------------------------------------------------------
(* The pixels of a picture, from a frame that is upright.                  *)

LEMMA PixelPlanes ==
  ASSUME GeoTypes, NEW x \in Cols(width, height, 1), NEW y \in Lines(width, height, 1)
  PROVE  RgbPixel(x, y) = <<Sample(1, x, y), Sample(2, x \div 2, y \div 2),
                            Sample(3, x \div 2, y \div 2)>>
<1>1. PICK a, b : a = width \div 2 /\ b = height \div 2
  OBVIOUS
<1>2. PICK s, d : s = width * height /\ d = a * b
  OBVIOUS
<1>3. /\ width \in Nat \ {0} /\ height \in Nat \ {0} /\ a \in Nat \ {0} /\ b \in Nat \ {0}
      /\ width = 2 * a /\ height = 2 * b
  BY <1>1, Halves DEF GeoTypes
<1>4. s \in Nat /\ d \in Nat
  BY <1>2, <1>3, ProductNat
<1>5. s \div 4 = d
  <2>1. s = 4 * d
    BY <1>2, <1>3
  <2> QED
    BY <1>4, <2>1
<1>6. PICK i, j, k : /\ i = y * width + x
                     /\ k = (y \div 2) * a
                     /\ j = k + x \div 2
  OBVIOUS
<1>7. x \in Nat /\ y \in Nat
  <2>1. Planes(width, height)[1].w = width /\ Planes(width, height)[1].h = height
    BY DEF Planes
  <2> QED
    BY <1>3, <2>1 DEF Cols, Lines
<1>8. k \in Nat /\ x \div 2 \in Nat /\ y * width \in Nat
  <2>1. x \div 2 \in Nat /\ y \div 2 \in Nat
    BY <1>7
  <2> QED
    BY <1>3, <1>6, <1>7, <2>1, ProductNat
<1>9. Sample(1, x, y) = buf[i]
  <2>1. SampleIndex(width, height, 1, x, y) = 0 + y * width + x
    BY DEF SampleIndex, Planes
  <2> QED
    BY <1>6, <1>7, <1>8, <2>1 DEF Sample
<1>10. Sample(2, x \div 2, y \div 2) = buf[s + j]
  <2>1. SampleIndex(width, height, 2, x \div 2, y \div 2) = s + k + x \div 2
    BY <1>1, <1>2, <1>6 DEF SampleIndex, Planes
  <2> QED
    BY <1>4, <1>6, <1>8, <2>1 DEF Sample
<1>11. Sample(3, x \div 2, y \div 2) = buf[s + s \div 4 + j]
  <2>1. SampleIndex(width, height, 3, x \div 2, y \div 2) = s + d + k + x \div 2
    BY <1>1, <1>2, <1>6 DEF SampleIndex, Planes
  <2> QED
    BY <1>4, <1>5, <1>6, <1>8, <2>1 DEF Sample
<1>12. RgbPixel(x, y) = <<buf[i], buf[s + j], buf[s + s \div 4 + j]>>
  BY <1>1, <1>2, <1>6 DEF RgbPixel
<1> QED
  BY <1>9, <1>10, <1>11, <1>12

LEMMA ViewIsUpright == GeoInv => UprightFrames
<1> SUFFICES ASSUME GeoInv, geoAt \notin {"captured", "flip"},
                    NEW p \in 1..3,
                    NEW x \in Cols(width, height, p), NEW y \in Lines(width, height, p)
             PROVE  /\ Unscaled => View(p, x, y) = Captured(p, Shown(p, x, y))
                    /\ p # 1 => View(p, x, y) = Covering(p, View(1, 2 * x, 2 * y))
                    /\ p = 1 /\ geoAt = "oriented" =>
                         RgbPixel(x, y) = <<View(1, x, y), View(2, x \div 2, y \div 2),
                                            View(3, x \div 2, y \div 2)>>
                    /\ p = 2 /\ geoAt = "oriented" =>
                         LivePixel(x, y) = <<View(1, 2 * x, 2 * y), View(2, x, y), View(3, x, y)>>
  BY DEF UprightFrames, Cols, Lines
<1>1. GeoTypes /\ geoAt \in {"oriented", "scaled", "padded"} /\ ViewSound
  BY DEF GeoInv, GeoTypes
<1>2. ASSUME geoAt = "oriented", NEW q, NEW u, NEW v PROVE View(q, u, v) = Sample(q, u, v)
  BY <1>2 DEF View
<1>3. ASSUME p = 1, geoAt = "oriented"
      PROVE  RgbPixel(x, y) = <<View(1, x, y), View(2, x \div 2, y \div 2),
                                View(3, x \div 2, y \div 2)>>
  BY <1>1, <1>2, <1>3, PixelPlanes
<1>4. ASSUME p = 2, geoAt = "oriented"
      PROVE  LivePixel(x, y) = <<View(1, 2 * x, 2 * y), View(2, x, y), View(3, x, y)>>
  <2>1. /\ 2 * x \in Cols(width, height, 1) /\ 2 * y \in Lines(width, height, 1)
        /\ (2 * x) \div 2 = x /\ (2 * y) \div 2 = y
    <3>1. p \in {2, 3} /\ width \in Side /\ height \in Side
      BY <1>1, <1>4 DEF GeoTypes
    <3> QED
      BY <3>1, Doubled
  <2> DEFINE X == 2 * x
             Y == 2 * y
  <2> HIDE DEF X, Y
  <2>2. RgbPixel(X, Y) = <<Sample(1, X, Y), Sample(2, X \div 2, Y \div 2),
                           Sample(3, X \div 2, Y \div 2)>>
    BY <1>1, <2>1, PixelPlanes DEF X, Y
  <2>3. LivePixel(x, y) = RgbPixel(X, Y)
    BY DEF LivePixel, X, Y
  <2> QED
    BY <1>2, <1>4, <2>1, <2>2, <2>3 DEF X, Y
<1> QED
  BY <1>1, <1>3, <1>4 DEF ViewSound

\* Every step on a frame keeps what it has dealt with and what it has not.
LEMMA GeoNextInv == GeoInv /\ [GeoNext]_geoVars => GeoInv'
<1> SUFFICES ASSUME GeoInv, [GeoNext]_geoVars PROVE GeoInv'
  OBVIOUS
<1>1. CASE Rotate
  BY <1>1, RotateInv
<1>2. CASE FlipRow
  BY <1>2, FlipRowInv
<1>3. CASE FlipDone
  BY <1>3, FlipDoneInv
<1>4. CASE Pad
  BY <1>4, PadInv
<1>5. CASE \E w \in Widths, h \in Heights : Downscale(w, h)
  BY <1>5, DownscaleInv
<1>6. CASE UNCHANGED geoVars
  BY <1>6, GeoStays
<1> QED
  BY <1>1, <1>2, <1>3, <1>4, <1>5, <1>6 DEF GeoNext

(* The frame every consumer gets is the captured one turned and mirrored,  *)
(* for every size, turn and mirror: in all planes alike, scaled and padded *)
(* included, and pixel by pixel in a snapshot.                             *)
THEOREM UprightFramesAlways == GeoSpec => []UprightFrames
BY GeoInitInv, GeoNextInv, ViewIsUpright, PTL DEF GeoSpec

-----------------------------------------------------------------------------
(* The buffers of one side, parted between places.                         *)

\* no buffer twice in one place, or in two
Parted(p) ==
  \A k, l \in DOMAIN p : \A i \in DOMAIN p[k], j \in DOMAIN p[l] :
     p[k][i] = p[l][j] => k = l /\ i = j

\* x is in none of the places
Absent(p, x) == \A k \in DOMAIN p : \A i \in DOMAIN p[k] : p[k][i] # x

\* from p to q: place a loses its head; place b gains x at its end
Loses(p, q, a) ==
  p[a] # <<>> /\ q[a] = Tail(p[a]) /\ \A k \in DOMAIN p : k # a => q[k] = p[k]

Gains(p, q, b, x) ==
  q[b] = Append(p[b], x) /\ \A k \in DOMAIN p : k # b => q[k] = p[k]

BufsOf(q) == [i \in DOMAIN q |-> q[i].buf]

OutHand == IF poller.at = "output" THEN <<poller.buf>> ELSE <<>>

CapHand == IF poller.at \in {"capture", "handler"} THEN <<poller.buf>> ELSE <<>>

OutPlaces == <<outFree, BufsOf(outQueued), outSpent, OutHand>>

CapPlaces == <<capEmpty, BufsOf(capFull), <<>>, CapHand>>

Held(p) == Len(p[1]) + Len(p[2]) + Len(p[3]) + Len(p[4])

-----------------------------------------------------------------------------
(* The inductive invariant, in parts.                                      *)

M2mTypes ==
  /\ outFree \in Seq(OutBuf) /\ outSpent \in Seq(OutBuf)
  /\ outQueued \in Seq([buf : OutBuf, frame : Nat])
  /\ capEmpty \in Seq(CapBuf)
  /\ capFull \in Seq([buf : CapBuf, frame : Nat, fits : BOOLEAN])
  /\ userData \in Seq(Nat)
  /\ produced \in Seq([frame : Nat, user : Nat])
  /\ encodes \in Nat
  /\ DOMAIN poller = {"at", "buf", "frame", "user", "fits"}
  /\ poller.at = "output" => poller.buf \in OutBuf
  /\ poller.at \in {"capture", "handler"} => poller.buf \in CapBuf
  /\ poller.at \in {"capture", "handler"} => poller.frame \in Nat
  /\ poller.at = "handler" => poller.user = poller.frame
  /\ capLost \in SUBSET CapBuf

OutSound == Parted(OutPlaces) /\ Held(OutPlaces) = Cardinality(OutBuf)

CapSound ==
  /\ Parted(CapPlaces)
  /\ \A x \in capLost : Absent(CapPlaces, x)
  /\ Held(CapPlaces) + Cardinality(capLost) = Cardinality(CapBuf)

\* how many frames of the line the poller holds
Taken == IF poller.at = "capture" THEN 1 ELSE 0

\* The user data is the line of the frames that are under way.
DataLine ==
  /\ Len(userData) = Taken + Len(capFull) + Len(outQueued)
  /\ Taken = 1 => userData[1] = poller.frame
  /\ \A i \in 1..Len(capFull) : userData[Taken + i] = capFull[i].frame
  /\ \A i \in 1..Len(outQueued) : userData[Taken + Len(capFull) + i] = outQueued[i].frame

\* The line rises, past every frame handed on and up to the newest.
Rises ==
  /\ \A i, j \in 1..Len(userData) : i < j => userData[i] < userData[j]
  /\ \A i \in 1..Len(userData) : userData[i] <= encodes
  /\ \A i \in 1..Len(produced), j \in 1..Len(userData) : produced[i].frame < userData[j]
  /\ \A i \in 1..Len(produced) : produced[i].frame <= encodes
  /\ poller.at = "handler" =>
       /\ poller.frame <= encodes
       /\ \A i \in 1..Len(produced) : produced[i].frame < poller.frame
       /\ \A j \in 1..Len(userData) : poller.frame < userData[j]

Pairs ==
  /\ \A i \in 1..Len(produced) : produced[i].frame = produced[i].user
  /\ \A i, j \in 1..Len(produced) : i < j => produced[i].frame < produced[j].frame

M2mInv == M2mTypes /\ OutSound /\ CapSound /\ DataLine /\ Rises /\ Pairs

-----------------------------------------------------------------------------
(* Buffers that move.                                                      *)

\* What is left of a place its head was taken from.
LEMMA Shifted ==
  ASSUME NEW S, NEW s \in Seq(S), NEW t \in Seq(S), s # <<>>, t = Tail(s)
  PROVE  /\ \A i \in DOMAIN t : \E m \in DOMAIN s : t[i] = s[m] /\ m # 1
         /\ (\A x, y \in DOMAIN s : s[x] = s[y] => x = y)
              => \A i, j \in DOMAIN t : t[i] = t[j] => i = j
         /\ 1 \in DOMAIN s /\ Head(s) = s[1]
<1>1. Len(s) \in Nat \ {0} /\ Len(t) = Len(s) - 1  OBVIOUS
<1>2. \A i \in DOMAIN t : i \in Nat \ {0} /\ i + 1 \in DOMAIN s /\ t[i] = s[i + 1]
  BY <1>1
<1>3. \A i \in DOMAIN t : \E m \in DOMAIN s : t[i] = s[m] /\ m # 1
  <2> TAKE i \in DOMAIN t
  <2>1. i + 1 \in DOMAIN s /\ t[i] = s[i + 1] /\ i + 1 # 1  BY <1>2
  <2> QED  BY <2>1
<1>4. ASSUME \A x, y \in DOMAIN s : s[x] = s[y] => x = y,
             NEW i \in DOMAIN t, NEW j \in DOMAIN t, t[i] = t[j]
      PROVE  i = j
  <2>1. i + 1 \in DOMAIN s /\ t[i] = s[i + 1]  BY <1>2
  <2>2. j + 1 \in DOMAIN s /\ t[j] = s[j + 1]  BY <1>2
  <2>3. i + 1 = j + 1  BY <2>1, <2>2, <1>4
  <2> QED  BY <2>3, <1>2
<1> QED  BY <1>1, <1>3, <1>4

\* The head of a place leaves the side altogether.
LEMMA LosePart ==
  ASSUME NEW K, NEW S, NEW p \in [K -> Seq(S)], NEW q \in [K -> Seq(S)],
         NEW a \in K, Loses(p, q, a), Parted(p)
  PROVE  Parted(q) /\ Absent(q, Head(p[a]))
<1>0. DOMAIN p = K /\ DOMAIN q = K  OBVIOUS
<1>1. /\ p[a] \in Seq(S) /\ q[a] \in Seq(S) /\ p[a] # <<>> /\ q[a] = Tail(p[a])
      /\ \A k \in K : k # a => q[k] = p[k]
  BY <1>0 DEF Loses
<1>2. \A k, l \in K : \A i \in DOMAIN p[k], j \in DOMAIN p[l] :
        p[k][i] = p[l][j] => k = l /\ i = j
  <2>1. DOMAIN p = K  OBVIOUS
  <2> QED  BY <2>1 DEF Parted
<1>3. /\ \A i \in DOMAIN q[a] : \E m \in DOMAIN p[a] : q[a][i] = p[a][m] /\ m # 1
      /\ \A i, j \in DOMAIN q[a] : q[a][i] = q[a][j] => i = j
      /\ 1 \in DOMAIN p[a] /\ Head(p[a]) = p[a][1]
  <2>1. \A x, y \in DOMAIN p[a] : p[a][x] = p[a][y] => x = y  BY <1>2
  <2> DEFINE s == p[a]  t == q[a]
  <2>2. s \in Seq(S) /\ t \in Seq(S) /\ s # <<>> /\ t = Tail(s)  BY <1>1
  <2> HIDE DEF s, t
  <2>3. /\ \A i \in DOMAIN t : \E m \in DOMAIN s : t[i] = s[m] /\ m # 1
        /\ (\A x, y \in DOMAIN s : s[x] = s[y] => x = y)
             => \A i, j \in DOMAIN t : t[i] = t[j] => i = j
        /\ 1 \in DOMAIN s /\ Head(s) = s[1]
    BY <2>2, Shifted
  <2> QED  BY <2>1, <2>3 DEF s, t
<1>4. \A k \in K : k # a => q[k] = p[k]  BY <1>1
<1>5. \A k \in K : \A i \in DOMAIN q[k] :
        \E m \in DOMAIN p[k] : q[k][i] = p[k][m] /\ (k = a => m # 1)
  <2> TAKE k \in K
  <2> TAKE i \in DOMAIN q[k]
  <2>1. CASE k = a  BY <2>1, <1>3
  <2>2. CASE k # a
    <3>1. q[k] = p[k]  BY <2>2, <1>4
    <3> QED  BY <3>1, <2>2
  <2> QED  BY <2>1, <2>2
<1>6. Parted(q)
  <2> SUFFICES ASSUME NEW k \in K, NEW l \in K,
                      NEW i \in DOMAIN q[k], NEW j \in DOMAIN q[l], q[k][i] = q[l][j]
               PROVE  k = l /\ i = j
    <3>1. DOMAIN q = K  OBVIOUS
    <3> QED  BY <3>1 DEF Parted
  <2>1. PICK m \in DOMAIN p[k] : q[k][i] = p[k][m]  BY <1>5
  <2>2. PICK n \in DOMAIN p[l] : q[l][j] = p[l][n]  BY <1>5
  <2>3. p[k][m] = p[l][n]  BY <2>1, <2>2
  <2>4. k = l  BY <2>3, <1>2
  <2>5. CASE k = a  BY <2>4, <2>5, <1>3
  <2>6. CASE k # a  BY <2>4, <2>6, <1>2, <1>4
  <2> QED  BY <2>4, <2>5, <2>6
<1>7. \A k \in K : \A i \in DOMAIN q[k] : q[k][i] # p[a][1]
  <2> TAKE k \in K
  <2> TAKE i \in DOMAIN q[k]
  <2>1. PICK m \in DOMAIN p[k] : q[k][i] = p[k][m] /\ (k = a => m # 1)  BY <1>5
  <2> QED  BY <2>1, <1>2, <1>3
<1> QED  BY <1>0, <1>3, <1>6, <1>7 DEF Absent


\* A buffer that is in no place joins the end of one.
LEMMA GainPart ==
  ASSUME NEW K, NEW S, NEW p \in [K -> Seq(S)], NEW q \in [K -> Seq(S)],
         NEW b \in K, NEW x \in S, Gains(p, q, b, x), Parted(p), Absent(p, x)
  PROVE  Parted(q)
<1>0. /\ q[b] = Append(p[b], x) /\ \A k \in K : k # b => q[k] = p[k]
      /\ \A k \in K : \A i \in DOMAIN p[k] : p[k][i] # x
  <2>1. DOMAIN p = K  OBVIOUS
  <2> QED  BY <2>1 DEF Gains, Absent
<1>1. \A k, l \in K : \A i \in DOMAIN p[k], j \in DOMAIN p[l] :
        p[k][i] = p[l][j] => k = l /\ i = j
  <2>1. DOMAIN p = K  OBVIOUS
  <2> QED  BY <2>1 DEF Parted
<1>2. \A i \in DOMAIN q[b] : \/ i \in DOMAIN p[b] /\ q[b][i] = p[b][i]
                             \/ i = Len(p[b]) + 1 /\ q[b][i] = x
  <2>1. p[b] \in Seq(S)  OBVIOUS
  <2> QED  BY <2>1, <1>0
<1>3. \A k \in K : \A i \in DOMAIN q[k] :
        \/ i \in DOMAIN p[k] /\ q[k][i] = p[k][i]
        \/ k = b /\ i = Len(p[b]) + 1 /\ q[k][i] = x
  <2> TAKE k \in K
  <2> TAKE i \in DOMAIN q[k]
  <2>1. CASE k = b  BY <2>1, <1>2
  <2>2. CASE k # b
    <3>1. q[k] = p[k]  BY <2>2, <1>0
    <3> QED  BY <3>1
  <2> QED  BY <2>1, <2>2
<1>4. SUFFICES ASSUME NEW k \in K, NEW l \in K,
                      NEW i \in DOMAIN q[k], NEW j \in DOMAIN q[l], q[k][i] = q[l][j]
               PROVE  k = l /\ i = j
  <2>1. DOMAIN q = K  OBVIOUS
  <2> QED  BY <2>1 DEF Parted
<1>5. CASE i \in DOMAIN p[k] /\ q[k][i] = p[k][i]
  <2>1. CASE j \in DOMAIN p[l] /\ q[l][j] = p[l][j]
    <3>1. p[k][i] = p[l][j]  BY <2>1, <1>4, <1>5
    <3> QED  BY <3>1, <2>1, <1>1, <1>5
  <2>2. CASE q[l][j] = x
    <3>1. p[k][i] = x  BY <2>2, <1>4, <1>5
    <3> QED  BY <3>1, <1>5, <1>0
  <2> QED  BY <2>1, <2>2, <1>3
<1>6. CASE k = b /\ i = Len(p[b]) + 1 /\ q[k][i] = x
  <2>1. CASE j \in DOMAIN p[l] /\ q[l][j] = p[l][j]
    <3>1. p[l][j] = x  BY <2>1, <1>4, <1>6
    <3> QED  BY <3>1, <2>1, <1>0
  <2>2. CASE l = b /\ j = Len(p[b]) + 1
    BY <2>2, <1>6
  <2> QED  BY <2>1, <2>2, <1>3
<1> QED  BY <1>5, <1>6, <1>3

LEMMA MovePart ==
  ASSUME NEW K, NEW S, NEW p \in [K -> Seq(S)], NEW mid \in [K -> Seq(S)],
         NEW q \in [K -> Seq(S)], NEW a \in K, NEW b \in K,
         Loses(p, mid, a), Gains(mid, q, b, Head(p[a])), Parted(p)
  PROVE  Parted(q)
<1>1. Head(p[a]) \in S
  <2>1. p[a] \in Seq(S) /\ p[a] # <<>>  BY DEF Loses
  <2> QED  BY <2>1
<1>2. Parted(mid) /\ Absent(mid, Head(p[a]))  BY LosePart
<1> QED  BY <1>1, <1>2, GainPart

LEMMA PlacesType ==
  ASSUME NEW S, NEW a \in Seq(S), NEW b \in Seq(S), NEW c \in Seq(S), NEW d \in Seq(S)
  PROVE  /\ <<a, b, c, d>> \in [1..4 -> Seq(S)]
         /\ Held(<<a, b, c, d>>) = Len(a) + Len(b) + Len(c) + Len(d)
         /\ \A x : Absent(<<a, b, c, d>>, x) <=>
              /\ \A i \in DOMAIN a : a[i] # x
              /\ \A i \in DOMAIN b : b[i] # x
              /\ \A i \in DOMAIN c : c[i] # x
              /\ \A i \in DOMAIN d : d[i] # x
<1> DEFINE p == <<a, b, c, d>>
<1>1. /\ DOMAIN p = 1..4 /\ p[1] = a /\ p[2] = b /\ p[3] = c /\ p[4] = d
      /\ p \in [1..4 -> Seq(S)]
  OBVIOUS
<1>2. 1..4 = {1, 2, 3, 4}  OBVIOUS
<1> HIDE DEF p
<1>3. Held(p) = Len(a) + Len(b) + Len(c) + Len(d)  BY <1>1 DEF Held
<1>4. ASSUME NEW x
      PROVE  Absent(p, x) <=> /\ \A i \in DOMAIN a : a[i] # x
                              /\ \A i \in DOMAIN b : b[i] # x
                              /\ \A i \in DOMAIN c : c[i] # x
                              /\ \A i \in DOMAIN d : d[i] # x
  BY <1>1, <1>2, Zenon DEF Absent
<1> QED  BY <1>1, <1>3, <1>4 DEF p

\* From four places to four places, by way of mid.
LEMMA FourMove ==
  ASSUME NEW S, NEW p \in [1..4 -> Seq(S)], NEW mid \in [1..4 -> Seq(S)],
         NEW q \in [1..4 -> Seq(S)], NEW a \in 1..4, NEW b \in 1..4,
         Loses(p, mid, a), Gains(mid, q, b, Head(p[a])), Parted(p)
  PROVE  Parted(q)
BY MovePart

LEMMA BufsFacts ==
  ASSUME NEW S, NEW R, \A r \in R : r.buf \in S, NEW q \in Seq(R)
  PROVE  /\ BufsOf(q) \in Seq(S) /\ Len(BufsOf(q)) = Len(q)
         /\ \A r \in R : BufsOf(Append(q, r)) = Append(BufsOf(q), r.buf)
         /\ q # <<>> => /\ Head(q) \in R
                        /\ BufsOf(Tail(q)) = Tail(BufsOf(q))
                        /\ BufsOf(q) # <<>> /\ Head(BufsOf(q)) = Head(q).buf
<1>1. \A i \in 1..Len(q) : q[i] \in R  OBVIOUS
<1>2. BufsOf(q) \in Seq(S) /\ Len(BufsOf(q)) = Len(q)
      /\ \A i \in 1..Len(q) : BufsOf(q)[i] = q[i].buf
  BY <1>1 DEF BufsOf
<1>3. ASSUME NEW r \in R PROVE BufsOf(Append(q, r)) = Append(BufsOf(q), r.buf)
  <2> DEFINE t == Append(q, r)
  <2>1. t \in Seq(R) /\ Len(t) = Len(q) + 1 /\ \A i \in 1..Len(q) : t[i] = q[i]
    OBVIOUS
  <2>2. t[Len(q) + 1] = r  OBVIOUS
  <2> HIDE DEF t
  <2>3. Len(BufsOf(t)) = Len(q) + 1 /\ BufsOf(t) \in Seq(S)
        /\ \A i \in 1..Len(q) + 1 : BufsOf(t)[i] = t[i].buf
    <3>1. \A i \in 1..Len(t) : t[i] \in R  BY <2>1
    <3> QED  BY <3>1, <2>1 DEF BufsOf
  <2>4. r.buf \in S  OBVIOUS
  <2> DEFINE u == Append(BufsOf(q), r.buf)
  <2>5. u \in Seq(S) /\ Len(u) = Len(q) + 1 /\ u[Len(q) + 1] = r.buf
        /\ \A i \in 1..Len(q) : u[i] = q[i].buf
    BY <2>4, <1>2
  <2> HIDE DEF u
  <2>6. \A i \in 1..Len(q) + 1 : BufsOf(t)[i] = u[i]
    <3> TAKE i \in 1..Len(q) + 1
    <3>1. i \in 1..Len(q) \/ i = Len(q) + 1  OBVIOUS
    <3> QED  BY <3>1, <2>1, <2>2, <2>3, <2>5
  <2>7. BufsOf(t) = u  BY <2>3, <2>5, <2>6, SeqEqual
  <2> QED  BY <2>7 DEF t, u
<1>4. ASSUME q # <<>>
      PROVE  /\ Head(q) \in R /\ BufsOf(Tail(q)) = Tail(BufsOf(q))
             /\ BufsOf(q) # <<>> /\ Head(BufsOf(q)) = Head(q).buf
  <2> DEFINE t == Tail(q)
  <2>1. t \in Seq(R) /\ Len(t) = Len(q) - 1 /\ Len(q) \in Nat \ {0}
        /\ \A i \in 1..Len(t) : t[i] = q[i + 1]
    BY <1>4
  <2> HIDE DEF t
  <2>2. Len(BufsOf(t)) = Len(t) /\ BufsOf(t) \in Seq(S)
        /\ \A i \in 1..Len(t) : BufsOf(t)[i] = q[i + 1].buf
    <3>1. \A i \in 1..Len(t) : t[i] \in R  BY <2>1
    <3> QED  BY <3>1, <2>1 DEF BufsOf
  <2> DEFINE u == Tail(BufsOf(q))
  <2>3. BufsOf(q) # <<>>  BY <2>1, <1>2
  <2>4. u \in Seq(S) /\ Len(u) = Len(t) /\ \A i \in 1..Len(t) : u[i] = q[i + 1].buf
    BY <2>1, <2>3, <1>2
  <2> HIDE DEF u
  <2>5. BufsOf(t) = u  BY <2>2, <2>4, SeqEqual
  <2>6. Head(q) \in R /\ Head(q) = q[1] /\ Head(BufsOf(q)) = BufsOf(q)[1]
    BY <2>1, <2>3, <1>1, <1>2
  <2>7. Head(BufsOf(q)) = Head(q).buf  BY <2>1, <2>6, <1>2
  <2> QED  BY <2>3, <2>5, <2>6, <2>7 DEF t, u
<1> QED  BY <1>2, <1>3, <1>4

LEMMA InjConcat ==
  ASSUME NEW S, NEW s \in Seq(S), NEW t \in Seq(S),
         IsInjective(s), IsInjective(t),
         \A i \in DOMAIN s, j \in DOMAIN t : s[i] # t[j]
  PROVE  IsInjective(s \o t)
<1> DEFINE u == s \o t
<1>1. /\ u \in Seq(S) /\ Len(u) = Len(s) + Len(t)
      /\ \A i \in DOMAIN u : \/ i \in DOMAIN s /\ u[i] = s[i]
                             \/ i - Len(s) \in DOMAIN t /\ u[i] = t[i - Len(s)]
      /\ DOMAIN u = 1..Len(u)
  OBVIOUS
<1> HIDE DEF u
<1>2. ASSUME NEW i \in DOMAIN u, NEW j \in DOMAIN u, u[i] = u[j]
      PROVE  i = j
  <2>0. i \in Int /\ j \in Int /\ Len(s) \in Int  BY <1>1
  <2>1. CASE i \in DOMAIN s /\ u[i] = s[i]
    <3>1. CASE j \in DOMAIN s /\ u[j] = s[j]
      BY <2>1, <3>1, <1>2 DEF IsInjective
    <3>2. CASE j - Len(s) \in DOMAIN t /\ u[j] = t[j - Len(s)]
      BY <2>1, <3>2, <1>2
    <3> QED  BY <3>1, <3>2, <1>1
  <2>2. CASE i - Len(s) \in DOMAIN t /\ u[i] = t[i - Len(s)]
    <3>1. CASE j \in DOMAIN s /\ u[j] = s[j]
      BY <2>2, <3>1, <1>2
    <3>2. CASE j - Len(s) \in DOMAIN t /\ u[j] = t[j - Len(s)]
      <4>1. i - Len(s) = j - Len(s)  BY <2>2, <3>2, <1>2 DEF IsInjective
      <4> QED  BY <4>1, <2>0
    <3> QED  BY <3>1, <3>2, <1>1
  <2> QED  BY <2>1, <2>2, <1>1
<1> QED  BY <1>2 DEF IsInjective, u

LEMMA PartsInject ==
  ASSUME NEW S, NEW p \in [1..4 -> Seq(S)], Parted(p)
  PROVE  IsInjective(p[1] \o p[2] \o p[3]) /\ IsInjective(p[1] \o p[2])
<1>1. \A k, l \in 1..4 : \A i \in DOMAIN p[k], j \in DOMAIN p[l] :
        p[k][i] = p[l][j] => k = l /\ i = j
  <2>1. DOMAIN p = 1..4  OBVIOUS
  <2> QED  BY <2>1 DEF Parted
<1>2. /\ \A i, j \in DOMAIN p[1] : p[1][i] = p[1][j] => i = j
      /\ \A i, j \in DOMAIN p[2] : p[2][i] = p[2][j] => i = j
      /\ \A i, j \in DOMAIN p[3] : p[3][i] = p[3][j] => i = j
      /\ \A i \in DOMAIN p[1], j \in DOMAIN p[2] : p[1][i] # p[2][j]
      /\ \A i \in DOMAIN p[1], j \in DOMAIN p[3] : p[1][i] # p[3][j]
      /\ \A i \in DOMAIN p[2], j \in DOMAIN p[3] : p[2][i] # p[3][j]
  <2>1. 1 \in 1..4 /\ 2 \in 1..4 /\ 3 \in 1..4 /\ 1 # 2 /\ 1 # 3 /\ 2 # 3  OBVIOUS
  <2> QED  BY <1>1, <2>1
<1> DEFINE a == p[1]  b == p[2]  c == p[3]
<1>3. a \in Seq(S) /\ b \in Seq(S) /\ c \in Seq(S)  OBVIOUS
<1>4. /\ IsInjective(a) /\ IsInjective(b) /\ IsInjective(c)
      /\ \A i \in DOMAIN a, j \in DOMAIN b : a[i] # b[j]
      /\ \A i \in DOMAIN a, j \in DOMAIN c : a[i] # c[j]
      /\ \A i \in DOMAIN b, j \in DOMAIN c : b[i] # c[j]
  BY <1>2 DEF IsInjective
<1> HIDE DEF a, b, c
<1>5. IsInjective(a \o b)  BY <1>3, <1>4, InjConcat
<1>6. a \o b \in Seq(S) /\ \A i \in DOMAIN (a \o b) :
        \/ i \in DOMAIN a /\ (a \o b)[i] = a[i]
        \/ i - Len(a) \in DOMAIN b /\ (a \o b)[i] = b[i - Len(a)]
  BY <1>3
<1>7. \A i \in DOMAIN (a \o b), j \in DOMAIN c : (a \o b)[i] # c[j]
  BY <1>4, <1>6
<1>8. IsInjective((a \o b) \o c)  BY <1>3, <1>4, <1>5, <1>6, <1>7, InjConcat
<1> QED  BY <1>5, <1>8 DEF a, b, c

LEMMA SetToSeqFacts ==
  ASSUME NEW S, IsFiniteSet(S)
  PROVE  /\ SetToSeq(S) \in Seq(S) /\ Len(SetToSeq(S)) = Cardinality(S)
         /\ IsInjective(SetToSeq(S))
<1>1. Cardinality(S) \in Nat /\ ExistsBijection(1..Cardinality(S), S)
  BY FS_CardinalityType
<1>2. PICK f \in [1..Cardinality(S) -> S] : IsInjective(f)
  BY <1>1 DEF ExistsBijection, Bijection, Injection, IsInjective
<1>3. /\ SetToSeq(S) \in [1..Cardinality(S) -> S] /\ IsInjective(SetToSeq(S))
  <2> DEFINE P(g) == g \in [1..Cardinality(S) -> S] /\ IsInjective(g)
  <2>1. P(CHOOSE g : P(g))  BY <1>2, Zenon
  <2> QED  BY <2>1, <1>2, Zenon DEF SetToSeq
<1> QED  BY <1>1, <1>3

-----------------------------------------------------------------------------
(* Every step keeps the invariant.                                         *)

LEMMA M2mInitInv == M2mInit => M2mInv
<1> SUFFICES ASSUME M2mInit PROVE M2mInv
  OBVIOUS
<1> USE DEF M2mInit, Idle
<1> DEFINE o == SetToSeq(OutBuf)  c == SetToSeq(CapBuf)
<1>1. /\ o \in Seq(OutBuf) /\ Len(o) = Cardinality(OutBuf) /\ IsInjective(o)
      /\ c \in Seq(CapBuf) /\ Len(c) = Cardinality(CapBuf) /\ IsInjective(c)
  BY M2mAssumption, SetToSeqFacts
<1>2. outFree = o /\ capEmpty = c  OBVIOUS
<1> HIDE DEF o, c
<1>3. M2mTypes  BY <1>1, <1>2 DEF M2mTypes
<1>4. BufsOf(outQueued) = <<>> /\ BufsOf(capFull) = <<>>  BY DEF BufsOf
<1>5. OutPlaces = <<o, <<>>, <<>>, <<>> >> /\ CapPlaces = <<c, <<>>, <<>>, <<>> >>
  BY <1>2, <1>4 DEF OutPlaces, CapPlaces, OutHand, CapHand
<1>6. \A S : \A s \in Seq(S) : IsInjective(s) =>
        Parted(<<s, <<>>, <<>>, <<>> >>) /\ Held(<<s, <<>>, <<>>, <<>> >>) = Len(s)
  <2> TAKE S
  <2> TAKE s \in Seq(S)
  <2> HAVE IsInjective(s)
  <2> DEFINE p == <<s, <<>>, <<>>, <<>> >>
  <2>1. DOMAIN p = 1..4 /\ p[1] = s /\ \A k \in 1..4 : k # 1 => p[k] = <<>>
    OBVIOUS
  <2>2. Len(p[1]) = Len(s) /\ Len(p[2]) = 0 /\ Len(p[3]) = 0 /\ Len(p[4]) = 0
        /\ Len(s) \in Nat
    BY <2>1
  <2>3. \A i \in DOMAIN <<>> : FALSE  OBVIOUS
  <2> HIDE DEF p
  <2>4. Parted(p)
    <3> SUFFICES ASSUME NEW k \in 1..4, NEW l \in 1..4, NEW i \in DOMAIN p[k],
                        NEW j \in DOMAIN p[l], p[k][i] = p[l][j]
                 PROVE  k = l /\ i = j
      BY <2>1 DEF Parted
    <3>1. k = 1 /\ l = 1  BY <2>1, <2>3
    <3> QED  BY <3>1, <2>1 DEF IsInjective
  <2> QED  BY <2>2, <2>4 DEF Held, p
<1>7. OutSound  BY <1>1, <1>5, <1>6 DEF OutSound
<1>8. CapSound
  <2>1. Parted(CapPlaces) /\ Held(CapPlaces) = Cardinality(CapBuf)
    BY <1>1, <1>5, <1>6
  <2>2. Cardinality(capLost) = 0 /\ Cardinality(CapBuf) \in Nat
    BY M2mAssumption, FS_EmptySet, FS_CardinalityType
  <2> QED  BY <2>1, <2>2 DEF CapSound
<1>9. DataLine /\ Rises /\ Pairs  BY DEF DataLine, Rises, Pairs, Taken
<1> QED  BY <1>3, <1>7, <1>8, <1>9 DEF M2mInv

LEMMA Elements ==
  ASSUME NEW S, NEW s \in Seq(S)
  PROVE  DOMAIN s = 1..Len(s) /\ \A i \in 1..Len(s) : s[i] \in S
OBVIOUS

LEMMA HeadAndTail ==
  ASSUME NEW S, NEW s \in Seq(S), s # <<>>
  PROVE  Head(s) \in S /\ Tail(s) \in Seq(S) /\ Len(Tail(s)) = Len(s) - 1
         /\ Len(s) \in Nat \ {0} /\ Head(s) = s[1]
         /\ \A i \in 1..Len(s) - 1 : Tail(s)[i] = s[i + 1]
OBVIOUS

\* The types, one action after another.
LEMMA TypesKept == M2mInv /\ [M2mNext]_m2mVars => M2mTypes'
<1> SUFFICES ASSUME M2mInv, [M2mNext]_m2mVars PROVE M2mTypes'
  OBVIOUS
<1>1. M2mTypes  BY DEF M2mInv
<1> USE DEF M2mTypes, Idle, outVars, capVars
<1>2. CASE EncodeRefused
  <2>1. outFree # <<>> /\ Append(Tail(outFree), Head(outFree)) \in Seq(OutBuf)
    <3>1. outFree # <<>>  BY <1>2 DEF EncodeRefused, CanEncode
    <3>2. Head(outFree) \in OutBuf /\ Tail(outFree) \in Seq(OutBuf)
      BY <3>1, <1>1, HeadAndTail
    <3> QED  BY <3>1, <3>2
  <2>2. outFree' \in Seq(OutBuf) /\ encodes' = encodes + 1
    BY <2>1, <1>1, <1>2 DEF EncodeRefused, CanEncode
  <2> QED  BY <2>2, <1>1, <1>2 DEF EncodeRefused
<1>3. CASE EncodeQueues
  <2>1. outFree # <<>> /\ encodes' = encodes + 1  BY <1>3 DEF EncodeQueues, CanEncode
  <2>2. Head(outFree) \in OutBuf /\ Tail(outFree) \in Seq(OutBuf)  BY <2>1, <1>1
  <2>3. [buf |-> Head(outFree), frame |-> encodes'] \in [buf : OutBuf, frame : Nat]
    BY <2>1, <2>2, <1>1
  <2>4. outQueued' \in Seq([buf : OutBuf, frame : Nat]) /\ outFree' \in Seq(OutBuf)
        /\ userData' \in Seq(Nat)
    BY <2>1, <2>2, <2>3, <1>1, <1>3 DEF EncodeQueues
  <2>5. poller' = poller \/ poller' = Idle("poll")  BY <1>3 DEF EncodeQueues
  <2> QED  BY <2>1, <2>4, <2>5, <1>1, <1>3 DEF EncodeQueues
<1>4. CASE DropEncoder \/ PollerJoined
  BY <1>1, <1>4 DEF DropEncoder, PollerJoined
<1>5. CASE DeviceEncodes
  <2>1. outQueued # <<>> /\ capEmpty # <<>>  BY <1>5 DEF DeviceEncodes
  <2>2. /\ Head(outQueued) \in [buf : OutBuf, frame : Nat]
        /\ Tail(outQueued) \in Seq([buf : OutBuf, frame : Nat])
        /\ Head(capEmpty) \in CapBuf /\ Tail(capEmpty) \in Seq(CapBuf)
    BY <2>1, <1>1, HeadAndTail DEF M2mTypes
  <2>3. outSpent' \in Seq(OutBuf) /\ outQueued' \in Seq([buf : OutBuf, frame : Nat])
        /\ capEmpty' \in Seq(CapBuf)
    BY <2>2, <1>1, <1>5 DEF DeviceEncodes
  <2>4. PICK fits \in Ioctl :
          capFull' = Append(capFull, [buf |-> Head(capEmpty),
                                      frame |-> Head(outQueued).frame, fits |-> fits])
    BY <1>5 DEF DeviceEncodes
  <2>5. fits \in BOOLEAN  BY <2>4, Zenon DEF Ioctl
  <2>6. [buf |-> Head(capEmpty), frame |-> Head(outQueued).frame, fits |-> fits]
          \in [buf : CapBuf, frame : Nat, fits : BOOLEAN]
    BY <2>2, <2>5
  <2>7. capFull' \in Seq([buf : CapBuf, frame : Nat, fits : BOOLEAN])
    BY <2>4, <2>6, <1>1
  <2> QED  BY <2>3, <2>7, <1>1, <1>5 DEF DeviceEncodes
<1>6. CASE PollOutput
  <2>1. outSpent # <<>>  BY <1>6 DEF PollOutput
  <2>2. Head(outSpent) \in OutBuf /\ Tail(outSpent) \in Seq(OutBuf)  BY <2>1, <1>1
  <2> QED  BY <2>2, <1>1, <1>6 DEF PollOutput
<1>7. CASE ReturnOutput
  BY <1>1, <1>7 DEF ReturnOutput
<1>8. CASE PollCapture
  <2>1. capFull # <<>>  BY <1>8 DEF PollCapture
  <2>2. Head(capFull) \in [buf : CapBuf, frame : Nat, fits : BOOLEAN]
        /\ Tail(capFull) \in Seq([buf : CapBuf, frame : Nat, fits : BOOLEAN])
    BY <2>1, <1>1, HeadAndTail
  <2> QED  BY <2>2, <1>1, <1>8 DEF PollCapture
<1>9. ASSUME NEW b \in CapBuf, Requeue(b)
      PROVE  capEmpty' \in Seq(CapBuf) /\ capLost' \in SUBSET CapBuf
  BY <1>1, <1>9 DEF Requeue
<1>10. CASE TakeUserData
  <2>1. poller.at = "capture" /\ poller.buf \in CapBuf  BY <1>1, <1>10 DEF TakeUserData
  <2>2. userData' \in Seq(Nat)  BY <1>1, <1>10 DEF TakeUserData
  <2>3. CASE userData # <<>> /\ poller.fits
    <3>1. /\ poller' = [poller EXCEPT !.at = "handler", !.user = Head(userData)]
          /\ UNCHANGED <<capEmpty, capLost>>
      BY <2>3, <1>10 DEF TakeUserData
    <3>2. poller'.user = poller'.frame
      <4>1. Len(userData) >= 1 /\ userData[1] = poller.frame
        BY <2>1, <2>3, <1>1 DEF M2mInv, DataLine, Taken
      <4>2. Head(userData) = poller.frame  BY <4>1, <2>3, <1>1
      <4> QED  BY <3>1, <4>2, <1>1
    <3>3. /\ DOMAIN poller' = {"at", "buf", "frame", "user", "fits"}
          /\ poller'.at = "handler" /\ poller'.buf = poller.buf
          /\ poller'.frame = poller.frame
      BY <3>1, <1>1
    <3> QED  BY <3>1, <3>2, <3>3, <2>1, <2>2, <1>1, <1>10 DEF TakeUserData
  <2>4. CASE ~(userData # <<>> /\ poller.fits)
    <3>1. poller' = Idle("poll") /\ Requeue(poller.buf)
      BY <2>4, <1>10 DEF TakeUserData
    <3>2. capEmpty' \in Seq(CapBuf) /\ capLost' \in SUBSET CapBuf
      BY <3>1, <2>1, <1>9
    <3> QED  BY <3>1, <3>2, <2>2, <1>1, <1>10 DEF TakeUserData
  <2> QED  BY <2>3, <2>4
<1>11. CASE HandleFrame
  <2>1. poller.at = "handler" /\ poller.buf \in CapBuf /\ poller.frame \in Nat
        /\ poller.user \in Nat
    BY <1>1, <1>11 DEF HandleFrame
  <2>2. capEmpty' \in Seq(CapBuf) /\ capLost' \in SUBSET CapBuf
    BY <2>1, <1>9, <1>11 DEF HandleFrame
  <2>3. [frame |-> poller.frame, user |-> poller.user] \in [frame : Nat, user : Nat]
    BY <2>1
  <2>4. produced' \in Seq([frame : Nat, user : Nat])
    BY <2>3, <1>1, <1>11 DEF HandleFrame
  <2> QED  BY <2>2, <2>4, <1>1, <1>11 DEF HandleFrame
<1>12. CASE PollFails \/ PollerAborts
  BY <1>1, <1>12 DEF PollFails, PollerAborts
<1>13. CASE UNCHANGED m2mVars
  BY <1>1, <1>13 DEF m2mVars
<1> QED
  BY <1>2, <1>3, <1>4, <1>5, <1>6, <1>7, <1>8, <1>10, <1>11, <1>12, <1>13
  DEF M2mNext, PollerStep

LEMMA PlacesInv ==
  ASSUME M2mTypes
  PROVE  /\ OutPlaces \in [1..4 -> Seq(OutBuf)] /\ CapPlaces \in [1..4 -> Seq(CapBuf)]
         /\ BufsOf(outQueued) \in Seq(OutBuf) /\ BufsOf(capFull) \in Seq(CapBuf)
         /\ OutHand \in Seq(OutBuf) /\ CapHand \in Seq(CapBuf)
         /\ Len(BufsOf(outQueued)) = Len(outQueued) /\ Len(BufsOf(capFull)) = Len(capFull)
<1>1. BufsOf(outQueued) \in Seq(OutBuf) /\ Len(BufsOf(outQueued)) = Len(outQueued)
  <2> DEFINE R == [buf : OutBuf, frame : Nat]
  <2>1. outQueued \in Seq(R) /\ \A r \in R : r.buf \in OutBuf  BY DEF M2mTypes
  <2> QED  BY <2>1, BufsFacts
<1>2. BufsOf(capFull) \in Seq(CapBuf) /\ Len(BufsOf(capFull)) = Len(capFull)
  <2> DEFINE R == [buf : CapBuf, frame : Nat, fits : BOOLEAN]
  <2>1. capFull \in Seq(R) /\ \A r \in R : r.buf \in CapBuf  BY DEF M2mTypes
  <2> QED  BY ZenonT(60), <2>1, BufsFacts
<1>3. OutHand \in Seq(OutBuf) /\ CapHand \in Seq(CapBuf)
  BY DEF M2mTypes, OutHand, CapHand
<1>4. outFree \in Seq(OutBuf) /\ outSpent \in Seq(OutBuf) /\ capEmpty \in Seq(CapBuf)
      /\ <<>> \in Seq(CapBuf)
  BY DEF M2mTypes
<1> QED  BY <1>1, <1>2, <1>3, <1>4, PlacesType DEF OutPlaces, CapPlaces

\* How the head of one place is moved to another, and how many are held then.
LEMMA OutTurn ==
  ASSUME M2mTypes, OutSound,
         NEW p \in [1..4 -> Seq(OutBuf)], NEW q \in [1..4 -> Seq(OutBuf)],
         NEW a \in 1..4, NEW b \in 1..4, q = OutPlaces',
         Loses(OutPlaces, p, a), Gains(p, q, b, Head(OutPlaces[a])),
         Held(q) = Held(OutPlaces)
  PROVE  OutSound'
<1>1. OutPlaces \in [1..4 -> Seq(OutBuf)]  BY PlacesInv
<1>2. Parted(OutPlaces)  BY DEF OutSound
<1>3. Parted(q)  BY <1>1, <1>2, FourMove
<1> QED  BY <1>3 DEF OutSound

LEMMA OutKept == M2mInv /\ [M2mNext]_m2mVars => OutSound'
<1> SUFFICES ASSUME M2mInv, [M2mNext]_m2mVars PROVE OutSound'
  OBVIOUS
<1>1. M2mTypes /\ OutSound /\ M2mTypes'  BY TypesKept DEF M2mInv
<1> DEFINE Q == [buf : OutBuf, frame : Nat]
<1>2. /\ outFree \in Seq(OutBuf) /\ outSpent \in Seq(OutBuf) /\ outQueued \in Seq(Q)
      /\ \A r \in Q : r.buf \in OutBuf
      /\ OutPlaces = <<outFree, BufsOf(outQueued), outSpent, OutHand>>
      /\ OutPlaces' = <<outFree', BufsOf(outQueued'), outSpent', OutHand'>>
      /\ BufsOf(outQueued) \in Seq(OutBuf) /\ OutHand \in Seq(OutBuf)
      /\ BufsOf(outQueued)' = BufsOf(outQueued')
  BY <1>1, PlacesInv DEF M2mTypes, OutPlaces, BufsOf
<1>3. /\ outFree' \in Seq(OutBuf) /\ outSpent' \in Seq(OutBuf) /\ outQueued' \in Seq(Q)
      /\ BufsOf(outQueued') \in Seq(OutBuf) /\ OutHand' \in Seq(OutBuf)
      /\ OutPlaces' \in [1..4 -> Seq(OutBuf)]
  <2>1. outFree' \in Seq(OutBuf) /\ outSpent' \in Seq(OutBuf) /\ outQueued' \in Seq(Q)
        /\ OutHand' \in Seq(OutBuf)
    BY <1>1 DEF M2mTypes, OutHand
  <2>2. BufsOf(outQueued') \in Seq(OutBuf)  BY <2>1, <1>2, BufsFacts
  <2> QED  BY <2>1, <2>2, <1>2, PlacesType
<1>14. /\ DOMAIN OutPlaces = 1..4 /\ 1..4 = {1, 2, 3, 4}
      /\ OutPlaces[1] = outFree /\ OutPlaces[2] = BufsOf(outQueued)
      /\ OutPlaces[3] = outSpent /\ OutPlaces[4] = OutHand
      /\ OutPlaces'[1] = outFree' /\ OutPlaces'[2] = BufsOf(outQueued')
      /\ OutPlaces'[3] = outSpent' /\ OutPlaces'[4] = OutHand'
  BY <1>2
<1>15. /\ Held(OutPlaces) = Len(outFree) + Len(outQueued) + Len(outSpent) + Len(OutHand)
      /\ Held(OutPlaces') = Len(outFree') + Len(outQueued') + Len(outSpent') + Len(OutHand')
      /\ Len(outFree) \in Nat /\ Len(outQueued) \in Nat /\ Len(outSpent) \in Nat
      /\ Len(OutHand) \in Nat
  <2>1. Len(BufsOf(outQueued)) = Len(outQueued) /\ Len(BufsOf(outQueued')) = Len(outQueued')
    BY <1>2, <1>3, BufsFacts
  <2>2. Held(OutPlaces) = Len(outFree) + Len(outQueued) + Len(outSpent) + Len(OutHand)
    BY <1>14, <2>1 DEF Held
  <2>3. Held(OutPlaces') = Len(outFree') + Len(outQueued') + Len(outSpent') + Len(OutHand')
    BY <1>14, <2>1 DEF Held
  <2> QED  BY <2>2, <2>3, <1>2
<1>16. \A a, b, c, d : LET p == <<a, b, c, d>> IN
        DOMAIN p = 1..4 /\ p[1] = a /\ p[2] = b /\ p[3] = c /\ p[4] = d
  OBVIOUS
<1> HIDE DEF Q
<1>4. ASSUME OutPlaces' = OutPlaces PROVE OutSound'
  BY <1>1, <1>4 DEF OutSound
<1>5. ASSUME UNCHANGED <<outFree, outQueued, outSpent>>,
             poller.at # "output" /\ poller'.at # "output"
      PROVE  OutSound'
  <2>1. OutHand' = OutHand  BY <1>5 DEF OutHand
  <2>2. OutPlaces' = OutPlaces  BY <2>1, <1>2, <1>5
  <2> QED  BY <2>2, <1>4
<1>6. CASE EncodeRefused
  <2>1. outFree # <<>> /\ UNCHANGED <<outQueued, outSpent, poller>>
        /\ outFree' \in {outFree, Append(Tail(outFree), Head(outFree))}
    BY <1>6 DEF EncodeRefused, CanEncode
  <2>2. OutHand' = OutHand  BY <2>1 DEF OutHand
  <2>3. CASE outFree' = outFree  BY <2>1, <2>2, <2>3, <1>2, <1>4
  <2>4. CASE outFree' = Append(Tail(outFree), Head(outFree))
    <3> DEFINE p == <<Tail(outFree), BufsOf(outQueued), outSpent, OutHand>>  q == OutPlaces'
    <3>1. Head(outFree) \in OutBuf /\ Tail(outFree) \in Seq(OutBuf)
          /\ Len(Tail(outFree)) + 1 = Len(outFree)
      BY <2>1, <1>2, HeadAndTail
    <3>2. p \in [1..4 -> Seq(OutBuf)] /\ q \in [1..4 -> Seq(OutBuf)]
      BY <3>1, <1>2, <1>3, PlacesType
    <3>3. Held(q) = Held(OutPlaces)
      <4>1. Len(outFree') = Len(outFree)  BY <3>1, <2>4
      <4> QED  BY <4>1, <2>1, <2>2, <1>15
    <3>4. Loses(OutPlaces, p, 1) /\ Gains(p, q, 1, Head(OutPlaces[1]))
      <4>1. DOMAIN p = 1..4 /\ p[1] = Tail(outFree) /\ p[2] = BufsOf(outQueued)
            /\ p[3] = outSpent /\ p[4] = OutHand
        BY <1>16
      <4> HIDE DEF p
      <4> QED  BY <4>1, <2>1, <2>2, <2>4, <1>14 DEF Loses, Gains
    <3> QED  BY <3>2, <3>3, <3>4, <1>1, OutTurn
  <2> QED  BY <2>1, <2>3, <2>4
<1>7. CASE EncodeQueues
  <2>1. /\ outFree # <<>> /\ outFree' = Tail(outFree) /\ outSpent' = outSpent
        /\ outQueued' = Append(outQueued, [buf |-> Head(outFree), frame |-> encodes'])
        /\ encodes' = encodes + 1 /\ (poller' = poller \/ poller' = Idle("poll"))
        /\ (poller.at = "off" \/ poller' = poller)
    BY <1>7 DEF EncodeQueues, CanEncode
  <2>2. OutHand' = OutHand  BY <2>1 DEF OutHand, Idle
  <2>3. Head(outFree) \in OutBuf /\ Tail(outFree) \in Seq(OutBuf)
        /\ Len(Tail(outFree)) + 1 = Len(outFree)
    BY <2>1, <1>2, HeadAndTail
  <2> DEFINE r == [buf |-> Head(outFree), frame |-> encodes']
  <2>4. r \in Q /\ r.buf = Head(outFree)  BY <2>1, <2>3, <1>1 DEF M2mTypes, Q
  <2>5. BufsOf(outQueued') = Append(BufsOf(outQueued), Head(outFree))
    <3>1. outQueued' = Append(outQueued, r)  BY <2>1
    <3> HIDE DEF r
    <3>2. BufsOf(Append(outQueued, r)) = Append(BufsOf(outQueued), r.buf)
      BY <2>4, <1>2, BufsFacts
    <3> QED  BY <3>1, <3>2, <2>4
  <2> DEFINE p == <<Tail(outFree), BufsOf(outQueued), outSpent, OutHand>>  q == OutPlaces'
  <2>6. p \in [1..4 -> Seq(OutBuf)] /\ q \in [1..4 -> Seq(OutBuf)]
    BY <2>3, <1>2, <1>3, PlacesType
  <2>7. Held(q) = Held(OutPlaces)
    <3>1. Len(outQueued') = Len(outQueued) + 1  BY <2>1, <2>4, <1>2
    <3> QED  BY <3>1, <2>1, <2>2, <2>3, <1>15
  <2>8. Loses(OutPlaces, p, 1) /\ Gains(p, q, 2, Head(OutPlaces[1]))
    <3>1. DOMAIN p = 1..4 /\ p[1] = Tail(outFree) /\ p[2] = BufsOf(outQueued)
          /\ p[3] = outSpent /\ p[4] = OutHand
      BY <1>16
    <3> HIDE DEF p
    <3> QED  BY <3>1, <2>1, <2>2, <2>5, <1>14 DEF Loses, Gains
  <2> QED  BY <2>6, <2>7, <2>8, <1>1, OutTurn
<1>8. CASE DeviceEncodes
  <2>1. /\ outQueued # <<>> /\ outFree' = outFree /\ poller' = poller
        /\ outSpent' = Append(outSpent, Head(outQueued).buf)
        /\ outQueued' = Tail(outQueued)
    BY <1>8 DEF DeviceEncodes
  <2>2. OutHand' = OutHand  BY <2>1 DEF OutHand
  <2> DEFINE b == BufsOf(outQueued)
  <2>3. BufsOf(outQueued') = Tail(b) /\ b # <<>> /\ Head(b) = Head(outQueued).buf
    BY <2>1, <1>2, BufsFacts
  <2>4. Head(b) \in OutBuf /\ Tail(b) \in Seq(OutBuf) /\ Len(Tail(b)) + 1 = Len(b)
    BY <2>3, <1>2, HeadAndTail
  <2> DEFINE p == <<outFree, Tail(b), outSpent, OutHand>>  q == OutPlaces'
  <2>5. p \in [1..4 -> Seq(OutBuf)] /\ q \in [1..4 -> Seq(OutBuf)]
    BY <2>4, <1>2, <1>3, PlacesType
  <2>6. Held(q) = Held(OutPlaces)
    <3>1. Len(outSpent') = Len(outSpent) + 1  BY <2>1, <2>3, <2>4, <1>2
    <3>2. Len(outQueued') = Len(outQueued) - 1  BY <2>1, <1>2, HeadAndTail
    <3> QED  BY <3>1, <3>2, <2>1, <2>2, <1>15
  <2>7. Loses(OutPlaces, p, 2) /\ Gains(p, q, 3, Head(OutPlaces[2]))
    <3>1. DOMAIN p = 1..4 /\ p[1] = outFree /\ p[2] = Tail(b)
          /\ p[3] = outSpent /\ p[4] = OutHand
      BY <1>16
    <3> HIDE DEF p
    <3> QED  BY <3>1, <2>1, <2>2, <2>3, <1>14 DEF Loses, Gains
  <2> QED  BY <2>5, <2>6, <2>7, <1>1, OutTurn
<1>9. CASE PollOutput
  <2>1. /\ outSpent # <<>> /\ outFree' = outFree /\ outQueued' = outQueued
        /\ poller' = [Idle("output") EXCEPT !.buf = Head(outSpent)]
        /\ outSpent' = Tail(outSpent) /\ poller.at = "poll"
    BY <1>9 DEF PollOutput, Polling
  <2>2. OutHand = <<>> /\ OutHand' = <<Head(outSpent)>>
    BY <2>1 DEF OutHand, Idle
  <2>3. Head(outSpent) \in OutBuf /\ Tail(outSpent) \in Seq(OutBuf)
        /\ Len(Tail(outSpent)) + 1 = Len(outSpent)
    BY <2>1, <1>2, HeadAndTail
  <2> DEFINE p == <<outFree, BufsOf(outQueued), Tail(outSpent), <<>> >>  q == OutPlaces'
  <2>4. p \in [1..4 -> Seq(OutBuf)] /\ q \in [1..4 -> Seq(OutBuf)]
    <3>1. <<>> \in Seq(OutBuf)  OBVIOUS
    <3> QED  BY <3>1, <2>3, <1>2, <1>3, PlacesType
  <2>5. Held(q) = Held(OutPlaces)
    <3>1. Len(OutHand) = 0 /\ Len(OutHand') = 1  BY <2>2
    <3> QED  BY <3>1, <2>1, <2>3, <1>15
  <2>6. Loses(OutPlaces, p, 3) /\ Gains(p, q, 4, Head(OutPlaces[3]))
    <3>1. <<Head(outSpent)>> = Append(<<>>, Head(outSpent))  OBVIOUS
    <3>2. DOMAIN p = 1..4 /\ p[1] = outFree /\ p[2] = BufsOf(outQueued)
          /\ p[3] = Tail(outSpent) /\ p[4] = <<>>
      BY <1>16
    <3> HIDE DEF p
    <3> QED  BY <3>1, <3>2, <2>1, <2>2, <1>14 DEF Loses, Gains
  <2> QED  BY <2>4, <2>5, <2>6, <1>1, OutTurn
<1>10. CASE ReturnOutput
  <2>1. /\ poller.at = "output" /\ poller' = Idle("poll")
        /\ outFree' = Append(outFree, poller.buf) /\ poller.buf \in OutBuf
        /\ UNCHANGED <<outQueued, outSpent>>
    BY <1>1, <1>10 DEF ReturnOutput, M2mTypes
  <2>2. OutHand = <<poller.buf>> /\ OutHand' = <<>>  BY <2>1 DEF OutHand, Idle
  <2> DEFINE p == <<outFree, BufsOf(outQueued), outSpent, <<>> >>  q == OutPlaces'
  <2>3. p \in [1..4 -> Seq(OutBuf)] /\ q \in [1..4 -> Seq(OutBuf)]
    <3>1. <<>> \in Seq(OutBuf)  OBVIOUS
    <3> QED  BY <3>1, <1>2, <1>3, PlacesType
  <2>4. Held(q) = Held(OutPlaces)
    <3>1. Len(OutHand) = 1 /\ Len(OutHand') = 0 /\ Len(outFree') = Len(outFree) + 1
      BY <2>1, <2>2, <1>2
    <3> QED  BY <3>1, <2>1, <1>15
  <2>5. Loses(OutPlaces, p, 4) /\ Gains(p, q, 1, Head(OutPlaces[4]))
    <3>1. OutHand # <<>> /\ Head(OutHand) = poller.buf /\ Tail(OutHand) = <<>>
      BY <2>2
    <3>2. DOMAIN p = 1..4 /\ p[1] = outFree /\ p[2] = BufsOf(outQueued)
          /\ p[3] = outSpent /\ p[4] = <<>>
      BY <1>16
    <3> HIDE DEF p
    <3> QED  BY <3>1, <3>2, <2>1, <2>2, <1>14 DEF Loses, Gains
  <2> QED  BY <2>3, <2>4, <2>5, <1>1, OutTurn
<1>11. CASE DropEncoder \/ PollerJoined
  <2>1. UNCHANGED <<outFree, outQueued, outSpent, poller>>
    BY <1>11 DEF DropEncoder, PollerJoined, outVars
  <2>2. OutHand' = OutHand  BY <2>1 DEF OutHand
  <2> QED  BY <2>1, <2>2, <1>2, <1>4
<1>12. CASE PollCapture \/ TakeUserData \/ HandleFrame \/ PollFails \/ PollerAborts
  <2>1. UNCHANGED <<outFree, outQueued, outSpent>>
    BY <1>12 DEF PollCapture, TakeUserData, HandleFrame, PollFails, PollerAborts, outVars
  <2>2. CASE PollCapture \/ HandleFrame \/ PollFails \/ PollerAborts
    <3>1. poller.at # "output" /\ poller'.at # "output"
      BY <2>2 DEF PollCapture, HandleFrame, PollFails, PollerAborts, Polling, Idle
    <3> QED  BY <3>1, <2>1, <1>5
  <2>3. CASE TakeUserData
    <3>1. /\ poller.at = "capture"
          /\ \/ poller' = [poller EXCEPT !.at = "handler", !.user = Head(userData)]
             \/ poller' = Idle("poll")
      BY <2>3 DEF TakeUserData
    <3>2. CASE poller' = [poller EXCEPT !.at = "handler", !.user = Head(userData)]
      <4>1. poller'.at = "handler"  BY <3>2, <1>1 DEF M2mTypes
      <4> QED  BY <4>1, <3>1, <2>1, <1>5
    <3>3. CASE poller' = Idle("poll")
      <4>1. poller'.at = "poll"  BY <3>3 DEF Idle
      <4> QED  BY <4>1, <3>1, <2>1, <1>5
    <3> QED  BY <3>1, <3>2, <3>3
  <2> QED  BY <2>2, <2>3, <1>12
<1>13. CASE UNCHANGED m2mVars
  <2>1. UNCHANGED <<outFree, outQueued, outSpent, poller>>
    BY <1>13 DEF m2mVars, outVars
  <2>2. OutHand' = OutHand  BY <2>1 DEF OutHand
  <2> QED  BY <2>1, <2>2, <1>2, <1>4
<1> QED
  BY <1>6, <1>7, <1>8, <1>9, <1>10, <1>11, <1>12, <1>13 DEF M2mNext, PollerStep

LEMMA CapKept == M2mInv /\ [M2mNext]_m2mVars => CapSound'
<1> SUFFICES ASSUME M2mInv, [M2mNext]_m2mVars PROVE CapSound'
  OBVIOUS
<1>1. M2mTypes /\ CapSound /\ M2mTypes'  BY TypesKept DEF M2mInv
<1> DEFINE Q == [buf : CapBuf, frame : Nat, fits : BOOLEAN]
<1>2. /\ capEmpty \in Seq(CapBuf) /\ capFull \in Seq(Q) /\ \A r \in Q : r.buf \in CapBuf
      /\ CapPlaces = <<capEmpty, BufsOf(capFull), <<>>, CapHand>>
      /\ CapPlaces' = <<capEmpty', BufsOf(capFull'), <<>>, CapHand'>>
      /\ BufsOf(capFull) \in Seq(CapBuf) /\ CapHand \in Seq(CapBuf)
      /\ CapPlaces \in [1..4 -> Seq(CapBuf)] /\ <<>> \in Seq(CapBuf)
      /\ BufsOf(capFull)' = BufsOf(capFull')
  BY SMTT(30), <1>1, PlacesInv DEF M2mTypes, CapPlaces, BufsOf
<1>3. /\ capEmpty' \in Seq(CapBuf) /\ capFull' \in Seq(Q)
      /\ BufsOf(capFull') \in Seq(CapBuf) /\ CapHand' \in Seq(CapBuf)
      /\ CapPlaces' \in [1..4 -> Seq(CapBuf)]
  <2>1. capEmpty' \in Seq(CapBuf) /\ capFull' \in Seq(Q) /\ CapHand' \in Seq(CapBuf)
    BY <1>1 DEF M2mTypes, CapHand
  <2>2. BufsOf(capFull') \in Seq(CapBuf)  BY <2>1, <1>2, BufsFacts
  <2> QED  BY <2>1, <2>2, <1>2, PlacesType
<1>4. /\ DOMAIN CapPlaces = 1..4 /\ 1..4 = {1, 2, 3, 4}
      /\ CapPlaces[1] = capEmpty /\ CapPlaces[2] = BufsOf(capFull)
      /\ CapPlaces[3] = <<>> /\ CapPlaces[4] = CapHand
      /\ CapPlaces'[1] = capEmpty' /\ CapPlaces'[2] = BufsOf(capFull')
      /\ CapPlaces'[3] = <<>> /\ CapPlaces'[4] = CapHand' /\ DOMAIN CapPlaces' = 1..4
  BY <1>2
<1>5. /\ Held(CapPlaces) = Len(capEmpty) + Len(capFull) + Len(CapHand)
      /\ Held(CapPlaces') = Len(capEmpty') + Len(capFull') + Len(CapHand')
      /\ Len(capEmpty) \in Nat /\ Len(capFull) \in Nat /\ Len(CapHand) \in Nat
  <2>1. Len(BufsOf(capFull)) = Len(capFull) /\ Len(BufsOf(capFull')) = Len(capFull')
    BY ZenonT(60), <1>2, <1>3, BufsFacts
  <2>2. Len(capEmpty) \in Nat /\ Len(capFull) \in Nat /\ Len(CapHand) \in Nat
        /\ Len(capEmpty') \in Nat /\ Len(capFull') \in Nat /\ Len(CapHand') \in Nat
        /\ Len(<<>>) = 0
    BY <1>2, <1>3
  <2>3. Held(CapPlaces) = Len(capEmpty) + Len(capFull) + Len(CapHand)
    BY <1>4, <2>1, <2>2 DEF Held
  <2>4. Held(CapPlaces') = Len(capEmpty') + Len(capFull') + Len(CapHand')
    BY <1>4, <2>1, <2>2 DEF Held
  <2> QED  BY <2>2, <2>3, <2>4
<1>6. \A a, b, c, d : LET p == <<a, b, c, d>> IN
        DOMAIN p = 1..4 /\ p[1] = a /\ p[2] = b /\ p[3] = c /\ p[4] = d
  OBVIOUS
<1>7. IsFiniteSet(capLost) /\ Cardinality(capLost) \in Nat
  BY <1>1, M2mAssumption, FS_Subset, FS_CardinalityType DEF M2mTypes
<1> HIDE DEF Q
<1>8. ASSUME CapPlaces' = CapPlaces, capLost' = capLost PROVE CapSound'
  BY <1>1, <1>8 DEF CapSound
<1>9. ASSUME NEW p \in [1..4 -> Seq(CapBuf)], NEW a \in 1..4, NEW b \in 1..4,
             Loses(CapPlaces, p, a), Gains(p, CapPlaces', b, Head(CapPlaces[a])),
             Held(CapPlaces') = Held(CapPlaces), capLost' = capLost
      PROVE  CapSound'
  <2>1. Parted(CapPlaces)  BY <1>1 DEF CapSound
  <2>2. Parted(CapPlaces')  BY <2>1, <1>2, <1>3, <1>9, FourMove
  <2>3. ASSUME NEW x \in capLost PROVE Absent(CapPlaces', x)
    <3>1. \A k \in 1..4 : \A i \in DOMAIN CapPlaces[k] : CapPlaces[k][i] # x
      BY <1>1, <1>4 DEF CapSound, Absent
    <3>2. CapPlaces[a] \in Seq(CapBuf) /\ CapPlaces[a] # <<>>
          /\ p[a] = Tail(CapPlaces[a]) /\ \A k \in 1..4 : k # a => p[k] = CapPlaces[k]
      BY <1>2, <1>4, <1>9 DEF Loses
    <3>3. \A i \in DOMAIN p[a] : p[a][i] # x
      <4>1. p[a] \in Seq(CapBuf)  OBVIOUS
      <4>2. \A i \in DOMAIN p[a] : \E m \in DOMAIN CapPlaces[a] : p[a][i] = CapPlaces[a][m]
        BY <3>2, <4>1, Shifted
      <4> QED  BY <4>2, <3>1
    <3>4. Head(CapPlaces[a]) # x /\ Head(CapPlaces[a]) \in CapBuf
      <4>1. 1 \in DOMAIN CapPlaces[a] /\ Head(CapPlaces[a]) = CapPlaces[a][1]
        BY <3>2
      <4>2. Head(CapPlaces[a]) \in CapBuf  BY <3>2
      <4> QED  BY <4>1, <4>2, <3>1
    <3>5. \A k \in 1..4 : \A i \in DOMAIN p[k] : p[k][i] # x
      BY <3>1, <3>2, <3>3
    <3>6. CapPlaces'[b] = Append(p[b], Head(CapPlaces[a]))
          /\ \A k \in 1..4 : k # b => CapPlaces'[k] = p[k]
      <4>1. DOMAIN p = 1..4  OBVIOUS
      <4> QED  BY <4>1, <1>9 DEF Gains
    <3>7. \A i \in DOMAIN CapPlaces'[b] : CapPlaces'[b][i] # x
      <4>1. p[b] \in Seq(CapBuf)  OBVIOUS
      <4>2. \A i \in DOMAIN Append(p[b], Head(CapPlaces[a])) :
              \/ i \in DOMAIN p[b] /\ Append(p[b], Head(CapPlaces[a]))[i] = p[b][i]
              \/ Append(p[b], Head(CapPlaces[a]))[i] = Head(CapPlaces[a])
        BY <3>4, <4>1
      <4> QED  BY <4>2, <3>4, <3>5, <3>6
    <3>8. \A k \in 1..4 : \A i \in DOMAIN CapPlaces'[k] : CapPlaces'[k][i] # x
      BY <3>5, <3>6, <3>7
    <3> QED  BY <3>8, <1>4 DEF Absent
  <2>4. Held(CapPlaces') + Cardinality(capLost') = Cardinality(CapBuf)
    BY <1>1, <1>9 DEF CapSound
  <2> QED  BY <2>2, <2>3, <2>4, <1>9 DEF CapSound
\* A buffer that is not requeued is lost.
<1>10. ASSUME Loses(CapPlaces, CapPlaces', 4), CapHand = <<poller.buf>>, CapHand' = <<>>,
              poller.buf \in CapBuf, UNCHANGED <<capEmpty, capFull>>,
              capLost' = capLost \cup {poller.buf}
       PROVE  CapSound'
  <2>1. Parted(CapPlaces)  BY <1>1 DEF CapSound
  <2>2. Parted(CapPlaces') /\ Absent(CapPlaces', Head(CapPlaces[4]))
    <3> DEFINE p == CapPlaces  q == CapPlaces'
    <3>1. /\ p \in [1..4 -> Seq(CapBuf)] /\ q \in [1..4 -> Seq(CapBuf)] /\ 4 \in 1..4
          /\ Loses(p, q, 4) /\ Parted(p)
      BY <2>1, <1>2, <1>3, <1>10
    <3> HIDE DEF p, q
    <3>2. Parted(q) /\ Absent(q, Head(p[4]))  BY <3>1, LosePart
    <3> QED  BY <3>2 DEF p, q
  <2>3. Head(CapPlaces[4]) = poller.buf  BY <1>4, <1>10
  <2>4. \A x \in capLost : \A k \in 1..4 : \A i \in DOMAIN CapPlaces[k] : CapPlaces[k][i] # x
    BY <1>1, <1>4 DEF CapSound, Absent
  <2>5. poller.buf \notin capLost
    <3>1. 1 \in DOMAIN CapPlaces[4] /\ CapPlaces[4][1] = poller.buf  BY <1>4, <1>10
    <3> QED  BY <3>1, <2>4
  <2>6. Cardinality(capLost') = Cardinality(capLost) + 1
    BY <2>5, <1>7, <1>10, FS_AddElement
  <2>7. ASSUME NEW x \in capLost PROVE Absent(CapPlaces', x)
    <3>1. \A k \in 1..4 : k # 4 => CapPlaces'[k] = CapPlaces[k]
      BY <1>4, <1>10 DEF Loses
    <3>2. \A i \in DOMAIN CapPlaces'[4] : FALSE  BY <1>4, <1>10
    <3> QED  BY <3>1, <3>2, <2>4, <1>4 DEF Absent
  <2>8. Held(CapPlaces') + 1 = Held(CapPlaces)
    <3>1. Len(CapHand) = 1 /\ Len(CapHand') = 0  BY <1>10
    <3> QED  BY <3>1, <1>5, <1>10
  <2>9. Held(CapPlaces') + Cardinality(capLost') = Cardinality(CapBuf)
    <3>1. Held(CapPlaces) + Cardinality(capLost) = Cardinality(CapBuf)
      BY <1>1 DEF CapSound
    <3>2. Held(CapPlaces) \in Nat  BY <1>5
    <3>3. Held(CapPlaces') \in Int  BY <2>8, <1>5, <1>10
    <3> QED  BY <3>1, <3>2, <3>3, <2>6, <2>8, <1>7
  <2> QED  BY <2>2, <2>3, <2>7, <2>9, <1>10 DEF CapSound
<1>11. ASSUME poller.at \in {"capture", "handler"}, poller' = Idle("poll"),
              Requeue(poller.buf), capFull' = capFull
       PROVE  CapSound'
  <2>1. CapHand = <<poller.buf>> /\ CapHand' = <<>> /\ poller.buf \in CapBuf
    BY <1>1, <1>11 DEF CapHand, Idle, M2mTypes
  <2>2. \/ capEmpty' = Append(capEmpty, poller.buf) /\ capLost' = capLost
        \/ capEmpty' = capEmpty /\ capLost' = capLost \cup {poller.buf}
    BY <1>11, Zenon DEF Requeue
  <2>3. CapHand # <<>> /\ Head(CapHand) = poller.buf /\ Tail(CapHand) = <<>>  BY <2>1
  <2>4. CASE capEmpty' = Append(capEmpty, poller.buf) /\ capLost' = capLost
    <3> DEFINE p == <<capEmpty, BufsOf(capFull), <<>>, <<>> >>
    <3>1. p \in [1..4 -> Seq(CapBuf)]  BY <1>2, PlacesType
    <3>2. DOMAIN p = 1..4 /\ p[1] = capEmpty /\ p[2] = BufsOf(capFull)
          /\ p[3] = <<>> /\ p[4] = <<>>
      BY <1>6
    <3> HIDE DEF p
    <3>3. Loses(CapPlaces, p, 4) /\ Gains(p, CapPlaces', 1, Head(CapPlaces[4]))
      BY <3>2, <2>1, <2>3, <2>4, <1>4, <1>11 DEF Loses, Gains
    <3>4. Held(CapPlaces') = Held(CapPlaces)
      <4>1. Len(CapHand) = 1 /\ Len(CapHand') = 0 /\ Len(capEmpty') = Len(capEmpty) + 1
        BY <2>1, <2>4, <1>2
      <4> QED  BY <4>1, <1>5, <1>11
    <3> QED  BY <3>1, <3>3, <3>4, <2>4, <1>9
  <2>5. CASE capEmpty' = capEmpty /\ capLost' = capLost \cup {poller.buf}
    <3>1. Loses(CapPlaces, CapPlaces', 4)
      BY <2>1, <2>3, <2>5, <1>4, <1>11 DEF Loses
    <3> QED  BY <3>1, <2>1, <2>5, <1>10, <1>11
  <2> QED  BY <2>2, <2>4, <2>5
<1>12. CASE DeviceEncodes
  <2>1. /\ capEmpty # <<>> /\ capEmpty' = Tail(capEmpty) /\ UNCHANGED <<poller, capLost>>
        /\ outQueued # <<>>
    BY <1>12 DEF DeviceEncodes
  <2>2. CapHand' = CapHand  BY <2>1 DEF CapHand
  <2>3. PICK fits \in Ioctl :
          capFull' = Append(capFull, [buf |-> Head(capEmpty),
                                      frame |-> Head(outQueued).frame, fits |-> fits])
    BY <1>12 DEF DeviceEncodes
  <2>4. fits \in BOOLEAN  BY <2>3, Zenon DEF Ioctl
  <2>5. Head(capEmpty) \in CapBuf /\ Tail(capEmpty) \in Seq(CapBuf)
        /\ Len(Tail(capEmpty)) + 1 = Len(capEmpty)
    BY <2>1, <1>2, HeadAndTail
  <2> DEFINE r == [buf |-> Head(capEmpty), frame |-> Head(outQueued).frame, fits |-> fits]
  <2>6. r \in Q /\ r.buf = Head(capEmpty)
    <3>1. Head(outQueued) \in [buf : OutBuf, frame : Nat]
      BY <2>1, <1>1, HeadAndTail DEF M2mTypes
    <3> QED  BY <3>1, <2>4, <2>5 DEF Q
  <2>7. capFull' = Append(capFull, r)  BY <2>3
  <2> HIDE DEF r
  <2>8. BufsOf(capFull') = Append(BufsOf(capFull), Head(capEmpty))
    <3>1. BufsOf(Append(capFull, r)) = Append(BufsOf(capFull), r.buf)
      <4>1. capFull \in Seq(Q) /\ \A e \in Q : e.buf \in CapBuf
            /\ BufsOf(capFull) \in Seq(CapBuf)
        BY <1>2
      <4>2. \A e \in Q : BufsOf(Append(capFull, e)) = Append(BufsOf(capFull), e.buf)
        BY <4>1, BufsFacts
      <4> QED  BY <4>2, <2>6
    <3> QED  BY <3>1, <2>6, <2>7
  <2> DEFINE p == <<Tail(capEmpty), BufsOf(capFull), <<>>, CapHand>>
  <2>9. p \in [1..4 -> Seq(CapBuf)]  BY <2>5, <1>2, PlacesType
  <2>10. DOMAIN p = 1..4 /\ p[1] = Tail(capEmpty) /\ p[2] = BufsOf(capFull)
         /\ p[3] = <<>> /\ p[4] = CapHand
    BY <1>6
  <2> HIDE DEF p
  <2>11. Loses(CapPlaces, p, 1) /\ Gains(p, CapPlaces', 2, Head(CapPlaces[1]))
    BY <2>1, <2>2, <2>8, <2>10, <1>4 DEF Loses, Gains
  <2>12. Held(CapPlaces') = Held(CapPlaces)
    <3>1. Len(capFull') = Len(capFull) + 1  BY <2>6, <2>7, <1>2
    <3> QED  BY <3>1, <2>1, <2>2, <2>5, <1>5
  <2> QED  BY <2>1, <2>9, <2>11, <2>12, <1>9
<1>13. CASE PollCapture
  <2>1. /\ capFull # <<>> /\ capFull' = Tail(capFull) /\ UNCHANGED <<capEmpty, capLost>>
        /\ poller' = [at |-> "capture", buf |-> Head(capFull).buf,
                      frame |-> Head(capFull).frame, user |-> 0, fits |-> Head(capFull).fits]
        /\ poller.at = "poll"
    BY <1>13 DEF PollCapture, Polling
  <2>2. CapHand = <<>> /\ CapHand' = <<Head(capFull).buf>>  BY <2>1 DEF CapHand
  <2> DEFINE b == BufsOf(capFull)
  <2>3. BufsOf(capFull') = Tail(b) /\ b # <<>> /\ Head(b) = Head(capFull).buf
    BY <2>1, <1>2, BufsFacts
  <2>4. Head(b) \in CapBuf /\ Tail(b) \in Seq(CapBuf)
    BY <2>3, <1>2, HeadAndTail
  <2> DEFINE p == <<capEmpty, Tail(b), <<>>, <<>> >>
  <2>5. p \in [1..4 -> Seq(CapBuf)]  BY <2>4, <1>2, PlacesType
  <2>6. DOMAIN p = 1..4 /\ p[1] = capEmpty /\ p[2] = Tail(b) /\ p[3] = <<>> /\ p[4] = <<>>
    BY <1>6
  <2> HIDE DEF p
  <2>7. Loses(CapPlaces, p, 2) /\ Gains(p, CapPlaces', 4, Head(CapPlaces[2]))
    <3>1. <<Head(capFull).buf>> = Append(<<>>, Head(capFull).buf)  OBVIOUS
    <3> QED  BY <3>1, <2>1, <2>2, <2>3, <2>6, <1>4 DEF Loses, Gains
  <2>8. Held(CapPlaces') = Held(CapPlaces)
    <3>1. Len(capFull') = Len(capFull) - 1  BY <2>1, <1>2, HeadAndTail
    <3>2. Len(CapHand) = 0 /\ Len(CapHand') = 1  BY <2>2
    <3> QED  BY <3>1, <3>2, <2>1, <1>5
  <2> QED  BY <2>1, <2>5, <2>7, <2>8, <1>9
<1>14. CASE TakeUserData
  <2>1. poller.at = "capture" /\ capFull' = capFull
    BY <1>14 DEF TakeUserData
  <2>2. CASE poller' = [poller EXCEPT !.at = "handler", !.user = Head(userData)]
             /\ UNCHANGED <<capEmpty, capLost>>
    <3>1. poller'.at = "handler" /\ poller'.buf = poller.buf  BY <2>2, <1>1 DEF M2mTypes
    <3>2. CapHand' = CapHand  BY <3>1, <2>1 DEF CapHand
    <3> QED  BY <3>2, <2>1, <2>2, <1>2, <1>8
  <2>3. CASE poller' = Idle("poll") /\ Requeue(poller.buf)
    BY <2>1, <2>3, <1>11
  <2> QED  BY <2>2, <2>3, <1>14 DEF TakeUserData
<1>15. CASE HandleFrame
  BY <1>11, <1>15 DEF HandleFrame
<1>16. CASE EncodeRefused \/ EncodeQueues \/ DropEncoder \/ PollerJoined \/ PollOutput
            \/ ReturnOutput \/ PollFails \/ PollerAborts \/ UNCHANGED m2mVars
  <2>1. UNCHANGED <<capEmpty, capFull, capLost>>
    BY <1>16 DEF EncodeRefused, EncodeQueues, DropEncoder, PollerJoined, PollOutput,
                 ReturnOutput, PollFails, PollerAborts, m2mVars, capVars
  <2>2. CapHand' = CapHand
    <3>1. CASE PollOutput \/ ReturnOutput \/ PollFails \/ PollerAborts
      <4>1. poller.at \notin {"capture", "handler"} /\ poller'.at \notin {"capture", "handler"}
        BY <3>1 DEF PollOutput, ReturnOutput, PollFails, PollerAborts, Polling, Idle
      <4> QED  BY <4>1 DEF CapHand
    <3>2. CASE EncodeQueues
      <4>1. poller' = poller \/ (poller.at = "off" /\ poller' = Idle("poll"))
        BY <3>2 DEF EncodeQueues
      <4> QED  BY <4>1 DEF CapHand, Idle
    <3>3. CASE EncodeRefused \/ DropEncoder \/ PollerJoined \/ UNCHANGED m2mVars
      <4>1. poller' = poller
        BY <3>3 DEF EncodeRefused, DropEncoder, PollerJoined, m2mVars
      <4> QED  BY <4>1 DEF CapHand
    <3> QED  BY <3>1, <3>2, <3>3, <1>16
  <2> QED  BY <2>1, <2>2, <1>2, <1>8
<1> QED
  BY <1>12, <1>13, <1>14, <1>15, <1>16 DEF M2mNext, PollerStep

LEMMA LineKept == M2mInv /\ [M2mNext]_m2mVars => (DataLine /\ Rises /\ Pairs)'
<1> SUFFICES ASSUME M2mInv, [M2mNext]_m2mVars PROVE (DataLine /\ Rises /\ Pairs)'
  OBVIOUS
<1>1. M2mTypes /\ DataLine /\ Rises /\ Pairs /\ M2mTypes'  BY TypesKept DEF M2mInv
<1>2. /\ Len(userData) \in Nat /\ Len(capFull) \in Nat /\ Len(outQueued) \in Nat
      /\ Len(produced) \in Nat /\ encodes \in Nat /\ userData \in Seq(Nat)
      /\ \A i \in 1..Len(userData) : userData[i] \in Nat
      /\ \A i \in 1..Len(produced) : produced[i].frame \in Nat /\ produced[i].user \in Nat
      /\ \A i \in 1..Len(outQueued) : outQueued[i].frame \in Nat
      /\ \A i \in 1..Len(capFull) : capFull[i].frame \in Nat
  <2>1. /\ userData \in Seq(Nat) /\ produced \in Seq([frame : Nat, user : Nat])
        /\ outQueued \in Seq([buf : OutBuf, frame : Nat]) /\ encodes \in Nat
        /\ capFull \in Seq([buf : CapBuf, frame : Nat, fits : BOOLEAN])
    BY <1>1 DEF M2mTypes
  <2>2. \A i \in 1..Len(produced) : produced[i] \in [frame : Nat, user : Nat]
    BY <2>1, Elements
  <2>3. \A i \in 1..Len(outQueued) : outQueued[i] \in [buf : OutBuf, frame : Nat]
    BY <2>1, Elements
  <2>4. \A i \in 1..Len(capFull) : capFull[i] \in [buf : CapBuf, frame : Nat, fits : BOOLEAN]
    BY <2>1, Elements
  <2> QED  BY SMTT(30), <2>1, <2>2, <2>3, <2>4
<1>3. Taken \in {0, 1} /\ (Taken = 1 <=> poller.at = "capture")
      /\ (Taken' = 1 <=> poller'.at = "capture") /\ Taken' \in {0, 1}
  BY DEF Taken
<1>4. ASSUME UNCHANGED <<userData, capFull, outQueued, produced>>, Taken' = Taken,
             Taken = 1 => poller'.frame = poller.frame,
             encodes' = encodes \/ encodes' = encodes + 1,
             poller'.at = "handler" => poller'.frame = poller.frame /\ poller.at = "handler"
      PROVE  (DataLine /\ Rises /\ Pairs)'
  <2>1. DataLine'  BY <1>1, <1>3, <1>4 DEF DataLine
  <2>2. Rises'
    <3>1. encodes' \in Nat /\ encodes <= encodes'  BY <1>2, <1>4
    <3>2. \A i \in 1..Len(userData) : userData[i] <= encodes'
      BY <3>1, <1>1, <1>2 DEF Rises
    <3>3. \A i \in 1..Len(produced) : produced[i].frame <= encodes'
      BY <3>1, <1>1, <1>2 DEF Rises
    <3>4. ASSUME poller'.at = "handler"
          PROVE  /\ poller'.frame <= encodes'
                 /\ \A i \in 1..Len(produced) : produced[i].frame < poller'.frame
                 /\ \A j \in 1..Len(userData) : poller'.frame < userData[j]
      <4>1. poller.frame \in Nat /\ poller.at = "handler" /\ poller'.frame = poller.frame
        BY <3>4, <1>1, <1>4 DEF M2mTypes
      <4> QED  BY <4>1, <3>1, <1>1, <1>2 DEF Rises
    <3> QED  BY <3>2, <3>3, <3>4, <1>1, <1>4 DEF Rises
  <2>3. Pairs'  BY <1>1, <1>4 DEF Pairs
  <2> QED  BY <2>1, <2>2, <2>3
\* A frame joins the line at its end, with its user data.
<1>5. CASE EncodeQueues
  <2>1. /\ outQueued' = Append(outQueued, [buf |-> Head(outFree), frame |-> encodes'])
        /\ userData' = Append(userData, encodes') /\ encodes' = encodes + 1
        /\ UNCHANGED <<capFull, produced>>
        /\ (poller' = poller \/ (poller.at = "off" /\ poller' = Idle("poll")))
    BY <1>5 DEF EncodeQueues, CanEncode, capVars
  <2>2. Taken' = Taken /\ (Taken = 1 => poller'.frame = poller.frame)
    BY <2>1 DEF Taken, Idle
  <2> DEFINE n == Len(userData) + 1  m == Len(outQueued) + 1
  <2>3. /\ Len(userData') = n /\ Len(outQueued') = m /\ userData'[n] = encodes'
        /\ outQueued'[m].frame = encodes'
        /\ \A i \in 1..Len(userData) : userData'[i] = userData[i]
        /\ \A i \in 1..Len(outQueued) : outQueued'[i] = outQueued[i]
    <3>1. outQueued \in Seq([buf : OutBuf, frame : Nat])  BY <1>1 DEF M2mTypes
    <3>2. Len(userData') = n /\ userData'[n] = encodes'
          /\ \A i \in 1..Len(userData) : userData'[i] = userData[i]
      BY <2>1, <1>2
    <3>3. Len(outQueued') = m /\ outQueued'[m] = [buf |-> Head(outFree), frame |-> encodes']
          /\ \A i \in 1..Len(outQueued) : outQueued'[i] = outQueued[i]
      BY <2>1, <3>1
    <3> QED  BY <3>2, <3>3
  <2>4. DataLine'
    <3>1. Len(userData) = Taken + Len(capFull) + Len(outQueued)  BY <1>1 DEF DataLine
    <3>2. Taken = 1 => userData'[1] = poller'.frame
      BY <2>2, <2>3, <3>1, <1>1, <1>2 DEF DataLine
    <3>3. \A i \in 1..Len(capFull) : userData'[Taken + i] = capFull[i].frame
      <4> TAKE i \in 1..Len(capFull)
      <4>1. Taken + i \in 1..Len(userData)  BY <3>1, <1>2, <1>3
      <4> QED  BY <4>1, <2>3, <1>1 DEF DataLine
    <3>4. \A i \in 1..m : userData'[Taken + Len(capFull) + i] = outQueued'[i].frame
      <4> TAKE i \in 1..m
      <4>1. CASE i = m
        <5>1. Taken + Len(capFull) + i = n  BY <4>1, <3>1, <1>2, <1>3
        <5> QED  BY <5>1, <4>1, <2>3
      <4>2. CASE i \in 1..Len(outQueued)
        <5>1. Taken + Len(capFull) + i \in 1..Len(userData)  BY <4>2, <3>1, <1>2, <1>3
        <5> QED  BY <5>1, <4>2, <2>3, <1>1 DEF DataLine
      <4> QED  BY <4>1, <4>2, <1>2
    <3>5. n = Taken + Len(capFull) + m
      <4>1. Taken \in Nat /\ Len(capFull) \in Nat /\ Len(outQueued) \in Nat  BY <1>2, <1>3
      <4> QED  BY <3>1, <4>1
    <3> QED  BY <3>2, <3>3, <3>4, <3>5, <2>1, <2>2, <2>3 DEF DataLine
  <2>5. Rises'
    <3>1. \A i \in 1..n : i \in 1..Len(userData) \/ i = n  BY <1>2
    <3>2. \A i, j \in 1..n : i < j => userData'[i] < userData'[j]
      <4> SUFFICES ASSUME NEW i \in 1..n, NEW j \in 1..n, i < j
                   PROVE  userData'[i] < userData'[j]
        OBVIOUS
      <4>1. i \in 1..Len(userData)  BY <3>1, <1>2
      <4>2. CASE j = n
        BY <4>1, <4>2, <2>1, <2>3, <1>1, <1>2 DEF Rises
      <4>3. CASE j \in 1..Len(userData)
        BY <4>1, <4>3, <2>3, <1>1 DEF Rises
      <4> QED  BY <4>2, <4>3, <3>1
    <3>3. \A i \in 1..n : userData'[i] <= encodes'
      BY <3>1, <2>1, <2>3, <1>1, <1>2 DEF Rises
    <3>4. \A i \in 1..Len(produced) : produced[i].frame <= encodes /\ encodes < encodes'
      BY <2>1, <1>1, <1>2 DEF Rises
    <3>5. \A i \in 1..Len(produced), j \in 1..n : produced[i].frame < userData'[j]
      BY <3>1, <3>4, <2>1, <2>3, <1>1, <1>2 DEF Rises
    <3>6. \A i \in 1..Len(produced) : produced[i].frame <= encodes'
      BY <3>4, <2>1, <1>2
    <3>7. ASSUME poller'.at = "handler"
          PROVE  /\ poller'.frame <= encodes'
                 /\ \A i \in 1..Len(produced) : produced[i].frame < poller'.frame
                 /\ \A j \in 1..n : poller'.frame < userData'[j]
      <4>1. poller' = poller /\ poller.at = "handler" /\ poller.frame \in Nat
        BY <3>7, <2>1, <1>1 DEF Idle, M2mTypes
      <4>2. poller.frame <= encodes /\ poller.frame < encodes'
        BY <4>1, <2>1, <1>1, <1>2 DEF Rises
      <4>3. \A j \in 1..n : poller.frame < userData'[j]
        BY <4>1, <4>2, <3>1, <2>3, <1>1 DEF Rises
      <4>4. \A i \in 1..Len(produced) : produced[i].frame < poller.frame
        BY <4>1, <1>1 DEF Rises
      <4>5. poller.frame <= encodes'  BY <4>1, <4>2, <2>1, <1>2
      <4> QED  BY <4>1, <4>3, <4>4, <4>5
    <3> QED  BY <3>2, <3>3, <3>5, <3>6, <3>7, <2>1, <2>3 DEF Rises
  <2>6. Pairs'  BY <2>1, <1>1 DEF Pairs
  <2> QED  BY <2>4, <2>5, <2>6
\* The device moves the first frame it has not read behind the filled ones.
<1>6. CASE DeviceEncodes
  <2>1. /\ outQueued # <<>> /\ outQueued' = Tail(outQueued) /\ capEmpty # <<>>
        /\ UNCHANGED <<userData, poller, encodes, produced>>
    BY <1>6 DEF DeviceEncodes
  <2>2. PICK fits \in Ioctl :
          capFull' = Append(capFull, [buf |-> Head(capEmpty),
                                      frame |-> Head(outQueued).frame, fits |-> fits])
    BY <1>6 DEF DeviceEncodes
  <2>3. Taken' = Taken  BY <2>1 DEF Taken
  <2> DEFINE m == Len(capFull) + 1
  <2>4. /\ Len(outQueued') = Len(outQueued) - 1 /\ Len(outQueued) \in Nat \ {0}
        /\ \A i \in 1..Len(outQueued) - 1 : outQueued'[i] = outQueued[i + 1]
        /\ Head(outQueued) = outQueued[1]
    <3>1. outQueued \in Seq([buf : OutBuf, frame : Nat])  BY <1>1 DEF M2mTypes
    <3> QED  BY <3>1, <2>1, HeadAndTail
  <2>5. /\ Len(capFull') = m /\ capFull'[m].frame = outQueued[1].frame
        /\ \A i \in 1..Len(capFull) : capFull'[i] = capFull[i]
    <3>1. capFull \in Seq([buf : CapBuf, frame : Nat, fits : BOOLEAN])  BY <1>1 DEF M2mTypes
    <3>2. Len(capFull') = m /\ \A i \in 1..Len(capFull) : capFull'[i] = capFull[i]
      BY <2>2, <3>1
    <3>3. capFull'[m] = [buf |-> Head(capEmpty), frame |-> Head(outQueued).frame, fits |-> fits]
      BY <2>2, <3>1
    <3> QED  BY <3>2, <3>3, <2>4
  <2>6. DataLine'
    <3>1. Len(userData) = Taken + m + (Len(outQueued) - 1)  BY <1>1, <1>2, <1>3 DEF DataLine
    <3>2. \A i \in 1..m : userData[Taken + i] = capFull'[i].frame
      <4> TAKE i \in 1..m
      <4>1. CASE i = m
        <5>1. 1 \in 1..Len(outQueued) /\ Taken + i = Taken + Len(capFull) + 1
          BY <4>1, <2>4, <1>2, <1>3
        <5>2. userData[Taken + Len(capFull) + 1] = outQueued[1].frame
          BY <5>1, <1>1 DEF DataLine
        <5> QED  BY <5>1, <5>2, <4>1, <2>5
      <4>2. CASE i \in 1..Len(capFull)
        BY <4>2, <2>5, <1>1 DEF DataLine
      <4> QED  BY <4>1, <4>2, <1>2
    <3>3. \A i \in 1..Len(outQueued) - 1 : userData[Taken + m + i] = outQueued'[i].frame
      <4> TAKE i \in 1..Len(outQueued) - 1
      <4>1. i + 1 \in 1..Len(outQueued) /\ Taken + m + i = Taken + Len(capFull) + (i + 1)
        BY <1>2, <1>3
      <4>2. userData[Taken + Len(capFull) + (i + 1)] = outQueued[i + 1].frame
        BY <4>1, <1>1 DEF DataLine
      <4> QED  BY <4>1, <4>2, <2>4
    <3> QED  BY <3>1, <3>2, <3>3, <2>1, <2>3, <2>4, <2>5, <1>1 DEF DataLine
  <2>7. Rises'  BY <2>1, <1>1 DEF Rises
  <2>8. Pairs'  BY <2>1, <1>1 DEF Pairs
  <2> QED  BY <2>6, <2>7, <2>8
\* The poller takes the oldest filled buffer: the front of the line.
<1>7. CASE PollCapture
  <2>1. /\ capFull # <<>> /\ capFull' = Tail(capFull) /\ poller.at = "poll"
        /\ UNCHANGED <<userData, outQueued, encodes, produced>>
        /\ poller' = [at |-> "capture", buf |-> Head(capFull).buf,
                      frame |-> Head(capFull).frame, user |-> 0, fits |-> Head(capFull).fits]
    BY <1>7 DEF PollCapture, Polling, outVars
  <2>2. Taken = 0 /\ Taken' = 1 /\ poller'.at = "capture"
        /\ poller'.frame = Head(capFull).frame
    BY <2>1 DEF Taken
  <2>3. /\ Len(capFull') = Len(capFull) - 1 /\ Len(capFull) \in Nat \ {0}
        /\ \A i \in 1..Len(capFull) - 1 : capFull'[i] = capFull[i + 1]
        /\ Head(capFull) = capFull[1]
    <3>1. capFull \in Seq([buf : CapBuf, frame : Nat, fits : BOOLEAN])  BY <1>1 DEF M2mTypes
    <3> QED  BY <3>1, <2>1, HeadAndTail
  <2>4. DataLine'
    <3>1. Len(userData) = 1 + (Len(capFull) - 1) + Len(outQueued)
      BY <2>2, <1>1, <1>2 DEF DataLine
    <3>2. userData[1] = poller'.frame
      <4>1. 1 \in 1..Len(capFull) /\ Taken + 1 = 1  BY <2>2, <2>3
      <4>2. userData[Taken + 1] = capFull[1].frame  BY <4>1, <1>1 DEF DataLine
      <4> QED  BY <4>1, <4>2, <2>2, <2>3
    <3>3. \A i \in 1..Len(capFull) - 1 : userData[1 + i] = capFull'[i].frame
      <4> TAKE i \in 1..Len(capFull) - 1
      <4>1. i + 1 \in 1..Len(capFull) /\ Taken + (i + 1) = 1 + i  BY <2>2, <1>2
      <4>2. userData[Taken + (i + 1)] = capFull[i + 1].frame  BY <4>1, <1>1 DEF DataLine
      <4> QED  BY <4>1, <4>2, <2>3
    <3>4. \A i \in 1..Len(outQueued) : userData[1 + (Len(capFull) - 1) + i] = outQueued[i].frame
      <4> TAKE i \in 1..Len(outQueued)
      <4>1. Taken + Len(capFull) + i = 1 + (Len(capFull) - 1) + i  BY <2>2, <1>2
      <4>2. userData[Taken + Len(capFull) + i] = outQueued[i].frame  BY <1>1 DEF DataLine
      <4> QED  BY <4>1, <4>2
    <3> QED  BY <3>1, <3>2, <3>3, <3>4, <2>1, <2>2, <2>3 DEF DataLine
  <2>5. Rises'  BY <2>1, <2>2, <1>1 DEF Rises
  <2>6. Pairs'  BY <2>1, <1>1 DEF Pairs
  <2> QED  BY <2>4, <2>5, <2>6
\* The front of the line leaves it, frame and user data together.
<1>8. CASE TakeUserData
  <2>1. poller.at = "capture" /\ Taken = 1 /\ poller.frame \in Nat
        /\ UNCHANGED <<capFull, outQueued, produced, encodes>>
    BY <1>1, <1>8 DEF TakeUserData, Taken, M2mTypes, outVars
  <2>2. Len(userData) = 1 + Len(capFull) + Len(outQueued) /\ userData[1] = poller.frame
    BY <2>1, <1>1 DEF DataLine
  <2>3. userData # <<>>  BY <2>2, <1>2
  <2>4. userData' = Tail(userData)  BY <2>3, <1>8 DEF TakeUserData
  <2>5. /\ Len(userData') = Len(userData) - 1 /\ Head(userData) = userData[1]
        /\ \A i \in 1..Len(userData) - 1 : userData'[i] = userData[i + 1]
    BY <2>3, <2>4, <1>2, HeadAndTail
  <2>6. \/ poller' = Idle("poll")
        \/ poller' = [poller EXCEPT !.at = "handler", !.user = Head(userData)]
    BY <1>8 DEF TakeUserData
  <2>7. poller'.at # "capture" /\ (poller'.at = "handler" => poller'.frame = poller.frame)
    <3>1. CASE poller' = Idle("poll")  BY <3>1 DEF Idle
    <3>2. CASE poller' = [poller EXCEPT !.at = "handler", !.user = Head(userData)]
      <4>1. poller'.at = "handler" /\ poller'.frame = poller.frame  BY <3>2, <1>1 DEF M2mTypes
      <4> QED  BY <4>1
    <3> QED  BY <3>1, <3>2, <2>6
  <2>8. Taken' = 0  BY <2>7, <1>3
  <2>9. DataLine'
    <3>1. Len(userData') = Len(capFull) + Len(outQueued)  BY <2>2, <2>5, <1>2
    <3>2. \A i \in 1..Len(capFull) : userData'[i] = capFull[i].frame
      <4> TAKE i \in 1..Len(capFull)
      <4>1. i \in 1..Len(userData) - 1 /\ i + 1 = Taken + i  BY <2>1, <2>2, <1>2
      <4>2. userData[Taken + i] = capFull[i].frame  BY <1>1 DEF DataLine
      <4> QED  BY <4>1, <4>2, <2>5
    <3>3. \A i \in 1..Len(outQueued) : userData'[Len(capFull) + i] = outQueued[i].frame
      <4> TAKE i \in 1..Len(outQueued)
      <4>1. Len(capFull) + i \in 1..Len(userData) - 1
            /\ (Len(capFull) + i) + 1 = Taken + Len(capFull) + i
        BY <2>1, <2>2, <1>2
      <4>2. userData[Taken + Len(capFull) + i] = outQueued[i].frame  BY <1>1 DEF DataLine
      <4> QED  BY <4>1, <4>2, <2>5
    <3>4. \A i \in Nat : 0 + i = i  OBVIOUS
    <3> QED  BY <3>1, <3>2, <3>3, <3>4, <2>1, <2>8, <1>2 DEF DataLine
  <2>10. Rises'
    <3>1. \A i \in 1..Len(userData') : i + 1 \in 1..Len(userData) /\ userData'[i] = userData[i + 1]
      BY SMTT(30), <2>5, <1>2
    <3>2. 1 \in 1..Len(userData)  BY <2>2, <1>2
    <3>3. \A i, j \in 1..Len(userData') : i < j => userData'[i] < userData'[j]
      <4> SUFFICES ASSUME NEW i \in 1..Len(userData'), NEW j \in 1..Len(userData'), i < j
                   PROVE  userData'[i] < userData'[j]
        OBVIOUS
      <4>1. i + 1 \in 1..Len(userData) /\ j + 1 \in 1..Len(userData) /\ i + 1 < j + 1
        BY <3>1
      <4> QED  BY <4>1, <3>1, <1>1 DEF Rises
    <3>4. \A i \in 1..Len(userData') : userData'[i] <= encodes
      BY <3>1, <1>1 DEF Rises
    <3>5. \A i \in 1..Len(produced), j \in 1..Len(userData') : produced[i].frame < userData'[j]
      BY <3>1, <1>1 DEF Rises
    <3>6. \A i \in 1..Len(produced) : produced[i].frame <= encodes  BY <1>1 DEF Rises
    <3>7. poller.frame <= encodes /\ \A i \in 1..Len(produced) : produced[i].frame < poller.frame
      BY <3>2, <2>2, <1>1 DEF Rises
    <3>8. \A j \in 1..Len(userData') : poller.frame < userData'[j]
      <4> TAKE j \in 1..Len(userData')
      <4>1. j + 1 \in 1..Len(userData) /\ 1 < j + 1  BY <3>1
      <4> QED  BY <4>1, <3>1, <3>2, <2>2, <1>1 DEF Rises
    <3> QED  BY <3>3, <3>4, <3>5, <3>6, <3>7, <3>8, <2>1, <2>7 DEF Rises
  <2>11. Pairs'  BY <2>1, <1>1 DEF Pairs
  <2> QED  BY <2>9, <2>10, <2>11
<1>9. CASE HandleFrame
  <2>1. /\ poller.at = "handler" /\ poller' = Idle("poll")
        /\ produced' = Append(produced, [frame |-> poller.frame, user |-> poller.user])
        /\ UNCHANGED <<outQueued, capFull, userData, encodes>>
        /\ poller.frame \in Nat /\ poller.user = poller.frame
    BY <1>1, <1>9 DEF HandleFrame, M2mTypes, outVars
  <2>2. Taken = 0 /\ Taken' = 0 /\ poller'.at = "poll"  BY <2>1 DEF Taken, Idle
  <2> DEFINE n == Len(produced) + 1
  <2>3. /\ Len(produced') = n /\ produced'[n].frame = poller.frame
        /\ produced'[n].user = poller.user
        /\ \A i \in 1..Len(produced) : produced'[i] = produced[i]
    <3>1. produced \in Seq([frame : Nat, user : Nat])  BY <1>1 DEF M2mTypes
    <3>2. Len(produced') = n /\ produced'[n] = [frame |-> poller.frame, user |-> poller.user]
          /\ \A i \in 1..Len(produced) : produced'[i] = produced[i]
      BY <3>1, <2>1
    <3> QED  BY <3>2
  <2>4. \A i \in 1..n : i \in 1..Len(produced) \/ i = n  BY <1>2
  <2>5. /\ poller.frame <= encodes
        /\ \A i \in 1..Len(produced) : produced[i].frame < poller.frame
        /\ \A j \in 1..Len(userData) : poller.frame < userData[j]
    BY <2>1, <1>1 DEF Rises
  <2>6. DataLine'  BY <2>1, <2>2, <1>1 DEF DataLine
  <2>7. Rises'
    <3>1. \A i \in 1..n, j \in 1..Len(userData) : produced'[i].frame < userData[j]
      BY <2>3, <2>4, <2>5, <1>1 DEF Rises
    <3>2. \A i \in 1..n : produced'[i].frame <= encodes
      BY <2>3, <2>4, <2>5, <1>1 DEF Rises
    <3> QED  BY <3>1, <3>2, <2>1, <2>2, <2>3, <1>1 DEF Rises
  <2>8. Pairs'
    <3>1. \A i \in 1..n : produced'[i].frame = produced'[i].user
      BY <2>1, <2>3, <2>4, <1>1 DEF Pairs
    <3>2. \A i, j \in 1..n : i < j => produced'[i].frame < produced'[j].frame
      <4> SUFFICES ASSUME NEW i \in 1..n, NEW j \in 1..n, i < j
                   PROVE  produced'[i].frame < produced'[j].frame
        OBVIOUS
      <4>1. i \in 1..Len(produced)  BY <2>4, <1>2
      <4>2. CASE j = n  BY <4>1, <4>2, <2>3, <2>5
      <4>3. CASE j \in 1..Len(produced)  BY <4>1, <4>3, <2>3, <1>1 DEF Pairs
      <4> QED  BY <4>2, <4>3, <2>4
    <3> QED  BY <3>1, <3>2, <2>3 DEF Pairs
  <2> QED  BY <2>6, <2>7, <2>8
<1>10. CASE EncodeRefused \/ DropEncoder \/ PollerJoined \/ UNCHANGED m2mVars
  <2>1. /\ UNCHANGED <<userData, capFull, outQueued, produced, poller>>
        /\ (encodes' = encodes \/ encodes' = encodes + 1)
    BY <1>10 DEF EncodeRefused, CanEncode, DropEncoder, PollerJoined, m2mVars, outVars, capVars
  <2>2. Taken' = Taken  BY <2>1 DEF Taken
  <2> QED  BY <2>1, <2>2, <1>4
<1>11. CASE PollOutput \/ ReturnOutput \/ PollFails \/ PollerAborts
  <2>1. /\ UNCHANGED <<userData, capFull, outQueued, produced, encodes>>
        /\ poller.at # "capture"
        /\ poller'.at \in {"poll", "output", "gone"}
    BY <1>11 DEF PollOutput, ReturnOutput, PollFails, PollerAborts, Polling, Idle,
                 outVars, capVars
  <2>2. Taken' = 0 /\ Taken = 0  BY <2>1 DEF Taken
  <2> QED  BY <2>1, <2>2, <1>4
<1> QED
  BY <1>5, <1>6, <1>7, <1>8, <1>9, <1>10, <1>11 DEF M2mNext, PollerStep

LEMMA M2mNextInv == M2mInv /\ [M2mNext]_m2mVars => M2mInv'
BY TypesKept, OutKept, CapKept, LineKept DEF M2mInv

LEMMA M2mInvAlways == M2mSpec => []M2mInv
<1>1. M2mInit => M2mInv  BY M2mInitInv
<1>2. M2mInv /\ [M2mNext]_m2mVars => M2mInv'  BY M2mNextInv
<1> QED  BY <1>1, <1>2, PTL DEF M2mSpec

\* What the inductive invariant says of buffers and frames includes FramesPaired.
LEMMA BuffersPaired == M2mInv => FramesPaired
<1> SUFFICES ASSUME M2mInv PROVE FramesPaired
  OBVIOUS
<1>1. M2mTypes /\ OutSound /\ CapSound /\ Pairs  BY DEF M2mInv
<1> DEFINE ob == BufsOf(outQueued)  cb == BufsOf(capFull)
           outs == outFree \o ob \o outSpent  caps == capEmpty \o cb
<1>2. /\ OutPlaces \in [1..4 -> Seq(OutBuf)] /\ CapPlaces \in [1..4 -> Seq(CapBuf)]
      /\ ob \in Seq(OutBuf) /\ Len(ob) = Len(outQueued)
      /\ cb \in Seq(CapBuf) /\ Len(cb) = Len(capFull)
      /\ outFree \in Seq(OutBuf) /\ outSpent \in Seq(OutBuf) /\ capEmpty \in Seq(CapBuf)
  BY <1>1, PlacesInv DEF M2mTypes
<1>3. /\ OutPlaces[1] = outFree /\ OutPlaces[2] = ob /\ OutPlaces[3] = outSpent
      /\ OutPlaces[4] = OutHand
      /\ CapPlaces[1] = capEmpty /\ CapPlaces[2] = cb /\ CapPlaces[3] = <<>>
      /\ CapPlaces[4] = CapHand
  BY DEF OutPlaces, CapPlaces
<1>4. IsInjective(outs)
  <2>1. Parted(OutPlaces)  BY <1>1 DEF OutSound
  <2> QED  BY <2>1, <1>2, <1>3, PartsInject
<1>5. IsInjective(caps)
  <2>1. Parted(CapPlaces)  BY <1>1 DEF CapSound
  <2> QED  BY <2>1, <1>2, <1>3, PartsInject
<1>6. Len(outs) + (IF poller.at = "output" THEN 1 ELSE 0) = Cardinality(OutBuf)
  <2>1. Len(outs) = Len(outFree) + Len(ob) + Len(outSpent)  BY <1>2
  <2>2. Len(OutHand) = IF poller.at = "output" THEN 1 ELSE 0  BY DEF OutHand
  <2>3. Len(outFree) + Len(ob) + Len(outSpent) + Len(OutHand) = Cardinality(OutBuf)
    BY <1>1, <1>3 DEF OutSound, Held
  <2> QED  BY <2>1, <2>2, <2>3
<1>7. Len(caps) + (IF poller.at \in {"capture", "handler"} THEN 1 ELSE 0)
        + Cardinality(capLost) = Cardinality(CapBuf)
  <2>1. Len(caps) = Len(capEmpty) + Len(cb) /\ Len(<<>>) = 0 /\ Len(capEmpty) \in Nat
        /\ Len(cb) \in Nat
    BY <1>2, ConcatProperties
  <2>2. Len(CapHand) = IF poller.at \in {"capture", "handler"} THEN 1 ELSE 0
    BY DEF CapHand
  <2>3. Len(capEmpty) + Len(cb) + Len(<<>>) + Len(CapHand) + Cardinality(capLost)
          = Cardinality(CapBuf)
    BY <1>1, <1>3 DEF CapSound, Held
  <2> QED  BY <2>1, <2>2, <2>3
<1>8. DOMAIN produced = 1..Len(produced)  BY <1>1 DEF M2mTypes
<1>9. /\ \A i \in DOMAIN produced : produced[i].frame = produced[i].user
      /\ \A i, j \in DOMAIN produced : i < j => produced[i].frame < produced[j].frame
  BY <1>1, <1>8 DEF Pairs
<1> QED  BY <1>4, <1>5, <1>6, <1>7, <1>9 DEF FramesPaired, BufsOf

\* For any numbers of OUTPUT and CAPTURE buffers and any number of calls of
\* encode, with ioctls that may fail: every buffer of encoder.rs is in
\* exactly one place, and on_encoded gets each frame with the user data it
\* was queued with, in the order of the calls.
THEOREM FramesPairedAlways == M2mSpec => []FramesPaired
BY BuffersPaired, M2mInvAlways, PTL

-----------------------------------------------------------------------------
(* The threads between the capture device and the hub.                     *)

\* what the encoder thread's channel carries
Event == {"frame", "error", "disconnected"}

\* A queue with one event more, or as it was when it is full.
LEMMA TrySendFits ==
  ASSUME NEW S, NEW cap \in Nat, NEW q \in Seq(S), Len(q) <= cap, NEW e \in S
  PROVE  TrySend(q, cap, e) \in Seq(S) /\ Len(TrySend(q, cap, e)) <= cap
BY DEF TrySend

\* A queue that an event was taken from.
LEMMA TailFits ==
  ASSUME NEW S, NEW cap \in Nat, NEW q \in Seq(S), Len(q) <= cap, q # <<>>
  PROVE  Tail(q) \in Seq(S) /\ Len(Tail(q)) <= cap /\ Head(q) \in S
OBVIOUS

\* The state start_camera_pipeline begins in has its type.
LEMMA CamInitTypes == CamInit => CamTypeOK
<1> SUFFICES ASSUME CamInit PROVE CamTypeOK
  OBVIOUS
<1>1. encoderKind \in {"hardware", "software"}
  <2>1. PICK m \in CamModes, n \in {"M2M", "missing", "not M2M"} : encoderKind = Decide(m, n)
    BY DEF CamInit
  <2>2. m = "auto" \/ m = "hardware" \/ m = "software"
    BY CamAssumption
  <2> QED
    BY <2>1, <2>2 DEF Decide, CamInit
<1>2. camThread \in [at : {"create", "top", "grab", "encode", "send", "backoff", "exited"},
                     force : BOOLEAN, skip : BOOLEAN]
  BY DEF CamInit, Thread
<1>3. /\ SessionCap \in Nat /\ InnerCap \in Nat /\ EventCap \in Nat /\ TapCap \in Nat
      /\ MaxIdr \in Nat /\ MaxCamFailures \in Nat
      /\ IPeriod \in Nat \ {0} /\ FpsDiv \in Nat \ {0}
  BY CamAssumption
<1>4. <<>> \in Seq({"frame", "error"}) /\ <<>> \in Seq({"frame", "error", "disconnected"})
      /\ Len(<<>>) = 0
  OBVIOUS
<1>5. /\ inner = <<>> /\ events = <<>> /\ captureDev = "closed" /\ atKernel = {}
      /\ frameCounter = 0 /\ inSession = 0 /\ pump = "recv" /\ pumped = FALSE
      /\ idrFlag = FALSE /\ idrOwed = FALSE /\ idrs = 0 /\ camFailures = 0
      /\ tap = 0 /\ subThread = "recv" /\ subCounter = 0
  BY DEF CamInit
<1>6. /\ Len(inner) <= InnerCap /\ Len(events) <= EventCap
  BY <1>3, <1>4, <1>5
<1>7. 0 \in 0..IPeriod - 1 /\ 0 \in 0..FpsDiv - 1
  BY <1>3
<1>8. /\ frameCounter \in 0..IPeriod - 1 /\ inSession \in 0..SessionCap
      /\ idrs \in 0..MaxIdr /\ camFailures \in 0..MaxCamFailures /\ tap \in 0..TapCap
      /\ subCounter \in 0..FpsDiv - 1
  BY <1>3, <1>5, <1>7
<1>9. pumped \in BOOLEAN /\ {idrFlag, idrOwed} \subseteq BOOLEAN
  BY <1>5
<1> QED
  BY <1>1, <1>2, <1>4, <1>5, <1>6, <1>8, <1>9 DEF CamTypeOK

\* Every step of the threads of the camera keeps the types and the bounds of
\* the channels.
LEMMA CamNextTypes == CamTypeOK /\ [CamNext]_camVars => CamTypeOK'
<1> SUFFICES ASSUME CamTypeOK, [CamNext]_camVars PROVE CamTypeOK'
  OBVIOUS
<1> DEFINE Threads == [at : {"create", "top", "grab", "encode", "send", "backoff", "exited"},
                       force : BOOLEAN, skip : BOOLEAN]
<1>1. /\ encoderKind \in {"hardware", "software"}
      /\ captureDev \in {"closed", "open", "streaming"} /\ atKernel \subseteq CaptureBuf
      /\ camThread \in Threads
      /\ frameCounter \in 0..IPeriod - 1 /\ inSession \in 0..SessionCap
      /\ inner \in Seq({"frame", "error"}) /\ Len(inner) <= InnerCap
      /\ events \in Seq(Event) /\ Len(events) <= EventCap
      /\ pump \in {"recv", "sleep"} /\ pumped \in BOOLEAN
      /\ idrFlag \in BOOLEAN /\ idrOwed \in BOOLEAN
      /\ idrs \in 0..MaxIdr /\ camFailures \in 0..MaxCamFailures /\ tap \in 0..TapCap
      /\ subThread \in {"recv", "send", "exited"} /\ subCounter \in 0..FpsDiv - 1
  BY DEF CamTypeOK, Event
<1>2. /\ SessionCap \in Nat /\ InnerCap \in Nat /\ EventCap \in Nat /\ TapCap \in Nat
      /\ MaxIdr \in Nat /\ MaxCamFailures \in Nat /\ CaptureBuf # {}
      /\ IPeriod \in Nat \ {0} /\ FpsDiv \in Nat \ {0}
  BY CamAssumption
<1> DEFINE After ==
      /\ captureDev' \in {"closed", "open", "streaming"} /\ atKernel' \subseteq CaptureBuf
      /\ camThread' \in Threads
      /\ frameCounter' \in 0..IPeriod - 1 /\ inSession' \in 0..SessionCap
      /\ inner' \in Seq({"frame", "error"}) /\ Len(inner') <= InnerCap
      /\ events' \in Seq(Event) /\ Len(events') <= EventCap
      /\ pump' \in {"recv", "sleep"} /\ pumped' \in BOOLEAN
      /\ idrFlag' \in BOOLEAN /\ idrOwed' \in BOOLEAN
      /\ idrs' \in 0..MaxIdr /\ camFailures' \in 0..MaxCamFailures /\ tap' \in 0..TapCap
      /\ subThread' \in {"recv", "send", "exited"} /\ subCounter' \in 0..FpsDiv - 1
<1>3. ASSUME UNCHANGED encoderKind, After PROVE CamTypeOK'
  BY <1>1, <1>3 DEF CamTypeOK, Event
<1>4. /\ \A e \in Event : /\ TrySend(events, EventCap, e) \in Seq(Event)
                          /\ Len(TrySend(events, EventCap, e)) <= EventCap
      /\ TrySend(inner, InnerCap, "frame") \in Seq({"frame", "error"})
      /\ Len(TrySend(inner, InnerCap, "frame")) <= InnerCap
  <2>1. \A e \in Event : /\ TrySend(events, EventCap, e) \in Seq(Event)
                         /\ Len(TrySend(events, EventCap, e)) <= EventCap
    BY <1>1, <1>2, TrySendFits
  <2>2. "frame" \in {"frame", "error"}
    OBVIOUS
  <2>3. /\ TrySend(inner, InnerCap, "frame") \in Seq({"frame", "error"})
        /\ Len(TrySend(inner, InnerCap, "frame")) <= InnerCap
    BY <1>1, <1>2, <2>2, TrySendFits
  <2> QED
    BY <2>1, <2>3
<1>5. ASSUME NEW step \in {"create", "top", "grab", "encode", "send", "backoff", "exited"}, Goto(step)
      PROVE  camThread' \in Threads
  BY <1>1, <1>5 DEF Goto
<1>6. Fails => camFailures' \in 0..MaxCamFailures
  BY <1>1, <1>2 DEF Fails
<1>7. Works => camFailures' \in 0..MaxCamFailures
  BY <1>1 DEF Works
<1>8. ASSUME NEW e \in Event, ThreadEnds(e)
      PROVE  /\ camThread' \in Threads /\ events' \in Seq(Event) /\ Len(events') <= EventCap
             /\ inSession' = inSession /\ inner' = inner
  <2>1. Thread("exited") \in Threads
    BY DEF Thread
  <2> HIDE DEF Threads
  <2> QED
    BY <1>4, <1>8, <2>1 DEF ThreadEnds
<1>9. "error" \in Event /\ "frame" \in Event /\ "disconnected" \in Event
  BY DEF Event
<1> HIDE DEF Threads, Event
<1>10. CASE CreateEncoder
  <2>1. camThread' \in Threads
    BY <1>5, <1>10 DEF CreateEncoder
  <2> QED
    BY <1>1, <1>2, <1>3, <1>4, <1>6, <1>7, <1>9, <1>10, <2>1
    DEF CreateEncoder, captureVars, idrVars, subVars
<1>11. CASE BackoffEnds
  <2>1. camThread' \in Threads
    BY <1>5, <1>11 DEF BackoffEnds
  <2> QED
    BY <1>1, <1>2, <1>3, <1>11, <2>1 DEF BackoffEnds, captureVars, idrVars, subVars
<1>12. CASE ForwardInner
  <2>1. Head(inner) \in {"frame", "error"} /\ Tail(inner) \in Seq({"frame", "error"})
        /\ Len(Tail(inner)) <= InnerCap
    BY <1>1, <1>2, <1>12, TailFits DEF ForwardInner
  <2>2. Head(inner) \in Event
    BY <1>9, <2>1
  <2> QED
    BY <1>1, <1>3, <1>4, <1>12, <2>1, <2>2 DEF ForwardInner, captureVars, idrVars, subVars
<1>13. CASE BeginTurnHardware
  <2>1. PICK throttled \in BOOLEAN :
          camThread' = [at |-> "grab", force |-> frameCounter = 0 \/ idrFlag,
                        skip |-> throttled /\ frameCounter' % 2 = 1]
    BY <1>13 DEF BeginTurnHardware
  <2>2. camThread' \in Threads
    BY <2>1 DEF Threads
  <2>3. frameCounter' \in 0..IPeriod - 1
    BY <1>1, <1>2, <1>13 DEF BeginTurnHardware
  <2> QED
    BY <1>1, <1>3, <1>13, <2>2, <2>3
    DEF BeginTurnHardware, captureVars, queueVars, idrVars, subVars
<1>14. CASE BeginTurnSoftware
  <2>1. camThread' \in Threads
    BY <1>5, <1>14 DEF BeginTurnSoftware
  <2> QED
    BY <1>1, <1>3, <1>14, <2>1 DEF BeginTurnSoftware, captureVars, queueVars, idrVars, subVars
<1>15. CASE Prepare
  <2>1. captureDev' \in {"closed", "open", "streaming"} /\ atKernel' \subseteq CaptureBuf
    BY <1>1, <1>15 DEF Prepare, OpenCapture, StartStreaming
  <2> QED
    BY <1>1, <1>3, <1>7, <1>15, <2>1 DEF Prepare, queueVars, idrVars, subVars
<1>16. CASE FrameGrabbed
  <2>1. camThread' \in Threads
    <3>1. Goto("top") \/ Goto("encode")
      BY <1>16 DEF FrameGrabbed
    <3> QED
      BY <1>5, <3>1
  <2>2. tap' \in 0..TapCap
    BY <1>1, <1>2, <1>16 DEF FrameGrabbed
  <2> QED
    BY <1>1, <1>3, <1>16, <2>1, <2>2
    DEF FrameGrabbed, FrameCaptured, captureVars, queueVars, idrVars
<1>17. CASE GrabFails
  <2>1. /\ captureDev' \in {"closed", "open", "streaming"} /\ atKernel' \subseteq CaptureBuf
        /\ camFailures' \in 0..MaxCamFailures
    <3>1. CASE captureDev # "open" /\ Fails /\ UNCHANGED captureVars
      BY <1>1, <1>6, <3>1 DEF captureVars
    <3>2. CASE StartFails
      <4>1. (CHOOSE b \in CaptureBuf : TRUE) \in CaptureBuf
        BY <1>2
      <4>2. CASE atKernel = {}
        BY <1>1, <1>6, <3>2, <4>1, <4>2 DEF StartFails
      <4>3. CASE atKernel # {}
        BY <1>1, <1>7, <3>2, <4>3 DEF StartFails
      <4> QED
        BY <4>2, <4>3
    <3>3. CASE RequeueFails /\ Fails
      BY <1>1, <1>6, <3>3 DEF RequeueFails
    <3> QED
      BY <1>17, <3>1, <3>2, <3>3 DEF GrabFails
  <2>2. /\ camThread' \in Threads /\ events' \in Seq(Event) /\ Len(events') <= EventCap
        /\ inSession' = inSession /\ inner' = inner
    BY <1>4, <1>5, <1>8, <1>9, <1>17 DEF GrabFails
  <2> QED
    BY <1>1, <1>3, <1>17, <2>1, <2>2 DEF GrabFails, idrVars, subVars
<1>18. CASE GrabDisconnects
  <2>1. /\ camThread' \in Threads /\ events' \in Seq(Event) /\ Len(events') <= EventCap
        /\ inSession' = inSession /\ inner' = inner
    BY <1>8, <1>9, <1>18 DEF GrabDisconnects
  <2>2. camFailures' \in 0..MaxCamFailures
    BY <1>6, <1>7, <1>18 DEF GrabDisconnects
  <2> QED
    BY <1>1, <1>3, <1>18, <2>1, <2>2
    DEF GrabDisconnects, CaptureTimesOut, captureVars, idrVars, subVars
<1>19. CASE EncodeHardware
  <2>1. camThread' \in Threads
    BY <1>5, <1>19 DEF EncodeHardware
  <2>2. inSession' \in 0..SessionCap
    BY <1>1, <1>2, <1>19 DEF EncodeHardware
  <2> QED
    BY <1>1, <1>3, <1>7, <1>19, <2>1, <2>2 DEF EncodeHardware, Settles, captureVars, subVars
<1>20. CASE EncodeFails
  <2>1. camThread' \in Threads
    BY <1>5, <1>20 DEF EncodeFails
  <2> QED
    BY <1>1, <1>3, <1>4, <1>6, <1>9, <1>20, <2>1
    DEF EncodeFails, captureVars, idrVars, subVars
<1>21. CASE EncodeSoftware
  <2>1. camThread' \in Threads
    BY <1>5, <1>21 DEF EncodeSoftware
  <2> QED
    BY <1>1, <1>3, <1>7, <1>21, <2>1 DEF EncodeSoftware, Settles, captureVars, queueVars, subVars
<1>22. CASE SoftwareFails
  <2>1. /\ camThread' \in Threads /\ events' \in Seq(Event) /\ Len(events') <= EventCap
        /\ inSession' = inSession /\ inner' = inner
    BY <1>8, <1>9, <1>22 DEF SoftwareFails
  <2> QED
    BY <1>1, <1>3, <1>6, <1>22, <2>1 DEF SoftwareFails, captureVars, subVars
<1>23. CASE SendSoftware
  <2>1. camThread' \in Threads
    BY <1>5, <1>23 DEF SendSoftware
  <2>2. events' \in Seq(Event) /\ Len(events') <= EventCap
    BY <1>1, <1>2, <1>9, <1>23 DEF SendSoftware
  <2> QED
    BY <1>1, <1>3, <1>23, <2>1, <2>2 DEF SendSoftware, captureVars, idrVars, subVars
<1>24. CASE SessionEmits
  <2>1. inSession' \in 0..SessionCap
    BY <1>1, <1>2, <1>24 DEF SessionEmits
  <2> QED
    BY <1>1, <1>3, <1>4, <1>24, <2>1 DEF SessionEmits, captureVars, idrVars, subVars
<1>25. CASE PumpReceives
  <2>1. events' \in Seq(Event) /\ Len(events') <= EventCap
    BY <1>1, <1>2, <1>25, TailFits DEF PumpReceives
  <2> QED
    BY <1>1, <1>3, <1>25, <2>1 DEF PumpReceives, captureVars, idrVars, subVars
<1>26. CASE PumpFindsClosed \/ PumpWakes
  BY <1>1, <1>3, <1>26
  DEF PumpFindsClosed, PumpWakes, captureVars, queueVars, idrVars, subVars
<1>27. CASE RaiseIdr
  <2>1. idrs' \in 0..MaxIdr
    BY <1>1, <1>2, <1>27 DEF RaiseIdr
  <2> QED
    BY <1>1, <1>3, <1>27, <2>1 DEF RaiseIdr, captureVars, queueVars, subVars
<1>28. CASE SubReceives
  <2>1. tap' \in 0..TapCap /\ subCounter' \in 0..FpsDiv - 1
    BY <1>1, <1>2, <1>28 DEF SubReceives
  <2> QED
    BY <1>1, <1>3, <1>28, <2>1 DEF SubReceives, captureVars, queueVars, idrVars
<1>29. CASE SubSends \/ SubFindsClosed
  BY <1>1, <1>3, <1>29 DEF SubSends, SubFindsClosed, captureVars, queueVars, idrVars
<1>30. CASE UNCHANGED camVars
  BY <1>1, <1>3, <1>30 DEF camVars, captureVars, queueVars, idrVars, subVars
<1> QED
  BY <1>10, <1>11, <1>12, <1>13, <1>14, <1>15, <1>16, <1>17, <1>18, <1>19, <1>20, <1>21,
     <1>22, <1>23, <1>24, <1>25, <1>26, <1>27, <1>28, <1>29, <1>30
  DEF CamNext, CamThreadStep, PumpStep, SubStep

-----------------------------------------------------------------------------
(* The types of a frame and of the encoder session.                        *)

\* the buffer is as long as its size asks for, and the flips are through
GeoAlso ==
  /\ geoAt # "padded" => DOMAIN buf = 0..Len3(width, height) - 1
  /\ geoAt \in {"oriented", "scaled", "padded"} => plane \in 1..4 /\ row = 0

\* A captured frame fills its buffer.
LEMMA GeoInitAlso == GeoInit => GeoAlso
BY DEF GeoInit, GeoAlso

\* Turning, flipping, scaling and padding leave a buffer of the size they
\* say.
LEMMA GeoNextAlso == GeoInv /\ GeoAlso /\ [GeoNext]_geoVars => GeoAlso'
<1> SUFFICES ASSUME GeoInv, GeoAlso, [GeoNext]_geoVars PROVE GeoAlso'
  OBVIOUS
<1>1. CASE Rotate
  <2>1. geoAt = "captured" /\ geoAt' = "flip" /\ rotation \in {0, 90, 180, 270}
    BY <1>1 DEF Rotate, GeoInv, GeoTypes
  <2>2. CASE rotation \in {90, 270}
    <3>1. width' = height /\ height' = width
      BY <1>1, <2>2 DEF Rotate, RotatedDims
    <3>2. DOMAIN buf' = 0..Len3(height, width) - 1
      BY <1>1, <2>2 DEF Rotate, Laid
    <3> QED
      BY <2>1, <3>1, <3>2 DEF GeoAlso
  <2>3. CASE rotation \notin {90, 270}
    <3>1. width' = width /\ height' = height /\ buf' = buf
      BY <1>1, <2>3 DEF Rotate, RotatedDims
    <3> QED
      BY <2>1, <3>1 DEF GeoAlso
  <2> QED
    BY <2>2, <2>3
<1>2. CASE FlipRow
  <2>1. geoAt = "flip" /\ geoAt' = "flip" /\ width' = width /\ height' = height
    BY <1>2 DEF FlipRow
  <2>2. DOMAIN buf' = 0..Len3(width, height) - 1
    BY <1>2 DEF FlipRow, Laid
  <2> QED
    BY <2>1, <2>2 DEF GeoAlso
<1>3. CASE FlipDone
  <2>1. FlipPlace
    BY <1>3 DEF FlipDone, GeoInv
  <2> QED
    BY <1>3, <2>1 DEF FlipDone, FlipPlace, GeoAlso
<1>4. CASE Pad
  BY <1>4 DEF Pad, GeoAlso
<1>5. ASSUME NEW w \in Widths, NEW h \in Heights, Downscale(w, h) PROVE GeoAlso'
  <2>1. /\ geoAt = "oriented" /\ geoAt' = "scaled" /\ width' = w /\ height' = h
        /\ UNCHANGED <<plane, row>>
    BY <1>5 DEF Downscale
  <2>2. DOMAIN buf' = 0..Len3(w, h) - 1
    BY <1>5 DEF Downscale, Laid
  <2> QED
    BY <2>1, <2>2 DEF GeoAlso
<1>6. CASE UNCHANGED geoVars
  BY <1>6 DEF geoVars, GeoAlso
<1> QED
  BY <1>1, <1>2, <1>3, <1>4, <1>5, <1>6 DEF GeoNext

\* What the inductive invariant says of a frame includes its type.
LEMMA GeoTyped == GeoInv /\ GeoAlso => GeoTypeOK
<1> SUFFICES ASSUME GeoInv, GeoAlso PROVE GeoTypeOK
  OBVIOUS
<1>1. GeoTypes /\ width \in Nat /\ height \in Nat
  BY DEF GeoInv, GeoTypes, Side
<1>2. plane \in 1..4 /\ row \in 0..width + height
  <2>1. CASE geoAt = "captured"
    BY <1>1, <2>1 DEF GeoInv
  <2>2. CASE geoAt = "flip"
    <3>1. FlipPlace
      BY <2>2 DEF GeoInv
    <3>2. ASSUME plane <= 3 PROVE row \in 0..height
      <4>1. row \in 0..Planes(width, height)[plane].h - 1 /\ plane \in 1..3
        BY <3>1, <3>2 DEF FlipPlace, Lines
      <4>2. Planes(width, height)[plane].h = height
              \/ Planes(width, height)[plane].h = height \div 2
        <5>1. plane = 1 \/ plane = 2 \/ plane = 3
          BY <4>1
        <5>2. /\ Planes(width, height)[1].h = height
              /\ Planes(width, height)[2].h = height \div 2
              /\ Planes(width, height)[3].h = height \div 2
          BY DEF Planes
        <5> QED
          BY <5>1, <5>2
      <4>3. height \div 2 \in Nat /\ height \div 2 <= height
        BY <1>1
      <4> QED
        BY <1>1, <4>1, <4>2, <4>3
    <3> QED
      BY <1>1, <3>1, <3>2 DEF FlipPlace
  <2>3. CASE geoAt \in {"oriented", "scaled", "padded"}
    BY <1>1, <2>3 DEF GeoAlso
  <2> QED
    BY <1>1, <2>1, <2>2, <2>3 DEF GeoTypes
<1> QED
  BY <1>1, <1>2 DEF GeoTypes, GeoAlso, GeoTypeOK

\* what the calls of encode and Drop leave of the session
M2mAlso ==
  /\ encodes \in 0..MaxEncodes /\ streaming \in BOOLEAN /\ abort \in BOOLEAN
  /\ encoder \in {"live", "joining", "dropped"}
  /\ poller.at \in {"off", "poll", "output", "capture", "handler", "gone"}
  /\ poller.at \notin {"off", "gone"} => streaming
  /\ \A i \in 1..Len(userData) : userData[i] >= 1

\* A new session has no user data.
LEMMA M2mInitAlso == M2mInit => M2mAlso
<1> SUFFICES ASSUME M2mInit PROVE M2mAlso
  OBVIOUS
<1>1. /\ encodes = 0 /\ streaming = FALSE /\ abort = FALSE /\ encoder = "live"
      /\ userData = <<>> /\ poller = Idle("off")
  BY DEF M2mInit
<1>2. poller.at = "off"
  BY <1>1 DEF Idle
<1>3. encodes \in 0..MaxEncodes
  BY <1>1, M2mAssumption
<1>4. \A i \in 1..Len(userData) : userData[i] >= 1
  BY <1>1
<1> HIDE DEF Idle
<1> QED
  BY <1>1, <1>2, <1>3, <1>4 DEF M2mAlso

\* The poller runs only while the session streams, and user data is a
\* number of a call.
LEMMA M2mNextAlso == M2mInv /\ M2mAlso /\ [M2mNext]_m2mVars => M2mAlso'
<1> SUFFICES ASSUME M2mInv, M2mAlso, [M2mNext]_m2mVars PROVE M2mAlso'
  OBVIOUS
<1>1. M2mTypes /\ M2mTypes'
  BY TypesKept DEF M2mInv
<1>2. userData \in Seq(Nat) /\ encodes \in Nat /\ MaxEncodes \in Nat
  BY <1>1, M2mAssumption DEF M2mTypes
<1>3. ASSUME NEW s, s = userData \/ (s = Tail(userData) /\ userData # <<>>)
      PROVE  \A i \in 1..Len(s) : s[i] >= 1
  <2>1. CASE s = userData
    BY <2>1 DEF M2mAlso
  <2>2. CASE s = Tail(userData) /\ userData # <<>>
    <3>1. /\ Len(s) = Len(userData) - 1 /\ Len(userData) \in Nat
          /\ \A i \in 1..Len(userData) - 1 : s[i] = userData[i + 1]
      BY <1>2, <2>2, HeadAndTail
    <3> QED
      BY <3>1 DEF M2mAlso
  <2> QED
    BY <1>3, <2>1, <2>2
<1>4. poller.at \in {"output", "capture", "handler"} =>
        DOMAIN poller = {"at", "buf", "frame", "user", "fits"}
  BY <1>1 DEF M2mTypes
<1>5. CASE EncodeRefused
  BY <1>2, <1>3, <1>5 DEF EncodeRefused, CanEncode, M2mAlso, outVars, capVars
<1>6. CASE EncodeQueues
  <2>1. /\ encodes' = encodes + 1 /\ encodes < MaxEncodes
        /\ userData' = Append(userData, encodes') /\ encoder' = encoder /\ abort' = abort
    BY <1>6 DEF EncodeQueues, CanEncode
  <2>2. \A i \in 1..Len(userData') : userData'[i] >= 1
    <3>1. Len(userData') = Len(userData) + 1 /\ Len(userData) \in Nat
          /\ userData'[Len(userData) + 1] = encodes'
          /\ \A i \in 1..Len(userData) : userData'[i] = userData[i]
      BY <1>2, <2>1
    <3>2. encodes' >= 1
      BY <1>2, <2>1
    <3> QED
      BY <1>3, <3>1, <3>2
  <2>3. PICK ok \in Ioctl :
          /\ streaming' = (streaming \/ ok)
          /\ poller' = IF streaming' /\ poller.at = "off" THEN Idle("poll") ELSE poller
    BY <1>6 DEF EncodeQueues
  <2>4. ok \in BOOLEAN
    BY <2>3, Zenon DEF Ioctl
  <2>5. Idle("poll").at = "poll"
    BY DEF Idle
  <2>6. streaming' \in BOOLEAN
    BY <2>3, <2>4
  <2>7. /\ poller'.at \in {"off", "poll", "output", "capture", "handler", "gone"}
        /\ poller'.at \notin {"off", "gone"} => streaming'
    BY <2>3, <2>5 DEF M2mAlso
  <2>8. encodes' \in 0..MaxEncodes
    BY <1>2, <2>1
  <2> QED
    BY <2>1, <2>2, <2>6, <2>7, <2>8 DEF M2mAlso
<1>7. CASE DropEncoder \/ PollerJoined
  BY <1>7 DEF DropEncoder, PollerJoined, M2mAlso
<1>8. CASE DeviceEncodes
  BY <1>8 DEF DeviceEncodes, M2mAlso
<1>9. CASE PollOutput
  <2>1. poller'.at = "output"
    BY <1>9 DEF PollOutput, Idle
  <2> QED
    BY <1>9, <2>1 DEF PollOutput, Polling, M2mAlso, capVars
<1>10. CASE ReturnOutput \/ HandleFrame \/ PollFails \/ PollerAborts
  <2>1. poller'.at = "poll" \/ poller'.at = "gone"
    BY <1>10 DEF ReturnOutput, HandleFrame, PollFails, PollerAborts, Idle
  <2>2. poller'.at = "poll" => poller.at \in {"output", "handler"}
    BY <1>10 DEF ReturnOutput, HandleFrame, PollFails, PollerAborts, Idle
  <2>3. UNCHANGED <<userData, streaming, abort, encoder, encodes>>
    BY <1>10 DEF ReturnOutput, HandleFrame, PollFails, PollerAborts
  <2> QED
    BY <2>1, <2>2, <2>3 DEF M2mAlso
<1>11. CASE PollCapture
  BY <1>11 DEF PollCapture, Polling, M2mAlso
<1>12. CASE TakeUserData
  <2>1. poller.at = "capture" /\ UNCHANGED <<streaming, abort, encoder, encodes>>
    BY <1>12 DEF TakeUserData
  <2>2. poller'.at = "poll" \/ poller'.at = "handler"
    <3>1. poller' = [poller EXCEPT !.at = "handler", !.user = Head(userData)]
            \/ poller' = Idle("poll")
      BY <1>12 DEF TakeUserData
    <3>2. DOMAIN poller = {"at", "buf", "frame", "user", "fits"}
      BY <1>4, <2>1
    <3>3. [poller EXCEPT !.at = "handler", !.user = Head(userData)].at = "handler"
      BY <3>2
    <3>4. Idle("poll").at = "poll"
      BY DEF Idle
    <3> HIDE DEF Idle
    <3> QED
      BY <3>1, <3>3, <3>4
  <2>3. \A i \in 1..Len(userData') : userData'[i] >= 1
    BY <1>3, <1>12 DEF TakeUserData
  <2> QED
    BY <2>1, <2>2, <2>3 DEF M2mAlso
<1>13. CASE UNCHANGED m2mVars
  BY <1>13 DEF m2mVars, M2mAlso
<1> QED
  BY <1>5, <1>6, <1>7, <1>8, <1>9, <1>10, <1>11, <1>12, <1>13 DEF M2mNext, PollerStep

\* The frames at the device are those user data waits for.
LEMMA M2mTyped == M2mInv /\ M2mAlso => M2mTypeOK
<1> SUFFICES ASSUME M2mInv, M2mAlso PROVE M2mTypeOK
  OBVIOUS
<1>1. M2mTypes /\ DataLine /\ Rises
  BY DEF M2mInv
<1>2. userData \in Seq(Nat) /\ encodes \in Nat /\ Len(userData) \in Nat
      /\ \A i \in 1..Len(userData) : userData[i] \in 1..encodes
  <2>1. userData \in Seq(Nat) /\ encodes \in Nat
    BY <1>1 DEF M2mTypes
  <2>2. \A i \in 1..Len(userData) : userData[i] \in Nat
    BY <2>1
  <2> QED
    BY <1>1, <2>1, <2>2 DEF Rises, M2mAlso
<1>3. ToSet(outFree) \cup ToSet(outSpent) \subseteq OutBuf /\ ToSet(capEmpty) \subseteq CapBuf
  BY <1>1 DEF M2mTypes, ToSet
<1>4. ToSet(userData) \subseteq 1..encodes
  BY <1>2 DEF ToSet
<1>5. \A i \in DOMAIN outQueued : outQueued[i].buf \in OutBuf /\ outQueued[i].frame \in 1..encodes
  <2> SUFFICES ASSUME NEW i \in DOMAIN outQueued
               PROVE  outQueued[i].buf \in OutBuf /\ outQueued[i].frame \in 1..encodes
    OBVIOUS
  <2>5. outQueued \in Seq([buf : OutBuf, frame : Nat])
    BY <1>1 DEF M2mTypes
  <2>6. DOMAIN outQueued = 1..Len(outQueued)
        /\ \A j \in 1..Len(outQueued) : outQueued[j] \in [buf : OutBuf, frame : Nat]
    BY <2>5, Elements
  <2>1. i \in 1..Len(outQueued) /\ Len(outQueued) \in Nat
        /\ outQueued[i] \in [buf : OutBuf, frame : Nat]
    BY <2>5, <2>6
  <2>2. Taken \in 0..1 /\ Len(capFull) \in Nat
    BY <1>1 DEF Taken, M2mTypes
  <2>3. Taken + Len(capFull) + i \in 1..Len(userData)
    BY <1>1, <2>1, <2>2 DEF DataLine
  <2>4. outQueued[i].frame = userData[Taken + Len(capFull) + i]
    BY <1>1, <2>1 DEF DataLine
  <2> QED
    BY <1>2, <2>1, <2>3, <2>4
<1>6. \A i \in DOMAIN capFull : capFull[i].buf \in CapBuf /\ capFull[i].fits \in BOOLEAN
  <2> SUFFICES ASSUME NEW i \in DOMAIN capFull
               PROVE  capFull[i].buf \in CapBuf /\ capFull[i].fits \in BOOLEAN
    OBVIOUS
  <2>2. capFull \in Seq([buf : CapBuf, frame : Nat, fits : BOOLEAN])
    BY <1>1 DEF M2mTypes
  <2>1. capFull[i] \in [buf : CapBuf, frame : Nat, fits : BOOLEAN]
    BY <2>2, Elements
  <2> QED
    BY <2>1
<1> QED
  BY <1>1, <1>3, <1>4, <1>5, <1>6 DEF M2mTypeOK, M2mAlso, M2mTypes

-----------------------------------------------------------------------------
(* The machines of MCMedia side by side.                                   *)

MediaInv ==
  /\ GeoInv /\ GeoAlso /\ CamTypeOK /\ M2mInv /\ M2mAlso /\ NalInv
  /\ MseInv /\ ClockInv /\ RecInv /\ StoreInv /\ StoreBounds

\* Every machine of the run begins where its module says.
LEMMA MediaInitInv == MCInit => MediaInv
<1> SUFFICES ASSUME MCInit PROVE MediaInv
  OBVIOUS
<1>1. /\ GeoInit /\ CamInit /\ M2mInit /\ NalInit /\ MseInit /\ ClockInit /\ RecInit
      /\ StoreInit
  BY DEF MCInit
<1> QED
  BY <1>1, GeoInitInv, GeoInitAlso, CamInitTypes, M2mInitInv, M2mInitAlso, NalInitInv,
     MseInitInv, ClockInitInv, RecInitInv, StoreInitInv, StoreInitBounds DEF MediaInv

\* A step of the run is a step of one machine, and none of the others.
LEMMA OneMoves ==
  ASSUME [MCNext]_mediaVars
  PROVE  /\ [GeoNext]_geoVars /\ [CamNext]_camVars /\ [M2mNext]_m2mVars /\ [NalNext]_nalVars
         /\ [MseNext]_mseVars /\ [ClockNext]_clockVars /\ [RecNext]_recVars
         /\ [StoreNext]_storeVars
BY DEF MCNext, mediaVars

\* So each machine's invariant holds whichever of them runs.
LEMMA MediaNextInv == MediaInv /\ [MCNext]_mediaVars => MediaInv'
<1> SUFFICES ASSUME MediaInv, [MCNext]_mediaVars PROVE MediaInv'
  OBVIOUS
<1>1. /\ [GeoNext]_geoVars /\ [CamNext]_camVars /\ [M2mNext]_m2mVars /\ [NalNext]_nalVars
      /\ [MseNext]_mseVars /\ [ClockNext]_clockVars /\ [RecNext]_recVars
      /\ [StoreNext]_storeVars
  BY OneMoves
<1> QED
  BY <1>1, GeoNextInv, GeoNextAlso, CamNextTypes, M2mNextInv, M2mNextAlso, NalNextInv,
     MseStepInv, ClockStepInv, RecStepInv, StoreStepInv, StoreStepBounds DEF MediaInv

LEMMA MediaHolds == MCSpec => []MediaInv
BY MediaInitInv, MediaNextInv, PTL DEF MCSpec

(* Every variable between the sensor and the file keeps its type: the      *)
(* buffers their length, the channels of the capture, encoder, browser and *)
(* recording threads their bounds, and the counters of the store their     *)
(* range, whatever sizes, capacities and bounds they are built with.       *)
THEOREM MediaAlwaysTyped == MCSpec => []MCTypeOK
<1>1. MediaInv => MCTypeOK
  <2> SUFFICES ASSUME MediaInv PROVE MCTypeOK
    OBVIOUS
  <2>1. GeoTypeOK /\ M2mTypeOK /\ StoreTypeOK
    BY GeoTyped, M2mTyped, StoreTyped DEF MediaInv
  <2>2. CamTypeOK /\ NalTypeOK /\ MseTypeOK /\ ClockTypeOK /\ RecTypeOK
    BY DEF MediaInv, NalInv, MseInv, MseTypes, ClockInv, RecInv, RecTypes
  <2> QED
    BY <2>1, <2>2 DEF MCTypeOK
<1> QED
  BY <1>1, MediaHolds, PTL

(* What holds of each machine between the sensor and the file holds of them*)
(* side by side: frames are upright and leave the encoder with their own   *)
(* user data (camera/v4l2_capture.rs, encoder.rs), their units reach the   *)
(* muxer whole (streaming/h264.rs), a browser sees no hole that was not    *)
(* paid for with a key frame (web/video_stream.rs), and recordings and     *)
(* their directory are sound (src/src/recording).                          *)
THEOREM MediaAlwaysSound ==
  MCSpec => [](/\ UprightFrames /\ FramesPaired /\ UnitsArriveWhole
               /\ HoleOnlyBehindOvertakenKey /\ Handoff /\ RecordingsWhole /\ DirectorySound)
<1> DEFINE MediaSound ==
      /\ UprightFrames /\ FramesPaired /\ UnitsArriveWhole
      /\ HoleOnlyBehindOvertakenKey /\ Handoff /\ RecordingsWhole /\ DirectorySound
<1>1. MediaInv => MediaSound
  <2> SUFFICES ASSUME MediaInv PROVE MediaSound
    OBVIOUS
  <2>1. UprightFrames /\ FramesPaired /\ UnitsArriveWhole
    BY ViewIsUpright, BuffersPaired DEF MediaInv, NalInv
  <2>2. HoleOnlyBehindOvertakenKey /\ Handoff
    <3>1. Handoff
      BY DEF MediaInv, ClockInv, SeededPast, Handoff
    <3> QED
      BY <3>1, HolePaid DEF MediaInv
  <2>3. RecordingsWhole /\ DirectorySound
    BY WholeRecording, SoundDirectory DEF MediaInv
  <2> QED
    BY <2>1, <2>2, <2>3
<1> QED
  BY <1>1, MediaHolds, PTL
=============================================================================
