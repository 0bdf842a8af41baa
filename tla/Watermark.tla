------------------------------ MODULE Watermark ------------------------------
(***************************************************************************)
(* The line of text and clock that src/src/watermark.rs burns into every   *)
(* captured I420 picture.  The line is rasterised when it changes and kept *)
(* as a mask; a picture pays for the blit alone.                           *)
(*                                                                         *)
(* A picture is what the burn does to it: the indices of its one buffer    *)
(* whose luma or chroma is blended.  Coverage is what the font says, 0 to  *)
(* 255; the advances of its glyphs are whole pixels here, so that the pen  *)
(* needs no rounding.  A timestamp format has text in it: a formatted      *)
(* timestamp is empty only where none is shown.                            *)
(***************************************************************************)
EXTENDS Integers, Sequences, FiniteSets, FiniteSetsExt

CONSTANTS
  Font,          \* the glyphs of a font, the blank " " among them: metrics
                 \* and rows of coverage
  Margin,        \* distance from the edges (16 in the code)
  MarkTexts,     \* texts to configure, sequences of glyphs
  MarkFrames,    \* sizes the capture may negotiate
  Clocks         \* timestamps as they are formatted

\* The two blanks between the halves are told apart from a blank that is part of
\* a text or a format, which is a glyph like any other.
Glyphs == DOMAIN Font \ {" "}

\* What rasterize_line reads of the metrics to size a mask; a picture of one row
\* is no size a camera has.
ASSUME MarkAssumption ==
  /\ Margin \in Nat /\ " " \in DOMAIN Font
  /\ \A c \in DOMAIN Font : /\ Font[c].advance \in Nat /\ Font[c].height \in Nat
                            /\ Font[c].ymin \in Int
  /\ \A t \in MarkTexts : t \in Seq(Glyphs)
  /\ \A t \in Clocks : t \in Seq(Glyphs) \ {<<>>}
  /\ \A f \in MarkFrames : f \in Nat \X (Nat \ {1})

MinAlpha == 12

VARIABLES
  mark,          \* the [watermark] section
  mask,          \* cache_key and cache_mask
  clock,         \* the formatted timestamp of now
  burnt          \* what the last render_into did

markVars == <<mark, mask, clock, burnt>>

Positions == {"top-left", "top-right", "bottom-left", "bottom-right"}
NoMask == [line |-> <<>>, w |-> 0, h |-> 0, fill |-> <<>>, outline |-> <<>>]
NothingBurnt == [line |-> <<>>, size |-> <<0, 0>>, luma |-> {}, u |-> {}, v |-> {}]

\* Mutant: the blanks stand before the timestamp even without a text.
Line_Blanks(t) == mark.text \o (IF mark.stamp THEN <<" ", " ">> \o t ELSE <<>>)

\* text, two blanks and timestamp, with either half left out
Line(t) ==
  LET ts == IF mark.stamp THEN t ELSE <<>> IN
  IF mark.text = <<>> \/ ts = <<>> THEN mark.text \o ts
  ELSE mark.text \o <<" ", " ">> \o ts

Pen(line, i) == LET upto[k \in 0 .. i] == IF k = 0 THEN 0
                                         ELSE upto[k - 1] + Font[line[k]].advance
                IN upto[i]

Ascent(line) == Max({0} \cup {-Font[line[i]].ymin : i \in DOMAIN line})
Descent(line) == Max({0} \cup {Font[line[i]].ymin + Font[line[i]].height : i \in DOMAIN line})
GlyphX(line, i) == Max({0, Pen(line, i - 1) + Font[line[i]].xmin})
GlyphY(line, i) == Max({0, Ascent(line) + Font[line[i]].ymin})

\* rasterize_line: pixels <<y, x>> of the mask; the stroke is the largest
\* coverage of a pixel and its neighbours.
RasterizeLine(line) ==
  LET w == Pen(line, Len(line))
      h == Ascent(line) + Descent(line)
      pixels == (0 .. h - 1) \X (0 .. w - 1)
      Stamped(p, i) == LET g == Font[line[i]]
                           r == p[1] - GlyphY(line, i)
                           c == p[2] - GlyphX(line, i)
                       IN IF r \in 0 .. g.height - 1 /\ c \in 0 .. g.width - 1
                          THEN g.rows[r + 1][c + 1] ELSE 0
      fill == [p \in pixels |-> Max({0} \cup {Stamped(p, i) : i \in DOMAIN line})]
  IN [line |-> line, w |-> w, h |-> h, fill |-> fill,
      outline |-> [p \in pixels |-> Max({fill[q] : q \in
        {q \in pixels : q[1] - p[1] \in -1 .. 1 /\ q[2] - p[2] \in -1 .. 1}})]]

Saturating(a, b) == IF a > b THEN a - b ELSE 0

\* Mutant: the far corners leave room for the margin only.
Origin_NoRoom(position, w, h, m) ==
  <<Min({Saturating(w, 1), IF position \in {"top-left", "bottom-left"} THEN Margin
                ELSE Saturating(w, Margin)}),
    Min({Saturating(h, 1), IF position \in {"top-left", "top-right"} THEN Margin
                ELSE Saturating(h, m.h + Margin)})>>

Origin(position, w, h, m) ==
  <<Min({Saturating(w, 1), IF position \in {"top-left", "bottom-left"} THEN Margin
                ELSE Saturating(w, m.w + Margin)}),
    Min({Saturating(h, 1), IF position \in {"top-left", "top-right"} THEN Margin
                ELSE Saturating(h, m.h + Margin)})>>

Ink(m, p) == Max({m.fill[p], m.outline[p]}) >= MinAlpha

\* blit_mask, luma: the pixels of the mask that fall into the picture
BlitLuma(w, h, m, o) ==
  {(o[2] + p[1]) * w + o[1] + p[2] :
     p \in {p \in DOMAIN m.fill : Ink(m, p) /\ o[2] + p[1] < h /\ o[1] + p[2] < w}}

\* Mutant: half a cell at the end of the mask is left out.
CellsUpTo_Floor(x) == x \div 2

CellsUpTo(x) == (x + 1) \div 2

\* ... and chroma: the cells with ink, as offsets in either plane.  A pixel
\* above or left of the mask, in the cell of its first row or column, counts
\* as that row or column.
BlitCells(w, h, m, o) ==
  LET Over(cy, cx) ==
        {p \in {<<Saturating(y, o[2]), Saturating(x, o[1])>> :
                  y \in {y \in 2 * cy .. 2 * cy + 1 : y < h},
                  x \in {x \in 2 * cx .. 2 * cx + 1 : x < w}} : p \in DOMAIN m.fill}
      cells == (o[2] \div 2 .. CellsUpTo(Min({o[2] + m.h, h})) - 1)
                 \X (o[1] \div 2 .. CellsUpTo(Min({o[1] + m.w, w})) - 1)
  IN {c[1] * (w \div 2) + c[2] : c \in {c \in cells :
        \E p \in Over(c[1], c[2]) : Ink(m, p)}}

\* blit_mask; nothing to paint, or a buffer that is too short, is left alone.
Blit(w, h, whole, m) ==
  LET o == Origin(mark.position, w, h, m)
      uPlane == w * h
      vPlane == uPlane + (w \div 2) * (h \div 2)
      cells == BlitCells(w, h, m, o)
      nothing == [NothingBurnt EXCEPT !.line = m.line, !.size = <<w, h>>]
  IN IF 0 \in {m.w, m.h, w, h} \/ ~whole THEN nothing
     ELSE [nothing EXCEPT !.luma = BlitLuma(w, h, m, o),
             !.u = {uPlane + c : c \in cells}, !.v = {vPlane + c : c \in cells}]

-----------------------------------------------------------------------------
\* Mutant: a line of the same length is taken for the same line.
Cached_ByLength(line) == IF Len(mask.line) = Len(line) THEN mask ELSE RasterizeLine(line)

Cached(line) == IF mask.line = line THEN mask ELSE RasterizeLine(line)

\* render_into: nothing without a line; else the mask of the line is burnt.
RenderInto ==
  /\ \E size \in MarkFrames, whole \in BOOLEAN :
       LET line == Line(clock) IN
       IF line = <<>> THEN burnt' = NothingBurnt /\ UNCHANGED mask
       ELSE /\ mask' = Cached(line)
            /\ burnt' = Blit(size[1], size[2], whole, mask')
  /\ UNCHANGED <<mark, clock>>

\* Time passes between two pictures.
ClockMoves == clock' \in Clocks /\ burnt' = NothingBurnt /\ UNCHANGED <<mark, mask>>

MarkInit ==
  /\ mark \in [text : MarkTexts, stamp : BOOLEAN, position : Positions]
  /\ mask = NoMask /\ burnt = NothingBurnt /\ clock \in Clocks

MarkNext == RenderInto \/ ClockMoves

MarkSpec == MarkInit /\ [][MarkNext]_markVars

-----------------------------------------------------------------------------
(* Type invariant.                                                         *)
MarkTypeOK ==
  /\ mark.text \in MarkTexts /\ mark.position \in Positions /\ clock \in Clocks
  /\ burnt.size \in MarkFrames \cup {<<0, 0>>}

(* Every picture carries the line of its moment, whatever was cached, and  *)
(* inside its own buffer, however long the line and however small or odd a *)
(* picture of two rows or more.  A line does not begin or end in the blanks*)
(* between its halves.                                                     *)
LineOfTheMoment ==
  burnt # NothingBurnt =>
    LET w == burnt.size[1]  h == burnt.size[2] IN
    /\ burnt.line = Line(clock)
    /\ burnt.line # <<>> /\ burnt.line[1] # " " /\ burnt.line[Len(burnt.line)] # " "
    /\ burnt.luma \subseteq 0 .. w * h - 1
    /\ burnt.u \cup burnt.v \subseteq w * h .. (w * h * 3) \div 2 - 1

(* In a picture with even sides colour follows brightness: a cell of either*)
(* chroma plane is washed out exactly when one of its four pixels is inked.*)
ColourFollowsInk ==
  burnt.size[1] % 2 = 0 /\ burnt.size[2] % 2 = 0 =>
    LET w == burnt.size[1]  h == burnt.size[2]
        Inked == {<<(i \div w) \div 2, (i % w) \div 2>> : i \in burnt.luma}
    IN /\ burnt.u = {w * h + c[1] * (w \div 2) + c[2] : c \in Inked}
       /\ burnt.v = {(w * h) \div 4 + i : i \in burnt.u}

(* Where it fits between the margins the line is whole - as many inked     *)
(* rows and columns as the mask has - and keeps its distance from every    *)
(* edge.                                                                   *)
WholeWhereItFits ==
  burnt.luma # {} =>
    LET w == burnt.size[1]  h == burnt.size[2]  m == RasterizeLine(burnt.line)
        rows == {i \div w : i \in burnt.luma}  columns == {i % w : i \in burnt.luma}
        inked == {p \in DOMAIN m.fill : Ink(m, p)}
    IN m.w + 2 * Margin <= w /\ m.h + 2 * Margin <= h =>
         /\ rows \subseteq Margin .. h - 1 - Margin
         /\ columns \subseteq Margin .. w - 1 - Margin
         /\ Cardinality(burnt.luma) = Cardinality(inked)

WatermarkSound == LineOfTheMoment /\ ColourFollowsInk /\ WholeWhereItFits
=============================================================================
