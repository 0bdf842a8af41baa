---------------------------- MODULE ThermalPicture ----------------------------
(***************************************************************************)
(* The thermal channel's picture and its encoder thread (render.rs and     *)
(* gb_stream.rs under src/src/thermal): the thread draws the latest grid   *)
(* at its pace, encodes it in process and writes the units to a hub of its *)
(* own.  A platform that pulls the stream asks for a key frame through a   *)
(* flag; an encoder that failed is replaced.                               *)
(*                                                                         *)
(* Drawing is geometry: where the marks, the labels and the colour bar of  *)
(* a grid land.  A grid is its hottest and its coldest cell and how many   *)
(* letters each of its readings has.  What the encoder does with a picture *)
(* is the library's affair: a unit is a key frame or refers to the last    *)
(* unit of the same encoder, and an encoder that failed (sound is FALSE)   *)
(* "is not reusable after an error".                                       *)
(***************************************************************************)
EXTENDS Integers, FiniteSets, FiniteSetsExt

CONSTANTS
  ThermalSizes,    \* <<width, height>> as [gb28181_thermal] may give them
  Grids,           \* records hot, cold: cells; letters: of each reading
  IPeriod          \* i_period: pictures between key frames

ASSUME PeriodAssumption == IPeriod \in Nat \ {0}

\* The sensor's cells.
GridW == 32
GridH == 24

\* "-40.0" and "300.0" are the longest readings the sensor has, a ring and a
\* C behind them.
ASSUME GridsAssumption ==
  /\ \A g \in Grids :
       /\ {g.hot, g.cold} \subseteq 0 .. GridW * GridH - 1
       /\ {g.letters.hot, g.letters.cold, g.letters.centre} \subseteq 1 .. 7
       /\ \A i \in 1 .. 3 : g.letters.bar[i] \in 1 .. 7
  /\ \A s \in ThermalSizes : {s[1], s[2]} \subseteq Nat

VARIABLES
  params,          \* GbStreamParams: the size
  grid,            \* ThermalService::grid(): the last pass that succeeded
  idrFlag,         \* the shared AtomicBool
  encThread,       \* encode_loop: "turn", "draw", "failed", "ended"
  encoder,         \* the library: which one, units since a key, force, sound
  wrote,           \* history: the last unit in the hub
  owed             \* history: a request was taken and no key frame followed

pictureVars == <<params, grid, idrFlag, encThread, encoder, wrote, owed>>

NewEncoder(n) == [born |-> n, since |-> 0, force |-> FALSE, sound |-> TRUE]
NoUnit == [key |-> TRUE, born |-> 0, asked |-> FALSE, of |-> 0, shows |-> {}]

-----------------------------------------------------------------------------
(* render.rs                                                               *)

\* render_rgb_range: the cell a pixel's centre takes most of its colour from,
\* along one axis; the bilinear weights are the distance from it.
NearestCell(p, cells, extent) ==
  Min({cells - 1, Max({0, ((2 * p + 1) * cells) \div (2 * extent)})})

Scale(w) == IF w >= 480 THEN 2 ELSE 1

\* text_box of n characters, the degree ring among them.
TextBox(n, scale) == [w |-> ((n - 1) * 6 + 4) * scale + 4 * scale,
                      h |-> 7 * scale + 4 * scale]

LeftOver(a, b) == IF a > b THEN a - b ELSE 0

\* draw_text_aa: the box is pulled back from the right and lower edges, then
\* cut at them; its early return is for a picture without pixels.
DrawText(w, h, x, y, n, scale) ==
  LET b == TextBox(n, scale)
      left == Min({x, LeftOver(w, b.w + 6)})
      top == Min({y, LeftOver(h, b.h + 6)})
  IN [x |-> left, y |-> top, w |-> Min({b.w, w - left}), h |-> Min({b.h, h - top}),
      whole |-> b.w <= w - left /\ b.h <= h - top]

\* brackets: four corners, their arms outwards; the outline is drawn on the
\* same pixels as the core.
Brackets(w, h, cx, cy, s) ==
  LET half == s \div 2
      Arms == UNION {{<<cx + sx * half, cy + sy * (half + d)>>,
                      <<cx + sx * (half + d), cy + sy * half>>} :
                       sx \in {-1, 1}, sy \in {-1, 1}, d \in 0 .. Min({half + 1, 6}) - 1}
  IN {p \in Arms : p[1] \in 0 .. w - 1 /\ p[2] \in 0 .. h - 1}

CellW(w) == w \div GridW
CellH(h) == h \div GridH

\* Mutant: the label is always below its mark.
Mark_BelowOnly(w, h, cell, n) ==
  LET cx == (cell % GridW) * CellW(w) + CellW(w) \div 2
      cy == (cell \div GridW) * CellH(h) + CellH(h) \div 2
      b == TextBox(n, Scale(w))
  IN [cell |-> cell, at |-> <<cx, cy>>,
      frame |-> Brackets(w, h, cx, cy, Max({(CellW(w) * 3) \div 2, 6})),
      label |-> DrawText(w, h, LeftOver(cx, b.w \div 2), cy + CellH(h), n, Scale(w))]

\* overlay_temperatures, mark: below the bracket, above where it would run off.
Mark(w, h, cell, n) ==
  LET cx == (cell % GridW) * CellW(w) + CellW(w) \div 2
      cy == (cell \div GridW) * CellH(h) + CellH(h) \div 2
      b == TextBox(n, Scale(w))
      below == cy + CellH(h)
  IN [cell |-> cell, at |-> <<cx, cy>>,
      frame |-> Brackets(w, h, cx, cy, Max({(CellW(w) * 3) \div 2, 6})),
      label |-> DrawText(w, h, LeftOver(cx, b.w \div 2),
                         IF below + b.h + 4 <= h THEN below
                         ELSE LeftOver(cy, CellH(h) + b.h), n, Scale(w))]

\* ... the centre's spot, ...
Centre(w, h, n) ==
  LET b == TextBox(n, Scale(w)) IN
  [cell |-> (GridH \div 2) * GridW + GridW \div 2, at |-> <<w \div 2, h \div 2>>,
   frame |-> Brackets(w, h, w \div 2, h \div 2, Max({CellW(w), 6})),
   label |-> DrawText(w, h, LeftOver(w \div 2, b.w \div 2),
                      Min({h \div 2 + CellH(h), LeftOver(h, b.h + 6)}), n, Scale(w))]

\* ... and the bar with its three readings, hot end first.
BarX(w) == LeftOver(w, Max({Scale(w) * 8, 12}) + 10)
BarH(h) == (h * 2) \div 3
BarTicks(h) == LET top == (h - BarH(h)) \div 2
               IN <<top, top + BarH(h) \div 2, top + BarH(h)>>
BarLabels(w, h, letters) ==
  [i \in 1 .. 3 |->
     LET b == TextBox(letters[i], Scale(w))
     IN DrawText(w, h, LeftOver(BarX(w), b.w + 6),
                 LeftOver(BarTicks(h)[i], b.h \div 2), letters[i], Scale(w))]

\* render_rgb_annotated
Overlay(w, h, g) ==
  [marks |-> {Mark(w, h, g.hot, g.letters.hot), Mark(w, h, g.cold, g.letters.cold),
              Centre(w, h, g.letters.centre)},
   bar |-> BarLabels(w, h, g.letters.bar)]

-----------------------------------------------------------------------------
(* gb_stream.rs                                                            *)

\* The poll thread stores a grid; a lost sensor stores none.
GridStored ==
  /\ grid' \in Grids
  /\ UNCHANGED <<params, idrFlag, encThread, encoder, wrote, owed>>

\* DeviceControl IFrameCmd of the thermal instance.
IFrameCmd ==
  /\ idrFlag' = TRUE
  /\ UNCHANGED <<params, grid, encThread, encoder, wrote, owed>>

\* The head of a turn: the service stopped, or the request is taken.
TurnStops ==
  /\ encThread = "turn" /\ encThread' = "ended"
  /\ UNCHANGED <<params, grid, idrFlag, encoder, wrote, owed>>

\* Mutant: the request is taken and not passed to the encoder.
TurnTakes_Unforced ==
  /\ encThread = "turn" /\ encThread' = "draw" /\ idrFlag' = FALSE
  /\ owed' = (owed \/ idrFlag)
  /\ UNCHANGED <<params, grid, wrote, encoder>>

TurnTakes ==
  /\ encThread = "turn" /\ encThread' = "draw" /\ idrFlag' = FALSE
  /\ owed' = (owed \/ idrFlag)
  /\ encoder' = IF idrFlag THEN [encoder EXCEPT !.force = TRUE] ELSE encoder
  /\ UNCHANGED <<params, grid, wrote>>

EvenSides == params[1] % 2 = 0 /\ params[2] % 2 = 0

\* rgb_to_i420 takes even sizes only; the thread panics on any other.
Panics ==
  /\ encThread = "draw" /\ ~EvenSides /\ encThread' = "ended"
  /\ UNCHANGED <<params, grid, idrFlag, encoder, wrote, owed>>

Key == encoder.force \/ encoder.since = 0

\* encode_frame and hub.write
WritesUnit ==
  /\ encThread = "draw" /\ EvenSides /\ encoder.sound /\ encThread' = "turn"
  /\ wrote' = [key |-> Key, born |-> encoder.born, asked |-> owed,
               of |-> wrote.born, shows |-> {grid}]
  /\ encoder' = [encoder EXCEPT !.force = FALSE,
                   !.since = IF Key THEN 1 % IPeriod ELSE (@ + 1) % IPeriod]
  /\ owed' = (owed /\ ~Key)
  /\ UNCHANGED <<params, grid, idrFlag>>

\* No NAL unit: the encoder's rate control leaves out a picture, never a key
\* frame.
SkipsUnit ==
  /\ encThread = "draw" /\ EvenSides /\ encoder.sound /\ ~Key /\ encThread' = "turn"
  /\ UNCHANGED <<params, grid, idrFlag, encoder, wrote, owed>>

EncodeFails ==
  /\ encThread = "draw" /\ EvenSides /\ encThread' = "failed"
  /\ encoder' = [encoder EXCEPT !.sound = FALSE]
  /\ UNCHANGED <<params, grid, idrFlag, wrote, owed>>

\* Mutant: the thread goes on with the encoder, reset.
Recreates_Kept ==
  /\ encThread = "failed" /\ encThread' = "turn"
  /\ encoder' = [encoder EXCEPT !.force = FALSE, !.sound = TRUE]
  /\ UNCHANGED <<params, grid, idrFlag, wrote, owed>>

\* A fresh encoder takes the place of the one that failed; two in a row are
\* told apart by one bit.
Recreates ==
  /\ encThread = "failed" /\ encThread' = "turn"
  /\ encoder' = NewEncoder(1 - encoder.born)
  /\ UNCHANGED <<params, grid, idrFlag, wrote, owed>>

\* Re-creation fails: after a second the next turn begins with the encoder
\* that failed.
RecreateFails ==
  /\ encThread = "failed" /\ encThread' = "turn"
  /\ UNCHANGED <<params, grid, idrFlag, encoder, wrote, owed>>

\* A first encoder that cannot be made leaves the channel without a thread.
PictureInit ==
  /\ params \in ThermalSizes /\ grid \in Grids /\ idrFlag = FALSE
  /\ encThread \in {"turn", "ended"} /\ encoder = NewEncoder(0)
  /\ wrote = NoUnit /\ owed = FALSE

PictureNext ==
  \/ GridStored \/ IFrameCmd \/ TurnStops \/ TurnTakes \/ Panics \/ WritesUnit
  \/ SkipsUnit \/ EncodeFails \/ Recreates \/ RecreateFails

PictureSpec == PictureInit /\ [][PictureNext]_pictureVars

-----------------------------------------------------------------------------
(* Type invariant.                                                         *)
PictureTypeOK ==
  /\ params \in ThermalSizes /\ grid \in Grids /\ {idrFlag, owed} \subseteq BOOLEAN
  /\ encThread \in {"turn", "draw", "failed", "ended"} /\ wrote.shows \subseteq Grids
  /\ encoder \in [born : 0 .. 1, since : 0 .. IPeriod - 1, force : BOOLEAN,
                  sound : BOOLEAN]

(* The stream can be joined where it was asked to be: the first unit after *)
(* a request that was taken is a key frame, even if the encoder failed and *)
(* was replaced meanwhile; and no unit refers to one of another encoder.   *)
JoinableWhereAsked ==
  /\ wrote.asked => wrote.key
  /\ wrote.key \/ wrote.of = wrote.born

(* A picture there is room in: the configuration allows any other.         *)
Roomy == params[1] >= 96 /\ params[2] >= 72 /\ params[1] <= 4 * params[2]

(* The picture of every grid can be read where there is room.  Each mark   *)
(* shows some of its bracket, and its label is whole and beside the spot   *)
(* it is the reading of, wherever on the grid that is; the readings of the *)
(* bar are whole, below one another and left of it.  In a picture of a     *)
(* whole number of pixels to a cell a mark lies on its own cell.           *)
PictureReads ==
  Roomy => \A g \in wrote.shows :
    LET w == params[1]  h == params[2]  o == Overlay(w, h, g) IN
    /\ \A m \in o.marks :
         /\ m.frame # {} /\ m.label.whole
         /\ m.at[2] \notin m.label.y .. m.label.y + m.label.h - 1
         /\ w % GridW = 0 /\ h % GridH = 0 =>
              m.cell = NearestCell(m.at[2], GridH, h) * GridW + NearestCell(m.at[1], GridW, w)
    /\ \A i \in 1 .. 3 : o.bar[i].whole /\ o.bar[i].x + o.bar[i].w <= BarX(w)
    /\ \A i \in 1 .. 2 : o.bar[i].y + o.bar[i].h <= o.bar[i + 1].y

ThermalPictureSound == JoinableWhereAsked /\ PictureReads
=============================================================================
