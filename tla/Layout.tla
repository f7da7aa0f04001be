------------------------------- MODULE Layout -------------------------------
(***************************************************************************)
(* The pixels of a print job: canvas.c sizes and places the grid, layout.c *)
(* blits the photo into the cells and records them, and border.c, bleed.c  *)
(* and crop_marks.c draw on what it recorded, in the order of api.c.       *)
(*                                                                         *)
(* Lengths are pixels.  A job's fields are small enough for its products   *)
(* to stay below 2^31, so 32-bit arithmetic is arithmetic on integers.     *)
(***************************************************************************)
EXTENDS Integers, FiniteSets

CONSTANTS
  PageW, PageH,  \* the page: A4 at the job's dpi
  Jobs,          \* the jobs: img_job_t with the photo's size in pixels
  Garbage        \* what fresh arena memory may read as, as a cell

MaxField == 16384

\* The fields of img_job_t that the geometry reads.
JobType ==
  [photo_w : 0 .. MaxField, photo_h : 0 .. MaxField,
   cols : 1 .. MaxField, rows : 1 .. MaxField, gap : 0 .. MaxField, padding : 0 .. MaxField,
   border : 0 .. MaxField, bleed : 0 .. MaxField,
   mark : 0 .. MaxField, thickness : 0 .. MaxField, offset : 0 .. MaxField]

ASSUME PageAssumption == PageW \in 1 .. MaxField /\ PageH \in 1 .. MaxField
ASSUME JobAssumption == Jobs \subseteq JobType
ASSUME GarbageAssumption ==
  Garbage # {} /\ Garbage \subseteq [x : Int, y : Int, w : Int, h : Int]

VARIABLES
  job,      \* the job
  phase,    \* "canvas", "grid", "border", "bleed", "marks", "done"
  i,        \* the cell the current loop is at
  photo,    \* canvas->photo_w_px, photo_h_px
  start,    \* canvas->start_x, start_y
  cells,    \* layout->cells
  written,  \* the cells img_layout_grid has written
  canvas    \* canvas[p]: the colour of pixel p

vars == <<job, phase, i, photo, start, cells, written, canvas>>

Page == (0 .. PageW - 1) \X (0 .. PageH - 1)

\* Colours: the background, a pixel of the photo, and the black of borders and
\* of marks, told apart here.  Unknown is a read outside the page.
Background == <<"background">>
Photo(x, y) == <<"photo", x, y>>
Border     == <<"border">>
Mark       == <<"mark">>
Unknown    == <<"unknown">>

-----------------------------------------------------------------------------
\* img_canvas_init

HGaps(j) == (j.cols - 1) * j.gap
VGaps(j) == (j.rows - 1) * j.gap

Avail(page, used) == IF page > used THEN page - used ELSE 1

MaxW(j) == Avail(PageW, 2 * j.padding + HGaps(j)) \div j.cols
MaxH(j) == Avail(PageH, 2 * j.padding + VGaps(j)) \div j.rows

\* A scale factor, as a fraction; without room it is 1.0.
Factor(max, size) == IF max > 0 THEN [num |-> max, den |-> size] ELSE [num |-> 1, den |-> 1]

Less(f, g) == f.num * g.den < g.num * f.den

\* (uint32_t)((float)size * s).  In single precision the product may fall to the
\* other side of an integer, but at these sizes not past the limit it came from.
Scaled(size, f, max) ==
  LET exact == (size * f.num) \div f.den
      near  == IF f.num = f.den THEN {size} ELSE exact - 1 .. exact + 1
      limit == IF max > 0 THEN max ELSE size
  IN  {n \in near : 0 <= n /\ n <= limit}

AtLeastOne(n) == IF n = 0 THEN 1 ELSE n

\* Mutation: the larger factor, as prepare_fill has it.
PhotoSizesCover(j) ==
  IF j.photo_w > MaxW(j) \/ j.photo_h > MaxH(j)
  THEN LET sx == Factor(MaxW(j), j.photo_w)
           sy == Factor(MaxH(j), j.photo_h)
           s  == IF Less(sx, sy) THEN sy ELSE sx
       IN  {[w |-> AtLeastOne((j.photo_w * s.num) \div s.den),
             h |-> AtLeastOne((j.photo_h * s.num) \div s.den)]}
  ELSE {[w |-> AtLeastOne(j.photo_w), h |-> AtLeastOne(j.photo_h)]}

\* The size of a cell: the photo's, or scaled down in proportion until it fits.
PhotoSizes(j) ==
  IF j.photo_w > MaxW(j) \/ j.photo_h > MaxH(j)
  THEN LET sx == Factor(MaxW(j), j.photo_w)
           sy == Factor(MaxH(j), j.photo_h)
           s  == IF Less(sx, sy) THEN sx ELSE sy
       IN  {[w |-> AtLeastOne(w), h |-> AtLeastOne(h)] :
              w \in Scaled(j.photo_w, s, MaxW(j)), h \in Scaled(j.photo_h, s, MaxH(j))}
  ELSE {[w |-> AtLeastOne(j.photo_w), h |-> AtLeastOne(j.photo_h)]}

\* Mutation: the gaps are not part of the grid's width.
OriginWithoutGaps(j, size) ==
  LET grid == j.cols * size.w
  IN  [x |-> IF PageW > grid THEN (PageW - grid) \div 2 ELSE j.padding, y |-> j.padding]

\* Centred across, at the padding from the top.
Origin(j, size) ==
  LET grid == j.cols * size.w + HGaps(j)
  IN  [x |-> IF PageW > grid THEN (PageW - grid) \div 2 ELSE j.padding, y |-> j.padding]

Total == job.cols * job.rows

Init ==
  /\ job \in Jobs
  /\ phase = "canvas"
  /\ i = 0
  /\ photo = [w |-> 1, h |-> 1]
  /\ start = [x |-> 0, y |-> 0]
  /\ cells = << >>
  /\ written = {}
  /\ canvas = [p \in Page |-> Background]

\* img_canvas_init, and the start of img_layout_grid: the cells come from the
\* arena, which does not clear them.
SizeCanvas ==
  /\ phase = "canvas"
  /\ phase' = "grid"
  /\ \E size \in PhotoSizes(job) : photo' = size /\ start' = Origin(job, size)
  /\ \E g \in Garbage : cells' = [n \in 0 .. Total - 1 |-> g]
  /\ UNCHANGED <<job, i, written, canvas>>

-----------------------------------------------------------------------------
\* The pixels of the page in a rectangle.
Rect(x, y, w, h) == {p \in Page : x <= p[1] /\ p[1] < x + w /\ y <= p[2] /\ p[2] < y + h}

CellRect(c) == Rect(c.x, c.y, c.w, c.h)

\* A cell with b pixels on every side.
Around(c, b) == Rect(c.x - b, c.y - b, c.w + 2 * b, c.h + 2 * b)

Paint(S, colour) == [p \in Page |-> IF p \in S THEN colour ELSE canvas[p]]

\* After its last cell a loop makes way for the next one.
Advance(following) ==
  IF i + 1 = Total THEN i' = 0 /\ phase' = following
                   ELSE i' = i + 1 /\ UNCHANGED phase

\* A pass that its job switches off.
Skip(this, following) ==
  /\ phase = this
  /\ phase' = following
  /\ UNCHANGED <<job, i, photo, start, cells, written, canvas>>

-----------------------------------------------------------------------------
\* img_layout_grid: one round of its loops

CellAt(n) ==
  [x |-> start.x + (n % job.cols) * (photo.w + job.gap),
   y |-> start.y + (n \div job.cols) * (photo.h + job.gap),
   w |-> photo.w, h |-> photo.h]

OnPage(c) == c.x + c.w <= PageW /\ c.y + c.h <= PageH

\* img_blit_avx2 of a photo that has the size of the cell
Blit(c) ==
  [p \in Page |-> IF p \in CellRect(c) THEN Photo(p[1] - c.x, p[2] - c.y) ELSE canvas[p]]

PlaceCell ==
  /\ phase = "grid"
  /\ OnPage(CellAt(i))
  /\ canvas' = Blit(CellAt(i))
  /\ cells' = [cells EXCEPT ![i] = CellAt(i)]
  /\ written' = written \cup {i}
  /\ Advance("border")
  /\ UNCHANGED <<job, photo, start>>

\* "continue": the cell is counted, but not written.
SkipCell ==
  /\ phase = "grid"
  /\ ~OnPage(CellAt(i))
  /\ Advance("border")
  /\ UNCHANGED <<job, photo, start, cells, written, canvas>>

-----------------------------------------------------------------------------
\* img_draw_borders

BorderPixels(c, b) ==
  Rect(c.x, c.y, c.w, b) \cup Rect(c.x, c.y + c.h - b, c.w, b)
    \cup Rect(c.x, c.y, b, c.h) \cup Rect(c.x + c.w - b, c.y, b, c.h)

NoBorder == job.border = 0 /\ Skip("border", "bleed")

DrawBorder ==
  /\ phase = "border"
  /\ job.border > 0
  /\ canvas' = Paint(BorderPixels(cells[i], job.border), Border)
  /\ Advance("bleed")
  /\ UNCHANGED <<job, photo, start, cells, written>>

-----------------------------------------------------------------------------
\* img_apply_bleed

Read(cv, p) == IF p \in Page THEN cv[p] ELSE Unknown

\* Every pixel of S gets the colour of the one From names.
Spread(cv, S, From(_)) == [p \in Page |-> IF p \in S THEN Read(cv, From(p)) ELSE cv[p]]

\* The first and the last row of the cell, copied up and down.
BleedRows(cv, c, b) ==
  LET up == Spread(cv, Rect(c.x, c.y - b, c.w, b), LAMBDA p : <<p[1], c.y>>)
  IN  Spread(up, Rect(c.x, c.y + c.h, c.w, b), LAMBDA p : <<p[1], c.y + c.h - 1>>)

\* Mutation: only the cell's own rows are copied sideways, the corners stay empty.
BleedColumnsNoCorners(cv, c, b) ==
  LET left == Spread(cv, Rect(c.x - b, c.y, b, c.h), LAMBDA p : <<c.x, p[2]>>)
  IN  Spread(left, Rect(c.x + c.w, c.y, b, c.h), LAMBDA p : <<c.x + c.w - 1, p[2]>>)

\* The first and the last column, copied left and right, over the rows just made too.
BleedColumns(cv, c, b) ==
  LET Band(x) == Rect(x, c.y - b, b, c.h + 2 * b)
      rx      == c.x + c.w - 1
      left    == IF c.x \in 0 .. PageW - 1
                 THEN Spread(cv, Band(c.x - b), LAMBDA p : <<c.x, p[2]>>) ELSE cv
  IN  IF rx \in 0 .. PageW - 1
      THEN Spread(left, Band(c.x + c.w), LAMBDA p : <<rx, p[2]>>) ELSE left

NoBleed == job.bleed = 0 /\ Skip("bleed", "marks")

ApplyBleed ==
  /\ phase = "bleed"
  /\ job.bleed > 0
  /\ canvas' = BleedColumns(BleedRows(canvas, cells[i], job.bleed), cells[i], job.bleed)
  /\ Advance("marks")
  /\ UNCHANGED <<job, photo, start, cells, written>>

-----------------------------------------------------------------------------
\* img_draw_crop_marks

Thickness(j) == IF j.thickness = 0 THEN 1 ELSE j.thickness

\* Mutation: the offset of the top left corner goes the wrong way.
MarkPixelsInward(c, j) ==
  Rect(c.x + j.offset, c.y + j.offset, j.mark, Thickness(j))
    \cup Rect(c.x + j.offset, c.y + j.offset, Thickness(j), j.mark)

\* Two marks at each corner of the cell.
MarkPixels(c, j) ==
  LET off == j.offset
      len == j.mark
      th  == Thickness(j)
      x2  == c.x + c.w
      y2  == c.y + c.h
      H(x, y) == Rect(x, y, len, th)
      V(x, y) == Rect(x, y, th, len)
  IN  H(c.x - off - len, c.y - off - th) \cup V(c.x - off - th, c.y - off - len)
        \cup H(x2 + off, c.y - off - th) \cup V(x2 + off, c.y - off - len)
        \cup H(c.x - off - len, y2 + off) \cup V(c.x - off - th, y2 + off)
        \cup H(x2 + off, y2 + off) \cup V(x2 + off, y2 + off)

NoMarks == job.mark = 0 /\ Skip("marks", "done")

\* Mutation: the marks are drawn before the bleed, which then covers them.
DrawMarksUnder ==
  /\ phase = "marks"
  /\ job.mark > 0
  /\ LET bled == UNION {Around(cells[n], job.bleed) : n \in written}
     IN  canvas' = Paint(MarkPixels(cells[i], job) \ bled, Mark)
  /\ Advance("done")
  /\ UNCHANGED <<job, photo, start, cells, written>>

DrawMarks ==
  /\ phase = "marks"
  /\ job.mark > 0
  /\ canvas' = Paint(MarkPixels(cells[i], job), Mark)
  /\ Advance("done")
  /\ UNCHANGED <<job, photo, start, cells, written>>

-----------------------------------------------------------------------------
Next ==
  \/ SizeCanvas
  \/ PlaceCell \/ SkipCell
  \/ NoBorder \/ DrawBorder
  \/ NoBleed \/ ApplyBleed
  \/ NoMarks \/ DrawMarks

Spec == Init /\ [][Next]_vars

-----------------------------------------------------------------------------
\* The types; in particular the grid starts at an unsigned coordinate (canvas.c:80).
TypeOK ==
  /\ job \in Jobs
  /\ phase \in {"canvas", "grid", "border", "bleed", "marks", "done"}
  /\ i \in 0 .. Total - 1
  /\ photo \in [w : Nat \ {0}, h : Nat \ {0}]
  /\ start \in [x : Nat, y : Nat]
  /\ phase # "canvas" => cells \in [0 .. Total - 1 -> [x : Int, y : Int, w : Int, h : Int]]
  /\ written \subseteq 0 .. Total - 1
  /\ DOMAIN canvas = Page

\* A page that has at least one pixel left for every photo of a row and a column.
FitsPage(j) ==
  /\ 2 * j.padding + HGaps(j) + j.cols <= PageW
  /\ 2 * j.padding + VGaps(j) + j.rows <= PageH

\* The passes after the grid read cells[0 .. cols * rows - 1] (layout.c:296), but
\* layout.c:279-282 leaves cells out: for a job that fits its page it never does.
EveryCellWritten ==
  phase \notin {"canvas", "grid"} /\ FitsPage(job) => written = 0 .. Total - 1

\* The inductive invariant of the proofs: what img_canvas_init decided is what
\* img_layout_grid works with (canvas.c:49-81, layout.c:269-290), cell by cell.
GridInv ==
  /\ phase # "canvas" =>
       /\ start = Origin(job, photo)
       /\ FitsPage(job) => photo.w <= MaxW(job) /\ photo.h <= MaxH(job)
  /\ \A n \in written : cells[n] = CellAt(n)
  /\ phase = "canvas" => written = {} /\ i = 0
  /\ phase = "grid" /\ FitsPage(job) => written = 0 .. i - 1
  /\ EveryCellWritten

Apart(c, d) ==
  \/ c.x + c.w + job.gap <= d.x \/ d.x + d.w + job.gap <= c.x
  \/ c.y + c.h + job.gap <= d.y \/ d.y + d.h + job.gap <= c.y

\* canvas.c:28-37: the padding is an outer margin on all four sides, the gap lies
\* between any two photos, however the photo was scaled and the grid centred.
GridInMargins ==
  FitsPage(job) =>
    /\ \A n \in written :
         LET c == cells[n]
         IN  /\ c.x >= job.padding /\ c.x + c.w <= PageW - job.padding
             /\ c.y >= job.padding /\ c.y + c.h <= PageH - job.padding
    /\ \A m, n \in written : m # n => Apart(cells[m], cells[n])

\* The nearest pixel of a cell.
Clamp(n, from, length) ==
  IF n < from THEN from ELSE IF n >= from + length THEN from + length - 1 ELSE n

Nearest(p, c) == <<Clamp(p[1], c.x, c.w), Clamp(p[2], c.y, c.h)>>

\* The cell whose bleed was made last, if that was the last thing drawn.
LastBled ==
  IF phase = "bleed" THEN {i - 1}
  ELSE IF phase = "marks" /\ i = 0 /\ job.bleed > 0 THEN {Total - 1} ELSE {}

\* bleed.c:36-122: when a cell has had its bleed, every pixel around it, corners and
\* clipped sides included, repeats the nearest pixel of the cell.
BleedIsClamp ==
  \A n \in LastBled \cap written :
    LET c == cells[n]
        b == job.bleed
    IN  \A p \in Around(c, b) :
          canvas[p] = canvas[Nearest(p, c)]

\* A job whose bleed and marks stay in the gaps.
Tidy(j) ==
  /\ FitsPage(j)
  /\ j.bleed <= j.gap
  /\ j.mark > 0 => j.offset + Thickness(j) <= j.gap

BorderInPhoto == job.border <= photo.w /\ job.border <= photo.h

\* Nothing that is drawn for one photo reaches another: a tidy job ends with every
\* cell showing its photo up to its own border (border.c:47-49, bleed.c, crop_marks.c:75-78).
PhotosIntact ==
  phase = "done" /\ Tidy(job) /\ BorderInPhoto =>
    \A n \in written :
      LET c == cells[n]
      IN  \A p \in CellRect(c) :
            canvas[p] = IF p \in BorderPixels(c, job.border)
                        THEN Border ELSE Photo(p[1] - c.x, p[2] - c.y)

\* Pixel q of cell c: its border of b pixels, or its photo.
Ink(c, b, q) == IF q \in BorderPixels(c, b) THEN Border ELSE Photo(q[1] - c.x, q[2] - c.y)

MarkedBy(S) == UNION {MarkPixels(cells[n], job) : n \in S}

\* What the order of the passes makes of a sheet (api.c:224-257), pixel by pixel, when
\* marks stay in the gaps and two bleeds fit side by side into one: the
\* marks lie over the bleed, the bleed repeats the edge of the bordered photo, so that
\* a border grows outwards by the bleed, and the rest of the page is background.
SheetAsPlanned ==
  phase = "done" /\ Tidy(job) /\ 2 * job.bleed <= job.gap /\ BorderInPhoto =>
    /\ \A p \in MarkedBy(written) : canvas[p] = Mark
    /\ \A n \in written : \A p \in Around(cells[n], job.bleed) \ MarkedBy(written) :
         canvas[p] = Ink(cells[n], job.border, Nearest(p, cells[n]))
    /\ \A p \in Page \ MarkedBy(written) :
         (\A n \in written : p \notin Around(cells[n], job.bleed)) => canvas[p] = Background

\* The same as PhotosIntact at every moment of a tidy job, for the photos and borders
\* drawn so far: its inductive form, for the proofs.
PhotosSoFar ==
  Tidy(job) /\ BorderInPhoto =>
    \A n \in written :
      LET c == cells[n]
          bordered == phase \in {"bleed", "marks", "done"} \/ (phase = "border" /\ n < i)
      IN  \A p \in CellRect(c) :
            canvas[p] = IF bordered /\ p \in BorderPixels(c, job.border)
                        THEN Border ELSE Photo(p[1] - c.x, p[2] - c.y)

=============================================================================
