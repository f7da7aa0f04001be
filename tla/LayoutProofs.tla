---------------------------- MODULE LayoutProofs ----------------------------
(***************************************************************************)
(* Proofs about Layout, for any page and any jobs: the types; that a job   *)
(* that fits its page gets every cell it counts, inside the margins and a  *)
(* gap apart; and that what is drawn for one photo spares the others.      *)
(***************************************************************************)
EXTENDS Layout, RingArith

-----------------------------------------------------------------------------
\* Arithmetic of products.

\* A product grows with its factors.
LEMMA ProductGrows ==
  ASSUME NEW a \in Nat, NEW b \in Nat, NEW c \in Nat, a <= b
  PROVE  a * c \in Nat /\ b * c \in Nat /\ a * c <= b * c
<1> DEFINE d == b - a
<1>1. d \in Nat /\ b = a + d
  OBVIOUS
<1> HIDE DEF d
<1>2. b * c = a * c + d * c
  BY <1>1
<1>3. d * c >= 0 /\ a * c \in Nat /\ d * c \in Nat
  BY <1>1
<1> QED
  BY <1>2, <1>3

\* A job has at least one cell (cols * rows).
LEMMA SomeCell ==
  ASSUME NEW a \in Nat \ {0}, NEW b \in Nat \ {0}
  PROVE  a * b \in Nat /\ a * b >= 1
<1>1. 1 * b <= a * b /\ a * b \in Nat
  BY ProductGrows
<1> QED
  BY <1>1

\* A share of what is available, taken as often as it is shared, is available.
LEMMA SharesFit ==
  ASSUME NEW a \in Nat, NEW c \in Nat \ {0}, NEW w \in Nat, w <= a \div c
  PROVE  c * w \in Nat /\ c * w <= a
<1> DEFINE q == a \div c
           r == a % c
<1>1. q \in Nat /\ r \in Nat /\ a = c * q + r
  BY DivisionIdentity, ModInRange
<1> HIDE DEF q, r
<1>2. w * c <= q * c /\ w * c \in Nat
  BY <1>1, ProductGrows DEF q
<1> QED
  BY <1>1, <1>2

\* Cell n of a grid is in one of its columns and in one of its rows.
LEMMA CellInGrid ==
  ASSUME NEW cols \in Nat \ {0}, NEW rows \in Nat \ {0}, NEW n \in 0 .. cols * rows - 1
  PROVE  n \in Nat /\ n % cols \in 0 .. cols - 1 /\ n \div cols \in 0 .. rows - 1
<1> DEFINE q == n \div cols
           r == n % cols
<1>0. cols * rows \in Nat /\ n \in Nat /\ n < cols * rows
  BY SomeCell
<1>1. q \in Nat /\ r \in 0 .. cols - 1 /\ n = cols * q + r
  BY <1>0, DivisionIdentity, ModInRange
<1> HIDE DEF q, r
<1>2. q < rows
  <2> SUFFICES ASSUME rows <= q PROVE FALSE
    BY <1>1
  <2>1. rows * cols <= q * cols /\ rows * cols \in Nat /\ q * cols \in Nat
    BY <1>1, ProductGrows
  <2> QED
    BY <2>1, <1>0, <1>1
<1> QED
  BY <1>0, <1>1, <1>2 DEF q, r

\* Column (or row) k of n, of width w and at a distance of gap, ends inside the grid.
LEMMA ColumnEnds ==
  ASSUME NEW n \in Nat \ {0}, NEW k \in 0 .. n - 1, NEW w \in Nat, NEW gap \in Nat
  PROVE  /\ k * (w + gap) \in Nat
         /\ k * (w + gap) + w <= n * w + (n - 1) * gap
<1> DEFINE m == n - 1
           s == w + gap
<1>1. m \in Nat /\ s \in Nat /\ k \in Nat /\ k <= m /\ n = m + 1
  OBVIOUS
<1>2. k * s <= m * s /\ k * s \in Nat
  BY <1>1, ProductGrows
<1>3. m * s = m * w + m * gap
  BY <1>1
<1>4. n * w = m * w + w
  BY <1>1
<1>5. m * w \in Nat /\ m * gap \in Nat /\ m * s \in Nat
  BY <1>1
<1> HIDE DEF m, s
<1>6. k * s + w <= n * w + m * gap
  BY <1>1, <1>2, <1>3, <1>4, <1>5
<1> QED
  BY <1>2, <1>6 DEF m, s

\* An earlier column ends a gap before a later one begins.
LEMMA ColumnsApart ==
  ASSUME NEW k \in Nat, NEW l \in Nat, k < l, NEW w \in Nat, NEW gap \in Nat
  PROVE  /\ k * (w + gap) \in Nat /\ l * (w + gap) \in Nat
         /\ k * (w + gap) + w + gap <= l * (w + gap)
<1> DEFINE s == w + gap
<1>1. s \in Nat /\ k + 1 <= l /\ k + 1 \in Nat
  OBVIOUS
<1>2. (k + 1) * s <= l * s /\ l * s \in Nat
  BY <1>1, ProductGrows
<1>3. (k + 1) * s = k * s + s /\ k * s \in Nat
  BY <1>1
<1> HIDE DEF s
<1>4. k * s + s <= l * s
  BY <1>2, <1>3
<1> QED
  BY <1>2, <1>3, <1>4 DEF s

-----------------------------------------------------------------------------
\* What a job's fields are.
LEMMA JobFields ==
  ASSUME NEW j \in Jobs
  PROVE  /\ j.cols \in Nat \ {0} /\ j.rows \in Nat \ {0}
         /\ j.photo_w \in Nat /\ j.photo_h \in Nat
         /\ j.gap \in Nat /\ j.padding \in Nat
         /\ PageW \in Nat \ {0} /\ PageH \in Nat \ {0}
<1>1. j \in JobType
  BY JobAssumption
<1>2. MaxField \in Nat
  BY DEF MaxField
<1>3. /\ j.cols \in 1 .. MaxField /\ j.rows \in 1 .. MaxField
      /\ j.photo_w \in 0 .. MaxField /\ j.photo_h \in 0 .. MaxField
      /\ j.gap \in 0 .. MaxField /\ j.padding \in 0 .. MaxField
  BY <1>1 DEF JobType
<1> QED
  BY <1>2, <1>3, PageAssumption

\* What a job draws with.
LEMMA MarkFields ==
  ASSUME NEW j \in Jobs
  PROVE  /\ j.border \in Nat /\ j.bleed \in Nat
         /\ j.mark \in Nat /\ j.offset \in Nat /\ Thickness(j) \in Nat
<1>1. j \in JobType
  BY JobAssumption
<1>2. MaxField \in Nat
  BY DEF MaxField
<1>3. /\ j.border \in 0 .. MaxField /\ j.bleed \in 0 .. MaxField
      /\ j.mark \in 0 .. MaxField /\ j.offset \in 0 .. MaxField
      /\ j.thickness \in 0 .. MaxField
  BY <1>1 DEF JobType
<1> QED
  BY <1>2, <1>3 DEF Thickness

\* Gaps and the largest cell are numbers.
LEMMA JobSizes ==
  ASSUME NEW j \in Jobs
  PROVE  /\ HGaps(j) \in Nat /\ VGaps(j) \in Nat
         /\ MaxW(j) \in Nat /\ MaxH(j) \in Nat
<1>1. /\ j.cols - 1 \in Nat /\ j.rows - 1 \in Nat
  BY JobFields
<1>2. HGaps(j) \in Nat /\ VGaps(j) \in Nat
  BY <1>1, JobFields, ProductGrows DEF HGaps, VGaps
<1>3. /\ Avail(PageW, 2 * j.padding + HGaps(j)) \in Nat
      /\ Avail(PageH, 2 * j.padding + VGaps(j)) \in Nat
  BY <1>2, JobFields DEF Avail
<1>4. MaxW(j) \in Nat /\ MaxH(j) \in Nat
  BY <1>3, JobFields, DivisionIdentity DEF MaxW, MaxH
<1> QED
  BY <1>2, <1>4

\* A page with a pixel for every photo has room: no factor is 1.0 for want of it.
LEMMA RoomForOne ==
  ASSUME NEW j \in Jobs, FitsPage(j)
  PROVE  /\ MaxW(j) >= 1 /\ MaxH(j) >= 1
         /\ \A w \in Nat : w <= MaxW(j) =>
              j.cols * w \in Nat /\ 2 * j.padding + (j.cols * w + HGaps(j)) <= PageW
         /\ \A h \in Nat : h <= MaxH(j) =>
              j.rows * h \in Nat /\ 2 * j.padding + (j.rows * h + VGaps(j)) <= PageH
<1> DEFINE aw == Avail(PageW, 2 * j.padding + HGaps(j))
           ah == Avail(PageH, 2 * j.padding + VGaps(j))
<1>1. /\ aw \in Nat /\ aw >= j.cols /\ aw = PageW - 2 * j.padding - HGaps(j)
      /\ ah \in Nat /\ ah >= j.rows /\ ah = PageH - 2 * j.padding - VGaps(j)
  BY JobFields, JobSizes DEF FitsPage, Avail
<1>2. MaxW(j) = aw \div j.cols /\ MaxH(j) = ah \div j.rows
  BY DEF MaxW, MaxH
<1> HIDE DEF aw, ah
<1>3. aw \div j.cols >= 1 /\ ah \div j.rows >= 1
  <2>1. ASSUME NEW a \in Nat, NEW c \in Nat \ {0}, a >= c
        PROVE  a \div c >= 1
    <3> DEFINE q == a \div c
               r == a % c
    <3>1. q \in Nat /\ r \in 0 .. c - 1 /\ a = c * q + r
      BY DivisionIdentity, ModInRange
    <3> HIDE DEF q, r
    <3>2. q # 0
      BY <3>1, <2>1
    <3> QED
      BY <3>1, <3>2 DEF q
  <2> QED
    BY <2>1, <1>1, JobFields
<1>4. ASSUME NEW w \in Nat, w <= MaxW(j)
      PROVE  j.cols * w \in Nat /\ 2 * j.padding + (j.cols * w + HGaps(j)) <= PageW
  <2>1. j.cols * w \in Nat /\ j.cols * w <= aw
    BY <1>1, <1>2, <1>4, JobFields, SharesFit
  <2> QED
    BY <2>1, <1>1, JobFields, JobSizes
<1>5. ASSUME NEW h \in Nat, h <= MaxH(j)
      PROVE  j.rows * h \in Nat /\ 2 * j.padding + (j.rows * h + VGaps(j)) <= PageH
  <2>1. j.rows * h \in Nat /\ j.rows * h <= ah
    BY <1>1, <1>2, <1>5, JobFields, SharesFit
  <2> QED
    BY <2>1, <1>1, JobFields, JobSizes
<1> QED
  BY <1>2, <1>3, <1>4, <1>5

\* img_canvas_init never makes an empty cell, and on a page that fits none larger
\* than its share.
LEMMA SizesBounded ==
  ASSUME NEW j \in Jobs, NEW size \in PhotoSizes(j)
  PROVE  /\ size \in [w : Nat \ {0}, h : Nat \ {0}]
         /\ FitsPage(j) => size.w <= MaxW(j) /\ size.h <= MaxH(j)
<1> DEFINE sx == Factor(MaxW(j), j.photo_w)
           sy == Factor(MaxH(j), j.photo_h)
           s  == IF Less(sx, sy) THEN sx ELSE sy
<1>0. FitsPage(j) => MaxW(j) >= 1 /\ MaxH(j) >= 1
  BY RoomForOne
<1>1. CASE j.photo_w > MaxW(j) \/ j.photo_h > MaxH(j)
  <2>1. PICK w \in Scaled(j.photo_w, s, MaxW(j)), h \in Scaled(j.photo_h, s, MaxH(j)) :
          size = [w |-> AtLeastOne(w), h |-> AtLeastOne(h)]
    BY <1>1 DEF PhotoSizes
  <2>2. /\ w >= 0 /\ (MaxW(j) > 0 => w <= MaxW(j))
        /\ h >= 0 /\ (MaxH(j) > 0 => h <= MaxH(j))
    BY DEF Scaled
  <2>3. w \in Int /\ h \in Int
    BY JobFields DEF Scaled
  <2> QED
    BY <1>0, <2>1, <2>2, <2>3, JobSizes DEF AtLeastOne
<1>2. CASE ~(j.photo_w > MaxW(j) \/ j.photo_h > MaxH(j))
  <2>1. size = [w |-> AtLeastOne(j.photo_w), h |-> AtLeastOne(j.photo_h)]
    BY <1>2 DEF PhotoSizes
  <2> QED
    BY <1>0, <1>2, <2>1, JobFields, JobSizes DEF AtLeastOne
<1> QED
  BY <1>1, <1>2

-----------------------------------------------------------------------------
\* The place of a cell is a number.
LEMMA CellNumbers ==
  ASSUME job \in Jobs, photo \in [w : Nat \ {0}, h : Nat \ {0}], start \in [x : Nat, y : Nat],
         NEW n \in 0 .. Total - 1
  PROVE  /\ CellAt(n) \in [x : Nat, y : Nat, w : Nat, h : Nat]
         /\ n \in Nat /\ n % job.cols \in 0 .. job.cols - 1 /\ n \div job.cols \in 0 .. job.rows - 1
<1>1. n \in Nat /\ n % job.cols \in 0 .. job.cols - 1 /\ n \div job.cols \in 0 .. job.rows - 1
  BY JobFields, CellInGrid DEF Total
<1>2. /\ n % job.cols \in Nat /\ n \div job.cols \in Nat
      /\ photo.w + job.gap \in Nat /\ photo.h + job.gap \in Nat
  BY <1>1, JobFields
<1>3. /\ (n % job.cols) * (photo.w + job.gap) \in Nat
      /\ (n \div job.cols) * (photo.h + job.gap) \in Nat
  BY <1>2, ProductGrows
<1> QED
  BY <1>1, <1>3 DEF CellAt

\* Every cell of a grid that fits lies between the margins.
LEMMA CellBetweenMargins ==
  ASSUME job \in Jobs, photo \in [w : Nat \ {0}, h : Nat \ {0}], start \in [x : Nat, y : Nat],
         FitsPage(job), start = Origin(job, photo),
         photo.w <= MaxW(job), photo.h <= MaxH(job),
         NEW n \in 0 .. Total - 1
  PROVE  LET c == CellAt(n)
         IN  /\ c.x >= job.padding /\ c.x + c.w <= PageW - job.padding
             /\ c.y >= job.padding /\ c.y + c.h <= PageH - job.padding
<1> DEFINE col  == n % job.cols
           row  == n \div job.cols
           gw   == job.cols * photo.w + HGaps(job)
           gh   == job.rows * photo.h + VGaps(job)
           dx   == col * (photo.w + job.gap)
           dy   == row * (photo.h + job.gap)
<1>1. col \in 0 .. job.cols - 1 /\ row \in 0 .. job.rows - 1
  BY CellNumbers
<1>2. dx \in Nat /\ dx + photo.w <= gw
  BY <1>1, JobFields, ColumnEnds DEF HGaps
<1>3. dy \in Nat /\ dy + photo.h <= gh
  BY <1>1, JobFields, ColumnEnds DEF VGaps
<1>4. /\ gw \in Nat /\ 2 * job.padding + gw <= PageW
      /\ gh \in Nat /\ 2 * job.padding + gh <= PageH
  BY RoomForOne, JobSizes, JobFields
<1>5. /\ start.x = IF PageW > gw THEN (PageW - gw) \div 2 ELSE job.padding
      /\ start.y = job.padding
  BY DEF Origin
<1>6. CellAt(n) = [x |-> start.x + dx, y |-> start.y + dy, w |-> photo.w, h |-> photo.h]
  BY DEF CellAt
<1> HIDE DEF col, row, gw, gh, dx, dy
<1>7. start.x >= job.padding /\ start.x + gw <= PageW - job.padding
  BY <1>4, <1>5, JobFields
<1>8. start.y + gh <= PageH - job.padding
  BY <1>4, <1>5, JobFields
<1> QED
  BY <1>2, <1>3, <1>4, <1>5, <1>6, <1>7, <1>8, JobFields

\* Two cells of a grid are a gap apart, whatever the page.
LEMMA CellsApart ==
  ASSUME job \in Jobs, photo \in [w : Nat \ {0}, h : Nat \ {0}], start \in [x : Nat, y : Nat],
         NEW m \in 0 .. Total - 1, NEW n \in 0 .. Total - 1, m # n
  PROVE  Apart(CellAt(m), CellAt(n))
<1> DEFINE Col(k) == k % job.cols
           Row(k) == k \div job.cols
           X(k) == Col(k) * (photo.w + job.gap)
           Y(k) == Row(k) * (photo.h + job.gap)
<1>1. /\ m \in Nat /\ Col(m) \in Nat /\ Row(m) \in Nat
      /\ n \in Nat /\ Col(n) \in Nat /\ Row(n) \in Nat
      /\ photo.w \in Nat /\ photo.h \in Nat /\ job.gap \in Nat /\ job.cols \in Nat \ {0}
  BY CellNumbers, JobFields
<1>2. Col(m) # Col(n) \/ Row(m) # Row(n)
  BY <1>1, DivisionIdentity
<1>3. /\ CellAt(m) = [x |-> start.x + X(m), y |-> start.y + Y(m), w |-> photo.w, h |-> photo.h]
      /\ CellAt(n) = [x |-> start.x + X(n), y |-> start.y + Y(n), w |-> photo.w, h |-> photo.h]
  BY DEF CellAt
<1>4. /\ Col(m) < Col(n) => X(m) + photo.w + job.gap <= X(n)
      /\ Col(n) < Col(m) => X(n) + photo.w + job.gap <= X(m)
      /\ Row(m) < Row(n) => Y(m) + photo.h + job.gap <= Y(n)
      /\ Row(n) < Row(m) => Y(n) + photo.h + job.gap <= Y(m)
  BY <1>1, ColumnsApart
<1>5. X(m) \in Nat /\ X(n) \in Nat /\ Y(m) \in Nat /\ Y(n) \in Nat
  BY <1>1, ProductGrows
<1>6. Col(m) < Col(n) \/ Col(n) < Col(m) \/ Row(m) < Row(n) \/ Row(n) < Row(m)
  BY <1>1, <1>2
<1> HIDE DEF Col, Row, X, Y
<1> QED
  BY <1>1, <1>3, <1>4, <1>5, <1>6 DEF Apart

-----------------------------------------------------------------------------
\* The loop index stays on the cells.
LEMMA AdvanceType ==
  ASSUME job \in Jobs, i \in 0 .. Total - 1, NEW following, Advance(following)
  PROVE  /\ i' \in 0 .. Total - 1
         /\ \/ i + 1 = Total /\ i' = 0 /\ phase' = following
            \/ i + 1 < Total /\ i' = i + 1 /\ phase' = phase
<1>1. Total \in Nat /\ Total >= 1
  BY JobFields, SomeCell DEF Total
<1> QED
  BY <1>1 DEF Advance

\* Every step keeps the types.
LEMMA TypeStep == TypeOK /\ [Next]_vars => TypeOK'
<1> SUFFICES ASSUME TypeOK, [Next]_vars PROVE TypeOK'
  OBVIOUS
<1> USE DEF TypeOK
<1>0. Total \in Nat /\ Total >= 1
  BY JobFields, SomeCell DEF Total
<1>1. CASE SizeCanvas
  <2>1. PICK size \in PhotoSizes(job) : photo' = size /\ start' = Origin(job, size)
    BY <1>1 DEF SizeCanvas
  <2>2. size \in [w : Nat \ {0}, h : Nat \ {0}]
    BY SizesBounded
  <2>3. Origin(job, size) \in [x : Nat, y : Nat]
    <3>1. job.cols * size.w + HGaps(job) \in Nat
      <4>1. job.cols \in Nat \ {0} /\ size.w \in Nat \ {0} /\ HGaps(job) \in Nat
        BY <2>2, JobFields, JobSizes
      <4>2. job.cols * size.w \in Nat
        BY <4>1, SomeCell
      <4> QED
        BY <4>1, <4>2
    <3> QED
      BY <3>1, JobFields DEF Origin
  <2>4. job' = job /\ Total' = Total
    BY <1>1 DEF SizeCanvas, Total
  <2>5. cells' \in [0 .. Total - 1 -> [x : Int, y : Int, w : Int, h : Int]]
    BY <1>1, GarbageAssumption DEF SizeCanvas
  <2> QED
    BY <1>1, <2>1, <2>2, <2>3, <2>4, <2>5 DEF SizeCanvas
<1>2. CASE PlaceCell
  <2>1. job' = job /\ Total' = Total
    BY <1>2 DEF PlaceCell, Total
  <2>2. CellAt(i) \in [x : Int, y : Int, w : Int, h : Int]
    BY CellNumbers
  <2>3. i' \in 0 .. Total - 1 /\ phase' \in {"grid", "border"}
    BY <1>2, AdvanceType DEF PlaceCell
  <2> QED
    BY <1>2, <2>1, <2>2, <2>3 DEF PlaceCell, Blit
<1>3. CASE SkipCell
  <2>1. job' = job /\ Total' = Total
    BY <1>3 DEF SkipCell, Total
  <2>2. i' \in 0 .. Total - 1 /\ phase' \in {"grid", "border"}
    BY <1>3, AdvanceType DEF SkipCell
  <2> QED
    BY <1>3, <2>1, <2>2 DEF SkipCell
<1>4. ASSUME NEW this \in {"border", "bleed", "marks"},
             NEW following \in {"bleed", "marks", "done"},
             Skip(this, following)
      PROVE  TypeOK'
  BY <1>4 DEF Skip, Total
<1>5. ASSUME NEW this \in {"border", "bleed", "marks"},
             NEW following \in {"bleed", "marks", "done"},
             phase = this, Advance(following), DOMAIN canvas' = Page,
             UNCHANGED <<job, photo, start, cells, written>>
      PROVE  TypeOK'
  <2>1. Total' = Total
    BY <1>5 DEF Total
  <2>2. i' \in 0 .. Total - 1 /\ phase' \in {this, following}
    BY <1>5, AdvanceType
  <2> QED
    BY <1>5, <2>1, <2>2
<1>6. CASE NoBorder \/ NoBleed \/ NoMarks
  BY <1>4, <1>6 DEF NoBorder, NoBleed, NoMarks
<1>7. CASE DrawBorder
  BY <1>5, <1>7 DEF DrawBorder, Paint
<1>8. CASE ApplyBleed
  <2>1. DOMAIN canvas' = Page
    BY <1>8 DEF ApplyBleed, BleedColumns, BleedRows, Spread
  <2> QED
    BY <1>5, <1>8, <2>1 DEF ApplyBleed
<1>9. CASE DrawMarks
  BY <1>5, <1>9 DEF DrawMarks, Paint
<1>10. CASE UNCHANGED vars
  BY <1>10 DEF vars, Total
<1> QED
  BY <1>1, <1>2, <1>3, <1>6, <1>7, <1>8, <1>9, <1>10 DEF Next

\* The types hold from the start.
LEMMA TypeInit == Init => TypeOK
<1> SUFFICES ASSUME Init PROVE TypeOK
  OBVIOUS
<1>1. Total \in Nat /\ Total >= 1
  BY JobFields, SomeCell DEF Init, Total
<1> QED
  BY <1>1 DEF Init, TypeOK

\* Type correctness, for any page and any jobs: in particular the grid's origin is
\* never negative (canvas.c:80) and no cell is empty (canvas.c:58-61).
THEOREM LayoutTypeCorrect == Spec => []TypeOK
BY TypeInit, TypeStep, PTL DEF Spec

-----------------------------------------------------------------------------
\* The passes after the grid leave what GridInv speaks of alone.
LEMMA PassKeepsGrid ==
  ASSUME TypeOK, GridInv, phase \notin {"canvas", "grid"}, phase' \notin {"canvas", "grid"},
         UNCHANGED <<job, photo, start, cells, written>>
  PROVE  GridInv'
<1>1. Total' = Total /\ FitsPage(job)' = FitsPage(job) /\ Origin(job, photo)' = Origin(job, photo)
  BY DEF Total
<1>2. MaxW(job)' = MaxW(job) /\ MaxH(job)' = MaxH(job)
  OBVIOUS
<1>3. \A n : CellAt(n)' = CellAt(n)
  BY DEF CellAt
<1>4. EveryCellWritten'
  BY <1>1 DEF GridInv, EveryCellWritten
<1> QED
  BY <1>1, <1>2, <1>3, <1>4 DEF GridInv

\* Every step keeps GridInv.
LEMMA GridStep == TypeOK /\ GridInv /\ [Next]_vars => GridInv'
<1> SUFFICES ASSUME TypeOK, GridInv, [Next]_vars PROVE GridInv'
  OBVIOUS
<1>0. Total \in Nat /\ Total >= 1 /\ job \in Jobs /\ i \in 0 .. Total - 1
  BY JobFields, SomeCell DEF TypeOK, Total
<1>1. CASE SizeCanvas
  <2>1. PICK size \in PhotoSizes(job) : photo' = size /\ start' = Origin(job, size)
    BY <1>1 DEF SizeCanvas
  <2>2. FitsPage(job) => size.w <= MaxW(job) /\ size.h <= MaxH(job)
    BY <1>0, SizesBounded
  <2>3. job' = job /\ phase' = "grid" /\ i' = i /\ written' = written /\ written = {}
    BY <1>1 DEF SizeCanvas, GridInv
  <2>4. i = 0
    BY <1>1 DEF SizeCanvas, GridInv
  <2> QED
    BY <1>0, <2>1, <2>2, <2>3, <2>4 DEF GridInv, EveryCellWritten
<1>2. CASE PlaceCell
  <2>1. /\ job' = job /\ Total' = Total /\ photo' = photo /\ start' = start
        /\ written' = written \cup {i} /\ cells' = [cells EXCEPT ![i] = CellAt(i)]
        /\ phase = "grid"
    BY <1>2 DEF PlaceCell, Total
  <2>2. \A n : CellAt(n)' = CellAt(n)
    BY <2>1 DEF CellAt
  <2>3. \A n \in written' : cells'[n] = CellAt(n)'
    BY <1>0, <2>1, <2>2 DEF GridInv, TypeOK
  <2>4. \/ i + 1 = Total /\ i' = 0 /\ phase' = "border"
        \/ i + 1 < Total /\ i' = i + 1 /\ phase' = phase
    BY <1>0, <1>2, AdvanceType DEF PlaceCell
  <2>5. FitsPage(job) => written' = 0 .. i
    BY <1>0, <2>1 DEF GridInv
  <2>6. EveryCellWritten' /\ (phase' = "grid" /\ FitsPage(job)' => written' = 0 .. i' - 1)
    BY <1>0, <2>1, <2>4, <2>5 DEF EveryCellWritten
  <2>7. phase' # "canvas" =>
          /\ start' = Origin(job, photo)'
          /\ FitsPage(job)' => photo'.w <= MaxW(job)' /\ photo'.h <= MaxH(job)'
    BY <2>1 DEF GridInv
  <2> QED
    BY <2>3, <2>4, <2>1, <2>6, <2>7 DEF GridInv
<1>3. CASE SkipCell
  <2>1. /\ job' = job /\ Total' = Total /\ photo' = photo /\ start' = start
        /\ written' = written /\ cells' = cells /\ phase = "grid" /\ ~OnPage(CellAt(i))
    BY <1>3 DEF SkipCell, Total
  <2>2. ~FitsPage(job)
    <3> SUFFICES ASSUME FitsPage(job) PROVE FALSE
      OBVIOUS
    <3>1. LET c == CellAt(i)
          IN  /\ c.x + c.w <= PageW - job.padding
              /\ c.y + c.h <= PageH - job.padding
      BY <1>0, <2>1, CellBetweenMargins DEF GridInv, TypeOK
    <3>2. CellAt(i) \in [x : Nat, y : Nat, w : Nat, h : Nat]
      BY <1>0, CellNumbers DEF TypeOK
    <3> QED
      BY <1>0, <2>1, <3>1, <3>2, JobFields DEF OnPage
  <2>3. \A n : CellAt(n)' = CellAt(n)
    BY <2>1 DEF CellAt
  <2>4. phase' # "canvas"
    BY <1>0, <1>3, <2>1, AdvanceType DEF SkipCell
  <2>5. ~FitsPage(job)'
    BY <2>1, <2>2
  <2> QED
    BY <2>1, <2>3, <2>4, <2>5 DEF GridInv, EveryCellWritten
<1>4. ASSUME NEW this \in {"border", "bleed", "marks"},
             NEW following \in {"bleed", "marks", "done"},
             phase = this, phase' \in {this, following},
             UNCHANGED <<job, photo, start, cells, written>>
      PROVE  GridInv'
  BY <1>4, PassKeepsGrid
<1>5. CASE NoBorder \/ NoBleed \/ NoMarks
  BY <1>4, <1>5 DEF NoBorder, NoBleed, NoMarks, Skip
<1>6. CASE DrawBorder
  BY <1>0, <1>4, <1>6, AdvanceType DEF DrawBorder
<1>7. CASE ApplyBleed
  BY <1>0, <1>4, <1>7, AdvanceType DEF ApplyBleed
<1>8. CASE DrawMarks
  BY <1>0, <1>4, <1>8, AdvanceType DEF DrawMarks
<1>9. CASE UNCHANGED vars
  BY <1>9 DEF vars, GridInv, EveryCellWritten, Total, CellAt
<1> QED
  BY <1>1, <1>2, <1>3, <1>5, <1>6, <1>7, <1>8, <1>9 DEF Next

\* GridInv holds from the start.
LEMMA GridInit == Init => GridInv
BY DEF Init, GridInv, EveryCellWritten

\* What img_canvas_init decided is what img_layout_grid carries out, for any page
\* and any jobs (canvas.c:49-81, layout.c:269-290).
THEOREM GridSafety == Spec => []GridInv
BY GridInit, GridStep, LayoutTypeCorrect, PTL DEF Spec

\* On any page, a job that leaves each photo a pixel has every cell written that the
\* later passes read (layout.c:279-296).
THEOREM NoCellLeftOut == Spec => []EveryCellWritten
<1>1. GridInv => EveryCellWritten
  BY DEF GridInv
<1> QED
  BY <1>1, GridSafety, PTL

\* A recorded cell of a job that fits keeps the margins and the gaps.
LEMMA MarginsFromGrid == TypeOK /\ GridInv => GridInMargins
<1> SUFFICES ASSUME TypeOK, GridInv, FitsPage(job) PROVE GridInMargins
  BY DEF GridInMargins
<1>0. /\ job \in Jobs /\ photo \in [w : Nat \ {0}, h : Nat \ {0}]
      /\ start \in [x : Nat, y : Nat] /\ written \subseteq 0 .. Total - 1
  BY DEF TypeOK
<1>1. CASE phase = "canvas"
  BY <1>1 DEF GridInv, GridInMargins
<1>2. CASE phase # "canvas"
  <2>1. ASSUME NEW n \in written
        PROVE  LET c == cells[n]
               IN  /\ c.x >= job.padding /\ c.x + c.w <= PageW - job.padding
                   /\ c.y >= job.padding /\ c.y + c.h <= PageH - job.padding
    BY <1>0, <1>2, CellBetweenMargins DEF GridInv
  <2>2. ASSUME NEW m \in written, NEW n \in written, m # n
        PROVE  Apart(cells[m], cells[n])
    <3>1. cells[m] = CellAt(m) /\ cells[n] = CellAt(n)
      BY DEF GridInv
    <3>2. m \in 0 .. Total - 1 /\ n \in 0 .. Total - 1
      BY <1>0
    <3> QED
      BY <1>0, <2>2, <3>1, <3>2, CellsApart
  <2> QED
    BY <2>1, <2>2 DEF GridInMargins
<1> QED
  BY <1>1, <1>2

\* For any page and any job that fits it, however the photo was scaled: the padding is
\* a margin on all four sides and the gap lies between any two photos (canvas.c:28-37).
THEOREM MarginsKept == Spec => []GridInMargins
BY MarginsFromGrid, GridSafety, LayoutTypeCorrect, PTL

-----------------------------------------------------------------------------
\* What is drawn where.

\* Two cells of the grid stand in line: in one row or in rows a gap apart, and in one
\* column or in columns a gap apart.
InLine(c, d) ==
  /\ c.y = d.y \/ c.y + c.h + job.gap <= d.y \/ d.y + d.h + job.gap <= c.y
  /\ c.x = d.x \/ c.x + c.w + job.gap <= d.x \/ d.x + d.w + job.gap <= c.x

CellType == [x : Int, y : Int, w : Int, h : Int]

\* Any two cells of a grid are in line.
LEMMA CellsInLine ==
  ASSUME job \in Jobs, photo \in [w : Nat \ {0}, h : Nat \ {0}], start \in [x : Nat, y : Nat],
         NEW m \in 0 .. Total - 1, NEW n \in 0 .. Total - 1
  PROVE  InLine(CellAt(m), CellAt(n))
<1> DEFINE Col(k) == k % job.cols
           Row(k) == k \div job.cols
           X(k) == Col(k) * (photo.w + job.gap)
           Y(k) == Row(k) * (photo.h + job.gap)
<1>1. /\ Col(m) \in Nat /\ Row(m) \in Nat /\ Col(n) \in Nat /\ Row(n) \in Nat
      /\ photo.w \in Nat /\ photo.h \in Nat /\ job.gap \in Nat
  BY CellNumbers, JobFields
<1>2. /\ CellAt(m) = [x |-> start.x + X(m), y |-> start.y + Y(m), w |-> photo.w, h |-> photo.h]
      /\ CellAt(n) = [x |-> start.x + X(n), y |-> start.y + Y(n), w |-> photo.w, h |-> photo.h]
  BY DEF CellAt
<1>3. /\ Col(m) < Col(n) => X(m) + photo.w + job.gap <= X(n)
      /\ Col(n) < Col(m) => X(n) + photo.w + job.gap <= X(m)
      /\ Row(m) < Row(n) => Y(m) + photo.h + job.gap <= Y(n)
      /\ Row(n) < Row(m) => Y(n) + photo.h + job.gap <= Y(m)
  BY <1>1, ColumnsApart
<1>4. X(m) \in Nat /\ X(n) \in Nat /\ Y(m) \in Nat /\ Y(n) \in Nat
  BY <1>1, ProductGrows
<1>5. (Col(m) = Col(n) => X(m) = X(n)) /\ (Row(m) = Row(n) => Y(m) = Y(n))
  OBVIOUS
<1> HIDE DEF Col, Row, X, Y
<1> QED
  BY <1>1, <1>2, <1>3, <1>4, <1>5 DEF InLine

\* A pixel has two coordinates.
LEMMA PixelNumbers ==
  ASSUME NEW p \in Page
  PROVE  p[1] \in Int /\ p[2] \in Int
BY PageAssumption DEF Page, MaxField

\* Cells that are apart share no pixel, and neither reaches the other with a bleed of
\* at most the gap.
LEMMA BleedStaysOut ==
  ASSUME NEW c \in CellType, NEW d \in CellType, NEW b \in Nat, job.gap \in Nat, b <= job.gap,
         Apart(c, d), NEW p \in CellRect(d)
  PROVE  p \notin Around(c, b)
<1>1. p[1] \in Int /\ p[2] \in Int
  BY PixelNumbers DEF CellRect, Rect
<1> QED
  BY <1>1 DEF CellRect, Around, Rect, Apart, CellType

\* The border of a cell that has room for it lies in the cell.
LEMMA BorderStaysIn ==
  ASSUME NEW c \in CellType, NEW b \in Nat, b <= c.w, b <= c.h, NEW p \in BorderPixels(c, b)
  PROVE  p \in CellRect(c)
<1>1. p \in Page /\ p[1] \in Int /\ p[2] \in Int
  BY PixelNumbers DEF BorderPixels, Rect
<1> QED
  BY <1>1 DEF BorderPixels, CellRect, Rect, CellType

\* A border of no width is nothing.
LEMMA NoBorderPixels ==
  ASSUME NEW c \in CellType
  PROVE  BorderPixels(c, 0) = {}
<1> SUFFICES ASSUME NEW p \in BorderPixels(c, 0) PROVE FALSE
  OBVIOUS
<1>1. p[1] \in Int /\ p[2] \in Int
  BY PixelNumbers DEF BorderPixels, Rect
<1> QED
  BY <1>1 DEF BorderPixels, Rect, CellType

\* Marks that start within the gap touch no cell in line with theirs.
LEMMA MarksStayOut ==
  ASSUME NEW c \in CellType, NEW d \in CellType, c.w = d.w, c.h = d.h, c.w >= 0, c.h >= 0,
         NEW j \in Jobs, j = job, job.offset + Thickness(job) <= job.gap, InLine(c, d),
         NEW p \in CellRect(d)
  PROVE  p \notin MarkPixels(c, job)
<1>1. p[1] \in Int /\ p[2] \in Int
  BY PixelNumbers DEF CellRect, Rect
<1>2. job.offset \in Nat /\ job.mark \in Nat /\ Thickness(job) \in Nat /\ job.gap \in Nat
  BY JobFields, MarkFields
<1>3. /\ d.x <= p[1] /\ p[1] < d.x + d.w
      /\ d.y <= p[2] /\ p[2] < d.y + d.h
  BY DEF CellRect, Rect
<1> DEFINE off == job.offset
           th  == Thickness(job)
<1>4. ~(c.y - off - th <= p[2] /\ p[2] < c.y - off)
  BY <1>1, <1>2, <1>3 DEF InLine, CellType
<1>5. ~(c.y + c.h + off <= p[2] /\ p[2] < c.y + c.h + off + th)
  BY <1>1, <1>2, <1>3 DEF InLine, CellType
<1>6. ~(c.x - off - th <= p[1] /\ p[1] < c.x - off)
  BY <1>1, <1>2, <1>3 DEF InLine, CellType
<1>7. ~(c.x + c.w + off <= p[1] /\ p[1] < c.x + c.w + off + th)
  BY <1>1, <1>2, <1>3 DEF InLine, CellType
<1> QED
  BY <1>1, <1>2, <1>4, <1>5, <1>6, <1>7 DEF MarkPixels, Rect, CellType

\* A bleed changes only pixels around its cell.
LEMMA BleedOutside ==
  ASSUME NEW c \in CellType, NEW b \in Nat, c.w >= 0, c.h >= 0, NEW cv, NEW p \in Page,
         \/ p \in CellRect(c)
         \/ p \notin Around(c, b)
  PROVE  BleedColumns(BleedRows(cv, c, b), c, b)[p] = cv[p]
<1> DEFINE Band(x) == Rect(x, c.y - b, b, c.h + 2 * b)
           rows    == BleedRows(cv, c, b)
<1>1. p[1] \in Int /\ p[2] \in Int
  BY PixelNumbers
<1>2. /\ p \notin Rect(c.x, c.y - b, c.w, b) /\ p \notin Rect(c.x, c.y + c.h, c.w, b)
      /\ p \notin Band(c.x - b) /\ p \notin Band(c.x + c.w)
  BY <1>1 DEF CellRect, Around, Rect, CellType
<1>3. rows[p] = cv[p]
  BY <1>2 DEF BleedRows, Spread
<1> HIDE DEF rows
<1>4. BleedColumns(rows, c, b)[p] = rows[p]
  BY <1>2 DEF BleedColumns, Spread
<1> QED
  BY <1>3, <1>4 DEF rows

\* Cell c shows its photo on canvas cv, with its border if it has one.
Shows(cv, c, bordered) ==
  \A p \in CellRect(c) :
    cv[p] = IF bordered /\ p \in BorderPixels(c, job.border)
            THEN Border ELSE Photo(p[1] - c.x, p[2] - c.y)

Bordered(n) == phase \in {"bleed", "marks", "done"} \/ (phase = "border" /\ n < i)

\* What PhotosSoFar says of the next state of a step that keeps the grid.
LEMMA PhotosFromShows ==
  ASSUME UNCHANGED <<job, photo>>,
         Tidy(job) /\ BorderInPhoto =>
           \A n \in written' : Shows(canvas', cells'[n], Bordered(n)')
  PROVE  PhotosSoFar'
BY DEF PhotosSoFar, Shows, Bordered, BorderInPhoto

\* What is known of the cells of a tidy job.
LEMMA TidyCells ==
  ASSUME TypeOK, GridInv, FitsPage(job)
  PROVE  /\ \A n \in written :
              /\ n \in 0 .. Total - 1 /\ cells[n] = CellAt(n) /\ cells[n] \in CellType
              /\ cells[n].w = photo.w /\ cells[n].h = photo.h
              /\ cells[n].w >= 0 /\ cells[n].h >= 0
         /\ \A m, n \in written : InLine(cells[m], cells[n]) /\ (m # n => Apart(cells[m], cells[n]))
         /\ phase \notin {"canvas", "grid"} => i \in written
         /\ photo.w \in Nat /\ photo.h \in Nat
<1>0. /\ job \in Jobs /\ photo \in [w : Nat \ {0}, h : Nat \ {0}] /\ i \in 0 .. Total - 1
      /\ start \in [x : Nat, y : Nat] /\ written \subseteq 0 .. Total - 1
  BY DEF TypeOK
<1>1. ASSUME NEW n \in written
      PROVE  /\ n \in 0 .. Total - 1 /\ cells[n] = CellAt(n) /\ cells[n] \in CellType
             /\ cells[n].w = photo.w /\ cells[n].h = photo.h
             /\ cells[n].w >= 0 /\ cells[n].h >= 0
  <2>1. n \in 0 .. Total - 1 /\ cells[n] = CellAt(n)
    BY <1>0 DEF GridInv
  <2>2. CellAt(n) \in [x : Nat, y : Nat, w : Nat, h : Nat]
    BY <1>0, <2>1, CellNumbers
  <2>3. CellAt(n).w = photo.w /\ CellAt(n).h = photo.h
    BY DEF CellAt
  <2> QED
    BY <2>1, <2>2, <2>3 DEF CellType
<1>2. ASSUME NEW m \in written, NEW n \in written
      PROVE  InLine(cells[m], cells[n]) /\ (m # n => Apart(cells[m], cells[n]))
  BY <1>0, <1>1, CellsInLine, CellsApart
<1>3. phase \notin {"canvas", "grid"} => i \in written
  BY <1>0 DEF GridInv, EveryCellWritten
<1> QED
  BY <1>0, <1>1, <1>2, <1>3

\* Every step of a tidy job keeps the photos.
LEMMA PhotosStep == TypeOK /\ GridInv /\ PhotosSoFar /\ [Next]_vars => PhotosSoFar'
<1> SUFFICES ASSUME TypeOK, GridInv, PhotosSoFar, [Next]_vars PROVE PhotosSoFar'
  OBVIOUS
<1>0. /\ job \in Jobs /\ i \in 0 .. Total - 1 /\ DOMAIN canvas = Page
      /\ job.border \in Nat /\ job.bleed \in Nat /\ job.gap \in Nat
      /\ Total \in Nat
  BY JobFields, MarkFields, SomeCell DEF TypeOK, Total
<1>1. CASE SizeCanvas
  <2>1. written' = {}
    BY <1>1 DEF SizeCanvas, GridInv
  <2> QED
    BY <2>1 DEF PhotosSoFar
<1> SUFFICES ASSUME ~SizeCanvas, Tidy(job), BorderInPhoto
             PROVE  \A n \in written' : Shows(canvas', cells'[n], Bordered(n)')
  <2>1. ~SizeCanvas => UNCHANGED <<job, photo>>
    BY DEF Next, vars, PlaceCell, SkipCell, NoBorder, NoBleed, NoMarks, Skip, DrawBorder,
           ApplyBleed, DrawMarks
  <2> QED
    BY <1>1, <2>1, PhotosFromShows
<1>2. FitsPage(job)
  BY DEF Tidy
<1>3. \A n \in written : Shows(canvas, cells[n], Bordered(n))
  BY DEF PhotosSoFar, Shows, Bordered
<1>4. CASE PlaceCell
  <2> DEFINE d == CellAt(i)
  <2>1. /\ written' = written \cup {i} /\ cells' = [cells EXCEPT ![i] = d] /\ job' = job
        /\ canvas' = Blit(d) /\ phase = "grid"
    BY <1>4 DEF PlaceCell
  <2>2. \A n \in written' : n \in Nat /\ Bordered(n) = FALSE /\ Bordered(n)' = FALSE
    <3>1. phase' = "grid" \/ (phase' = "border" /\ i' = 0)
      BY <1>0, <2>1, <1>4, AdvanceType DEF PlaceCell
    <3>2. \A n \in written' : n \in Nat
      BY <1>0, <2>1 DEF TypeOK
    <3> QED
      BY <2>1, <3>1, <3>2 DEF Bordered
  <2>3. d \in CellType
    BY <1>0, CellNumbers DEF TypeOK, CellType
  <2>4. \A n \in written : n \in 0 .. Total - 1 /\ cells[n] = CellAt(n) /\ cells[n] \in CellType
    BY <1>2, TidyCells
  <2>5. cells'[i] = d /\ \A n \in written : n # i => cells'[n] = cells[n]
    BY <1>0, <2>1, <2>4 DEF TypeOK
  <2>6. Shows(canvas', d, FALSE)
    BY <2>1 DEF Shows, Blit, CellRect, Rect
  <2>7. ASSUME NEW n \in written, n # i
        PROVE  Shows(canvas', cells[n], FALSE)
    <3>1. Apart(d, cells[n])
      BY <1>0, <2>4, <2>7, CellsApart DEF TypeOK
    <3>2. ASSUME NEW p \in CellRect(cells[n]) PROVE canvas'[p] = canvas[p]
      <4>1. p \notin Around(d, 0)
        BY <1>0, <2>3, <2>4, <3>1, BleedStaysOut
      <4>2. p \notin CellRect(d) /\ p \in Page
        BY <2>3, <4>1 DEF CellRect, Around, Rect, CellType
      <4> QED
        BY <2>1, <4>2 DEF Blit
    <3>3. Shows(canvas, cells[n], FALSE)
      BY <1>3, <2>1, <2>2
    <3> QED
      BY <3>2, <3>3 DEF Shows
  <2>8. ASSUME NEW n \in written' PROVE Shows(canvas', cells'[n], Bordered(n)')
    <3>1. Bordered(n)' = FALSE
      BY <2>2
    <3>2. CASE n = i
      BY <2>5, <2>6, <3>1, <3>2
    <3>3. CASE n # i
      <4>1. n \in written
        BY <2>1, <3>3
      <4> QED
        BY <2>5, <2>7, <3>1, <3>3, <4>1
    <3> QED
      BY <3>2, <3>3
  <2> QED
    BY <2>8
<1>5. ASSUME UNCHANGED <<job, cells, written, canvas>>, \A n \in written : Bordered(n)' = Bordered(n)
      PROVE  \A n \in written' : Shows(canvas', cells'[n], Bordered(n)')
  BY <1>3, <1>5 DEF Shows
<1>6. CASE SkipCell
  <2>1. /\ UNCHANGED <<job, cells, written, canvas>> /\ phase = "grid"
        /\ (phase' = "grid" \/ (phase' = "border" /\ i' = 0))
    BY <1>0, <1>6, AdvanceType DEF SkipCell
  <2>2. \A n \in written : n \in Nat
    BY <1>0 DEF TypeOK
  <2> QED
    BY <1>5, <2>1, <2>2 DEF Bordered
<1>7. CASE NoBorder
  <2>1. /\ UNCHANGED <<job, cells, written, canvas>> /\ job.border = 0
    BY <1>7 DEF NoBorder, Skip
  <2>2. \A n \in written : cells[n] \in CellType
    BY <1>2, TidyCells
  <2>3. \A n \in written : BorderPixels(cells[n], job.border) = {}
    BY <2>1, <2>2, NoBorderPixels
  <2>4. ASSUME NEW n \in written
        PROVE  Shows(canvas, cells[n], Bordered(n)')
    BY <1>3, <2>3 DEF Shows
  <2> QED
    BY <2>1, <2>4 DEF Shows
<1>8. ASSUME UNCHANGED <<job, cells, written>>, phase \notin {"canvas", "grid"},
             \A n \in written : Bordered(n)' = Bordered(n),
             \A n \in written : \A p \in CellRect(cells[n]) : canvas'[p] = canvas[p]
      PROVE  \A n \in written' : Shows(canvas', cells'[n], Bordered(n)')
  BY <1>3, <1>8 DEF Shows
<1>9. CASE NoBleed \/ NoMarks
  <2>1. /\ UNCHANGED <<job, cells, written, canvas>>
        /\ phase \in {"bleed", "marks"} /\ phase' \in {"marks", "done"}
    BY <1>9 DEF NoBleed, NoMarks, Skip
  <2> QED
    BY <1>5, <2>1 DEF Bordered
<1>10. CASE DrawBorder
  <2> DEFINE d == cells[i]
             S == BorderPixels(d, job.border)
  <2>1. /\ UNCHANGED <<job, cells, written>> /\ phase = "border"
        /\ canvas' = Paint(S, Border)
    BY <1>10 DEF DrawBorder
  <2>2. /\ i \in written /\ d \in CellType /\ job.border <= d.w /\ job.border <= d.h
        /\ \A n \in written : /\ n \in 0 .. Total - 1 /\ cells[n] \in CellType
                              /\ n # i => Apart(d, cells[n])
    BY <1>2, <2>1, TidyCells DEF BorderInPhoto
  <2>3. \A n \in written : /\ Bordered(n) = (n < i)
                           /\ Bordered(n)' = (n <= i)
    <3>1. \/ i + 1 = Total /\ phase' = "bleed"
          \/ i' = i + 1 /\ phase' = "border"
      BY <1>0, <1>10, AdvanceType DEF DrawBorder
    <3> QED
      BY <1>0, <2>1, <2>2, <3>1 DEF Bordered
  <2>4. \A p \in CellRect(d) : canvas'[p] = IF p \in S THEN Border ELSE canvas[p]
    BY <2>1 DEF Paint, CellRect, Rect
  <2>5. Shows(canvas', d, TRUE)
    <3>1. Shows(canvas, d, FALSE)
      <4>1. ~(i < i)
        BY <1>0
      <4> QED
        BY <1>3, <2>2, <2>3, <4>1 DEF Shows
    <3> QED
      BY <2>4, <3>1 DEF Shows
  <2>6. ASSUME NEW n \in written, n # i
        PROVE  Shows(canvas', cells[n], Bordered(n))
    <3>1. ASSUME NEW p \in CellRect(cells[n]) PROVE canvas'[p] = canvas[p]
      <4>1. p \notin Around(d, 0)
        BY <1>0, <2>2, <2>6, BleedStaysOut
      <4>2. p \notin CellRect(d) /\ p \in Page
        BY <2>2, <4>1 DEF CellRect, Around, Rect, CellType
      <4>3. p \notin S
        BY <1>0, <2>2, <4>2, BorderStaysIn
      <4> QED
        BY <2>1, <4>2, <4>3 DEF Paint
    <3>2. Shows(canvas, cells[n], Bordered(n))
      BY <1>3
    <3> QED
      BY <3>1, <3>2 DEF Shows
  <2>7. ASSUME NEW n \in written PROVE Shows(canvas', cells[n], Bordered(n)')
    <3>1. CASE n = i
      <4>1. n <= i
        BY <1>0, <3>1
      <4>2. Bordered(n)'
        BY <2>3, <4>1
      <4> QED
        BY <2>5, <3>1, <4>2 DEF Shows
    <3>2. CASE n # i
      <4>1. Bordered(n)' = Bordered(n)
        BY <1>0, <2>2, <2>3, <3>2
      <4> QED
        BY <2>6, <3>2, <4>1
    <3> QED
      BY <3>1, <3>2
  <2> QED
    BY <2>1, <2>7
<1>11. CASE ApplyBleed
  <2> DEFINE d == cells[i]
             b == job.bleed
  <2>1. /\ UNCHANGED <<job, cells, written>> /\ phase = "bleed" /\ phase' \in {"bleed", "marks"}
        /\ canvas' = BleedColumns(BleedRows(canvas, d, b), d, b)
    BY <1>0, <1>11, AdvanceType DEF ApplyBleed
  <2>2. ASSUME NEW n \in written, NEW p \in CellRect(cells[n])
        PROVE  canvas'[p] = canvas[p]
    <3>1. /\ i \in written /\ d \in CellType /\ cells[n] \in CellType /\ d.w >= 0 /\ d.h >= 0
          /\ n # i => Apart(d, cells[n])
      BY <1>2, <2>1, TidyCells
    <3>2. b <= job.gap /\ p \in Page
      BY DEF Tidy, CellRect, Rect
    <3>3. \/ p \in CellRect(d)
          \/ p \notin Around(d, b)
      <4>1. CASE n = i
        BY <4>1
      <4>2. CASE n # i
        BY <1>0, <3>1, <3>2, <4>2, BleedStaysOut
      <4> QED
        BY <4>1, <4>2
    <3> HIDE DEF d, b
    <3> QED
      BY <1>0, <2>1, <3>1, <3>2, <3>3, BleedOutside DEF b
  <2> QED
    BY <1>8, <2>1, <2>2 DEF Bordered
<1>12. CASE DrawMarks
  <2> DEFINE d == cells[i]
  <2>1. /\ UNCHANGED <<job, cells, written>> /\ phase = "marks" /\ phase' \in {"marks", "done"}
        /\ canvas' = Paint(MarkPixels(d, job), Mark) /\ job.mark > 0
    BY <1>0, <1>12, AdvanceType DEF DrawMarks
  <2>2. ASSUME NEW n \in written, NEW p \in CellRect(cells[n])
        PROVE  canvas'[p] = canvas[p]
    <3>1. /\ i \in written /\ d \in CellType /\ cells[n] \in CellType /\ d.w >= 0 /\ d.h >= 0
          /\ d.w = cells[n].w /\ d.h = cells[n].h /\ InLine(d, cells[n])
      BY <1>2, <2>1, TidyCells
    <3>2. job.offset + Thickness(job) <= job.gap /\ p \in Page
      BY <2>1 DEF Tidy, CellRect, Rect
    <3> HIDE DEF d
    <3>3. p \notin MarkPixels(d, job)
      BY <1>0, <3>1, <3>2, MarksStayOut
    <3> QED
      BY <2>1, <3>2, <3>3 DEF Paint
  <2> QED
    BY <1>8, <2>1, <2>2 DEF Bordered
<1>13. CASE UNCHANGED vars
  BY <1>5, <1>13 DEF vars, Bordered
<1> QED
  BY <1>4, <1>6, <1>7, <1>9, <1>10, <1>11, <1>12, <1>13 DEF Next

\* For any page and any jobs: a job whose bleed and marks stay in its gaps ends with every
\* photo whole up to its own border, whatever is drawn for the others and in whatever
\* order the cells come (border.c, bleed.c, crop_marks.c).
THEOREM PhotosSafe == Spec => []PhotosIntact
<1>1. Init => PhotosSoFar
  BY DEF Init, PhotosSoFar
<1>2. PhotosSoFar => PhotosIntact
  BY DEF PhotosSoFar, PhotosIntact
<1> QED
  BY <1>1, <1>2, PhotosStep, GridSafety, LayoutTypeCorrect, PTL DEF Spec

-----------------------------------------------------------------------------
\* Bleed.

\* A cell on the page with at least one pixel.
SoundCell(c) ==
  /\ c \in CellType /\ c.w >= 1 /\ c.h >= 1
  /\ 0 <= c.x /\ 0 <= c.y /\ OnPage(c)

\* A pair of coordinates on the page is a pixel.
LEMMA PixelPairs ==
  ASSUME NEW x \in 0 .. PageW - 1, NEW y \in 0 .. PageH - 1
  PROVE  <<x, y>> \in Page /\ <<x, y>>[1] = x /\ <<x, y>>[2] = y
BY DEF Page

\* A pixel is the pair of its coordinates, which are on the page.
LEMMA PixelParts ==
  ASSUME NEW p \in Page
  PROVE  p = <<p[1], p[2]>> /\ p[1] \in 0 .. PageW - 1 /\ p[2] \in 0 .. PageH - 1
BY DEF Page

\* The nearest row or column of a cell is one of its own.
LEMMA ClampInside ==
  ASSUME NEW n \in Int, NEW from \in Int, NEW length \in Int, length >= 1
  PROVE  /\ Clamp(n, from, length) \in Int
         /\ from <= Clamp(n, from, length) /\ Clamp(n, from, length) < from + length
BY DEF Clamp

\* After the rows were copied up and down, a pixel above, in or below the cell repeats
\* the nearest row (bleed.c:36-76).
LEMMA RowsClamp ==
  ASSUME NEW c, SoundCell(c), NEW b \in Nat, NEW cv,
         NEW x \in 0 .. PageW - 1, NEW y \in 0 .. PageH - 1,
         c.x <= x, x < c.x + c.w, c.y - b <= y, y < c.y + c.h + b
  PROVE  BleedRows(cv, c, b)[<<x, y>>] = cv[<<x, Clamp(y, c.y, c.h)>>]
<1> DEFINE up  == Spread(cv, Rect(c.x, c.y - b, c.w, b), LAMBDA q : <<q[1], c.y>>)
           bot == c.y + c.h - 1
<1>0. /\ c.x \in Int /\ c.y \in Int /\ c.w \in Int /\ c.h \in Int /\ x \in Int /\ y \in Int
      /\ c.y \in 0 .. PageH - 1 /\ bot \in 0 .. PageH - 1
      /\ PageH \in Nat /\ PageW \in Nat
  BY PageAssumption DEF SoundCell, CellType, OnPage, MaxField
<1>1. /\ <<x, y>> \in Page /\ <<x, y>>[1] = x /\ <<x, y>>[2] = y
      /\ <<x, c.y>> \in Page /\ <<x, c.y>>[1] = x /\ <<x, c.y>>[2] = c.y
      /\ <<x, bot>> \in Page /\ <<x, bot>>[1] = x /\ <<x, bot>>[2] = bot
  BY <1>0, PixelPairs
<1>2. \A q \in Page : up[q] = IF q \in Rect(c.x, c.y - b, c.w, b) THEN Read(cv, <<q[1], c.y>>)
                              ELSE cv[q]
  BY DEF Spread
<1>3. \A q \in Page : BleedRows(cv, c, b)[q] =
                        IF q \in Rect(c.x, c.y + c.h, c.w, b) THEN Read(up, <<q[1], bot>>)
                        ELSE up[q]
  BY DEF BleedRows, Spread
<1> HIDE DEF up
<1>4. CASE y < c.y
  <2>1. <<x, y>> \in Rect(c.x, c.y - b, c.w, b) /\ <<x, y>> \notin Rect(c.x, c.y + c.h, c.w, b)
    BY <1>0, <1>1, <1>4 DEF Rect, SoundCell
  <2>2. BleedRows(cv, c, b)[<<x, y>>] = Read(cv, <<x, c.y>>)
    BY <2>1, <1>1, <1>2, <1>3
  <2>3. Clamp(y, c.y, c.h) = c.y
    BY <1>4 DEF Clamp
  <2> QED
    BY <2>2, <2>3, <1>1 DEF Read
<1>5. CASE y >= c.y + c.h
  <2>1. /\ <<x, y>> \in Rect(c.x, c.y + c.h, c.w, b)
        /\ <<x, bot>> \notin Rect(c.x, c.y - b, c.w, b)
    BY <1>0, <1>1, <1>5 DEF Rect, SoundCell
  <2>2. BleedRows(cv, c, b)[<<x, y>>] = Read(up, <<x, bot>>) /\ up[<<x, bot>>] = cv[<<x, bot>>]
    BY <2>1, <1>1, <1>2, <1>3
  <2>3. Clamp(y, c.y, c.h) = bot
    BY <1>0, <1>5 DEF Clamp, SoundCell
  <2> QED
    BY <2>2, <2>3, <1>1 DEF Read
<1>6. CASE c.y <= y /\ y < c.y + c.h
  <2>1. <<x, y>> \notin Rect(c.x, c.y - b, c.w, b) /\ <<x, y>> \notin Rect(c.x, c.y + c.h, c.w, b)
    BY <1>0, <1>1, <1>6 DEF Rect
  <2>2. BleedRows(cv, c, b)[<<x, y>>] = cv[<<x, y>>]
    BY <2>1, <1>1, <1>2, <1>3
  <2>3. Clamp(y, c.y, c.h) = y
    BY <1>0, <1>6 DEF Clamp
  <2> QED
    BY <2>2, <2>3
<1> QED
  BY <1>0, <1>4, <1>5, <1>6

\* After the columns were copied too, every pixel around the cell repeats the nearest
\* pixel of the cell, corners included (bleed.c:78-122).
LEMMA BleedClamps ==
  ASSUME NEW c, SoundCell(c), NEW b \in Nat, NEW cv,
         NEW p \in Around(c, b)
  PROVE  LET bled == BleedColumns(BleedRows(cv, c, b), c, b)
         IN  bled[p] = bled[Nearest(p, c)]
<1> DEFINE rows == BleedRows(cv, c, b)
           rx   == c.x + c.w - 1
           Band(z) == Rect(z, c.y - b, b, c.h + 2 * b)
           left == Spread(rows, Band(c.x - b), LAMBDA q : <<c.x, q[2]>>)
           bled == BleedColumns(rows, c, b)
<1> PICK x \in 0 .. PageW - 1, y \in 0 .. PageH - 1 : p = <<x, y>> /\ x = p[1] /\ y = p[2]
  BY PixelParts DEF Around, Rect
<1>0. /\ c.x \in Int /\ c.y \in Int /\ c.w \in Int /\ c.h \in Int /\ x \in Int /\ y \in Int
      /\ PageH \in Nat /\ PageW \in Nat
      /\ c.x \in 0 .. PageW - 1 /\ rx \in 0 .. PageW - 1
  BY PageAssumption DEF SoundCell, CellType, OnPage, MaxField
<1>1. /\ c.x - b <= x /\ x < c.x + c.w + b /\ c.y - b <= y /\ y < c.y + c.h + b /\ p \in Page
  BY <1>0 DEF Around, Rect
<1> PICK u \in Int : u = Clamp(x, c.x, c.w)
  BY <1>0, ClampInside DEF SoundCell
<1> PICK v \in Int : v = Clamp(y, c.y, c.h)
  BY <1>0, ClampInside DEF SoundCell
<1>2. c.x <= u /\ u < c.x + c.w /\ c.y <= v /\ v < c.y + c.h
  BY <1>0, ClampInside DEF SoundCell
<1>3. u \in 0 .. PageW - 1 /\ v \in 0 .. PageH - 1
  BY <1>0, <1>2 DEF SoundCell, OnPage
<1>4. /\ <<u, v>> \in Page /\ <<u, v>>[1] = u /\ <<u, v>>[2] = v
      /\ <<c.x, y>> \in Page /\ <<c.x, y>>[1] = c.x /\ <<c.x, y>>[2] = y
      /\ <<rx, y>> \in Page /\ <<rx, y>>[1] = rx /\ <<rx, y>>[2] = y
      /\ Nearest(p, c) = <<u, v>>
  BY <1>0, <1>3, PixelPairs DEF Nearest
<1>5. bled[<<u, v>>] = cv[<<u, v>>]
  <2>1. <<u, v>> \in CellRect(c) /\ c \in CellType /\ c.w >= 0 /\ c.h >= 0
    BY <1>0, <1>2, <1>4 DEF CellRect, Rect, SoundCell
  <2> QED
    BY <2>1, <1>4, BleedOutside
<1>6. rows[<<u, y>>] = cv[<<u, v>>]
  BY <1>1, <1>2, <1>3, RowsClamp
<1>7. \A q \in Page : left[q] = IF q \in Band(c.x - b) THEN Read(rows, <<c.x, q[2]>>) ELSE rows[q]
  BY DEF Spread
<1>8. \A q \in Page : bled[q] = IF q \in Band(c.x + c.w) THEN Read(left, <<rx, q[2]>>) ELSE left[q]
  BY <1>0 DEF BleedColumns, Spread
<1> HIDE DEF rows, left, bled
<1>9. CASE x < c.x
  <2>1. p \in Band(c.x - b) /\ p \notin Band(c.x + c.w)
    BY <1>0, <1>1, <1>9 DEF Rect, SoundCell
  <2>2. u = c.x
    BY <1>9 DEF Clamp
  <2> QED
    BY <2>1, <2>2, <1>1, <1>4, <1>5, <1>6, <1>7, <1>8 DEF Read, rows, bled
<1>10. CASE x >= c.x + c.w
  <2>1. p \in Band(c.x + c.w) /\ <<rx, y>> \notin Band(c.x - b)
    BY <1>0, <1>1, <1>4, <1>10 DEF Rect, SoundCell
  <2>2. u = rx
    BY <1>0, <1>10 DEF Clamp, SoundCell
  <2> QED
    BY <2>1, <2>2, <1>1, <1>4, <1>5, <1>6, <1>7, <1>8 DEF Read, rows, bled
<1>11. CASE c.x <= x /\ x < c.x + c.w
  <2>1. p \notin Band(c.x + c.w) /\ p \notin Band(c.x - b)
    BY <1>0, <1>11 DEF Rect
  <2>2. u = x
    BY <1>0, <1>11 DEF Clamp
  <2> QED
    BY <2>1, <2>2, <1>1, <1>4, <1>5, <1>6, <1>7, <1>8 DEF rows, bled
<1> QED
  BY <1>0, <1>9, <1>10, <1>11

\* The cells that were written are on the page; a pass that is switched off has not
\* begun.
PlacedOnPage ==
  /\ \A n \in written : OnPage(cells[n])
  /\ phase = "border" /\ job.border = 0 => i = 0

\* A cell that was written is sound.
LEMMA WrittenSound ==
  ASSUME TypeOK, GridInv, PlacedOnPage, NEW n \in written
  PROVE  SoundCell(cells[n])
<1>1. cells[n] = CellAt(n) /\ n \in 0 .. Total - 1 /\ OnPage(cells[n])
  BY DEF TypeOK, GridInv, PlacedOnPage
<1>2. CellAt(n) \in [x : Nat, y : Nat, w : Nat, h : Nat]
  BY <1>1, CellNumbers DEF TypeOK
<1>3. CellAt(n).w >= 1 /\ CellAt(n).h >= 1
  BY DEF CellAt, TypeOK
<1> QED
  BY <1>1, <1>2, <1>3 DEF SoundCell, CellType

\* Every step keeps both.
LEMMA BleedStep ==
  TypeOK /\ GridInv /\ PlacedOnPage /\ BleedIsClamp /\ [Next]_vars
    => PlacedOnPage' /\ BleedIsClamp'
<1> SUFFICES ASSUME TypeOK, GridInv, PlacedOnPage, BleedIsClamp, [Next]_vars
             PROVE  PlacedOnPage' /\ BleedIsClamp'
  OBVIOUS
<1>0. /\ job \in Jobs /\ i \in 0 .. Total - 1 /\ written \subseteq 0 .. Total - 1
      /\ Total \in Nat /\ Total >= 1 /\ -1 \notin 0 .. Total - 1
  BY JobFields, SomeCell DEF TypeOK, Total
<1>1. CASE SizeCanvas
  <2>1. written' = {} /\ phase' = "grid"
    BY <1>1 DEF SizeCanvas, GridInv
  <2> QED
    BY <2>1 DEF PlacedOnPage, BleedIsClamp, LastBled
<1>2. CASE PlaceCell \/ SkipCell
  <2>1. phase' \in {"grid", "border"} /\ (phase' = "border" => i' = 0) /\ job' = job
    BY <1>0, <1>2, AdvanceType DEF PlaceCell, SkipCell, TypeOK
  <2>2. \A n \in written' : OnPage(cells'[n])
    <3>1. CASE PlaceCell
      <4>1. /\ cells \in [0 .. Total - 1 -> [x : Int, y : Int, w : Int, h : Int]]
            /\ written' = written \cup {i} /\ cells' = [cells EXCEPT ![i] = CellAt(i)]
            /\ OnPage(CellAt(i))
        BY <3>1 DEF PlaceCell, TypeOK
      <4>2. ASSUME NEW n \in written' PROVE OnPage(cells'[n])
        <5>1. n \in 0 .. Total - 1 /\ (n = i \/ n \in written)
          BY <4>1, <1>0
        <5>2. cells'[n] = IF n = i THEN CellAt(i) ELSE cells[n]
          BY <4>1, <5>1
        <5> QED
          BY <4>1, <5>1, <5>2 DEF PlacedOnPage
      <4> QED
        BY <4>2
    <3>2. CASE SkipCell
      BY <3>2 DEF SkipCell, PlacedOnPage
    <3> QED
      BY <3>1, <3>2, <1>2
  <2>3. \A n : OnPage(cells[n])' <=> OnPage(cells'[n])
    BY DEF OnPage
  <2> QED
    BY <2>1, <2>2, <2>3 DEF PlacedOnPage, BleedIsClamp, LastBled
<1>3. ASSUME phase \in {"border", "bleed", "marks"}, phase' # "border" \/ job.border > 0,
             UNCHANGED <<job, cells, written>>
      PROVE  PlacedOnPage'
  <2>1. job.border \in Nat
    BY <1>0, MarkFields
  <2> QED
    BY <1>3, <2>1 DEF PlacedOnPage, OnPage
<1>4. CASE NoBorder \/ DrawBorder
  <2>1. /\ phase' \in {"border", "bleed"} /\ (phase' = "bleed" => i' = 0)
        /\ (phase' = "border" => job.border > 0) /\ phase = "border"
        /\ UNCHANGED <<job, cells, written>>
    BY <1>0, <1>4, AdvanceType DEF NoBorder, DrawBorder, Skip, PlacedOnPage, TypeOK
  <2>2. LastBled' \cap written = {}
    BY <1>0, <2>1 DEF LastBled
  <2> QED
    BY <1>3, <2>1, <2>2 DEF BleedIsClamp
<1>5. CASE NoBleed \/ NoMarks
  <2>1. /\ phase' \in {"marks", "done"} /\ (phase' = "marks" => job.bleed = 0)
        /\ phase \in {"bleed", "marks"} /\ UNCHANGED <<job, cells, written>>
    BY <1>5 DEF NoBleed, NoMarks, Skip
  <2>2. LastBled' = {}
    BY <2>1 DEF LastBled
  <2> QED
    BY <1>3, <2>1, <2>2 DEF BleedIsClamp
<1>6. CASE DrawMarks
  <2>1. /\ phase' \in {"marks", "done"} /\ (phase' = "marks" => i' # 0)
        /\ phase = "marks" /\ UNCHANGED <<job, cells, written>>
    <3>1. Advance("done") /\ phase = "marks" /\ UNCHANGED <<job, cells, written>>
      BY <1>6 DEF DrawMarks
    <3>2. phase' = "done" \/ (i' = i + 1 /\ phase' = phase)
      BY ONLY <1>0, <3>1, AdvanceType
    <3>3. i + 1 # 0
      BY <1>0
    <3> QED
      BY <3>1, <3>2, <3>3
  <2>2. LastBled' = {}
    BY <2>1 DEF LastBled
  <2> QED
    BY <1>3, <2>1, <2>2 DEF BleedIsClamp
<1>7. CASE ApplyBleed
  <2>1. /\ \/ i + 1 = Total /\ i' = 0 /\ phase' = "marks"
           \/ i + 1 < Total /\ i' = i + 1 /\ phase' = "bleed"
        /\ phase = "bleed" /\ UNCHANGED <<job, cells, written>>
        /\ canvas' = BleedColumns(BleedRows(canvas, cells[i], job.bleed), cells[i], job.bleed)
    BY <1>0, <1>7, AdvanceType DEF ApplyBleed, TypeOK
  <2>2. LastBled' \subseteq {i}
    <3>1. Total' = Total
      BY <2>1 DEF Total
    <3> QED
      BY <1>0, <2>1, <3>1 DEF LastBled
  <2>3. ASSUME NEW n \in LastBled' \cap written',
               NEW p \in Around(cells[n], job.bleed)
        PROVE  canvas'[p] = canvas'[Nearest(p, cells[n])]
    <3>1. n = i /\ SoundCell(cells[i]) /\ job.bleed \in Nat
      BY <1>0, <2>1, <2>2, WrittenSound, MarkFields
    <3> QED
      BY <2>1, <3>1, BleedClamps
  <2>4. BleedIsClamp'
    BY <2>1, <2>3 DEF BleedIsClamp, Around, Rect, Nearest, Clamp
  <2> QED
    BY <1>3, <2>1, <2>4
<1>8. CASE UNCHANGED vars
  BY <1>8 DEF vars, PlacedOnPage, BleedIsClamp, LastBled, OnPage, Total, Around, Rect, Nearest, Clamp
<1> QED
  BY <1>1, <1>2, <1>4, <1>5, <1>6, <1>7, <1>8 DEF Next

\* For any page and any job, fitting or not: when a cell on the page has had its bleed,
\* every pixel around it, corners and clipped sides included, repeats the nearest pixel
\* of the cell (bleed.c:36-122).
THEOREM BleedClamped == Spec => []BleedIsClamp
<1>1. Init => PlacedOnPage /\ BleedIsClamp
  BY DEF Init, PlacedOnPage, BleedIsClamp
<1> QED
  BY <1>1, BleedStep, GridSafety, LayoutTypeCorrect, PTL DEF Spec

-----------------------------------------------------------------------------
\* The sheet as a whole.

\* The cells that have had their bleed, and those that have their marks.
BledCells   == {n \in written : phase \in {"marks", "done"} \/ (phase = "bleed" /\ n < i)}
MarkedCells == {n \in written : phase = "done" \/ (phase = "marks" /\ n < i)}

\* Canvas cv with the cells cs[n], n in W, of job j: M marked, the cells of B bled, the
\* rest of the page, outside the cells, background.
SheetIs(cv, cs, W, B, M, j) ==
  /\ \A p \in M : cv[p] = Mark
  /\ \A n \in B : \A p \in Around(cs[n], j.bleed) :
       p \notin CellRect(cs[n]) /\ p \notin M => cv[p] = Ink(cs[n], j.border, Nearest(p, cs[n]))
  /\ \A p \in Page :
       /\ p \notin M
       /\ \A n \in W : p \notin CellRect(cs[n])
       /\ \A n \in B : p \notin Around(cs[n], j.bleed)
       => cv[p] = Background

\* A job whose bleeds do not meet.
Neat == Tidy(job) /\ 2 * job.bleed <= job.gap /\ BorderInPhoto

\* The inductive form of SheetAsPlanned: what each pass has done so far, and that a pass
\* that is switched off has not begun.
SheetSoFar ==
  /\ phase = "canvas" => \A p \in Page : canvas[p] = Background
  /\ phase = "border" /\ job.border = 0 => i = 0
  /\ phase = "bleed" /\ job.bleed = 0 => i = 0
  /\ Neat /\ phase # "canvas" =>
       SheetIs(canvas, cells, written, BledCells, MarkedBy(MarkedCells), job)

\* Two cells that are apart by twice the bleed keep their bleeds apart.
LEMMA BleedsApart ==
  ASSUME NEW c \in CellType, NEW d \in CellType, NEW b \in Nat, job.gap \in Nat,
         2 * b <= job.gap, Apart(c, d), NEW p \in Around(d, b)
  PROVE  p \notin Around(c, b)
<1>1. p[1] \in Int /\ p[2] \in Int
  BY PixelNumbers DEF Around, Rect
<1> QED
  BY <1>1 DEF Around, Rect, Apart, CellType

\* A cell without a bleed is the cell.
LEMMA AroundNothing ==
  ASSUME NEW c \in CellType
  PROVE  Around(c, 0) = CellRect(c)
BY DEF Around, CellRect, Rect, CellType

\* The nearest pixel of a cell is a pixel of the cell, and of its own pixels each is its own.
LEMMA NearestInside ==
  ASSUME NEW c, SoundCell(c), NEW p \in Page
  PROVE  /\ Nearest(p, c) \in CellRect(c)
         /\ p \in CellRect(c) => Nearest(p, c) = p
<1> PICK x \in 0 .. PageW - 1, y \in 0 .. PageH - 1 : p = <<x, y>> /\ x = p[1] /\ y = p[2]
  BY PixelParts
<1>0. /\ c.x \in Int /\ c.y \in Int /\ c.w \in Int /\ c.h \in Int /\ x \in Int /\ y \in Int
      /\ PageH \in Nat /\ PageW \in Nat
  BY PageAssumption DEF SoundCell, CellType, MaxField
<1> PICK u \in Int : u = Clamp(x, c.x, c.w)
  BY <1>0, ClampInside DEF SoundCell
<1> PICK v \in Int : v = Clamp(y, c.y, c.h)
  BY <1>0, ClampInside DEF SoundCell
<1>1. c.x <= u /\ u < c.x + c.w /\ c.y <= v /\ v < c.y + c.h
  BY <1>0, ClampInside DEF SoundCell
<1>2. u \in 0 .. PageW - 1 /\ v \in 0 .. PageH - 1
  BY <1>0, <1>1 DEF SoundCell, OnPage
<1>3. <<u, v>> \in Page /\ <<u, v>>[1] = u /\ <<u, v>>[2] = v /\ Nearest(p, c) = <<u, v>>
  BY <1>2, PixelPairs DEF Nearest
<1>4. <<u, v>> \in CellRect(c)
  BY <1>1, <1>3 DEF CellRect, Rect
<1>5. ASSUME p \in CellRect(c) PROVE u = x /\ v = y
  BY <1>0, <1>5 DEF CellRect, Rect, Clamp
<1> QED
  BY <1>3, <1>4, <1>5

\* Marks of no length are nothing.
LEMMA NoMarkPixels ==
  ASSUME NEW c \in CellType, NEW j \in Jobs, j.mark = 0
  PROVE  MarkPixels(c, j) = {}
<1> SUFFICES ASSUME NEW p \in MarkPixels(c, j) PROVE FALSE
  OBVIOUS
<1>1. p[1] \in Int /\ p[2] \in Int
  BY PixelNumbers DEF MarkPixels, Rect
<1>2. j.offset \in Nat /\ Thickness(j) \in Nat
  BY MarkFields
<1> QED
  BY <1>1, <1>2 DEF MarkPixels, Rect, CellType

\* Every step of a job whose bleeds do not meet keeps the sheet as planned.
LEMMA SheetStep ==
  TypeOK /\ GridInv /\ PlacedOnPage /\ PhotosSoFar /\ PhotosSoFar' /\ SheetSoFar /\ [Next]_vars
    => SheetSoFar'
<1> SUFFICES ASSUME TypeOK, GridInv, PlacedOnPage, PhotosSoFar, PhotosSoFar', SheetSoFar, [Next]_vars
             PROVE  SheetSoFar'
  OBVIOUS
<1>0. /\ job \in Jobs /\ i \in 0 .. Total - 1 /\ written \subseteq 0 .. Total - 1
      /\ Total \in Nat /\ Total >= 1
      /\ job.border \in Nat /\ job.bleed \in Nat /\ job.gap \in Nat
  BY JobFields, MarkFields, SomeCell DEF TypeOK, Total
<1>1. CASE SizeCanvas
  <2>1. written' = {} /\ phase' = "grid" /\ canvas' = canvas /\ phase = "canvas"
    BY <1>1 DEF SizeCanvas, GridInv
  <2>2. BledCells' = {} /\ MarkedCells' = {}
    BY <2>1 DEF BledCells, MarkedCells
  <2>3. MarkedBy(MarkedCells)' = {}
    BY <2>2 DEF MarkedBy
  <2>4. SheetIs(canvas, cells', {}, {}, {}, job')
    BY <2>1 DEF SheetIs, SheetSoFar
  <2> QED
    BY <2>1, <2>2, <2>3, <2>4 DEF SheetSoFar
<1> SUFFICES ASSUME ~SizeCanvas PROVE SheetSoFar'
  BY <1>1
<1>2. UNCHANGED <<job, photo>> /\ (phase' = "canvas" => phase = "canvas" /\ canvas' = canvas)
  BY <1>0, AdvanceType DEF Next, vars, PlaceCell, SkipCell, NoBorder, NoBleed, NoMarks, Skip,
     DrawBorder, ApplyBleed, DrawMarks
<1>3. /\ phase' = "border" /\ job'.border = 0 => i' = 0
      /\ phase' = "bleed" /\ job'.bleed = 0 => i' = 0
  <2>1. CASE UNCHANGED vars
    BY <2>1 DEF vars, SheetSoFar
  <2>2. CASE PlaceCell \/ SkipCell
    BY <1>0, <2>2, AdvanceType DEF PlaceCell, SkipCell
  <2>3. CASE NoBorder
    BY <2>3 DEF NoBorder, Skip, SheetSoFar
  <2>4. CASE DrawBorder
    BY <1>0, <1>2, <2>4, AdvanceType DEF DrawBorder
  <2>5. CASE ApplyBleed
    BY <1>0, <1>2, <2>5, AdvanceType DEF ApplyBleed
  <2>6. CASE NoBleed \/ NoMarks \/ DrawMarks
    BY <1>0, <2>6, AdvanceType DEF NoBleed, NoMarks, DrawMarks, Skip
  <2> QED
    BY <2>1, <2>2, <2>3, <2>4, <2>5, <2>6 DEF Next
<1> SUFFICES ASSUME Neat, phase' # "canvas"
             PROVE  SheetIs(canvas', cells', written', BledCells', MarkedBy(MarkedCells)', job)
  <2>1. Neat' <=> Neat
    BY <1>2 DEF Neat, BorderInPhoto
  <2> QED
    BY <1>2, <1>3, <2>1 DEF SheetSoFar
<1>4. /\ FitsPage(job) /\ 2 * job.bleed <= job.gap
      /\ job.border <= photo.w /\ job.border <= photo.h
  BY DEF Neat, Tidy, BorderInPhoto
<1>5. /\ \A n \in written :
           /\ n \in 0 .. Total - 1 /\ n \in Int /\ cells[n] \in CellType
           /\ cells[n].w = photo.w /\ cells[n].h = photo.h
           /\ cells[n].w >= 0 /\ cells[n].h >= 0 /\ SoundCell(cells[n])
      /\ \A m, n \in written : m # n => Apart(cells[m], cells[n])
      /\ phase \notin {"canvas", "grid"} => i \in written
  BY <1>4, TidyCells, WrittenSound
<1> DEFINE B  == BledCells
           M  == MarkedBy(MarkedCells)
           BB == BledCells'
           MM == MarkedBy(MarkedCells)'
<1>6. CASE UNCHANGED vars
  <2>1. UNCHANGED <<canvas, cells, written, phase, i, job>>
    BY <1>6 DEF vars
  <2>2. BB = B /\ MarkedCells' = MarkedCells
    BY <2>1 DEF BledCells, MarkedCells
  <2>3. MM = M
    BY <2>1, <2>2 DEF MarkedBy
  <2>4. phase # "canvas"
    BY <2>1
  <2> HIDE DEF B, M, BB, MM
  <2> QED
    BY <2>1, <2>2, <2>3, <2>4 DEF SheetSoFar, B, M, BB, MM
<1>7. CASE PlaceCell \/ SkipCell
  <2>1. /\ phase = "grid" /\ phase' \in {"grid", "border"}
    BY <1>0, <1>7, AdvanceType DEF PlaceCell, SkipCell
  <2>2. B = {} /\ BB = {} /\ MarkedCells = {} /\ MarkedCells' = {}
    BY <2>1 DEF BledCells, MarkedCells
  <2>3. M = {} /\ MM = {}
    BY <2>2 DEF MarkedBy
  <2>4. SheetIs(canvas, cells, written, {}, {}, job)
    BY <2>1, <2>2, <2>3 DEF SheetSoFar
  <2>5. CASE SkipCell
    BY <2>2, <2>3, <2>4, <2>5 DEF SkipCell
  <2>6. CASE PlaceCell
    <3>1. /\ written' = written \cup {i} /\ cells' = [cells EXCEPT ![i] = CellAt(i)]
          /\ canvas' = Blit(CellAt(i)) /\ cells \in [0 .. Total - 1 -> CellType]
      BY <2>1, <2>6 DEF PlaceCell, TypeOK, CellType
    <3>2. cells'[i] = CellAt(i) /\ \A n \in written : n # i => cells'[n] = cells[n]
      BY <1>0, <3>1
    <3>3. written = 0 .. i - 1
      BY <1>4, <2>1 DEF GridInv
    <3>4. i \notin written
      BY <1>0, <3>3
    <3>5. ASSUME NEW p \in Page, \A n \in written' : p \notin CellRect(cells'[n])
          PROVE  canvas'[p] = Background
      <4>1. p \notin CellRect(CellAt(i)) /\ \A n \in written : p \notin CellRect(cells[n])
        BY <3>1, <3>2, <3>4, <3>5
      <4>2. canvas'[p] = canvas[p]
        BY <3>1, <4>1 DEF Blit
      <4> QED
        BY <2>4, <4>1, <4>2 DEF SheetIs
    <3> QED
      BY <2>2, <2>3, <3>5 DEF SheetIs
  <2> QED
    BY <1>7, <2>5, <2>6
<1>8. ASSUME phase \in {"border", "bleed", "marks"} PROVE SheetIs(canvas, cells, written, B, M, job)
  BY <1>8 DEF SheetSoFar
<1>9. CASE NoBorder \/ DrawBorder
  <2>1. /\ phase = "border" /\ UNCHANGED <<cells, written>>
        /\ phase' = "border" \/ (phase' = "bleed" /\ i' = 0)
    BY <1>0, <1>9, AdvanceType DEF NoBorder, DrawBorder, Skip, SheetSoFar
  <2>2. B = {} /\ BB = {} /\ MarkedCells = {} /\ MarkedCells' = {}
    <3>1. \A n \in written : ~(n < 0)
      BY <1>0
    <3> QED
      BY <2>1, <3>1 DEF BledCells, MarkedCells
  <2>3. M = {} /\ MM = {}
    BY <2>2 DEF MarkedBy
  <2>4. SheetIs(canvas, cells, written, {}, {}, job)
    BY <1>8, <2>1, <2>2, <2>3
  <2>5. ASSUME NEW p \in Page, \A n \in written : p \notin CellRect(cells[n])
        PROVE  canvas'[p] = Background
    <3>1. CASE NoBorder
      BY <2>4, <2>5, <3>1 DEF NoBorder, Skip, SheetIs
    <3>2. CASE DrawBorder
      <4>1. p \notin BorderPixels(cells[i], job.border)
        BY <1>0, <1>4, <1>5, <2>1, <2>5, BorderStaysIn
      <4> QED
        BY <2>4, <2>5, <3>2, <4>1 DEF DrawBorder, Paint, SheetIs
    <3> QED
      BY <1>9, <3>1, <3>2
  <2> QED
    BY <2>1, <2>2, <2>3, <2>5 DEF SheetIs
<1>10. CASE NoBleed
  <2>1. /\ phase = "bleed" /\ phase' = "marks" /\ i = 0 /\ i' = 0 /\ job.bleed = 0
        /\ UNCHANGED <<cells, written, canvas>>
    BY <1>10 DEF NoBleed, Skip, SheetSoFar
  <2>2. B = {} /\ BB = written /\ MarkedCells = {} /\ MarkedCells' = {}
    <3>1. \A n \in written : ~(n < 0)
      BY <1>0
    <3> QED
      BY <2>1, <3>1 DEF BledCells, MarkedCells
  <2>3. M = {} /\ MM = {}
    BY <2>2 DEF MarkedBy
  <2>4. SheetIs(canvas, cells, written, {}, {}, job)
    BY <1>8, <2>1, <2>2, <2>3
  <2>5. \A n \in written : Around(cells[n], job.bleed) = CellRect(cells[n])
    BY <1>5, <2>1, AroundNothing
  <2>6. SheetIs(canvas, cells, written, written, {}, job)
    BY <2>4, <2>5 DEF SheetIs
  <2> QED
    BY <2>1, <2>2, <2>3, <2>6
<1>11. CASE ApplyBleed
  <2> DEFINE d == cells[i]
             b == job.bleed
  <2>1. /\ phase = "bleed" /\ UNCHANGED <<cells, written>>
        /\ canvas' = BleedColumns(BleedRows(canvas, d, b), d, b)
        /\ \/ i + 1 = Total /\ i' = 0 /\ phase' = "marks"
           \/ i' = i + 1 /\ phase' = "bleed"
    BY <1>0, <1>11, AdvanceType DEF ApplyBleed
  <2>2. BB = B \cup {i} /\ i \notin B /\ i \in written /\ B \subseteq written
    <3>1. ASSUME NEW n \in written
          PROVE  (n \in BB <=> n <= i) /\ (n \in B <=> n < i) /\ (n <= i <=> n < i \/ n = i)
      <4>1. n <= i <=> n < i + 1
        BY <1>0, <1>5
      <4>2. i + 1 = Total => n <= i
        BY <1>0, <1>5
      <4>3. n <= i <=> n < i \/ n = i
        BY <1>0, <1>5
      <4> QED
        BY <2>1, <4>1, <4>2, <4>3 DEF BledCells
    <3>2. i \in written /\ ~(i < i)
      BY <1>0, <1>5, <2>1
    <3>3. B \subseteq written /\ BB \subseteq written
      BY <2>1 DEF BledCells
    <3> QED
      BY <3>1, <3>2, <3>3
  <2>3. MarkedCells = {} /\ MarkedCells' = {}
    <3>1. \A n \in written : ~(n < 0)
      BY <1>0
    <3> QED
      BY <2>1, <3>1 DEF MarkedCells
  <2>4. M = {} /\ MM = {}
    BY <2>3 DEF MarkedBy
  <2> HIDE DEF B, BB, M, MM
  <2>5. SheetIs(canvas, cells, written, B, {}, job)
    BY <1>8, <2>1, <2>4
  <2>6. d \in CellType /\ SoundCell(d) /\ d.w >= 0 /\ d.h >= 0 /\ b \in Nat
    BY <1>0, <1>5, <2>2
  <2>7. ASSUME NEW p \in Page, p \notin Around(d, b) PROVE canvas'[p] = canvas[p]
    BY <2>1, <2>6, <2>7, BleedOutside
  <2>8. ASSUME NEW n \in BB, NEW p \in Around(cells[n], b), p \notin CellRect(cells[n])
        PROVE  canvas'[p] = Ink(cells[n], job.border, Nearest(p, cells[n]))
    <3>0. p \in Page
      BY DEF Around, Rect
    <3>1. CASE n = i
      <4>1. canvas'[p] = canvas'[Nearest(p, d)]
        BY <2>1, <2>6, <2>8, <3>1, BleedClamps
      <4>2. Nearest(p, d) \in CellRect(d)
        BY <2>6, <3>0, NearestInside
      <4>3. \A q \in CellRect(d) : canvas'[q] = Ink(d, job.border, q)
        <5>1. Tidy(job') /\ BorderInPhoto' /\ i \in written' /\ cells'[i] = d /\ job' = job
              /\ phase' \in {"bleed", "marks", "done"}
          BY <1>2, <2>1, <2>2 DEF Neat, BorderInPhoto
        <5>2. \A q \in CellRect(cells'[i]) :
                canvas'[q] = IF q \in BorderPixels(cells'[i], job'.border)
                             THEN Border ELSE Photo(q[1] - cells'[i].x, q[2] - cells'[i].y)
          BY <5>1 DEF PhotosSoFar
        <5> QED
          BY <5>1, <5>2 DEF Ink
      <4> QED
        BY <3>1, <4>1, <4>2, <4>3
    <3>2. CASE n # i
      <4>1. n \in B /\ n \in written /\ cells[n] \in CellType /\ Apart(d, cells[n])
        BY <1>5, <2>2, <3>2
      <4>2. p \notin Around(d, b)
        BY <1>0, <1>4, <2>6, <2>8, <4>1, BleedsApart
      <4> QED
        BY <2>5, <2>7, <2>8, <3>0, <4>1, <4>2 DEF SheetIs
    <3> QED
      BY <3>1, <3>2
  <2>9. ASSUME NEW p \in Page, \A n \in written : p \notin CellRect(cells[n]),
               \A n \in BB : p \notin Around(cells[n], b)
        PROVE  canvas'[p] = Background
    <3>1. p \notin Around(d, b) /\ \A n \in B : p \notin Around(cells[n], b)
      BY <2>2, <2>9
    <3> QED
      BY <2>5, <2>7, <2>9, <3>1 DEF SheetIs
  <2>10. SheetIs(canvas', cells, written, BB, {}, job)
    BY <2>8, <2>9 DEF SheetIs
  <2> QED
    BY <2>1, <2>4, <2>10 DEF BB, MM
<1>12. CASE NoMarks \/ DrawMarks
  <2> DEFINE d == cells[i]
             S == MarkPixels(d, job)
  <2>1. /\ phase = "marks" /\ UNCHANGED <<cells, written>> /\ i \in written
        /\ \/ job.mark = 0 /\ canvas' = canvas /\ phase' = "done"
           \/ /\ canvas' = Paint(S, Mark)
              /\ \/ i + 1 = Total /\ phase' = "done"
                 \/ i' = i + 1 /\ phase' = "marks"
    BY <1>0, <1>5, <1>12, AdvanceType DEF NoMarks, DrawMarks, Skip
  <2>2. B = written /\ BB = written
    BY <2>1 DEF BledCells
  <2>3. M \subseteq Page /\ S \subseteq Page
    BY DEF MarkedBy, MarkPixels, Rect
  <2>4. CASE job.mark = 0 /\ canvas' = canvas /\ phase' = "done"
    <3>1. \A n \in written : MarkPixels(cells[n], job) = {}
      BY <1>0, <1>5, <2>4, NoMarkPixels
    <3>2. MarkedCells \subseteq written /\ MarkedCells' \subseteq written
      BY <2>1 DEF MarkedCells
    <3>3. M = {} /\ MM = {}
      BY <1>2, <2>1, <3>1, <3>2 DEF MarkedBy
    <3> HIDE DEF M, MM, B, BB
    <3>4. SheetIs(canvas, cells, written, written, {}, job)
      BY <1>8, <2>1, <2>2, <3>3
    <3> QED
      BY <2>1, <2>2, <2>4, <3>3, <3>4 DEF M, MM, B, BB
  <2>5. CASE /\ canvas' = Paint(S, Mark)
             /\ \/ i + 1 = Total /\ phase' = "done"
                \/ i' = i + 1 /\ phase' = "marks"
    <3>1. MarkedCells' = MarkedCells \cup {i}
      <4>1. ASSUME NEW n \in written
            PROVE  (n \in MarkedCells' <=> n <= i) /\ (n \in MarkedCells <=> n < i)
                   /\ (n <= i <=> n < i \/ n = i)
        <5>1. n <= i <=> n < i + 1
          BY <1>0, <1>5
        <5>2. i + 1 = Total => n <= i
          BY <1>0, <1>5
        <5>3. n <= i <=> n < i \/ n = i
          BY <1>0, <1>5
        <5> QED
          BY <2>1, <2>5, <5>1, <5>2, <5>3 DEF MarkedCells
      <4>2. MarkedCells \subseteq written /\ MarkedCells' \subseteq written
        BY <2>1 DEF MarkedCells
      <4> QED
        BY <2>1, <4>1, <4>2
    <3>2. MM = M \cup S
      BY <1>2, <2>1, <3>1 DEF MarkedBy
    <3> HIDE DEF M, MM, B, BB
    <3>3. SheetIs(canvas, cells, written, written, M, job)
      BY <1>8, <2>1, <2>2
    <3>4. \A p \in Page : canvas'[p] = IF p \in S THEN Mark ELSE canvas[p]
      BY <2>5 DEF Paint
    <3>5. \A n \in written : Around(cells[n], job.bleed) \subseteq Page
      BY DEF Around, Rect
    <3> HIDE DEF S
    <3>6. SheetIs(canvas', cells, written, written, M \cup S, job)
      BY <2>3, <3>3, <3>4, <3>5 DEF SheetIs
    <3> QED
      BY <2>1, <2>2, <3>2, <3>6 DEF MM, BB
  <2> QED
    BY <2>1, <2>4, <2>5
<1> QED
  BY <1>6, <1>7, <1>9, <1>10, <1>11, <1>12 DEF Next

\* A finished sheet is the planned one.
LEMMA SheetFromParts ==
  TypeOK /\ GridInv /\ PlacedOnPage /\ PhotosSoFar /\ SheetSoFar => SheetAsPlanned
<1> SUFFICES ASSUME TypeOK, GridInv, PlacedOnPage, PhotosSoFar, SheetSoFar, phase = "done", Neat
             PROVE  /\ \A p \in MarkedBy(written) : canvas[p] = Mark
                    /\ \A n \in written : \A p \in Around(cells[n], job.bleed) \ MarkedBy(written) :
                         canvas[p] = Ink(cells[n], job.border, Nearest(p, cells[n]))
                    /\ \A p \in Page \ MarkedBy(written) :
                         (\A n \in written : p \notin Around(cells[n], job.bleed))
                           => canvas[p] = Background
  BY DEF SheetAsPlanned, Neat
<1>1. BledCells = written /\ MarkedCells = written
  BY DEF BledCells, MarkedCells
<1>2. SheetIs(canvas, cells, written, written, MarkedBy(written), job)
  BY <1>1 DEF SheetSoFar
<1>3. ASSUME NEW n \in written, NEW p \in CellRect(cells[n])
      PROVE  canvas[p] = Ink(cells[n], job.border, Nearest(p, cells[n]))
  <2>1. canvas[p] = IF p \in BorderPixels(cells[n], job.border)
                    THEN Border ELSE Photo(p[1] - cells[n].x, p[2] - cells[n].y)
    BY DEF PhotosSoFar, Neat
  <2>2. Nearest(p, cells[n]) = p
    BY WrittenSound, NearestInside DEF CellRect, Rect
  <2> QED
    BY <2>1, <2>2 DEF Ink
<1>4. job.bleed \in Nat /\ \A n \in written : CellRect(cells[n]) \subseteq Around(cells[n], job.bleed)
  <2>1. job.bleed \in Nat
    BY MarkFields DEF TypeOK
  <2>2. ASSUME NEW n \in written, NEW p \in CellRect(cells[n])
        PROVE  p \in Around(cells[n], job.bleed)
    <3>1. cells[n] \in CellType /\ p \in Page /\ p[1] \in Int /\ p[2] \in Int
      BY WrittenSound, PixelNumbers DEF SoundCell, CellRect, Rect
    <3> QED
      BY <2>1, <3>1 DEF CellRect, Around, Rect, CellType
  <2> QED
    BY <2>1, <2>2
<1>5. \A n \in written : \A p \in Around(cells[n], job.bleed) \ MarkedBy(written) :
        canvas[p] = Ink(cells[n], job.border, Nearest(p, cells[n]))
  BY <1>2, <1>3 DEF SheetIs
<1> QED
  BY <1>2, <1>4, <1>5 DEF SheetIs

\* For any page and any job whose marks and bleeds keep to the gaps: border, bleed and
\* marks, in the order in which api.c:224-257 draws them, leave marks over bleed, bleed
\* that repeats the bordered edge, and background elsewhere.
THEOREM SheetPlanned == Spec => []SheetAsPlanned
<1>1. Init => PlacedOnPage /\ BleedIsClamp /\ PhotosSoFar /\ SheetSoFar
  BY DEF Init, PlacedOnPage, BleedIsClamp, PhotosSoFar, SheetSoFar
<1> QED
  BY <1>1, PhotosStep, BleedStep, SheetStep, SheetFromParts, GridSafety, LayoutTypeCorrect, PTL DEF Spec

=============================================================================
