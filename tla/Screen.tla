-------------------------------- MODULE Screen --------------------------------
(***************************************************************************)
(* The display behind a backend: what a terminal emulator makes of the     *)
(* calls of backend/ansi.go, with the scrolling of backend/test.go.        *)
(* e = [w, h, rows, cur, back]: its size, its rows of cells, the cursor    *)
(* (x = w when the last column was written), the scrollback.  Rows and     *)
(* columns count from 0 as in the code.  The cursor's position is the      *)
(* emulator's, which backend/tty.go asks for; what backend/ansi.go alone   *)
(* would answer, the last position it was told, is left out.               *)
(***************************************************************************)
EXTENDS Buffers

BlankRows(e, n) == [i \in 1..n |-> Empty(e.w)]

(* A position beyond the screen is taken for its edge.                     *)
MoveTo(e, x, y) == [e EXCEPT !.cur = [x |-> Min({x, e.w - 1}), y |-> Min({y, e.h - 1})]]

(* Half of a wide cell is overwritten: the other half turns blank and may  *)
(* keep the style.                                                         *)
Orphan(c) == IF styleVisibleOnBlank(c) THEN "r" ELSE Blank

Put(row, x, c) ==
  LET first == x + 1
      end   == x + CellWidth(c)
  IN  [i \in DOMAIN row |->
         CASE i = first                               -> c
           [] i > first /\ i <= end                   -> Covered
           [] i = first - 1 /\ row[first] = Covered   -> Orphan(row[i])
           [] i = end + 1 /\ row[end] \in Wide        -> Orphan(row[end])
           [] OTHER                                   -> row[i]]

(* n line feeds: what leaves at the top goes to the scrollback.            *)
AppendLines(e, n) ==
  LET down   == Min({e.h - 1, e.cur.y + n})
      scroll == e.cur.y + n - down
  IN  IF n <= 0 THEN e
      ELSE [e EXCEPT !.rows = SubSeq(@ \o BlankRows(e, scroll), scroll + 1, scroll + e.h),
                     !.back = @ \o SubSeq(e.rows \o BlankRows(e, scroll), 1, scroll),
                     !.cur  = [x |-> Min({@.x, e.w - 1}), y |-> down]]

Written(e, c) ==
  LET at == IF e.cur.x + CellWidth(c) <= e.w THEN e
            ELSE LET down == AppendLines(e, 1) IN MoveTo(down, 0, down.cur.y)
  IN  [at EXCEPT !.rows[at.cur.y + 1] = Put(@, at.cur.x, c), !.cur.x = @ + CellWidth(c)]

(* Draw: the cursor is moved only when the cell is not the one right of    *)
(* the cell before.                                                        *)
DrawCells(e, updates) ==
  LET Step(acc, u) ==
        LET adjoins == acc.last.y = u.y /\ acc.last.x + 1 = u.x
        IN  [e |-> Written(IF adjoins THEN acc.e ELSE MoveTo(acc.e, u.x, u.y), u.c),
             last |-> [x |-> u.x, y |-> u.y]]
  IN  FoldLeft(Step, [e |-> e, last |-> [x |-> -2, y |-> -2]], updates).e

-----------------------------------------------------------------------------
(* ClearRegion.                                                            *)
ClearAll(e)         == [e EXCEPT !.rows = BlankRows(e, e.h)]
ClearLine(e)        == [e EXCEPT !.rows[e.cur.y + 1] = Empty(e.w)]
ClearAfterCursor(e) ==
  [e EXCEPT !.rows = [i \in DOMAIN @ |-> [j \in DOMAIN @[i] |->
     IF i > e.cur.y + 1 \/ (i = e.cur.y + 1 /\ j > e.cur.x) THEN Blank ELSE @[i][j]]]]

(* Scrolling of the rows [top, end) by n of them, as far as they are on    *)
(* the screen: upwards what leaves it goes to the scrollback.  Setting the *)
(* region homes the cursor.                                                *)
Scrolled(e, top, end, rows, gone) ==
  IF top >= end THEN e
  ELSE [e EXCEPT !.rows = SubSeq(@, 1, top) \o rows \o SubSeq(@, end + 1, e.h),
                 !.back = IF top = 0 THEN @ \o gone ELSE @, !.cur = [x |-> 0, y |-> 0]]

ScrollRegionUp(e, top, until, n) ==
  LET end == Min({until, e.h})
      k   == Min({n, end - top})
  IN  Scrolled(e, top, end, SubSeq(e.rows, top + k + 1, end) \o BlankRows(e, k), SubSeq(e.rows, 1, k) \o BlankRows(e, n - k))

ScrollRegionDown(e, top, until, n) ==
  LET end == Min({until, e.h})
      k   == Min({n, end - top})
  IN  Scrolled(e, top, end, BlankRows(e, k) \o SubSeq(e.rows, top + 1, end - k), <<>>)

(* The user resizes the window: the rows above the cursor that no longer   *)
(* fit are scrolled off, the rest is cut or filled up.                     *)
Resized(e, w, h) ==
  LET off == Max({0, e.cur.y - (h - 1)})
      Cut(row) == [j \in 1..w |-> IF j > Len(row) \/ (j = w /\ row[j] \in Wide) THEN Blank ELSE row[j]]
      rows == SubSeq(e.rows, off + 1, e.h)
  IN  [w |-> w, h |-> h,
       rows |-> [i \in 1..h |-> IF i <= Len(rows) THEN Cut(rows[i]) ELSE Empty(w)],
       cur  |-> [x |-> Min({e.cur.x, w - 1}), y |-> e.cur.y - off],
       back |-> e.back \o SubSeq(e.rows, 1, off)]
=============================================================================
