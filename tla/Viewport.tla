------------------------------- MODULE Viewport -------------------------------
(***************************************************************************)
(* The terminal of the ratatui half (terminal/terminal.go): a viewport of  *)
(* the screen drawn from two buffers, resized with the window, and, when   *)
(* it is inline, pushed down by what is inserted above it.  Calls come one *)
(* after another; the window may be resized between them.                  *)
(***************************************************************************)
EXTENDS Screen

(* Sum of a sequence of numbers.                                           *)
SumSeq(s) == FoldLeft(LAMBDA a, b : a + b, 0, s)

CONSTANTS
  Worlds   \* kind of viewport, window, frames and rows used: one bundle each

VARIABLES
  world,   \* [kind, height, area, regions, frames, inserted, sizes, fails]
  emu,     \* the screen
  term,    \* Terminal: front and back buffer, area, known size, last position
  failed,  \* the frame whose drawing failed, to be drawn again; or NoFrame
  kept,    \* what has to stand around the viewport
  shifted  \* where an insertion came out one column off: "above", "inside"

vars == <<world, emu, term, failed, kept, shifted>>

NoFrame == <<>>

Area(x, y, w, h) == [x |-> x, y |-> y, w |-> w, h |-> h]
Bottom(a)        == a.y + a.h
Size(e)          == [w |-> e.w, h |-> e.h]

-----------------------------------------------------------------------------
(* computeInlineSize: makes room below the cursor for the viewport.        *)
computeInlineSize(e, size, offset) ==
  LET after   == Max({0, world.height - offset - 1})
      missing == Max({0, after - Max({0, size.h - e.cur.y - 1})})
      row     == Max({0, Max({0, e.cur.y - missing}) - offset})
  IN  [emu |-> AppendLines(e, after), pos |-> e.cur,
       area |-> Area(0, row, size.w, Min({world.height, size.h}))]

(* Where the viewport is when the terminal is made.                        *)
First(e) ==
  CASE world.kind = "inline" -> computeInlineSize(e, Size(e), 0)
    [] world.kind = "fixed"  -> [emu |-> e, pos |-> [x |-> world.area.x, y |-> world.area.y], area |-> world.area]
    [] OTHER                 -> [emu |-> e, pos |-> [x |-> 0, y |-> 0], area |-> Area(0, 0, e.w, e.h)]

(* What is above an inline viewport, and above the screen.                 *)
Above(e, area) == e.back \o SubSeq(e.rows, 1, area.y)

(* The cells of the screen outside a fixed viewport.                       *)
Outside(e, area) ==
  [i \in DOMAIN e.rows |-> [j \in DOMAIN e.rows[i] |->
     IF i > area.y /\ i <= Bottom(area) /\ j > area.x /\ j <= area.x + area.w
     THEN "inside" ELSE e.rows[i][j]]]

Around(e, area) == IF world.kind = "fixed" THEN Outside(e, area) ELSE Above(e, area)

-----------------------------------------------------------------------------
(* The methods, on s = [emu, term].                                        *)
setViewportArea(t, area) ==
  [t EXCEPT !.front = ResizeTo(@, area.w * area.h), !.back = ResizeTo(@, area.w * area.h), !.area = area]

clearFixedViewport(e, a) ==
  LET cells   == [i \in 1..(a.w * a.h) |-> [x |-> a.x + ((i - 1) % a.w), y |-> a.y + ((i - 1) \div a.w), c |-> Blank]]
      Line(d, y) == ClearLine(MoveTo(d, 0, y))
  IN  IF a.x # 0 \/ a.w # e.w THEN DrawCells(e, cells)
      ELSE IF Bottom(a) = e.h THEN ClearAfterCursor(MoveTo(e, a.x, a.y))
      ELSE FoldLeft(Line, e, [i \in 1..a.h |-> a.y + i - 1])

clearViewport(s) ==
  LET a == s.term.area IN
  [emu |-> CASE world.kind = "fixed"  -> clearFixedViewport(s.emu, a)
             [] world.kind = "inline" -> ClearAfterCursor(MoveTo(s.emu, a.x, a.y))
             [] OTHER                 -> ClearAll(s.emu),
   term |-> [s.term EXCEPT !.back = Empty(Len(@))]]

Clear(s) ==
  LET cleared == clearViewport(s)
  IN  [cleared EXCEPT !.emu = MoveTo(@, s.emu.cur.x, s.emu.cur.y)]

(* The shell has written some rows; the cursor is below them.  New does    *)
(* not clear: a screen or a fixed area that is not blank is cleared by its *)
(* caller.                                                                 *)
Shell == [w |-> world.w, h |-> world.h, back |-> <<>>, cur |-> [x |-> 0, y |-> world.row],
          rows |-> [i \in 1..world.h |-> [j \in 1..world.w |-> IF i <= world.row THEN "s" ELSE Blank]]]

Init ==
  /\ world \in Worlds
  /\ LET first == First(Shell)
         blank == Empty(first.area.w * first.area.h)
         new   == [emu  |-> first.emu,
                   term |-> [front |-> blank, back |-> blank, area |-> first.area, known |-> Size(Shell),
                             pos |-> first.pos]]
         s     == IF world.kind = "inline" THEN new ELSE Clear(new)
     IN  /\ emu = s.emu /\ term = s.term
         /\ kept = IF world.kind = "inline" THEN SubSeq(Shell.rows, 1, world.row) ELSE Around(Shell, first.area)
  /\ failed = NoFrame /\ shifted = {}

Shrinks(area, t) == area.w < t.area.w

(* Resize: a viewport that gets narrower clears the screen and moves to    *)
(* its top; the cursor of an inline one is put back.                       *)
Moved(s, size) ==
  IF world.kind = "inline" THEN computeInlineSize(s.emu, size, Max({0, s.term.pos.y - s.term.area.y}))
  ELSE [emu |-> s.emu, area |-> Area(0, 0, size.w, size.h), pos |-> s.emu.cur]

Placed(s, next) ==
  clearViewport(IF Shrinks(next.area, s.term)
                THEN [emu |-> ClearAll(next.emu), term |-> setViewportArea(s.term, [next.area EXCEPT !.y = 0])]
                ELSE [emu |-> next.emu, term |-> setViewportArea(s.term, next.area)])

Known(s, size, cursor) ==
  [emu |-> IF world.kind = "inline" THEN MoveTo(s.emu, cursor.x, cursor.y) ELSE s.emu,
   term |-> [s.term EXCEPT !.known = size]]

ResizeViewport(s, size) ==
  LET next == Moved(s, size) IN Known(Placed(s, next), size, next.pos)

Autoresize(s) ==
  IF world.kind = "fixed" \/ s.term.known = Size(s.emu) THEN s ELSE ResizeViewport(s, Size(s.emu))

-----------------------------------------------------------------------------
(* Flush: the difference of the buffers is sent to the backend.            *)
Updates(t) ==
  LET sent == Diff(t.back, t.front)
      Positioned(i) == [x |-> t.area.x + ((i - 1) % t.area.w), y |-> t.area.y + ((i - 1) \div t.area.w), c |-> t.front[i]]
  IN  [k \in DOMAIN sent |-> Positioned(sent[k])]

SwapBuffers(t) == [t EXCEPT !.back = t.front, !.front = Empty(Len(@))]

(* The passes begin alike: the viewport is resized and the frame rendered  *)
(* into the front buffer.                                                  *)
Rendered(frame) ==
  LET s == Autoresize([emu |-> emu, term |-> term])
  IN  [s EXCEPT !.term.front = Render(@, s.term.area.w, frame)]

NextFrame(frame) == frame \in world.frames /\ failed \in {NoFrame, frame}

(* After a resize what is around the viewport is taken as it is.           *)
Synced == world.kind = "fixed" \/ term.known = Size(emu)
SurroundingsAfter(s) ==
  /\ kept'    = IF Synced THEN kept ELSE Around(s.emu, s.term.area)
  /\ shifted' = IF Synced THEN shifted ELSE {}

(* TryDraw.  The cursor is shown on the viewport's last row or hidden.     *)
Draw(frame, shown) ==
  /\ NextFrame(frame)
  /\ \E s \in {Rendered(frame)} : \E sent \in {Updates(s.term)} : \E drawn \in {DrawCells(s.emu, sent)} :
       LET a   == s.term.area
           pos == CASE shown -> [x |-> a.x, y |-> Bottom(a) - 1]
                    [] ~shown /\ sent # <<>> -> [x |-> Last(sent).x, y |-> Last(sent).y]
                    [] OTHER -> s.term.pos
       IN  /\ emu' = IF shown THEN MoveTo(drawn, pos.x, pos.y) ELSE drawn
           /\ term' = [SwapBuffers(s.term) EXCEPT !.pos = pos]
           /\ SurroundingsAfter(s)
  /\ failed' = NoFrame /\ UNCHANGED world

(* The backend accepts some of the cells and fails.                        *)
DrawFails(frame) ==
  /\ NextFrame(frame) /\ world.fails > 0 /\ world' = [world EXCEPT !.fails = @ - 1]
  /\ \E s \in {Rendered(frame)} : \E sent \in {Updates(s.term)} :
       /\ \E k \in 0..(Len(sent) - 1) : emu' = DrawCells(s.emu, SubSeq(sent, 1, k))
       /\ term' = s.term /\ SurroundingsAfter(s)
  /\ failed' = frame

(* The callback returns an error after it rendered.                        *)
RenderFails(frame) ==
  /\ NextFrame(frame) /\ world.fails > 0 /\ world' = [world EXCEPT !.fails = @ - 1]
  /\ \E s \in {Rendered(frame)} : emu' = s.emu /\ term' = s.term /\ SurroundingsAfter(s)
  /\ UNCHANGED failed

-----------------------------------------------------------------------------
(* InsertBefore.  drawLines sends every cell, drawLinesOverCleared the     *)
(* ones that are not blank; both take the rows from the front of rows.     *)
RowCells(y, row) == [j \in DOMAIN row |-> [x |-> j - 1, y |-> y, c |-> row[j]]]

drawLines(e, y, rows) ==
  DrawCells(e, FlattenSeq([i \in DOMAIN rows |-> RowCells(y + i - 1, rows[i])]))

drawLinesOverCleared(e, y, rows) ==
  LET Sent(row) == Diff(Empty(Len(row)), row)
      Cells(i)  == [k \in DOMAIN Sent(rows[i]) |-> RowCells(y + i - 1, rows[i])[Sent(rows[i])[k]]]
  IN  DrawCells(e, FlattenSeq([i \in DOMAIN rows |-> Cells(i)]))

(* The whole screen is the viewport: its top row is borrowed for each      *)
(* inserted row, and drawn again.                                          *)
throughTopRow(s, rows) ==
  LET Through(e, i) ==
        ScrollRegionUp(IF i = 1 THEN drawLines(e, 0, <<rows[i]>>) ELSE drawLinesOverCleared(e, 0, <<rows[i]>>), 0, 1, 1)
      top == SubSeq(s.term.back, 1, s.term.area.w)
  IN  [s EXCEPT !.emu = drawLinesOverCleared(FoldLeft(Through, s.emu, [i \in DOMAIN rows |-> i]), 0, <<top>>)]

(* The viewport moves down while there is room below it.                   *)
intoRoomBelow(s, rows) ==
  LET a == s.term.area
      n == Min({Len(rows), s.term.known.h - Bottom(a)})
  IN  IF n <= 0 THEN s
      ELSE [emu  |-> drawLinesOverCleared(ScrollRegionDown(s.emu, a.y, Bottom(a) + n, n), a.y, SubSeq(rows, 1, n)),
            term |-> setViewportArea(s.term, [a EXCEPT !.y = a.y + n])]

(* Then the rows above it scroll up, a viewport's distance at a time.      *)
aboveViewport(s, rows) ==
  LET top == s.term.area.y
      Pushed(e, chunk) == drawLinesOverCleared(ScrollRegionUp(e, 0, top, Len(chunk)), top - Len(chunk), chunk)
      Chunk(k) == SubSeq(rows, (k - 1) * top + 1, Min({k * top, Len(rows)}))
  IN  IF top = 0 THEN s
      ELSE [s EXCEPT !.emu = FoldLeft(Pushed, @, [k \in 1..((Len(rows) + top - 1) \div top) |-> Chunk(k)])]

(* The rows that are left after n of them were drawn.                      *)
AllAgain(rows, n)  == rows
Remaining(rows, n) == SubSeq(rows, n + 1, Len(rows))

insertBeforeScrollingRegions(s, rows) ==
  IF s.term.area.h = s.term.known.h THEN throughTopRow(s, rows)
  ELSE LET moved == intoRoomBelow(s, rows)
       IN  aboveViewport(moved, Remaining(rows, moved.term.area.y - s.term.area.y))

(* Without scrolling regions: rows are drawn where the viewport is, the    *)
(* whole screen scrolls, and the viewport is cleared below them.           *)
scrollUp(s, n) ==
  IF n <= 0 THEN s
  ELSE [emu |-> AppendLines(MoveTo(s.emu, 0, s.term.known.h - 1), n),
        term |-> [s.term EXCEPT !.pos = [x |-> 0, y |-> s.term.known.h - 1]]]

insertBeforeFallback(s, rows) ==
  LET screen == s.term.known.h
      under  == s.term.area.h
      Drained[n \in 0..Len(rows)] ==
        IF n = 0 \/ n + under <= screen THEN <<n>>
        ELSE <<Min({n, screen})>> \o Drained[n - Min({n, screen})]
      sizes == Drained[Len(rows)]
      Done(k) == SumSeq(SubSeq(sizes, 1, k))
      Draws(acc, k) ==
        LET up == Max({0, acc.y + sizes[k] + (IF k = Len(sizes) THEN under ELSE 0) - screen})
            scrolled == scrollUp(acc.s, up)
        IN  [y |-> acc.y - up + sizes[k],
             s |-> [scrolled EXCEPT !.emu = drawLines(@, acc.y - up, SubSeq(rows, Done(k - 1) + 1, Done(k)))]]
      end == FoldLeft(Draws, [y |-> s.term.area.y, s |-> s], [k \in DOMAIN sizes |-> k])
  IN  Clear([end.s EXCEPT !.term = setViewportArea(@, [@.area EXCEPT !.y = end.y])])

Inserted(s, rows) ==
  IF world.regions THEN insertBeforeScrollingRegions(s, rows) ELSE insertBeforeFallback(s, rows)

(* drawLines sends the blank under a wide grapheme too, and the backend    *)
(* takes it for the cell after it: the row comes out one column off and    *)
(* ends in the next one, which may be the viewport's (ansi.go:231).        *)
SentWhole(rows) ==
  IF ~world.regions THEN Range(rows)
  ELSE IF term.area.h = term.known.h THEN {rows[i] : i \in 1..Min({1, Len(rows)})} ELSE {}

Shifts(rows) == \E row \in SentWhole(rows) : Range(row) \cap Wide # {}

InsertBefore ==
  /\ world.kind = "inline"
  /\ \E texts \in {world.inserted[n] : n \in 1..Min({1, Len(world.inserted)})} :
       \E rows \in {[i \in DOMAIN texts |-> Render(Empty(term.area.w), term.area.w, <<texts[i]>>)]} :
         \E after \in {Inserted([emu |-> emu, term |-> term], rows)} :
           /\ emu' = after.emu /\ term' = after.term
           /\ kept' = kept \o [i \in DOMAIN rows |-> Looks(rows[i])]
           /\ shifted' = IF ~Shifts(rows) THEN shifted
                         ELSE shifted \cup {"above"} \cup (IF world.regions THEN {"inside"} ELSE {})
  /\ world' = [world EXCEPT !.inserted = Tail(@)]
  /\ UNCHANGED failed

ClearCalled ==
  /\ LET s == Clear([emu |-> emu, term |-> term]) IN emu' = s.emu /\ term' = s.term
  /\ shifted' = shifted \ {"inside"}
  /\ UNCHANGED <<world, failed, kept>>

ResizeWindow ==
  /\ world.sizes # <<>> /\ Synced
  /\ world' = [world EXCEPT !.sizes = Tail(@)]
  /\ emu' = Resized(emu, Head(world.sizes).w, Head(world.sizes).h)
  /\ UNCHANGED <<term, failed, kept, shifted>>

Next ==
  \/ \E frame \in world.frames, shown \in BOOLEAN : Draw(frame, shown)
  \/ \E frame \in world.frames : DrawFails(frame)
  \/ \E frame \in world.frames : RenderFails(frame)
  \/ InsertBefore
  \/ ClearCalled
  \/ ResizeWindow

Spec == Init /\ [][Next]_vars

-----------------------------------------------------------------------------
(* What the back buffer holds is what the viewport shows: the next         *)
(* difference is taken from it and nothing else is ever sent (Diff, Clear, *)
(* Resize, InsertBefore).  While a failed frame waits to be drawn again,   *)
(* or the window was resized, it need not; nor, until the viewport is      *)
(* cleared, after an inserted row that came out one column off overwrote   *)
(* the cell below its end, while the viewport was the whole screen.        *)
Shown(area) == [i \in 1..area.h |-> SubSeq(emu.rows[area.y + i], area.x + 1, area.x + area.w)]
ScreenIsTheBackBuffer ==
  failed = NoFrame /\ Synced /\ "inside" \notin shifted =>
    LET w == term.area.w IN
    Shown(term.area) = [i \in 1..term.area.h |-> Looks(SubSeq(term.back, (i - 1) * w + 1, i * w))]

(* What was above an inline viewport and what was inserted there stands    *)
(* above it, in the scrollback or on the screen, once and in order; the    *)
(* cells around a fixed one are not touched.  Not so after a row with a    *)
(* wide grapheme was sent whole: it stands there one column off, and its   *)
(* end may have scrolled the screen.                                       *)
SurroundingsAreKept == Synced /\ "above" \notin shifted => Around(emu, term.area) = kept
=============================================================================
