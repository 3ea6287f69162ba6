------------------------------- MODULE Buffers -------------------------------
(***************************************************************************)
(* The cell buffers of the ratatui half (buffer/buffer.go, diff.go): rows  *)
(* of cells in index order, and the difference of two buffers.  A cell is  *)
(* one symbol; "R" stands for a wide grapheme with a style that shows on a *)
(* blank (reversed, underlined, a background), "W" for one without.        *)
(* Left out: skipped, always-updated and forced-width cells, VS16 emoji.   *)
(***************************************************************************)
EXTENDS Integers, FiniteSetsExt, SequencesExt

Blank == " "
Wide  == {"W", "R"}
CellWidth(c)           == IF c \in Wide THEN 2 ELSE 1
styleVisibleOnBlank(c) == c = "R"

Empty(n)           == [i \in 1..n |-> Blank]
ResizeTo(cells, n) == [i \in 1..n |-> IF i <= Len(cells) THEN cells[i] ELSE Blank]

(* SetStringN: a wide grapheme resets the cell it covers, and one that     *)
(* does not fit ends the text.                                             *)
SetString(text, width) ==
  LET Cells(k) == FlattenSeq([i \in 1..k |-> <<text[i]>> \o Empty(CellWidth(text[i]) - 1)])
      fit      == {k \in 0..Len(text) : Len(Cells(k)) <= width}
  IN  Cells(Max(fit))

(* What a render callback does: one text for each row, from its left edge. *)
(* Cells no text reaches keep what they hold.                              *)
Render(cells, width, texts) ==
  [i \in DOMAIN cells |->
     LET row    == ((i - 1) \div width) + 1
         column == ((i - 1) % width) + 1
         text   == IF row <= Len(texts) THEN SetString(texts[row], width) ELSE <<>>
     IN  IF column <= Len(text) THEN text[column] ELSE cells[i]]

(* What a row of cells looks like: a wide cell covers the next one.        *)
Covered == "."
Looks(row) == [i \in DOMAIN row |-> IF i > 1 /\ row[i - 1] \in Wide THEN Covered ELSE row[i]]

-----------------------------------------------------------------------------
(* A styled wide cell that gives way to a narrow one may leave its style   *)
(* on the column it covered: that column is sent again whatever it holds.  *)
NotRefreshed(before, now) == FALSE
Refreshed(before, now) ==
  CellWidth(before) > CellWidth(now) /\ styleVisibleOnBlank(before)

(* Diff: the indices to send, in order, for two buffers of the same area.  *)
Diff(previous, next) ==
  LET n == Len(next)
      from[i \in 1..(n + 2)] ==
        IF i > n THEN <<>>
        ELSE IF next[i] = previous[i] THEN from[i + CellWidth(next[i])]
        ELSE IF i < n /\ Refreshed(previous[i], next[i])
             THEN <<i, i + 1>> \o from[i + 1 + CellWidth(next[i + 1])]
        ELSE <<i>> \o from[i + CellWidth(next[i])]
  IN  from[1]
=============================================================================
