------------------------------- MODULE Editor -------------------------------
(***************************************************************************)
(* The prompt editor (editor.Editor with killring.Ring) and the four       *)
(* places where the application reads or replaces its text: submit, follow *)
(* up, a text from the core, a caret from the core.  All of it runs on the *)
(* application's loop, one key at a time.                                  *)
(*                                                                         *)
(* The text is a sequence of tokens, the line breaks among them, and the   *)
(* caret an offset into it.  A paste marker is text like any other: the    *)
(* application gives the editor no pattern of tokens to keep whole, so     *)
(* every key may cut one.  A token is a grapheme, but for three that are   *)
(* taken whole: "Paste", the size in a marker, and a pasted text that was  *)
(* sent and comes back from the history; what they are made of plays no    *)
(* part (no pasted text holds a marker or a bracket).  Left out: the       *)
(* selection (nothing in the application sets one), the completion list,   *)
(* jump mode, wrapping and rendering.                                      *)
(***************************************************************************)
EXTENDS Naturals, SequencesExt

CONSTANTS
  MaxUndo,     \* maxUndoStack
  MaxEntries,  \* killring's maxEntries
  MaxHistory,  \* maxHistoryEntries
  Radix,       \* the base paste numbers are written in: 10
  Worlds       \* what is pressed together, and how often: [cmds, letters, drafts, keys]

VARIABLES
  ed,     \* the editor
  keys,   \* how many keys were pressed
  world,
  pasted, \* history: how many large texts had been pasted up to the last submit,
          \* and the numbers in the markers of those pasted since
  run     \* history: the kills, or the yank and its pops, since the last other key

vars == <<ed, keys, world, pasted, run>>

Token(c)    == <<c>>
NL          == Token("\n")
Space       == Token(" ")
Close       == Token("]")
Digit(d)    == <<"digit", d>>
Body(k)     == <<"body", k>>    \* the k-th large text that was pasted
Size(k)     == <<"size", k>>    \* ", +12 lines" or ", 1500 chars": what a marker tells of it
Plain       == {Token("a"), Token("b"), Token("["), Close, Space, NL}

(* "[Paste #n, +m lines]", put there for Body(k).  Numbers have one digit  *)
(* or two.                                                                 *)
Opening      == <<Token("["), Token("Paste"), Space, Token("#")>>
Itoa(n)      == IF n < Radix THEN <<Digit(n)>> ELSE <<Digit(n \div Radix), Digit(n % Radix)>>
Marker(n, k) == Opening \o Itoa(n) \o <<Size(k), Close>>

(* What a key that moves by words passes over in one go. *)
Kind(t) == IF t[1] \in {"a", "b", "Paste", "digit"} THEN <<"text">>
           ELSE IF t[1] \in {"size", "body"} THEN t ELSE <<"delimiter">>
Word(t) == Kind(t) = <<"text">>

ASSUME EditorAssumption ==
  /\ {MaxUndo, MaxEntries, MaxHistory} \subseteq Nat \ {0}
  /\ Radix \in Nat \ {0, 1}
  /\ \A w \in Worlds :
       w.letters \subseteq Plain /\ w.drafts \subseteq Seq(Plain) /\ w.keys < Radix * Radix

LineStart(e) == CHOOSE i \in 0..e.at :
  /\ i = 0 \/ e.text[i] = NL
  /\ \A j \in i + 1..e.at : e.text[j] # NL
LineEnd(e) == CHOOSE i \in e.at..Len(e.text) :
  /\ i = Len(e.text) \/ e.text[i + 1] = NL
  /\ \A j \in e.at + 1..i : e.text[j] # NL

Insert(e, s) == [e EXCEPT
  !.text = SubSeq(e.text, 1, e.at) \o s \o SubSeq(e.text, e.at + 1, Len(e.text)),
  !.at   = e.at + Len(s)]
Cut(e, i, j) == [e EXCEPT
  !.text = SubSeq(e.text, 1, i) \o SubSeq(e.text, j + 1, Len(e.text)), !.at = i]

-----------------------------------------------------------------------------
(* Undo. *)

Snap(e) == [text |-> e.text, at |-> e.at]
Pushed(stack, s, limit) ==
  IF Len(stack) = limit THEN Append(Tail(stack), s) ELSE Append(stack, s)

RecordUndo(e) == [e EXCEPT !.undo = Pushed(e.undo, Snap(e), MaxUndo), !.redo = <<>>]

(* The key ends a run of kills and the walk through the history. *)
Reset(e) == [e EXCEPT !.last = "none", !.index = 0]
ShowKeepsRun(e, s) == [e EXCEPT !.index = 0, !.scratch = <<>>, !.text = s.text, !.at = s.at]
Show(e, s) == [Reset(e) EXCEPT !.scratch = <<>>, !.text = s.text, !.at = s.at]

Undo(e) == IF e.undo = <<>> THEN e
           ELSE Show([e EXCEPT !.undo = Front(e.undo), !.redo = Pushed(e.redo, Snap(e), MaxUndo)],
                     Last(e.undo))
Redo(e) == IF e.redo = <<>> THEN e
           ELSE Show([e EXCEPT !.redo = Front(e.redo), !.undo = Pushed(e.undo, Snap(e), MaxUndo)],
                     Last(e.redo))

Load(e, s, at) == [e EXCEPT !.undo = <<>>, !.redo = <<>>, !.text = s, !.at = at]
SetText(e, s)  == Load([Reset(e) EXCEPT !.scratch = <<>>], s, Len(s))

-----------------------------------------------------------------------------
(* Typing and deleting. *)

ExitHistory(e) == IF e.index = 0 THEN e
  ELSE [e EXCEPT !.index = 0, !.scratch = <<>>, !.at = IF @ = 0 THEN Len(e.text) ELSE @]

(* The letters of one word are undone together. *)
Type(e, t) ==
  LET h == ExitHistory(e)
      r == IF Word(t) /\ h.last = "type" THEN h ELSE RecordUndo(h)
  IN  [Insert(r, <<t>>) EXCEPT !.last = IF Word(t) THEN "type" ELSE "none"]

NewLine(e) == Insert(RecordUndo(Reset(e)), <<NL>>)

Backspace(e) == LET r == RecordUndo(Reset(e)) IN IF e.at = 0 THEN r ELSE Cut(r, e.at - 1, e.at)
Delete(e)    == LET r == RecordUndo(Reset(e))
                IN IF e.at = Len(e.text) THEN r ELSE Cut(r, e.at, e.at + 1)

-----------------------------------------------------------------------------
(* Killing and yanking. *)

Push(ring, s, prepend, accumulate) ==
  IF accumulate /\ ring # <<>>
  THEN Append(Front(ring), IF prepend THEN s \o Last(ring) ELSE Last(ring) \o s)
  ELSE Pushed(ring, s, MaxEntries)
Rotate(ring) == <<Last(ring)>> \o Front(ring)

RecordKillBehind(e, s, backward) ==
  IF s = <<>> THEN e
  ELSE [e EXCEPT !.ring = Push(e.ring, s, FALSE, e.last = "kill"), !.last = "kill"]
RecordKill(e, s, backward) ==
  IF s = <<>> THEN e
  ELSE [e EXCEPT !.ring = Push(e.ring, s, backward, e.last = "kill"), !.last = "kill"]

Kill(e, i, j, backward) ==
  RecordKill(Cut(RecordUndo([e EXCEPT !.index = 0]), i, j), SubSeq(e.text, i + 1, j), backward)

(* From the caret over white space, then over one run of letters and       *)
(* digits, or of delimiters, within the line.                              *)
WordLeft(e) == CHOOSE i \in LineStart(e)..e.at :
  \E m \in i..e.at :
    /\ \A k \in m + 1..e.at : e.text[k] = Space
    /\ \A k \in i + 1..m : e.text[k] # Space /\ Kind(e.text[k]) = Kind(e.text[m])
    /\ m = LineStart(e) \/ e.text[m] # Space
    /\ i = LineStart(e) \/ (m > i /\ (e.text[i] = Space \/ Kind(e.text[i]) # Kind(e.text[m])))
WordRight(e) == CHOOSE j \in e.at..LineEnd(e) :
  \E m \in e.at..j :
    /\ \A k \in e.at + 1..m : e.text[k] = Space
    /\ \A k \in m + 1..j : e.text[k] # Space /\ Kind(e.text[k]) = Kind(e.text[m + 1])
    /\ m = LineEnd(e) \/ e.text[m + 1] # Space
    /\ j = LineEnd(e)
       \/ (m < j /\ (e.text[j + 1] = Space \/ Kind(e.text[j + 1]) # Kind(e.text[m + 1])))

(* At the edge of a line each of them kills the line break, if there is one. *)
Before(e) == IF e.at > 0 THEN e.at - 1 ELSE 0
After(e)  == IF e.at < Len(e.text) THEN e.at + 1 ELSE e.at

ToLineStart(e) == Kill(e, IF e.at = LineStart(e) THEN Before(e) ELSE LineStart(e), e.at, TRUE)
ToLineEnd(e)   == Kill(e, e.at, IF e.at = LineEnd(e) THEN After(e) ELSE LineEnd(e), FALSE)
WordBackwards(e) == Kill(e, IF e.at = LineStart(e) THEN Before(e) ELSE WordLeft(e), e.at, TRUE)
WordForwards(e)  == Kill(e, e.at, IF e.at = LineEnd(e) THEN After(e) ELSE WordRight(e), FALSE)

Yank(e) == IF e.ring = <<>> THEN e
           ELSE [Insert(RecordUndo(Reset(e)), Last(e.ring)) EXCEPT !.last = "yank"]

(* The entry that was yanked is taken out again, if it still stands before *)
(* the caret, and the next older one put there.  Only its number of lines, *)
(* the first and the last of them are looked at.                           *)
LineBreaks(s) == {i \in DOMAIN s : s[i] = NL}
Alike(s, t) ==
  /\ Cardinality(LineBreaks(s)) = Cardinality(LineBreaks(t))
  /\ LineBreaks(t) = {} => s = t
  /\ LineBreaks(t) # {} =>
       /\ SubSeq(s, 1, Min(LineBreaks(s))) = SubSeq(t, 1, Min(LineBreaks(t)))
       /\ SubSeq(s, Max(LineBreaks(s)), Len(s)) = SubSeq(t, Max(LineBreaks(t)), Len(t))
YankStarts(e)== {i \in 0..e.at : Alike(SubSeq(e.text, i + 1, e.at), Last(e.ring))}
YankPop(e) ==
  LET r     == RecordUndo([e EXCEPT !.index = 0])
      start == CHOOSE i \in YankStarts(e) : TRUE
      next  == Rotate(e.ring)
  IN  IF e.last # "yank" \/ Len(e.ring) <= 1 THEN e
      ELSE IF YankStarts(e) = {} THEN r
      ELSE Insert([Cut(r, start, e.at) EXCEPT !.ring = next], Last(next))

-----------------------------------------------------------------------------
(* p stands in s, behind offset i. *)
Stands(s, i, p) == \A q \in DOMAIN p : i + q <= Len(s) /\ s[i + q] = p[q]

(* Pasting.  A small text is inserted as it is, a large one is kept under  *)
(* the next number and a marker stands for it: one undo step either way.   *)

PasteSmall(e, s) == Insert(RecordUndo(Reset(e)), s)
PasteLargeReusing(e, k) ==
  LET n == Cardinality({i \in 0..Len(e.text) : Stands(e.text, i, Opening)}) + 1
  IN  Insert([RecordUndo(Reset(e)) EXCEPT !.pastes = Append(SubSeq(e.pastes, 1, n - 1), k)],
             Marker(n, k))
PasteLarge(e, k) ==
  LET n == Len(e.pastes) + 1
  IN  Insert([RecordUndo(Reset(e)) EXCEPT !.pastes = Append(e.pastes, k)], Marker(n, k))

(* A marker is looked for by "[Paste #" and the number, which may only be  *)
(* the beginning of the marker's, and reaches to the next "]".  This is    *)
(* done for one kept text after the other, in the order a Go map happens   *)
(* to have, as often as the number is found; each time the text gets       *)
(* shorter by more than "[Paste #".                                        *)
Replaced(s, n, k) ==
  LET p     == Opening \o Itoa(n)
      found == {i \in 0..Len(s) : Stands(s, i, p)}
      i     == Min(found)
      ends  == {j \in i + 1..Len(s) : s[j] = Close}
  IN  IF found = {} \/ ends = {} THEN s
      ELSE SubSeq(s, 1, i) \o <<Body(k)>> \o SubSeq(s, Min(ends) + 1, Len(s))
AllReplaced(s, n, k) ==
  LET f[r \in 0..Len(s)] == IF r = 0 THEN s ELSE Replaced(f[r - 1], n, k)
  IN  f[Len(s) \div Len(Opening)]
Orders(kept) == LET numbers == 1..Len(kept) IN Bijection(numbers, numbers)
Expanded(s, kept, order) ==
  LET f[r \in 0..Len(kept)] ==
        IF r = 0 THEN s ELSE AllReplaced(f[r - 1], order[r], kept[order[r]])
  IN  f[Len(kept)]

Blank(t)   == t \in {Space, NL}
TrimEnd(s) == SubSeq(s, 1, CHOOSE n \in 0..Len(s) :
                /\ n = 0 \/ ~Blank(s[n])
                /\ \A i \in n + 1..Len(s) : Blank(s[i]))
Trim(s)    == Reverse(TrimEnd(Reverse(TrimEnd(s))))

AddToHistory(e, s) ==
  IF Trim(s) = <<>> \/ (e.history # <<>> /\ e.history[1] = Trim(s)) THEN e
  ELSE LET all == <<Trim(s)>> \o e.history
       IN  [e EXCEPT !.history = IF Len(all) > MaxHistory THEN Front(all) ELSE all]

(* Enter: the editor gives its text away and forgets everything but the    *)
(* kill ring; the application puts what it got in the history.             *)
SubmitValue(e) == [Load(Reset(e), <<>>, 0) EXCEPT !.scratch = <<>>, !.pastes = <<>>]
Submitted(e, s) == IF s = <<>> THEN e ELSE SetText(AddToHistory(e, s), <<>>)
Submit(e, order) == Submitted(SubmitValue(e), Trim(Expanded(e.text, e.pastes, order)))

(* Ctrl+Enter: the application takes the text itself; the editor only      *)
(* learns that its text is replaced.                                       *)
FollowUp(e, order) == Submitted(e, Trim(Expanded(e.text, e.pastes, order)))

-----------------------------------------------------------------------------
(* Moving, and the history.  The column that up and down aim at is not     *)
(* modelled: they reach any place of the next line.                        *)

To(e, i) == [e EXCEPT !.at = i, !.last = "none"]

(* An older entry is shown with the caret before it, a newer one or the    *)
(* draft with the caret behind it.                                         *)
Navigate(e, older) ==
  LET r    == [e EXCEPT !.last = "none", !.scratch = IF e.index = 0 THEN e.text ELSE @]
      next == IF older THEN e.index + 1 ELSE e.index - 1
      s    == IF next = 0 THEN e.scratch ELSE e.history[next]
  IN  IF e.history = <<>> THEN To(e, e.at)
      ELSE IF next > Len(e.history) THEN r
      ELSE Load([r EXCEPT !.index = next], s, IF older THEN 0 ELSE Len(s))

FirstLine(e) == LineStart(e) = 0
LastLine(e)  == LineEnd(e) = Len(e.text)
LineOf(e, i) == LineStart([e EXCEPT !.at = i])..LineEnd([e EXCEPT !.at = i])

Up(e) == IF e.text = <<>> \/ (e.index > 0 /\ FirstLine(e)) THEN {Navigate(e, TRUE)}
         ELSE IF FirstLine(e) THEN {To(e, 0)}
         ELSE {To(e, i) : i \in LineOf(e, LineStart(e) - 1)}
Down(e) == IF e.index > 0 /\ LastLine(e) THEN {Navigate(e, FALSE)}
           ELSE IF LastLine(e) THEN {To(e, LineEnd(e))}
           ELSE {To(e, i) : i \in LineOf(e, LineEnd(e) + 1)}

Moved(e) == {To(e, i) : i \in {Before(e), After(e), LineStart(e), LineEnd(e), 0, Len(e.text)}}

-----------------------------------------------------------------------------
(* The keys. *)

NoRun == [is |-> "none"]

(* A key that leaves the mark of a run although it is not part of it       *)
(* breaks the run: only a caret set by the core does.                      *)
RunAfter(cmd, e) ==
  IF e.last \notin {"kill", "yank"} THEN NoRun
  ELSE IF cmd = "yank" \/ (cmd = "kill" /\ ed.last # e.last)
       THEN [is |-> e.last, text |-> ed.text, at |-> ed.at]
  ELSE IF cmd = "host" THEN [is |-> "broken"]
  ELSE run

Press(cmd, e) ==
  /\ cmd \in world.cmds /\ keys < world.keys
  /\ ed' = e /\ keys' = keys + 1
  /\ run' = RunAfter(cmd, e)
  /\ UNCHANGED world

Types    == \E t \in world.letters : Press("type", Type(ed, t)) /\ UNCHANGED pasted
Breaks   == Press("newline", NewLine(ed)) /\ UNCHANGED pasted
Erases   == \E e \in {Backspace(ed), Delete(ed)} : Press("erase", e) /\ UNCHANGED pasted
KillsLine == \E e \in {ToLineStart(ed), ToLineEnd(ed)} :
               "lines" \in world.cmds /\ Press("kill", e) /\ UNCHANGED pasted
KillsWord == \E e \in {WordBackwards(ed), WordForwards(ed)} :
               "words" \in world.cmds /\ Press("kill", e) /\ UNCHANGED pasted
Yanks    == Press("yank", Yank(ed)) /\ UNCHANGED pasted
Pops     == Press("pop", YankPop(ed)) /\ UNCHANGED pasted
Undoes   == Press("undo", Undo(ed)) /\ UNCHANGED pasted
Redoes   == Press("undo", Redo(ed)) /\ UNCHANGED pasted
Moves    == \E e \in Moved(ed) : Press("move", e) /\ UNCHANGED pasted
Arrows   == \E e \in Up(ed) \cup Down(ed) : Press("arrow", e) /\ UNCHANGED pasted

PastesSmall == \E d \in world.drafts : Press("snippet", PasteSmall(ed, d)) /\ UNCHANGED pasted
PastesLarge == /\ Press("paste", PasteLarge(ed, pasted.sent + Len(pasted.as) + 1))
               /\ pasted' = [pasted EXCEPT !.as = Append(@, Len(ed'.pastes))]
Submits     == /\ \E order \in Orders(ed.pastes) : Press("submit", Submit(ed, order))
               /\ pasted' = [sent |-> pasted.sent + Len(pasted.as), as |-> <<>>]
FollowsUp   == /\ \E order \in Orders(ed.pastes) :
                    /\ Trim(Expanded(ed.text, ed.pastes, order)) # <<>>
                    /\ Press("follow", FollowUp(ed, order))
               /\ UNCHANGED pasted

(* Ctrl+C, a failed prompt that comes back, a text from the core. *)
HostSetsText  == \E d \in world.drafts \cup {<<>>} : Press("load", SetText(ed, d)) /\ UNCHANGED pasted
HostSetsCaret == \E i \in 0..Len(ed.text) : Press("host", [ed EXCEPT !.at = i]) /\ UNCHANGED pasted

New == [text |-> <<>>, at |-> 0, undo |-> <<>>, redo |-> <<>>, last |-> "none", ring |-> <<>>,
        history |-> <<>>, index |-> 0, scratch |-> <<>>, pastes |-> <<>>]

Init == /\ world \in Worlds
        /\ \E d \in world.drafts \cup {<<>>} : ed = SetText(New, d)
        /\ keys = 0 /\ pasted = [sent |-> 0, as |-> <<>>] /\ run = NoRun

Next == \/ Types \/ Breaks \/ Erases \/ KillsLine \/ KillsWord \/ Yanks \/ Pops
        \/ Undoes \/ Redoes \/ Moves \/ Arrows \/ PastesSmall \/ PastesLarge
        \/ Submits \/ FollowsUp \/ HostSetsText \/ HostSetsCaret

Spec == Init /\ [][Next]_vars

-----------------------------------------------------------------------------
(* What the editor promises. *)

(* Undo and redo walk along one line of versions, whatever else is typed,  *)
(* killed, yanked, pasted, sent or loaded in between: the two stacks and   *)
(* the text between them are that line.                                    *)
Texts(stack) == [i \in DOMAIN stack |-> stack[i].text]
Line == INSTANCE UndoLine WITH
  Limit    <- MaxUndo,
  versions <- Texts(ed.undo) \o <<ed.text>> \o Reverse(Texts(ed.redo)),
  here     <- Len(ed.undo) + 1
KeepsUndoLine == Line!Spec

(* "When accumulate is true, text is merged into the newest entry" and     *)
(* "cycles the kill ring when the last action was yank" (killring.go,      *)
(* editor.go): after any run of kills, in both directions and over line    *)
(* breaks, a yank would put the text back; and after a yank and any number *)
(* of pops just one entry stands at the caret, and all else is as before.  *)
KillsComeBack ==
  /\ run.is = "kill" => Insert(ed, Last(ed.ring)).text = run.text
  /\ run.is = "yank" => Snap(ed) = Snap(Insert(run, Last(ed.ring)))

(* "ExpandedText expands [Paste #N] markers to their stored content"       *)
(* (editor.go): whatever is undone, redone, killed, yanked, cut up or      *)
(* fetched from the history, a marker that stands in the text as it was    *)
(* put there for a text of this prompt is sent as that text, and what is   *)
(* before and behind it is sent as if it stood alone.  Two texts are       *)
(* exempt, for which this does not hold.  With Radix texts kept, the       *)
(* number of one begins that of another.  And a marker in front that was   *)
(* cut so that it lost its "]" runs on to the next one, which swallows     *)
(* whatever lies between, the markers too.                                 *)
Openings(s)   == {i \in 0..Len(s) : Stands(s, i, Opening)}
WellClosed(s) == \A i \in Openings(s) : \E j \in i + 1..Len(s) :
                    s[j] = Close /\ \A h \in Openings(s) : h <= i \/ j <= h
MarkersExpand ==
  Len(ed.pastes) < Radix =>
    \A x \in DOMAIN pasted.as, i \in 0..Len(ed.text) :
      LET k      == pasted.sent + x
          marker == Marker(pasted.as[x], k)
          before == SubSeq(ed.text, 1, i)
          behind == SubSeq(ed.text, i + Len(marker) + 1, Len(ed.text))
      IN  Stands(ed.text, i, marker) /\ WellClosed(before) =>
            \A order \in Orders(ed.pastes) :
              LET Sent(s) == Expanded(s, ed.pastes, order)
              IN  Sent(ed.text) = Sent(before) \o <<Body(k)>> \o Sent(behind)
=============================================================================
