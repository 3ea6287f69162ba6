------------------------------- MODULE Engine -------------------------------
(***************************************************************************)
(* renderer.Engine on a terminal: Draw turns the ledger's plan into        *)
(* relative cursor moves, rewritten rows and line feeds, and the terminal  *)
(* scrolls.  The engine never asks the terminal where anything is: it must *)
(* know, from one Draw to the next, what the screen shows and where the    *)
(* cursor stands.  The ledger's "hist" is what the plans push into the     *)
(* scrollback; "term.scroll" is what really is there.                      *)
(*                                                                         *)
(* Rows of the screen count from 0 in cursor positions, as in the code.    *)
(***************************************************************************)
EXTENDS Ledger

CONSTANTS
  Box,    \* the row an overlay covers one screen row with
  Still,  \* the content of every row while nothing edits them
  Worlds  \* which events come together in one behaviour: subsets of AllEngineEvents

(* Live rows change their content; a component hides its cursor;           *)
(* ReasonForce and ForceNextWindowRewrite; a fullscreen overlay; the       *)
(* terminal is resized; and, from the ledger's list, the events a Draw of  *)
(* this application meets.  Three are bounds: without "tall" frames are    *)
(* a row shorter than MaxRows, without "long" the scrollback is a row      *)
(* shorter than MaxHistory, "low" is the lowest terminal instead of the    *)
(* highest.                                                                *)
AllEngineEvents ==
  {"edit", "nocursor", "force", "fullscreen", "winch", "tall", "long", "low"} \cup (AllEvents \ {"resize"})

ASSUME EngineAssumption ==
  /\ Worlds \subseteq SUBSET AllEngineEvents
  /\ AllEvents \cap UNION Worlds \subseteq Events

VARIABLES
  world,  \* the events of this behaviour
  term,   \* the terminal's normal screen, its cursor row and its scrollback
  shown,  \* Engine.previousWindow
  hw,     \* Engine.hwCursor.row, a row of the frame
  force,  \* Engine.forceViewportRepaint
  alt,    \* Engine.altEnterHeight while altActive, else 0
  size,   \* App.height
  winch,  \* a resize: "none", the "event" is on its way, the "reason" of the next request
  stale   \* the scrollback holds rows only an ED3 removes (history, for the properties)

engineVars == <<world, term, shown, hw, force, alt, size, winch, stale>>

NoCursor == -1
BlankRows(h)         == [r \in 1..h |-> Blank]
Window(f, top, h, box) ==
  [r \in 1..h |-> IF r = box THEN Box ELSE IF top + r <= Len(f) THEN f[top + r] ELSE Blank]

-----------------------------------------------------------------------------
(* What a terminal does. *)

(* CSI A and CSI B stop at the edges of the screen. *)
Move(t, d) == [t EXCEPT !.row = Clamp(t.row + d, 0, Len(t.screen) - 1)]

(* Rows written from screen row "at" on, a line feed between them: at the  *)
(* bottom the screen scrolls.                                              *)
Put(t, at, rows) ==
  LET h      == Len(t.screen)
      canvas == SubSeq(t.screen, 1, at) \o rows \o SubSeq(t.screen, at + Len(rows) + 1, h)
      over   == Len(canvas) - h
  IN  IF rows = <<>> THEN t
      ELSE [screen |-> SubSeq(canvas, over + 1, over + h), row |-> Least(h - 1, at + Len(rows) - 1),
            scroll |-> t.scroll \o SubSeq(canvas, 1, over)]

(* A resize to h rows: the top rows scroll out or the bottom rows are cut, *)
(* or blank rows come in at the bottom.                                    *)
Reflowed(t, h) ==
  LET old == Len(t.screen)
  IN  IF h >= old
      THEN {[t EXCEPT !.screen = t.screen \o BlankRows(h - old)]}
      ELSE {[t EXCEPT !.screen = SubSeq(t.screen, 1, h), !.row = Least(t.row, h - 1)],
            [screen |-> SubSeq(t.screen, old - h + 1, old), row |-> Greatest(0, t.row - (old - h)),
             scroll |-> t.scroll \o SubSeq(t.screen, 1, old - h)]}

-----------------------------------------------------------------------------
(* An emission: from a terminal "from" the "lines" go out at row "at",     *)
(* "fix" rewrites rows "back" rows away, the cursor moves by "park" and    *)
(* the engine believes it stands in frame row "ends".                      *)

ContentRows(len, top, h) == Clamp(len - top, 1, h)

FullPaintKeepsScroll(in, res, window) ==
  LET content == ContentRows(Len(in.frame), res.plan.top, in.height)
  IN  [from  |-> [screen |-> BlankRows(Len(term.screen)), row |-> 0, scroll |-> term.scroll],
       at    |-> 0, lines |-> Chunk(in, res) \o window, back |-> 0, fix |-> <<>>,
       park  |-> content - in.height, ends |-> res.plan.top + content - 1]

(* emitFullPaint: erase, replay what is committed, then the window. *)
FullPaint(in, res, window) ==
  LET content == ContentRows(Len(in.frame), res.plan.top, in.height)
  IN  [from  |-> [screen |-> BlankRows(Len(term.screen)), row |-> 0,
                  scroll |-> IF res.plan.clear THEN <<>> ELSE term.scroll],
       at    |-> 0, lines |-> Chunk(in, res) \o window, back |-> 0, fix |-> <<>>,
       park  |-> content - in.height, ends |-> res.plan.top + content - 1]

(* The screen row of the cursor, as far as the engine knows. *)
ScreenRow(in) == Clamp(Least(hw, led.W + in.height - 1) - led.W, 0, in.height - 1)

(* The smallest range of rows that holds all of S. *)
Span(window, S) == IF S = {} THEN <<>> ELSE SubSeq(window, Min(S), Max(S))

ScrollAppendsBlind(in, res, forced) ==
  LET chunk == Chunk(in, res)
  IN  /\ ~forced /\ chunk # <<>> /\ Len(chunk) < in.height
      /\ Len(chunk) = res.plan.top - led.W /\ res.led.C = led.W
      /\ Len(shown) = in.height

(* The rows the terminal is about to scroll out are the rows to commit. *)
ScrollAppends(in, res, forced) ==
  LET chunk == Chunk(in, res)
  IN  /\ ~forced /\ chunk # <<>> /\ Len(chunk) < in.height
      /\ Len(chunk) = res.plan.top - led.W /\ res.led.C = led.W
      /\ Len(shown) = in.height /\ SubSeq(shown, 1, Len(chunk)) = chunk

ScrollAppendOnly(in, res, window) ==
  LET h    == in.height
      n    == Len(Chunk(in, res))
      from == Move(term, h - 1 - ScreenRow(in))
  IN  [from |-> from, at |-> from.row + 1, lines |-> SubSeq(window, h - n + 1, h),
       back |-> 0, fix |-> <<>>, park |-> 0, ends |-> res.plan.top + h - 1]

(* Feed lines at the bottom, then rewrite what changed above them. *)
ScrollAppend(in, res, window) ==
  LET h       == in.height
      n       == Len(Chunk(in, res))
      changed == {r \in 1..h - n : window[r] # shown[r + n]}
      from    == Move(term, h - 1 - ScreenRow(in))
  IN  [from |-> from, at |-> from.row + 1, lines |-> SubSeq(window, h - n + 1, h),
       back |-> IF changed = {} THEN 0 ELSE Min(changed) - h, fix |-> Span(window, changed),
       park |-> 0, ends |-> res.plan.top + (IF changed = {} THEN h ELSE Max(changed)) - 1]

(* Rewrite in place from the first to the last row that changed; if none   *)
(* did, only the cursor moves.                                             *)
WindowDiff(in, res, window, forced) ==
  LET changed == {r \in 1..in.height : forced \/ Len(shown) # in.height \/ window[r] # shown[r]}
      content == ContentRows(Len(in.frame), res.plan.top, in.height)
      from    == Move(term, Min(changed) - 1 - ScreenRow(in))
  IN  IF changed = {}
      THEN [from |-> term, at |-> 0, lines |-> <<>>, back |-> 0, fix |-> <<>>, park |-> 0, ends |-> hw]
      ELSE [from |-> from, at |-> from.row, lines |-> Span(window, changed), back |-> 0, fix |-> <<>>,
            park |-> Least(0, content - Max(changed)),
            ends |-> res.plan.top + Least(Max(changed), content) - 1]

(* Rewrite from the top: the chunk scrolls out, the window stays. *)
SeamRewrite(in, res, window) ==
  LET content == ContentRows(Len(in.frame), res.plan.top, in.height)
      from    == Move(term, -ScreenRow(in))
  IN  [from |-> from, at |-> from.row, lines |-> Chunk(in, res) \o window, back |-> 0, fix |-> <<>>,
       park |-> content - in.height, ends |-> res.plan.top + content - 1]

Emission(in, res, window, forced) ==
  IF res.plan.kind = "full" THEN FullPaint(in, res, window)
  ELSE IF ScrollAppends(in, res, forced) THEN ScrollAppend(in, res, window)
  ELSE IF Chunk(in, res) = <<>> /\ res.plan.top = led.W THEN WindowDiff(in, res, window, forced)
  ELSE SeamRewrite(in, res, window)

(* The terminal when only k lines of the emission have arrived.            *)
CutOff(e, k) == Put(e.from, e.at, SubSeq(e.lines, 1, k))

(* The terminal when everything has, the cursor on its "target" row.       *)
Arrived(e, target) ==
  LET lines == CutOff(e, Len(e.lines))
      fixing == Move(lines, e.back)
      fixed == IF e.fix = <<>> THEN lines ELSE Put(fixing, fixing.row, e.fix)
      parked == Move(fixed, e.park)
  IN  IF target = NoCursor THEN parked ELSE Move(parked, target - e.ends)

(* targetHardwareCursor. *)
Target(cursor, len) == IF cursor = NoCursor \/ len = 0 THEN NoCursor ELSE Clamp(cursor, 0, len - 1)

-----------------------------------------------------------------------------
EngineInit ==
  /\ Init
  /\ world \in Worlds
  /\ "winch" \notin world => height = IF "low" \in world THEN Min(Heights) ELSE Max(Heights)
  /\ term = [screen |-> BlankRows(height), row |-> 0, scroll |-> <<>>]
  /\ shown = <<>> /\ hw = 0 /\ force = FALSE
  /\ alt = 0 /\ size = height /\ winch = "none" /\ stale = FALSE

(* Reasons of a request: a resize waits to be one, a replacement outranks. *)
Reasons ==
  (IF winch = "reason" THEN {"resize"} ELSE {"update"} \cup ({"force"} \cap world))
    \cup ({"replace"} \cap world)

(* Leaving the alternate screen at another height makes it a resize. *)
Reason(asked) == IF alt # 0 /\ alt # size THEN "resize" ELSE asked

(* Draw on the normal screen: "box" is the screen row of an overlay with   *)
(* the cursor in it, or 0; "focus" says whether the frame has a cursor.    *)
DrawFrame(in, newFinal, reason, replaced, box, focus) ==
  LET res    == Step(led, in)
      top    == res.plan.top
      window == Window(in.frame, top, in.height, box)
      forced == force \/ reason # "update" \/ (in.geometry /\ in.inPlace)
      e      == Emission(in, res, window, forced)
      cursor == IF box # 0 THEN top + box - 1
                ELSE IF focus /\ Len(in.frame) > top THEN Len(in.frame) - 1 ELSE NoCursor
      target == Target(cursor, Len(in.frame))
  IN  \/ /\ Paint(in, res, newFinal)
         /\ term' = Arrived(e, target)
         /\ hw' = IF target = NoCursor THEN e.ends ELSE target
         /\ shown' = window /\ force' = FALSE
         /\ stale' = ((stale \/ replaced) /\ ~(res.plan.clear /\ in.height = Len(term.screen)))
      \/ /\ "fail" \in world
         /\ term' \in {term, Arrived(e, target)} \cup {CutOff(e, k) : k \in 0..Len(e.lines)}
         /\ EmitFails(in, res, newFinal, term'.scroll)
         /\ force' = (force \/ fresh \/ reason = "force")
         /\ stale' = (stale \/ replaced)
         /\ UNCHANGED <<hw, shown>>

DrawNormal(new, newFinal, asked, box, focus, hint, retreat, snapshot) ==
  LET reason == Reason(asked)
      in     == Input(new, newFinal, size, reason = "replace", box # 0,
                      reason = "resize" \/ size # height, hint, retreat, snapshot)
  IN  /\ DrawFrame([in EXCEPT !.cursors = IF focus THEN {Len(new)} ELSE {}], newFinal, reason,
                asked = "replace", box, focus)
      /\ alt' = 0
      /\ winch' = IF winch = "reason" THEN "none" ELSE winch
      /\ UNCHANGED <<world, size>>

DrawAltShown(new, newFinal, asked) ==
  /\ "fullscreen" \in world
  /\ alt' = IF alt = 0 THEN size ELSE alt
  /\ frame' = new /\ final' = newFinal
  /\ force' = FALSE
  /\ winch' = IF winch = "reason" THEN "none" ELSE winch
  /\ stale' = (stale \/ asked = "replace")
  /\ calm' = FALSE
  /\ fresh' \in {fresh} \cup {TRUE : e \in {"fail"} \cap world}
  /\ shown' = Window(new, led.W, size, 0)
  /\ UNCHANGED <<led, height, hist, world, term, hw, size>>

(* Draw under a fullscreen overlay: the frame is composed and dropped, and *)
(* so are the reason and the force flag.                                   *)
DrawAlt(new, newFinal, asked) ==
  /\ "fullscreen" \in world
  /\ alt' = IF alt = 0 THEN size ELSE alt
  /\ frame' = new /\ final' = newFinal
  /\ force' = FALSE
  /\ winch' = IF winch = "reason" THEN "none" ELSE winch
  /\ stale' = (stale \/ asked = "replace")
  /\ calm' = FALSE
  /\ fresh' \in {fresh} \cup {TRUE : e \in {"fail"} \cap world}
  /\ UNCHANGED <<led, height, hist, world, term, shown, hw, size>>

ForceNextWindowRewrite ==
  /\ "force" \in world /\ ~force
  /\ force' = TRUE
  /\ UNCHANGED <<vars, world, term, shown, hw, alt, size, winch, stale>>

(* The terminal is resized; SIGWINCH is on its way. *)
TerminalResizes ==
  /\ "winch" \in world /\ shown # <<>>
  /\ \E h \in Heights \ {Len(term.screen)} : term' \in Reflowed(term, h)
  /\ Len(term'.scroll) < MaxHistory
  /\ winch' = "event" /\ stale' = TRUE
  /\ UNCHANGED <<vars, world, shown, hw, force, alt, size>>

AppLearnsSize ==
  /\ winch = "event"
  /\ size' = Len(term.screen) /\ winch' = "none" /\ force' = TRUE
  /\ UNCHANGED <<vars, world, term, shown, hw, alt, stale>>

(* The application handles it: dimensions, MarkResizeEvent, ReasonResize.  *)
AppLearns ==
  /\ winch = "event"
  /\ size' = Len(term.screen) /\ winch' = "reason" /\ force' = TRUE
  /\ UNCHANGED <<vars, world, term, shown, hw, alt, stale>>

(* The frames of n rows a component may compose in this world.             *)
StillFrames == [n \in 0..MaxRows |-> {[i \in 1..n |-> Row(i, Still)]}]
Compositions(n, replace) ==
  {new \in IF "edit" \in world THEN Frames[n] ELSE StillFrames[n] :
     \/ replace
     \/ /\ "shrink" \in world \/ n >= Len(frame)
        /\ \A i \in 1..final : i <= n /\ new[i] = frame[i]}

Choice(event, otherwise) == IF event \in world THEN BOOLEAN ELSE {otherwise}

EngineNext ==
  \/ \E n \in 0..(IF "tall" \in world THEN MaxRows ELSE MaxRows - 1), asked \in Reasons :
     \E new \in Compositions(n, asked = "replace"), newFinal \in 0..n :
       /\ Composes(new, newFinal, asked = "replace")
       /\ \/ \E box \in {0} \cup {b \in 1..size : "overlay" \in world},
                focus \in Choice("nocursor", TRUE), hint \in Choice("nohint", TRUE),
                retreat \in Choice("retreat", FALSE), snapshot \in Choice("snapshot", FALSE) :
                  DrawNormal(new, newFinal, asked, box, focus, hint, retreat, snapshot)
          \/ DrawAlt(new, newFinal, asked)
       /\ "long" \in world \/ Len(hist') < MaxHistory
  \/ ForceNextWindowRewrite
  \/ TerminalResizes
  \/ AppLearns

EngineSpec == EngineInit /\ [][EngineNext]_<<vars, engineVars>>
-----------------------------------------------------------------------------
(* "scrollback == frame[0:CommittedRows], each row once, in order"         *)
(* (renderer/doc.go), physically: the emitters scroll out exactly the rows *)
(* the ledger planned, although they push them by line feeds.              *)
PhysicalHistory == ~stale => term.scroll = hist

(* What the engine believes is on the screen is, and it is the window of   *)
(* the last frame.                                                         *)
ScreenIsTheWindow ==
  ~fresh /\ ~stale /\ alt = 0 =>
     /\ term.screen = shown
     /\ \A r \in 1..Len(shown) : shown[r] \in {Box, Window(frame, led.W, height, 0)[r]}

(* All moves are relative: the engine knows the row the cursor is in.      *)
CursorTracked == ~fresh /\ ~stale => hw = led.W + term.row

(* What a user can scroll through, from the top of the scrollback to the   *)
(* bottom of the screen, is the frame, each row once.                      *)
FrameIsVisible ==
  calm /\ ~fresh /\ ~stale /\ alt = 0 /\ (\A r \in 1..Len(shown) : shown[r] # Box)
    => term.scroll \o SubSeq(term.screen, 1, Len(frame) - led.W) = frame

(* All at once: what the last paint was to show is what the user sees, and *)
(* the next paint starts from where the cursor is.                         *)
FrameOnScreen == ScreenIsTheWindow /\ FrameIsVisible /\ CursorTracked

(* "Never loses content" (ledger/step.go), with fullscreen overlays that   *)
(* hide what the component composed meanwhile and writes that fail.  Left  *)
(* out are the cases where the code does lose a row or may: live rows      *)
(* called durable drift, final rows called live are not looked at, a frame *)
(* shrinks into its committed rows after a change the audit tolerated, and *)
(* a session is replaced under a fullscreen overlay.                       *)
LosesNothing(w) ==
  w \cap {"snapshot", "retreat", "shrink"} = {} /\ ~({"replace", "fullscreen"} \subseteq w)

NothingIsLost == alt = 0 /\ LosesNothing(world) => FinalRowsSurvive

(* After a resize, "including net-zero dimension events that still         *)
(* reflowed the terminal buffer", and after "session replace ... full      *)
(* paint + ED3 outside multiplexers" (request.go) the scrollback is        *)
(* rebuilt: once the normal screen is drawn again, what is stale there is  *)
(* still owed a rebuild by a resize on its way.                            *)
StaleIsOwed == stale /\ alt = 0 /\ ~fresh => winch # "none" \/ size # height

(* "durable snapshot - audit-exempt (in-place drift OK)" (ledger/doc.go):  *)
(* a frame that changes committed rows only where they are exempt, and     *)
(* still covers them, sends no committed row to the scrollback again.      *)
SnapshotsDriftQuietly ==
  [][/\ world \cap {"replace", "winch"} = {}
     /\ ~fresh /\ ~fresh' /\ Len(frame') > led.C
     /\ \A i \in 1..led.C : frame'[i] = led.prefix[i] \/ i \in led.A + 1 .. led.D
     => Len(hist') - Len(hist) = led'.C - led.C]_vars
=============================================================================
