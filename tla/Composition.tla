----------------------------- MODULE Composition -----------------------------
(***************************************************************************)
(* How a frame is put together, and what of it is known not to have        *)
(* changed: the transcript keeps the rows of its blocks                    *)
(* (view/transcript.go), the root container those of its children          *)
(* (component/container.go), both report how many leading rows are stable  *)
(* since the report was read last, App.paint reads it (app/render.go), and *)
(* the engine prepares only the rows after them (renderer/prepare.go).     *)
(*                                                                         *)
(* The root has a header supplied by the core, the transcript and the      *)
(* editor.  A row is the group and key of its block, its place there, the  *)
(* version of its text and the width it was laid out for; the versions of  *)
(* a block's rows stand for the hash of its inputs.  A block may end in an *)
(* image, which the budget of graphics shows or not (Images); its data and *)
(* deletions travel with the request.  Seams, cursors and styling are left *)
(* out.                                                                    *)
(***************************************************************************)
EXTENDS Images

CONSTANTS
  Cols,       \* widths of the terminal
  MaxBlocks,  \* bound: blocks of the transcript
  MaxBody,    \* bound: rows of a block or of the editor
  Worlds,     \* behaviours to explore: see WorldType
  None        \* no block above, no request

(* Answers stream in; blocks are added, some with an image of a tool call  *)
(* or of a message; the core replaces the session; thinking rows are hidden*)
(* and shown; the theme changes; the core redraws the header; the user     *)
(* types; the terminal is resized; a fullscreen overlay comes and goes;    *)
(* rows scroll off a screen that is lower than the frame.                  *)
AllEvents == {"stream", "grow", "cards", "pictures", "replace", "toggle", "theme", "header",
              "type", "resize", "fullscreen", "scroll"}

(* A world: its events, how many of them (a bound), and how many cards with*)
(* an image the conversation has from the start.                           *)
ASSUME CompositionAssumption ==
  /\ MaxBlocks \in Nat /\ MaxBody \in Nat \ {0}
  /\ Cols \subseteq Nat \ {0} /\ Cols # {}
  /\ \A w \in Worlds : w.events \subseteq AllEvents /\ w.changes \in Nat /\ w.cards \in 0..MaxBlocks

VARIABLES
  world,    \* chosen in the initial state
  specs,    \* Transcript.specs: what the blocks are to show
  hide,     \* Options.HideThinking
  t,        \* Transcript: its retained blocks and rows
  root,     \* the root Container: its memo and report
  header, editor,  \* the other children: [rows, gen]
  cols,     \* App.width
  full,     \* a fullscreen overlay is up
  dirty,    \* App.needRender
  pending,  \* the request the scheduler keeps, or None
  engine,   \* the prepared rows, previousWidth, and the rows committed
  composed, \* what the last paint composed (history)
  drawn,    \* the frame drawn last (history)
  missed,   \* a frame since then was drawn on the alternate screen (history)
  changes,  \* changes so far
  images,   \* the budget and the image components
  asked,    \* commands to render again that the budget has queued
  store,    \* what the terminal keeps of the images
  muddled   \* a key stood for two images, or was to be sent and deleted by one request (history)

treeVars  == <<specs, hide, t, root, header, editor, cols, full>>
mediaVars == <<images, asked, store>>
vars == <<world, treeVars, dirty, pending, engine, composed, drawn, missed, changes, mediaVars, muddled>>

Least(a, b) == IF a < b THEN a ELSE b
Blank       == <<"", 0, 0, 0, 0>>
Greatest(a, b) == IF a > b THEN a ELSE b
Common(f, g) == Cardinality({n \in 1..Least(Len(f), Len(g)) : \A i \in 1..n : f[i] = g[i]})

-----------------------------------------------------------------------------
(* The transcript. *)

(* A block's group, the versions of its rows, and its image: the key the   *)
(* adapter knows it by, and the picture.  The first row of an answer is    *)
(* its thinking.                                                           *)
NoImage == <<>>
Block(key, group, body, image) == [key |-> key, group |-> group, body |-> body, image |-> image]

(* renderSpec: the rows the block has at this width. *)
BlockRows(spec, width, hidden) ==
  LET all == [i \in DOMAIN spec.body |-> <<spec.group, spec.key, i, spec.body[i], width>>]
  IN  IF hidden /\ spec.group = "model" THEN Tail(all) ELSE all

(* The keys of images: a tool call's own, or the place in its message.     *)
CardImage(n)    == <<n, n>>
MessageImage(n) == <<0, n>>

(* separatorRows: blank rows between a block and the rendered one above.   *)
Separator(above, group) ==
  IF above = None THEN 0
  ELSE (IF above = "user" THEN 1 ELSE 0)
       + (IF group = "user" \/ (above # group /\ above # "user") THEN 1 ELSE 0)

Unbuilt(key) == [key |-> key, built |-> FALSE, lines |-> <<>>, width |-> 0, spec |-> None, sep |-> 0, start |-> 0]

(* syncBlocks: blocks whose key is gone start anew. *)
SyncBlocks(tr) ==
  LET aligned == [i \in DOMAIN specs |->
                    IF i \in DOMAIN tr.blocks /\ tr.blocks[i].key = specs[i].key THEN tr.blocks[i]
                    ELSE Unbuilt(specs[i].key)]
      same    == \A i \in DOMAIN specs : i \in DOMAIN tr.blocks /\ tr.blocks[i].key = specs[i].key
  IN  [tr EXCEPT !.blocks = aligned, !.valid = @ /\ same]

(* canReplayCommitted: its rows are in the scrollback already. *)
Replays(tr, block, start, sep, width) ==
  /\ tr.valid /\ block.built /\ block.lines # <<>> /\ block.width = width /\ tr.claim > 0
  /\ block.start = start /\ block.sep = sep
  /\ start + Len(block.lines) <= tr.claim

(* One block, below "acc.at" rows, the last of them of group acc.above.    *)
Laid(tr, width, acc, i) ==
  LET block == tr.blocks[i]
      spec  == specs[i]
      before == IF block.lines = <<>> THEN 0 ELSE Separator(acc.above, spec.group)
      kept  == \/ Replays(tr, block, acc.at + before, before, width)
               \/ block.built /\ block.width = width /\ block.spec = spec
      fresh == ~kept /\ spec.image # NoImage
      image == IF fresh THEN <<ImageRow(acc.pass, spec.image[1], spec.image[2], width)>> ELSE <<>>
      lines == IF kept THEN block.lines ELSE BlockRows(spec, width, hide) \o image
      sep   == IF lines = <<>> THEN 0 ELSE Separator(acc.above, spec.group)
      now   == [key |-> spec.key, built |-> TRUE, lines |-> lines, width |-> width,
                spec |-> IF kept THEN block.spec ELSE spec, sep |-> sep, start |-> acc.at + sep]
  IN  [at |-> acc.at + sep + Len(lines),
       above |-> IF lines = <<>> THEN acc.above ELSE spec.group,
       blocks |-> Append(acc.blocks, now),
       pass |-> IF fresh THEN RenderImage(acc.pass, spec.image[1], spec.image[2], width) ELSE acc.pass,
       lines |-> acc.lines \o [n \in 1..sep |-> Blank] \o lines]

(* What the first i blocks make, for every i.                              *)
Layout(tr, width, pass) ==
  LET upTo[i \in 0..Len(specs)] ==
        IF i = 0 THEN [at |-> 0, above |-> None, blocks |-> <<>>, lines |-> <<>>, pass |-> pass]
        ELSE Laid(tr, width, upTo[i - 1], i)
  IN  upTo

(* Transcript.Render in a pass over the images: the transcript and the     *)
(* pass after it.  A block that is kept does not show its image to the     *)
(* budget.                                                                 *)
TranscriptRender(tr, width, pass) ==
  LET synced == SyncBlocks([tr EXCEPT !.valid = @ /\ tr.width = width])
      laid   == Layout(synced, width, pass)[Len(specs)]
      stable == IF synced.valid THEN Common(tr.lines, laid.lines) ELSE 0
      same   == laid.lines = <<>> \/ (synced.valid /\ tr.lines = laid.lines)
  IN  [t    |-> [tr EXCEPT !.blocks = laid.blocks, !.lines = laid.lines, !.width = width, !.valid = TRUE,
                           !.floor = IF laid.lines = <<>> THEN 0 ELSE Least(@, stable),
                           !.gen = IF same THEN @ ELSE @ + 1],
       pass |-> laid.pass]

(* Transcript.RenderStablePrefixRows: reading consumes the report. *)
TranscriptRead(tr) == [tr EXCEPT !.floor = Len(tr.lines)]

(* Transcript.Invalidate. *)
TranscriptInvalidate(tr) ==
  [tr EXCEPT !.blocks = [i \in DOMAIN @ |-> [@[i] EXCEPT !.built = FALSE, !.lines = <<>>, !.width = 0]],
             !.valid = FALSE, !.lines = <<>>, !.floor = 0]

-----------------------------------------------------------------------------
(* The container. *)

NewRoot(id) == [id |-> id, valid |-> FALSE, width |-> 0, lines |-> <<>>, gens |-> <<>>, stable |-> 0, committed |-> 0]

ForgetMemo(c) == [NewRoot(c.id) EXCEPT !.committed = c.committed]

(* How many leading rows are stable: whole children while nothing changed, *)
(* then what the first one that did reports.  A kid is [n, same, report],  *)
(* with report None where a child makes none.                              *)
Whole(kid)    == kid.same /\ (kid.report # None => kid.report >= kid.n)
Reported(kid) == IF kid.report = None THEN 0 ELSE Least(kid.report, kid.n)

StableRows(kids) ==
  LET from[i \in 1..Len(kids) + 1] ==
        IF i > Len(kids) THEN 0
        ELSE IF Whole(kids[i]) THEN kids[i].n + from[i + 1] ELSE Reported(kids[i])
  IN  from[1]

(* Container.Render over the rendered transcript tr: [root, lines].        *)
Compose(c, tr, width) ==
  LET gens   == <<header.gen, tr.gen, editor.gen>>
      valid  == c.valid /\ c.width = width
      Kid(rows, i, report) == [n |-> Len(rows), same |-> gens[i] = c.gens[i], report |-> report]
      all    == header.rows \o tr.lines \o editor.rows
      rows   == IF ~valid THEN 0
                ELSE StableRows(<<Kid(header.rows, 1, None), Kid(tr.lines, 2, tr.floor), Kid(editor.rows, 3, None)>>)
      stable == Least(rows, Least(Len(all), Len(c.lines)))
      hit    == valid /\ gens = c.gens
      lines  == IF hit THEN c.lines
                ELSE SubSeq(c.lines, 1, stable) \o SubSeq(all, stable + 1, Len(all))
  IN  [c EXCEPT !.valid = TRUE, !.width = width, !.gens = gens, !.lines = lines,
                !.stable = IF hit THEN rows ELSE stable]

(* Container.RenderStablePrefixRows. *)
RootRead(c) == [c EXCEPT !.stable = Len(c.lines)]

-----------------------------------------------------------------------------
(* The prepared rows of the engine. *)

Reset(prep)           == [prep EXCEPT !.valid = 0]
InvalidateTo(prep, n) == [prep EXCEPT !.valid = Least(@, n)]

(* PrepareFrame: rows below the valid ones are prepared again; more rows   *)
(* than there is room for get new room.                                    *)
PrepareFrame(prep, frame) ==
  LET room  == IF Len(prep.rows) < Len(frame) THEN [i \in DOMAIN frame |-> Blank] ELSE prep.rows
      start == Least(prep.valid, Len(frame))
  IN  [rows  |-> [i \in DOMAIN room |-> IF i > start /\ i <= Len(frame) THEN frame[i] ELSE room[i]],
       valid |-> Len(frame)]

-----------------------------------------------------------------------------
(* Rows, requests, and that "none" is neither a request nor a number.      *)
Groups   == {"user", "model", "card"}
Rows     == (Groups \cup {"", "header", "editor", "caption", "graphic", "image"}) \X Nat \X Nat \X Nat \X Nat
Requests == [frame : Seq(Rows), stable : Nat, width : Nat, full : BOOLEAN, root : Nat,
             sends : Seq(Nat \X Nat), purges : SUBSET Nat]

ASSUME NoneAssumption == None \notin Nat \cup Requests

-----------------------------------------------------------------------------
(* A conversation begins with the user's words. *)
Prompt(v) == <<Block(1, "user", <<v>>, NoImage)>>
Card(n)   == Block(n, "card", <<1>>, CardImage(n))

EditorRows(n, v, width) == [i \in 1..n |-> <<"editor", 0, i, v, width>>]
HeaderRows(n, v)        == [i \in 1..n |-> <<"header", 0, i, v, 0>>]

Init ==
  /\ world \in Worlds
  /\ specs = Prompt(1) \o [n \in 1..world.cards |-> Card(n + 1)] /\ hide = FALSE
  /\ t = [blocks |-> <<>>, lines |-> <<>>, width |-> 0, valid |-> FALSE, floor |-> 0, gen |-> 0, claim |-> 0]
  /\ root = NewRoot(1)
  /\ cols \in Cols /\ full = FALSE
  /\ header = [rows |-> HeaderRows(1, 1), gen |-> 1]
  /\ editor = [rows |-> EditorRows(1, 1, cols), gen |-> 1]
  /\ dirty = TRUE /\ pending = None
  /\ engine = [prep |-> [rows |-> <<>>, valid |-> 0], width |-> 0]
  /\ composed = <<>> /\ drawn = <<>> /\ missed = FALSE /\ changes = 0
  /\ images = NewImages /\ asked = 0 /\ store = NoComponents /\ muddled = FALSE

(* Every change asks for a render. *)
Change ==
  /\ changes < world.changes /\ changes' = changes + 1 /\ dirty' = TRUE
  /\ UNCHANGED <<world, pending, engine, composed, drawn, missed, asked, store>>

Still == UNCHANGED <<images, muddled>>

(* A key that stands for two images: in the conversation, or because it    *)
(* was used by another one before.                                         *)
ImagesOf(s) == {s[i].image : i \in DOMAIN s} \ {NoImage}
Used(im)    == DOMAIN im.made \cup im.transmitted
Clash(s)    == \/ \E a, b \in ImagesOf(s) : a # b /\ a[1] = b[1]
               \/ \E a \in ImagesOf(s) \ ImagesOf(specs) : a[1] \in Used(images)

(* What an event of the core makes of the conversation: an answer gets     *)
(* another row or lays one out again; a block more; another conversation.  *)
Streams ==
  "stream" \in world.events /\ \E i \in DOMAIN specs :
    LET body == specs[i].body
    IN  /\ specs[i].group \in {"model", "card"}
        /\ \/ Len(body) < MaxBody /\ specs' = [specs EXCEPT ![i].body = Append(body, 1)]
           \/ \E k \in DOMAIN body : specs' = [specs EXCEPT ![i].body[k] = 3 - @]

Grows ==
  /\ Len(specs) < MaxBlocks
  /\ LET n == Len(specs) + 1
     IN  \/ /\ "grow" \in world.events
            /\ \E group \in {"user"} \cup {"model" : i \in DOMAIN specs} :
                 specs' = Append(specs, Block(n, group, <<1>>, NoImage))
         \/ "cards" \in world.events /\ specs' = Append(specs, Card(n))
         \/ "pictures" \in world.events /\ specs' = Append(specs, Block(n, "user", <<1>>, MessageImage(n)))

Replaced == "replace" \in world.events /\ specs' \in {<<>>, Prompt(2)}

RootIsKept(c) == c

(* rebuildRoot: a new container, whose memo is empty. *)
Rebuilt(c) == NewRoot(c.id + 1)

(* syncFromSnapshot, after the session state took an event. *)
Sync ==
  /\ Change /\ (Streams \/ Grows \/ Replaced)
  /\ root' = Rebuilt(root) /\ muddled' = (muddled \/ Clash(specs')) /\ images' = images
  /\ UNCHANGED <<hide, t, header, editor, cols, full>>

(* toggleThinking: SetOptions and Invalidate, the root stays. *)
ToggleThinking ==
  /\ "toggle" \in world.events /\ Change /\ Still
  /\ hide' = ~hide /\ t' = TranscriptInvalidate(t)
  /\ UNCHANGED <<specs, root, header, editor, cols, full>>

(* applyThemeAll: every child forgets its rows, the header those the core  *)
(* supplied.                                                               *)
ApplyTheme ==
  /\ "theme" \in world.events /\ Change /\ Still
  /\ t' = TranscriptInvalidate(t) /\ root' = ForgetMemo(root)
  /\ header' = [rows |-> <<>>, gen |-> header.gen + 1]
  /\ editor' = [editor EXCEPT !.gen = @ + 1]
  /\ UNCHANGED <<specs, hide, cols, full>>

(* A render result for the header. *)
HeaderResult ==
  /\ "header" \in world.events /\ Change /\ Still
  /\ \E n \in 0..1, v \in 1..2 : header' = [rows |-> HeaderRows(n, v), gen |-> header.gen + 1]
  /\ UNCHANGED <<specs, hide, t, root, editor, cols, full>>

Type ==
  /\ "type" \in world.events /\ Change /\ Still
  /\ \E n \in 1..MaxBody, v \in 1..2 : editor' = [rows |-> EditorRows(n, v, cols), gen |-> editor.gen + 1]
  /\ UNCHANGED <<specs, hide, t, root, header, cols, full>>

(* A resize; the editor lays itself out for the new width when rendered,   *)
(* and the image components start anew.                                    *)
Resize ==
  /\ "resize" \in world.events /\ Change /\ muddled' = muddled
  /\ cols' \in Cols \ {cols} /\ images' = ClearImages(images)
  /\ editor' = [rows |-> [i \in DOMAIN editor.rows |-> [editor.rows[i] EXCEPT ![5] = cols']],
                gen |-> editor.gen + 1]
  /\ UNCHANGED <<specs, hide, t, root, header, full>>

Fullscreen ==
  /\ "fullscreen" \in world.events /\ Change /\ Still
  /\ full' = ~full
  /\ UNCHANGED <<specs, hide, t, root, header, editor, cols>>

NewestRequest(prev, req) == req

(* mergeLocked: the newest frame, the least report, all image data and     *)
(* deletions.                                                              *)
Merged(prev, req) ==
  IF prev = None THEN req
  ELSE [req EXCEPT !.stable = Least(@, prev.stable), !.sends = prev.sends \o @, !.purges = @ \cup prev.purges]

(* App.paint: compose, read the report, ask the scheduler to draw.         *)
Paint ==
  /\ dirty /\ dirty' = FALSE
  /\ LET claimed  == [t EXCEPT !.claim = Greatest(0, root.committed - Len(header.rows))]
         rendered == TranscriptRender(claimed, cols, BeginPass(images))
         c        == Compose(root, rendered.t, cols)
         pass     == rendered.pass
         crosses  == pending # None /\ \E n \in DOMAIN pass.sends : pass.sends[n][1] \in pending.purges
     IN  /\ t' = TranscriptRead(rendered.t) /\ root' = RootRead(c)
         /\ pending' = Merged(pending, [frame |-> c.lines, stable |-> c.stable, width |-> cols,
                                        full |-> full, root |-> c.id,
                                        sends |-> pass.sends, purges |-> Purged(pass)])
         /\ composed' = c.lines
         /\ images' = EndPass(pass) /\ asked' = asked + (IF AsksAgain(pass) THEN 1 ELSE 0)
         /\ muddled' = (muddled \/ crosses)
  /\ UNCHANGED <<world, specs, hide, header, editor, cols, full, engine, drawn, missed, changes, store>>

(* The loop takes the command to render again.                             *)
ForceRender ==
  /\ asked > 0 /\ asked' = asked - 1 /\ dirty' = TRUE
  /\ UNCHANGED <<world, treeVars, pending, engine, composed, drawn, missed, changes, images, store, muddled>>

(* Engine.Draw, as far as the prepared rows and the committed count go; a  *)
(* fullscreen overlay is drawn without either, and without the deletions.  *)
(* A full paint deletes before it loads, an update after; which one it is  *)
(* depends on more than the width.                                         *)
DrawAlt ==
  /\ pending # None /\ pending.full
  /\ pending' = None /\ missed' = TRUE
  /\ store' = Loaded(store, pending.sends)
  /\ UNCHANGED <<world, treeVars, dirty, engine, composed, drawn, changes, images, asked, muddled>>

Draw ==
  /\ pending # None /\ ~pending.full
  /\ pending' = None /\ missed' = FALSE
  /\ LET to   == InvalidateTo(engine.prep, pending.stable)
         prep == IF engine.width \notin {0, pending.width} THEN Reset(to) ELSE to
     IN  engine' = [prep |-> PrepareFrame(prep, pending.frame), width |-> pending.width]
  /\ drawn' = pending.frame
  /\ \E k \in 0..(IF "scroll" \in world.events THEN Len(pending.frame) ELSE 0) :
       root' = IF pending.root = root.id THEN [root EXCEPT !.committed = k] ELSE root
  /\ store' \in {Loaded(Deleted(store, pending.purges), pending.sends)}
                \cup (IF engine.width = pending.width
                      THEN {Deleted(Loaded(store, pending.sends), pending.purges)} ELSE {})
  /\ UNCHANGED <<world, specs, hide, t, header, editor, cols, full, dirty, composed, changes, images, asked, muddled>>

Next ==
  \/ Sync \/ ToggleThinking \/ ApplyTheme \/ HeaderResult \/ Type \/ Resize \/ Fullscreen
  \/ Paint \/ ForceRender \/ DrawAlt \/ Draw

Spec == Init /\ [][Next]_vars
-----------------------------------------------------------------------------
(* What the first i blocks are to show now, image for image.               *)
AnyImage(row) == IF IsImage(row) THEN <<"image", 0, 0, 0, row[5]>> ELSE row

Wanted(spec, width, hidden) ==
  BlockRows(spec, width, hidden) \o (IF spec.image = NoImage THEN <<>> ELSE <<<<"image", 0, 0, 0, width>>>>)

Below(acc, rows, group) ==
  IF rows = <<>> THEN acc
  ELSE [above |-> group, rows |-> acc.rows \o [n \in 1..Separator(acc.above, group) |-> Blank] \o rows]

Blocks ==
  LET upTo[i \in 0..Len(specs)] ==
        IF i = 0 THEN [above |-> None, rows |-> <<>>]
        ELSE Below(upTo[i - 1], Wanted(specs[i], cols, hide), specs[i].group)
  IN  upTo

(* The frame is the children's rows as they are to be now, whatever was    *)
(* kept from earlier frames, blocks or containers; how an image is shown   *)
(* is a matter of its own.                                                 *)
FrameIsCurrent ==
  ~dirty => [i \in DOMAIN composed |-> AnyImage(composed[i])]
              = header.rows \o Blocks[Len(specs)].rows \o editor.rows

(* "Rows before it must be the identical string values at the identical    *)
(* indices" (component.go), as the engine needs it: the rows a request     *)
(* calls stable are those of the frame drawn last, whatever was composed,  *)
(* merged, resized or rebuilt between.  Exempt: a frame was drawn on the   *)
(* alternate screen between, which spends a report the engine never used.  *)
HintFitsTheEngine ==
  pending # None /\ ~missed => Common(pending.frame, drawn) >= pending.stable

(* "Key is stable for the life of the image: message identity plus block   *)
(* index" (options.go), so that a graphic shows the picture of its block:  *)
(* the one the terminal has under the id that the block's row names.       *)
OwnPicture ==
  ~dirty /\ pending = None =>
    \A i \in DOMAIN t.blocks :
      LET block == t.blocks[i]
      IN  block.lines # <<>> /\ Last(block.lines)[1] = "graphic"
          => LET key == Last(block.lines)[2]
             IN  key \in DOMAIN store /\ store[key] = block.spec.image[2]

(* "every still-live image" has its data in the terminal (budget.go): what *)
(* is shown as a graphic was sent, and not deleted since, through passes   *)
(* that saw only the blocks laid out anew, demotions, promotions, requests *)
(* that coalesced and draws under a fullscreen overlay.  Exempt: two       *)
(* messages' images share a key, or one request both deletes an image and, *)
(* being coalesced, sends it again.                                        *)
GraphicsAreLoaded == ~muddled => OwnPicture

(* "preparedValid counts the leading rows known prepared against the       *)
(* current composed frame" (prepare.go): what is drawn is the frame.       *)
PreparedIsTheFrame == SubSeq(engine.prep.rows, 1, Len(drawn)) = drawn
=============================================================================
