# Verification of ratatui-go

`ratatui-go` is a terminal user-interface library in Go with two halves: a port
of the ratatui cell-buffer toolkit (`backend`, `buffer`, `layout`, `style`,
`symbols`, `text`, `terminal`, `widget`, `widgets`) and `ompui/`, the line-string
front end of a coding agent: a component tree, an append-only scrollback
renderer, a terminal runtime, an RPC client for a child process and the
application loop that joins them. This directory holds TLA+ modules of the
parts whose correctness is a matter of order and state, the TLC
configurations that check them, and TLAPS proofs about them.

## The parts of the system

| Part | State it keeps | Operations | What makes it correct | Status |
|---|---|---|---|---|
| Render scheduler (`ompui/renderer/scheduler.go`) | pending request, force flag, armed timer, drawing, stopped, time of the last draw | Request, RequestImmediate, Flush, Stop, setters, timer callback | one draw at a time; the newest request is drawn; coalescing loses no intent, image or row-stability fact; every blocked call returns | modelled; safety and refinement proved |
| Ledger (`ompui/ledger`) | committed, audited and durable row marks, committed prefix, window top | Step, Finish, resync, plan | native scrollback holds every committed row once and in order; marks stay ordered | modelled; marks and history proved |
| Renderer engine (`ompui/renderer/engine.go`, `emit.go`, `cursor.go`) | previous window, hardware row, alternate-screen flags, desync flag | Draw (first paint, append, diff, seam rewrite, replace, resize, overlay, failure) | the screen is the window of the frame, the scrollback is the ledger's history; a failed write is repainted | partly modelled; both proved |
| Prepared-row cache (`ompui/renderer/prepare.go`) | prepared rows, their source rows, number of valid rows | PrepareFrame, InvalidateTo, Reset | a prepared row is the preparation of the row being drawn | modelled |
| Component tree (`ompui/component`) | per-child frames, offsets, memo, stable-prefix report | Render, RenderStablePrefixRows, NotifyCommittedRows, Invalidate | the stable prefix really is unchanged since the last report | partly modelled |
| Views (`ompui/view`) | retained blocks of the transcript, their rows and generations | Render, Sync, stable floor | the rows shown are those of the session | partly modelled |
| Media budget (`ompui/media`) | image ids, transmit queue, purge queue, plan | BeginPass, Observe, EndPass, Take* | what is shown as a graphic is in the terminal's store | partly modelled |
| RPC client (`ompui/client`) | pending calls, subscriptions, writer, process state, first error | Start, Call, Send, Subscribe, Unsubscribe, Shutdown, Wait; wait, read and dispatch goroutines | frames keep their order; no send on a closed channel; everybody blocked is woken when the child is gone | modelled; safety proved |
| Application loop (`ompui/app`) | command, RPC-job and event queues, dirty flag, UI tree, remote components, extension dialogs, draft | loop, post, RPC worker, paint, shutdown | each dialog is answered once; keys reach a visible overlay; each remote shows its newest answer; an image is in one place | partly modelled; safety proved |
| Overlay stack (`ompui/interact/overlay.go`) | entries, focus, base focus | Show, Hide, SetHidden, SetFocus, ReconcileFocus | focus is on a visible overlay or the base | partly modelled; proved with the application |
| Terminal input bridge (`ompui/app/terminal_input.go`) | subscription flag, sequence number, in-flight event, queue, timer | forward, result, timeout, subscription change, local drain | each key is applied once and in order whatever the peer does | modelled; safety proved |
| Terminal runtime (`ompui/runtime`) | raw mode, modes switched on, probe owners, command queue, event channel | Start, Stop, input loop, probes, drain, suspend | Stop takes back what Start and the application switched on; an answer goes to the query that asked; typed keys survive the probing | partly modelled; what Stop takes back proved |
| Input decoder (`ompui/input`) | partial sequence, paste buffer, flush deadline | Write, Next, PopDue, Flush | no byte is lost or doubled | partly modelled |
| Editor (`ompui/editor`) and kill ring (`ompui/killring`) | text, caret, undo and redo stacks, kill ring, paste markers, prompt history | edits, kills, yanks, undo, redo, submit, history | a yank gives back what was killed, a marker its paste; undo and redo walk a line of versions | kill ring modelled, editor partly; proved |
| ratatui terminal and buffers (`terminal`, `buffer`) | two buffers, viewport, last known cursor | Draw, Clear, Resize, Autoresize, InsertBefore | the screen is the back buffer, what stands around the viewport is kept | partly modelled |
| ratatui backends (`backend`) | the emulator's screen | Draw, Clear, scroll regions, AppendLines | the cells drawn are the cells shown | partly modelled |
| Autocomplete providers, session model, wire protocol, rich text, LaTeX, Mermaid, highlighting, attachments and key map, capabilities, layout, widgets, text, style and symbols, command and examples | none, caches or a folded snapshot | pure conversions and I/O | text conversions | not modelled |

### How the parts interact

The application loop (one goroutine) owns the component tree, the overlay stack,
the editor and the terminal input bridge. It receives terminal events from the
runtime's reader goroutine, frames of the core process from a subscription of
the RPC client, and commands posted by other goroutines, all over channels. When
something is dirty it renders the tree, takes the image budget's pending
sequences and hands a `Request` to the render scheduler. The scheduler is called
from any goroutine, coalesces requests under its mutex and runs `Engine.Draw`
either in the caller's goroutine or in a timer callback, never twice at once.
`Draw` asks the ledger what to commit (`Step`), writes bytes through the runtime
to the terminal, and tells the ledger what has been written (`Finish`). The
terminal answers nothing: what the engine knows of the screen is what it
remembers.

### What is hard about it

* Wake-ups: a request that arrives during a draw, after a timer was cancelled,
  or before `Stop`, must be drawn by somebody or by nobody, and no caller may
  sleep through the last broadcast.
* Memory of an unreadable device: every cursor move is relative, every row that
  leaves the screen upwards is gone for good, and a write may break off anywhere
  or reach a terminal that has just been resized.
* Conversions between coordinate systems with off-by-one edges: rows of the
  frame, rows committed, rows of the window, rows of the screen.
* Hints that are relative to an earlier frame (the stable prefix) and are wrong
  as soon as one frame is skipped, merged or not drawn.
* A peer process that may be slow, confused or gone while it holds the keyboard,
  owns a dialog or answers a request for rows that nobody shows any more.
* Go channels closed by one goroutine and written by another, and bounded ones
  whose reader may have left.
* Two things that must agree although they are kept apart: what the terminal was
  told and what it is believed to show, the text of a prompt and the pastes its
  markers stand for, what the budget calls transmitted and what the terminal holds.

`PROJECT.json` lists each hazard at the line where it bites.

## The modules

| Module | Models | Extends or uses |
|---|---|---|
| `FrameServer` | what a render scheduler promises: one frame at a time, always the newest, none after Close | |
| `Scheduler` | `renderer/scheduler.go`; implements `FrameServer` | `FrameServer` |
| `LedgerOps` | the methods of `ledger.State`, one operator each | |
| `Ledger` | a component that composes frames, and `Step`/`Finish` on them | `LedgerOps` |
| `Engine` | `renderer/engine.go`, `emit.go`, `cursor.go` over a model of the terminal | `Ledger` |
| `TerminalInput` | `app/terminal_input.go` and the core at the other end | |
| `Client` | `client/client.go`, `event.go`, `write.go`: the goroutines, channels and locks of the RPC client | |
| `Overlays` | `interact/overlay.go`: the stack and its focus | |
| `Hosts` | remote components, mounted overlays and extension dialogs of `app/rpc.go`, `app/extension.go`, `component/remote.go` | `Overlays` |
| `Jobs` | prompts, images, the RPC queue and its worker (`app/input.go`, `app/rpc.go`) | |
| `App` | the loop over both | `Hosts`, `Jobs` |
| `Decoder` | `input/decoder.go`, `frame.go`: framing of sequences from arbitrary chunks | |
| `Probes` | `runtime/probe.go`: what is asked of a terminal at the start and who owns each answer | `Decoder` |
| `Terminal` | `runtime/terminal.go`: Start, the input loop, Stop, drain, suspend | `Probes` |
| `Buffers`, `Screen` | `buffer` (a buffer and its difference); the screen `backend` draws on | |
| `Viewport` | `terminal/terminal.go`: Draw, Resize, Autoresize, Clear, InsertBefore | `Screen` |
| `Images` | `media/budget.go`, `image.go` | |
| `Composition` | the component tree, the transcript, paint, the prepared rows, with the budget | `Images` |
| `UndoLine` | what undo and redo promise: a position on a line of versions | |
| `Editor` | `editor/buffer.go`, `input.go`, `nav.go`, `killring`; implements `UndoLine` | `UndoLine` |
| `MC…` | the instances TLC checks: worlds, views, symmetry | the module of that name |
| `SchedulerProofs`, `EngineProofs`, `TerminalInputProofs`, `ClientProofs`, `AppProofs`, `EditorProofs`, `TerminalProofs`, `CompositionProofs` | the theorems and their proofs (`EngineProofs` also those about `Ledger`) | the module of that name |

Most components with a big input space are checked in several *worlds*: a
behaviour chooses one at the start, and it says which events, values and bounds
that behaviour mixes. A world is a sub-model, so the union of the worlds is what
the run covers; theorems speak of every set of worlds.

### Scheduler

A step of the model is one critical section of `s.mu`, so callers, timer
callbacks and the drawing goroutine interleave exactly where the code unlocks.
`pending`, `pendingForce`, `scheduled`, `drawing`, `stopped`, `handle` and
`rewrite` are the fields; `cur` is the request being drawn outside the lock;
`cond.Wait` is a caller whose state is "waiting" and which `Broadcast` wakes.
A stopped timer may have fired already, its callback then finds `handle` changed
or runs late. History variables number the frames handed over, so that "newest"
can be said. `FrameServer` is refined by: the frame in flight, the last finished
frame, and whether Stop has not been called.

### Ledger and Engine

A row is `<<index, version>>` or blank: the index tells a row that is sent twice
from two equal rows, the version a row that changed. The driving component keeps
the promise the engine is built on (rows it has declared final do not change),
and everything else about a frame is arbitrary. `Ledger` composes any frame, takes
`Step`, and then the write succeeds (`Paint`) or not (`EmitFails`). `hist` is
what the plans committed.

`Engine` adds the terminal: its screen, cursor row and scrollback, driven only by
line feeds, relative moves and writes of a row, as the escape codes of
`emit.go` do. `FullPaint`, `ScrollAppend`, `WindowDiff` and `SeamRewrite` are the
four emitters, `CutOff` is a write that breaks off after any line. A resize is
two steps, since the terminal changes before the application learns of it, and
draws may come between. Nine worlds: tall and long frames; overlays; forced
repaints under fullscreen overlays; a cursor the component does not ask for;
failing writes; resizes; replaced sessions, with and without shrinking frames; seams
that retreat, snapshots of live rows and missing hints.

Left out: the throwaway resize viewport, which the application never sets,
terminals that resize in place (the ledger has them, the engine's run does
not), `eraseScreenCopy`, image sequences, columns and styling. A failing write
is never combined with a replacement or a resize (see *Seen while modelling*).

### Terminal input bridge

Every handler runs in the application loop and is one step. The peer answers any
id, in any order, any number of times, or never, subscribes and unsubscribes at
will, and may send nonsense. `said` remembers what was really answered and `out`
what happened to each key.

### RPC client

Each goroutine has a list of what it still has to do, one entry per critical
section, channel operation or system call; `Goroutines` is any of them moving.
The child greets, answers, babbles, stalls, exits or is killed. Buffers have
capacity 1 in the run, any capacity in the theorems.

### Application

`Hosts` and `Jobs` have disjoint state; `App` joins them in one loop. A handler of
`Hosts` is an operator on the record `host`, and `host.dirty` is `needRender`.
Widths are `Whole` or `Boxed`, so that a resize, which changes both, can be
told from a change of slot. Answers to render requests come in any order, from
the set `wire`; the generation counters are bounded by the world, a component
lives at most twice. `Jobs` has the loop, the bounded queues, the worker that
makes one call at a time, and the posts that come back; `caused` bounds the calls
of the user and `signals` the Ctrl+Cs.

### Terminal runtime

The loop's `todo` holds what it has still to do between two releases of the lock,
Stop is a thread of its own, the emulator answers at once and in order, and the
delay is the reader's. Reads are cut between sequences, in the worlds that say
"pauses" anywhere. `late` holds the modes that slip through Stop in one of two
windows: the loop switches a mode on after Stop was through with it, or it has
switched one on and is about to note that when Stop reads the notes. A mode that is on without a note due is not among them, so a
forgotten disable shows. The digits of sequences are abstracted. Left out: failing
writes, sizes, notifications, title and progress, cursor queries, mouse reports,
UTF-8, the paste watchdog, suppression of doubled Kitty keys, OSC 99, the
headless mode.

### Viewport

A call of the library is one step, since nothing else runs. A frame is a text per
row; wide cells take two columns and the overwritten half of one turns blank.
`kept` is what stands around the viewport and is measured again after each
resize, which loses rows in ways that are the emulator's. Every kind of insertion
gets rows with wide graphemes; `shifted` remembers that `drawLines` has put such a
row one column off (see *Seen while modelling*), and where. The cursor a Draw or a
resize asks for is the emulator's, as the TTY backend reports it; the one that
`ANSIBackend` tracks itself is left out. So are skipped,
always-updated and forced-width cells, VS16 emoji, failing flushes, failures
inside InsertBefore or Resize, the frame count, cursor visibility.

### Composition

The header (a remote component), the transcript and the editor are the children
of the root. Paints, coalesced requests and draws come at any moment between the
events of the application. The engine's feedback, the number of committed rows,
is any prefix of the frame it drew, and reaches only the root that composed it.
Images take one row, the protocol is Kitty's. The prepared rows decide nothing
about what is composed and are left out of the state the run distinguishes
(`VIEW Composed`); a run of their own looks at them.

### Editor

The text is one sequence of graphemes. A paste marker is text like any other, since
the application gives its editors no pattern of tokens to keep whole: erasing,
moving by a grapheme or a word, typing, killing and undoing may all cut one. It
takes seven tokens or eight: `[`, `Paste`, a space, `#`, one or two digits, the size
and `]`. Three things longer than a grapheme are one token: the word `Paste`, the
size with what leads to it, and a pasted text that was sent (no pasted text holds a
bracket). The size and the pasted text carry a ghost number that tells the pastes
apart. `pastes` is the map with its counter and its order of iteration any
bijection; a marker is looked for as the code does, by its opening and its
number, and reaches to the next `]`. A yank-pop compares what the code compares: the
number of lines, the first and the last. `run` (what a yank should bring back) and
`pasted` (what each marker stands for) are history variables. Eight worlds of keys,
four of them with pastes: against line kills and undo, against erasing, moving and a
typed `]`, against word kills and undo, and against the prompt history. Left out: the completion list, jump
mode, the selection (only an API sets one), word joiners, wrapping, the column
that up and down remember, the space added after a pasted path.

## The runs

| Run | Shows | Bounds | Distinct states |
|---|---|---|---|
| `scheduler` | `PendingHasADrawer`, `FlushHasDrawn`, `CoalescingLosesNothing`, `EngineTouchedWhenIdle`, `ImplementsFrameServer`; live: `LatestIsDrawn`, `CallsReturn` | 2 callers, 3 timers, 2 requests, 2 reasons, rows 0 or 1, interval 1 | 191,537 |
| `engine` | `PhysicalHistory`, `FrameOnScreen`, `OnceInOrder`, `NothingIsLost`, `StaleIsOwed`, `MarksOrdered`, `SnapshotsDriftQuietly` | frames of up to 4 rows in 2 versions, heights 1 and 2, 3 committed rows, resync looks 3 back at 2 samples, 9 worlds | 26,065 |
| `terminal_input` | `HeldIsTimed`, `KeysOnceInOrder`, `VerdictIsForTheKey`, `NobodyOvertakes`; live: `KeysAreReleased` | queue of 2, 5 keys, 4 messages | 163,714 |
| `terminal` | `AnswersReachTheirQuery`, `KeysSurvive`, `StopRestores`; live: `CallsReturn` | 8 worlds, up to 2 keys, 1 suspension, 1 buffered event | 440,497 |
| `client` | `NoSendOnClosed`, `ClosedIsQuiet`, `FramesInOrder`; live: `EverybodyReturns` | 2 callers, 2 subscriptions, buffers of 1, up to 4 frames, 8 worlds | 371,849 |
| `app` | `DialogsAnsweredOnce`, `KeysReachAVisibleOverlay`, `NewestAnswerShown`, `ImagesInOnePlace`; live: `LoopGetsOn` | 9 worlds of up to 2 remotes, 2 dialogs, 2 mounts, 2 images; queues of 1 | 399,687 |
| `viewport` | `ScreenIsTheBackBuffer`, `SurroundingsAreKept` | windows of up to 4 by 5, 12 worlds | 74,359 |
| `composition` | `FrameIsCurrent`, `HintFitsTheEngine`, `GraphicsAreLoaded` | 3 blocks of up to 2 rows, 2 widths, room for 1 graphic, 2 to 4 changes, 5 worlds | 316,092 |
| `editor` | `KillsComeBack`, `MarkersExpand`, `KeepsUndoLine` | 5 to 7 keys, 3 undo steps, 3 kill entries, 2 prompts, numbers in base 3, 8 worlds | 229,047 |
| `terminal_suspend` | `SuspendIsSurvived` is violated | one emulator, one suspension | |
| `prepared_rows` | `PreparedIsTheFrame` is violated | text only, 2 changes | |
| `own_picture` | `OwnPicture` is violated | messages with a picture, 2 changes | |

Why the bounds are enough. Every limit of the code that a property could depend
on is reached: a frame of 4 rows scrolls a window of 2 twice and of 1 three
times, both sides of the resync's look-back occur; a queue of 2 overflows with
the keys of the third world left over to be overtaken; a channel of capacity 1
blocks its writer, and the joined-then-closed races of the client need one send
in flight and one waiting; three kills overflow the ring and the undo stack, and
in base 3 the marker `1` is a prefix of `10`, as the code's is in base 10; seven
keys paste twice, cut the first marker, and send; a marker is within reach of a
move and an erasure from either end; two
blocks and room for one graphic make the budget demote. In the scheduler two
callers give one that draws and one that waits or stops, three timers a live
one, a stopped one whose callback is under way, and a free slot. The run has
only two requests because its two liveness properties double the graph; the
theorems cover any number, of callers, timers and reasons too.

`SYMMETRY` is used only in `engine`, over the versions of rows, which no action
tells apart. `VIEW Live` drops the screen and what is remembered of it while a
first paint is due, since the next Draw erases both, and keeps it where a
resize could push it into the scrollback. `VIEW Composed` drops the prepared
rows, on which nothing else depends. Deadlock is checked in `viewport`; in the
other runs the bounded users, peers and children may stop, and a program that
has been stopped has nothing left to do.

### Fairness

* Scheduler: each woken caller gets on, each Draw returns, a timer that is armed
  fires, a fired callback runs and the clock ticks. Go's runtime runs every
  runnable goroutine, and terminal writes return. Nobody has to make a call.
* Terminal input: the loop reads the frames that have arrived, and its timeout
  fires. The core never has to answer.
* Terminal: the input loop runs, and so does whoever is inside Stop or the drain,
  which has a deadline. Nobody has to read an event or to type; the emulator does
  not have to answer.
* Client: the goroutines run, taken together, since no behaviour has a cycle. No
  child has to answer or exit unless it is killed, no caller has to call and
  no subscriber to read.
* Application: the RPC worker gets on, since its calls have time-outs, and a
  handler that waits for room in the queue gets it.

Safety runs and theorems need none of this.

## Findings

* **A resumed program quits** (`terminal_suspend`, `src/ompui/app/app.go:633`).
  The loop takes the runtime's events channel once. Suspending stops the
  terminal, which closes it, and resuming makes a new one; the loop's next
  read finds the old one closed and ends the program with "tty-closed".
* **Rows come out blank** (`prepared_rows`, `src/ompui/renderer/prepare.go:52`).
  When a frame outgrows the capacity of the prepared rows, they are replaced by
  blank ones but the count of valid ones is kept, so those under the stable
  floor stay blank until the root is rebuilt.
* **A message shows another's picture** (`own_picture`,
  `src/ompui/view/message.go:779`). The key of a message's image is its index
  alone, and images are kept by key.

## What is proved

Eight proof modules, each beside the module it is about; TLAPS (tlapm 1.4.5, Z3,
Zenon and LS4) checks every leaf. The theorems hold for every value of the constants
that meets the named assumption of the module: positive sizes, distinct
sentinels, worlds made of known events. TLC evaluates those assumptions in each run.
Unless something else is said a theorem is of the form `Spec => []P`, with an
inductive invariant that was checked by TLC first.

**Scheduler** (any callers, timers, reasons, interval, number of requests).
`TypeCorrect`; `ControlCorrect` (one Draw at a time, none after Stop, a pending
request has a live timer, a Draw in flight or a woken Flush behind it), where
what has to be added is that the armed flag is true only of a live timer;
`DataCorrect` (coalescing keeps the smallest stable prefix, the strongest reason
and every image, so the invariant relates the pending request to everything
handed over since the last draw); `FrameCorrect` (a Flush that returned nil has
had its frame drawn); `Refinement` (`Spec => ImplementsFrameServer`, each step a
step of `FrameServer` or a stutter); `TouchCorrect`.

**Ledger** (any frames, heights, look-back, samples, in-place terminals and
multiplexers). `MarksStayOrdered` and `HistoryIsTheFrame` from the invariant
that marks are typed and ordered, the stored prefix is as long as the counter
says, and a calm history is that prefix. `Kept(R)` is stated for any set of rows,
because the engine's frames can hold the overlay's box.

**Engine**, the same and any terminal. `EngineCorrect` is the invariant: the rows
and marks are typed, the ledger's history is right, and `Tracks`: what the
engine remembers of screen, size and cursor row is what the terminal has, unless a
first paint is due or something is stale. One lemma per emitter (`FullPaintLands`,
`SeamRewriteLands`, `WindowDiffLands`, `ScrollAppendLands`) says that moves and
line feeds leave the window on the screen and push just the committed rows;
they rest on lemmas about writing rows downwards on a screen that scrolls
(`PutFits`, `Written`, `FlowsFromTop`), proved by taking the first row that
would be wrong. From it: `EngineHistory`, `EngineMarks`, `HistoryIsPhysical`,
`FrameStaysOnScreen`. `DriftStaysQuiet` is an action property: drift of exempt
rows only extends the history. It needs that a frame which differs from the
committed prefix at most in exempt rows takes neither the tail resync nor the
shrink path. `StaleStaysOwed` holds where ED3 is used (no in-place terminal, no
multiplexer) and where what makes rows stale (a resize, a replaced session)
does not meet what loses the reason of a repaint (a failing write, a fullscreen
overlay). The second hypothesis is a set of behaviours, not a
convenience: without it the property is false, see below. `FinalRowsAreKept`
(`NothingIsLost`, where resizes rebuild the scrollback) says that every final row
above the window is in the scrollback, in order. Its invariant `Intact` links four
things a unit test sees one at a time: the committed prefix can be read off the
history, durable rows are final, they are the frame's, and on the normal screen so
are the final rows that are committed. The step that matters is an audit: whatever
it decides to send again, what it keeps is what the frame shows (`AuditShows`,
`ResyncKeeps`, `PaintRecords`), and embedding is closed under the
cuts and extensions a plan makes (`EmbedsPart`, `EmbedsJoin`, `EmbedsEnd`). The
property itself leaves out what the code does not promise or does not keep
(`LosesNothing`): live rows called durable, final rows called live, frames that
shrink, and a session replaced under a fullscreen overlay.

**Terminal input** (any queue, number of keys and messages).
`BridgeTypeCorrect`, `HeldAlwaysTimed`, `KeysAreHandledOnce`, `HeldKeysInOrder`,
`KeysOnce`, `VerdictsAreForTheKey`, and the action property `NobodyIsOvertaken`.
The invariant is the line of keys: those applied, those in flight or queued, in
one order, each attested by what the core said or by a reason to give up.

**RPC client** (any callers, subscriptions, capacities).
`ClientTypeCorrect`; `SendsMeetOpenChannels`, which needs that the number of
sends in flight is the number of routines between joining and leaving;
`NothingRunsAfterClose`, which needs for each routine which steps can still be
on its list and in which order; `FramesStayInOrder`, an action property, where
the frames not yet delivered are rising, behind those that have been, and
without a gap until the child is reaped.

**Application** (any worlds: components, slots, dialogs, mounts, prompts, queues).
`AppTypeCorrect`; `ImagesAreConserved` (each image is in exactly one of the
places an image can be); `RequestsAreAnswered` and `OverlaysGetTheKeys` (the
stack and its focus are sound, every unanswered request has its dialog on the
stack, every mounted overlay its entry); `NewestAnswersShown` (for each remote
the shown answer, the generation asked for and the width last painted agree, for
answers in any order).

**Editor** (any bounds, letters, drafts, mixtures of keys). `EditorCorrect`: both
stacks within their bound together, what the mark of the last command implies of
the ring and of the text; `YanksUndoKills`, `MarkersKeepTheirText`, and
`UndoIsALine` (`Spec => KeepsUndoLine`, the refinement of `UndoLine`). Each key is
first shown to have one of a few effects (`NextEffect`), then each effect to keep
the invariant. `MarkersKeepTheirText` speaks of any text, cut up in any way, around a
whole marker. Its argument is about replacing: one replacement in front of a place
no marker goes over leaves what is behind it alone, and the other way round; in a
text whose openings are all closed no marker goes over its end, and replacing keeps
that so; a marker is replaced by its own number and by no other with fewer than `Radix` texts kept; and every replacement
shortens the text, so that a bounded number of rounds removes them all, in
whichever order the kept texts come. The rounds are a row of states, and what holds
of all of them follows from the least for which it would not.

**Composition** (any widths, blocks, rows, images, cap and worlds). Four theorems.
`CompositionTypeCorrect`. `FramesAreCurrent`: what was painted is what the parts are
to show now. Its invariant says of every retained block that it shows the inputs it was
built from, in the state of hidden thinking and the width it remembers (`Known`), and
that wherever rows may be committed, or a draw that waits may still commit some, these
inputs are those of now (`Matching`), since committed blocks are replayed without
looking. The root's memo is the rows of three children, each of which is the child's
while the remembered generation is the child's (`MemoInv`). `HintsFitTheEngine`: a
report is about the frame composed last, and merging takes the least, so what a
waiting request calls stable is in the frame drawn last (`HintInv`); the report
itself is right because the container sums whole children and one child's
report (`Composes`, from `StableRowsUnfold` and `CommonIs`). `GraphicsStayLoaded`
has an invariant of its own, `GraphicsInv`: what the budget believes transmitted is in
the store or will be by the request that waits, as the right picture and not deleted
(`HasPicture`); a component that was rendered as a graphic is believed transmitted
(`CacheTold`); and a retained block that ends in a graphic names such an image. One pass is
followed block by block (`PassOk`, `PassStep`): an image among the first ones it
meets is shown as text, so that no image a pass deletes is one it shows. The layout, the
stable rows and the blocks wanted are recursive functions; each is unfolded from
the existence of its initial parts, and what holds for all parts follows from the
least part for which it would not (`UpTo`), which needs no induction rule.
TLC checked both invariants on the instance of the run, without its view, first.

**Terminal** (any worlds). `TerminalCorrect`: who may run when, what the loop may still
have to do about the mouse, what is asked and complete. `StopTakesModesBack`: once Stop
has returned, every mode is off but those of the two windows. It needs that until Stop
has read the notes (`Noted`) every mode that is on is noted, or its note is still
to be made by the loop, or it is one that Stop resets without looking; so whatever the
loop still has to do must switch on only what it goes on to note, and take back a
note only of what it has just switched off (`Tidy`). From there on (`Undone`) what is
on is in what Stop has seen and is going to reset.

## What is only model-checked

* Liveness (`LatestIsDrawn`, both `CallsReturn`, `KeysAreReleased`, `EverybodyReturns`,
  `LoopGetsOn`): the prover does not reason about fairness over infinite state spaces.
* `AnswersReachTheirQuery` and `KeysSurvive` of the terminal: both follow every byte
  from the wire through the carry of the probe, the decoder's recursive functions and
  the channels. The candidate invariant says that all bytes still under way, in the order
  of the stream, are a sequence of whole tokens; the least-part argument above would
  unfold the decoder, but the step lemmas for each way a token can be cut (a carry,
  a flushed piece, an open paste) are not written. These two rest on the run alone.
* Everything of `Viewport`: drawing a frame and the difference of two buffers are
  folds over cells and the updates they make.
* The three violation runs: a counterexample is a fact about an instance.

## What is not modelled

The rest of the table above, with the reason in `PROJECT.json`. In short: text
conversions (wrapping, Markdown, LaTeX, Mermaid, highlighting, widgets,
encoders), whose correctness is character by character; the layout solver;
decisions over the environment; file and process I/O. The session model's event
folding has state, but its result is a value the parts here only display.

## Seen while modelling

Things the code does that no run is about, or that a property exempts. They are
noted so that nobody takes a passing run for more than it says.

*Ledger and engine.* An in-place resize takes the committed prefix from a frame
that has not been audited (`ledger.go:255`), so a changed final row never
reaches the scrollback. The audit tolerates one row that changed; if the frame
shrinks below the committed rows at the same time, the stored prefix is
overwritten and the row's final form is nowhere in the scrollback, although
`step.go:75` says "Never loses content". A resize there and back, or a session
replaced, under a fullscreen overlay is never rebuilt (`engine.go:177` returns
before the reason is looked at). A repaint for a resize or a replacement whose
write fails is repeated as a plain one, without ED3 (`engine.go:226`). A failed
write that enters or leaves the alternate screen does not mark the screen
unknown (`engine.go:156`). The cursor row of an overlay is clamped to the
length of the frame below it (`cursor.go:115`).

*Scheduler.* A Flush of nothing, with nothing pending, returns during a Draw,
although `scheduler.go:254` and `doc.go:41` say that it waits. A callback that
had expired when it was cancelled may draw sooner than the interval allows.

*Composition.* A draw under a fullscreen overlay returns before the prepared rows
are invalidated and spends the stable-prefix report (`HintFitsTheEngine` exempts
those as `missed`). `Container.Render` overwrites the report instead of taking
the minimum (`component.go:53`). The application depends on rebuilding the root
at every snapshot. A transcript emptied while its root lives keeps its
generation. Rows of prepared frames are stale in a second way, under
fullscreen overlays.

*Images.* The number of graphics is not kept: blocks that the transcript retains
are not observed (`image.go:142` says every pass must), so a pass after a full one
sees few images, drops the plan and more than the cap stay. The newest image may be the
one demoted, a suppressed image below the watermark keeps its placement, a request
that merges a deletion with a later transmission of the same image deletes what
it sent, a failed draw's data is never sent again (nothing calls
`ForgetTransmitted`), and the images of a replaced conversation keep their ids.

*Editor.* A marker that lost its `]` to some key runs on to the next one when the
prompt is sent, and the text and the markers in between are lost with it, a later
paste too (`buffer.go:685`); `MarkersExpand` exempts a marker that stands behind an
opening without a `]` of its own. The marker `[Paste #1` is a prefix of `[Paste #10`, and the map is walked
in random order (`buffer.go:677`): `MarkersExpand` speaks of prompts with fewer
than ten pastes. A paste that contains its own marker makes the expansion loop
forever. Submitting resets the counter, so an older marker that is yanked takes a
later paste's text. A kill with an active selection calls `SelectedText` under the
lock it needs (`buffer.go:362`); nothing in the application selects. The completion
list is not updated by moves, kills, yanks and newlines, although
`autocomplete.go:120` says it is. Accepting a completion and the core's
`set_cursor` do not end a run of kills.

*RPC client.* Shutdown of a v1 peer writes its frame before it starts a timer, so a
child that stalls holds it (`EverybodyReturns` exempts this). Frames that arrive
after the child was reaped are dropped, although the comment says "never silently
dropped", and `Wait` of `os/exec` may close the pipe before the last are read.

*Application.* A failed prompt's text replaces a newer draft, and two failing
prompts reverse the order of their images; a prompt whose call timed out
after the core took it is restored and can be sent twice (the model's
`unsure`). A loop that ends by "tty-closed" does not cancel its context. A remote that is
disposed and opened again with a request unanswered shows the older rows
(`NewestAnswerShown` exempts it as `reused`). `EndPass` may overwrite the reason of
a reset. Closing a component dialog leaves its remote registered. Showing a
lower overlay again takes the focus from the top one. A select request with an id
in use replaces the old one without an answer. An abort waits behind a slow call.

*Terminal input.* Keys typed after the core has unsubscribed overtake those held.

*Terminal runtime.* Stop races with the loop in two windows: a keyboard protocol or
the alternate screen whose sequence was just written, but which is not yet noted
(`terminal.go:1490`, `1381`), is missing from Stop's snapshot, and what the loop
switches on after that is not looked at again, but for the mouse. `StopRestores`
exempts both, as `late`. The time-out of a cursor query is not cancelled and ends the next one. A
colour query that is queued behind another is not started. The drain throws
answers away. An escape key typed less than 50 ms before an answer merges with
it, and an answer that pauses longer than that leaks into the keys. A progress
indicator is never cleared.

*ratatui.* The difference of two buffers skips an unchanged cell at the end of two
overlapping styled wide characters (`diff.go:173`). `drawLines` sends the blank under a
wide grapheme along with it, and the ANSI backend, which takes a cell for adjacent
when it follows the last one (`ansi.go:231`), prints it one column too far right: an
inserted row with such a grapheme stands one column off and its last cell wraps. The
insertions that draw over cleared rows skip the blank and are right
(`terminal.go:564` against `597`). `ScreenIsTheBackBuffer` and `SurroundingsAreKept`
exempt what such a row has spoilt: the viewport until a Clear, what stands above it
until the next resize. `InsertBefore` moves the viewport
but not the remembered cursor, which a resize then uses (`terminal.go:375`). A failed
Draw followed by a different frame, or by a change of width, leaves cells stale. A
window that is resized and back between two draws goes unnoticed.

## Plan

1. The attribution of answers (`AnswersReachTheirQuery`) for parsers of single
   sequences, without the bytes.
2. `SurroundingsAreKept` for viewports, from lemmas about the emulator's scrolling.
