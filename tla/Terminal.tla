------------------------------- MODULE Terminal -------------------------------
(***************************************************************************)
(* The owner of the TTY (ompui/runtime/terminal.go): Start, the input loop *)
(* with its commands and probes, the drain, and Stop, with the terminal    *)
(* emulator, the user and the application's loop around it.  The lock is   *)
(* let go between looking at the state and writing to the TTY, so what the *)
(* loop does is a list of small steps and Stop is a thread of its own.     *)
(* Left out: failed writes, sizes, notifications and cursor queries.       *)
(***************************************************************************)
EXTENDS Probes, FiniteSets

CONSTANTS
  Worlds,    \* what the emulator supports and what happens, one bundle each
  EventCap   \* capacity of the events channel

ASSUME TerminalAssumption == EventCap \in Nat \ {0}

VARIABLES
  world,    \* [features, keys, quits, events]: chosen once
  screen,   \* the emulator: modes that are on, bytes on their way to us
  term,     \* Terminal's fields under mu
  loop,     \* the input loop: running, what it still has to do, draining
  dec,      \* its decoder
  probe,    \* its probe router
  cmds,     \* the command channel
  chans,    \* the events channels, one for each Start
  stopCh,   \* closed by Stop
  stopper,  \* the caller inside Stop: where it is and the modes it saw
  app,      \* the application's loop: what it does, which channel it reads
  typed,    \* keys the user typed since Start
  seen,     \* keys the application received since Start
  late      \* modes that slipped through Stop: switched on too late, or not yet noted when it looked

vars == <<world, screen, term, loop, dec, probe, cmds, chans, stopCh, stopper, app, typed, seen, late>>

Init ==
  /\ world \in Worlds
  /\ screen = [modes |-> {}, wire |-> <<>>]
  /\ term = [started |-> FALSE, stopped |-> FALSE, flags |-> {}, resolved |-> {}, supported |-> {},
             fallback |-> FALSE, due |-> FALSE, appearance |-> FALSE]
  /\ loop = [on |-> FALSE, todo |-> <<>>, draining |-> FALSE]
  /\ dec = NewDecoder /\ probe = NoProbes /\ cmds = <<>>
  /\ chans = <<>> /\ stopCh = TRUE
  /\ stopper = [at |-> "out", saw |-> {}]
  /\ app = [does |-> "start", reads |-> 0, suspends |-> world.suspends, why |-> ""]
  /\ typed = <<>> /\ seen = <<>> /\ late = {}

-----------------------------------------------------------------------------
(* The emulator answers at once and in order; how long the answer is under *)
(* way is up to the reader.  Modes it does not know stay off.              *)
Knows(m) == m \in {"raw", "paste", "mouse", "modify", "alt", "noscroll"} \cup world.features

TurnedOn(m)  == [screen EXCEPT !.modes = IF Knows(m) THEN @ \cup {m} ELSE @]
TurnedOff(ms) == [screen EXCEPT !.modes = @ \ ms]

Reply(kind) ==
  CASE kind = "keyboard" -> IF "kitty" \in world.features THEN KittyFlags ELSE <<>>
    [] kind = "colour"   -> IF "colour" \in world.features THEN Colour ELSE <<>>
    [] OTHER             -> IF "decrqm" \notin world.features THEN <<>>
                            ELSE DECRPM(kind, IF kind \in world.features THEN "+" ELSE "-")

Asked(kind) == [screen EXCEPT !.wire = @ \o Reply(kind) \o DA1]

(* A mode that Stop is through with already is on again.                   *)
StopIsPast(m) ==
  stopper.at \in {"unwinding", "closing", "waiting"} \/ (m = "appearance" /\ stopper.at = "looking")

Missed(m) == IF StopIsPast(m) THEN late \cup {m} ELSE late \ {m}

(* On, but the loop has not taken the lock again to note it, so that Stop  *)
(* cannot see it.                                                          *)
NoteDue(m) == \E i \in DOMAIN loop.todo : loop.todo[i].op = "note" /\ loop.todo[i].arg = m
Unnoted    == {m \in screen.modes \ term.flags : NoteDue(m)}

-----------------------------------------------------------------------------
(* Start: a fresh set of channels, raw mode, bracketed paste, and the      *)
(* probes as the loop's first command.                                     *)
StartProbes ==
  <<Act("probe", "keyboard"), Act("probe", "colour"), Act("on", "appearance"),
    Act("probe", "inband"), Act("probe", "scroll")>>

Start ==
  /\ app.does = "start"
  /\ term' = [term EXCEPT !.started = TRUE, !.stopped = FALSE]
  /\ screen' = [screen EXCEPT !.modes = @ \cup {"raw", "paste"}]
  /\ loop' = [on |-> TRUE, todo |-> <<>>, draining |-> FALSE]
  /\ dec' = NewDecoder /\ cmds' = <<Act("startProbes", "")>>
  /\ chans' = Append(chans, [buf |-> <<>>, closed |-> FALSE]) /\ stopCh' = FALSE
  /\ app' = [app EXCEPT !.does = "run", !.reads = IF @ = 0 THEN 1 ELSE @]
  /\ typed' = <<>> /\ seen' = <<>>
  /\ UNCHANGED <<world, probe, stopper, late>>

-----------------------------------------------------------------------------
(* The input loop does the first thing it has to do, which may make it do  *)
(* others next.                                                            *)
Doing(name) == loop.on /\ loop.todo # <<>> /\ Head(loop.todo).op = name
Arg         == Head(loop.todo).arg
Then(acts)  == loop' = [loop EXCEPT !.todo = acts \o Tail(@)]

(* startProbes and its queries: after Stop began no more of them, but the  *)
(* first, and the appearance reports, go out all the same.                 *)
Skipped(kind) ==
  kind # "keyboard" /\ (term.stopped \/ kind \in term.resolved)

Queued(kind) == kind = "colour" /\ (probe.pending \/ hasOwner(probe, "colour"))

Probe ==
  /\ Doing("probe") /\ Then(<<>>)
  /\ LET kind == Arg IN
       IF Skipped(kind) THEN UNCHANGED <<screen, term, probe>>
       ELSE IF Queued(kind) THEN probe' = [probe EXCEPT !.queued = TRUE] /\ UNCHANGED <<screen, term>>
       ELSE /\ probe' = [pushOwner(probe, kind) EXCEPT !.pending = @ \/ kind = "colour",
                                                       !.osc11 = IF kind = "colour" THEN <<>> ELSE @]
            /\ screen' = Asked(kind)
            /\ term' = [term EXCEPT !.fallback = @ \/ kind = "keyboard"]
  /\ UNCHANGED <<world, dec, cmds, chans, stopCh, stopper, app, typed, seen, late>>

(* A write that turns a mode on or off.                                    *)
TurnOn ==
  /\ Doing("on") /\ Then(<<>>) /\ screen' = TurnedOn(Arg) /\ late' = Missed(Arg)
  /\ UNCHANGED <<world, term, dec, probe, cmds, chans, stopCh, stopper, app, typed, seen>>

TurnOff ==
  /\ Doing("off") /\ Then(<<>>) /\ screen' = TurnedOff({Arg}) /\ late' = late \ {Arg}
  /\ UNCHANGED <<world, term, dec, probe, cmds, chans, stopCh, stopper, app, typed, seen>>

(* The lock is taken again to note what was written.                       *)
Note ==
  /\ Doing("note") /\ Then(<<>>) /\ term' = [term EXCEPT !.flags = @ \cup {Arg}]
  /\ UNCHANGED <<world, screen, dec, probe, cmds, chans, stopCh, stopper, app, typed, seen, late>>

Unnote ==
  /\ Doing("unnote") /\ Then(<<>>) /\ term' = [term EXCEPT !.flags = @ \ {Arg}]
  /\ UNCHANGED <<world, screen, dec, probe, cmds, chans, stopCh, stopper, app, typed, seen, late>>

(* enableInBandResize and disableXtermScrollToBottom note it first.        *)
Claim ==
  /\ Doing("claim")
  /\ IF Arg \in term.flags \/ term.stopped THEN Then(<<>>) /\ UNCHANGED term
     ELSE Then(<<Act("on", Arg)>>) /\ term' = [term EXCEPT !.flags = @ \cup {Arg}]
  /\ UNCHANGED <<world, screen, dec, probe, cmds, chans, stopCh, stopper, app, typed, seen, late>>

NotRechecked == <<Act("note", "mouse")>>

(* setMouseMode: a command that loses the race against Stop resets the     *)
(* modes once more.                                                        *)
Rechecked == <<Act("mouseNote", "")>>

SetMouseMode ==
  /\ Doing("mouse")
  /\ Then(IF term.stopped \/ "mouse" \in term.flags THEN <<>> ELSE <<Act("on", "mouse")>> \o Rechecked)
  /\ UNCHANGED <<world, screen, term, dec, probe, cmds, chans, stopCh, stopper, app, typed, seen, late>>

NoteMouseMode ==
  /\ Doing("mouseNote")
  /\ IF term.stopped THEN Then(<<Act("off", "mouse")>>) /\ UNCHANGED term
     ELSE Then(<<>>) /\ term' = [term EXCEPT !.flags = @ \cup {"mouse"}]
  /\ UNCHANGED <<world, screen, dec, probe, cmds, chans, stopCh, stopper, app, typed, seen, late>>

(* The answers to the probes, and the lack of one.                         *)
Resolve ==
  /\ Doing("resolve")
  /\ LET m == Arg.mode IN
       IF m \in term.resolved THEN Then(<<>>) /\ UNCHANGED term
       ELSE /\ Then((IF m = "inband" /\ Arg.supported THEN <<Act("claim", "inband")>> ELSE <<>>)
                    \o <<Act("emit", <<"mode">>)>>)
            /\ term' = [term EXCEPT !.resolved = @ \cup {m},
                                    !.supported = IF Arg.supported THEN @ \cup {m} ELSE @]
  /\ UNCHANGED <<world, screen, dec, probe, cmds, chans, stopCh, stopper, app, typed, seen, late>>

(* Pops a keyboard protocol that is noted as on (in                        *)
(* disableKeyboardProtocols and before the kitty push).                    *)
Withdrawn(m) == IF m \in term.flags THEN <<Act("off", m), Act("unnote", m)>> ELSE <<>>

KittyAnswers ==
  /\ Doing("kitty")
  /\ Then(Withdrawn("modify") \o <<Act("on", "kitty"), Act("note", "kitty")>>)
  /\ term' = [term EXCEPT !.fallback = FALSE]
  /\ UNCHANGED <<world, screen, dec, probe, cmds, chans, stopCh, stopper, app, typed, seen, late>>

(* The same for the timer and for a DA1 without an answer before it.       *)
KeyboardMiss ==
  /\ Doing("keyboardMiss")
  /\ IF term.flags \cap {"kitty", "modify"} # {} THEN Then(<<>>) /\ UNCHANGED term
     ELSE /\ Then(<<Act("on", "modify"), Act("note", "modify")>>)
          /\ term' = [term EXCEPT !.fallback = FALSE]
  /\ UNCHANGED <<world, screen, dec, probe, cmds, chans, stopCh, stopper, app, typed, seen, late>>

ColourAnswers ==
  /\ Doing("colour")
  /\ Then(IF term.appearance THEN <<>> ELSE <<Act("emit", <<"appearance">>)>>)
  /\ term' = [term EXCEPT !.appearance = TRUE]
  /\ UNCHANGED <<world, screen, dec, probe, cmds, chans, stopCh, stopper, app, typed, seen, late>>

(* The emulator changed its colours: ask again, after a moment.            *)
AppearanceChanged ==
  /\ Doing("dsr") /\ Then(<<>>) /\ term' = [term EXCEPT !.due = TRUE]
  /\ UNCHANGED <<world, screen, dec, probe, cmds, chans, stopCh, stopper, app, typed, seen, late>>

(* An event waits for room, or for Stop.                                   *)
Current  == Len(chans)
HasRoom  == Len(chans[Current].buf) < EventCap
Emitted  == [chans EXCEPT ![Current].buf = Append(@, Arg)]
NeverGivesUp == FALSE
GivesUp      == stopCh

Emit ==
  /\ Doing("emit") /\ Then(<<>>)
  /\ \/ HasRoom /\ chans' = Emitted
     \/ GivesUp /\ UNCHANGED chans
  /\ UNCHANGED <<world, screen, term, dec, probe, cmds, stopCh, stopper, app, typed, seen, late>>

-----------------------------------------------------------------------------
Idle == loop.on /\ loop.todo = <<>>

(* A command.  Drain turns the keyboard protocols off first.               *)
AltKitty == IF "kitty" \in term.flags THEN <<Act("on", "kitty")>> ELSE <<>>

TakeCommand ==
  /\ Idle /\ cmds # <<>> /\ cmds' = Tail(cmds)
  /\ LET c == Head(cmds) IN
       CASE c.op = "startProbes" -> loop' = [loop EXCEPT !.todo = StartProbes] /\ UNCHANGED term
         [] c.op = "mouse" -> loop' = [loop EXCEPT !.todo = <<c>>] /\ UNCHANGED term
         [] c.op = "alt" -> /\ loop' = [loop EXCEPT !.todo = <<Act("on", "alt"), Act("note", "alt")>> \o AltKitty]
                            /\ UNCHANGED term
         [] c.op = "fallback" -> loop' = [loop EXCEPT !.todo = <<Act("keyboardMiss", "")>>] /\ UNCHANGED term
         [] c.op = "probe" -> loop' = [loop EXCEPT !.todo = <<c>>] /\ UNCHANGED term
         [] c.op = "drain" ->
              /\ loop' = [loop EXCEPT !.draining = TRUE, !.todo = Withdrawn("kitty") \o Withdrawn("modify")]
              /\ term' = [term EXCEPT !.fallback = FALSE]
  /\ UNCHANGED <<world, screen, dec, probe, chans, stopCh, stopper, app, typed, seen, late>>

(* The sequences the decoder has ready are routed, or dropped in a drain.  *)
Route ==
  /\ Idle /\ dec.out # <<>> /\ dec' = [dec EXCEPT !.out = Tail(@)]
  /\ IF loop.draining THEN UNCHANGED <<loop, probe>>
     ELSE LET r == route(probe, Head(dec.out)) IN
          probe' = r.p /\ loop' = [loop EXCEPT !.todo = r.acts]
  /\ UNCHANGED <<world, screen, term, cmds, chans, stopCh, stopper, app, typed, seen, late>>

(* Some of the bytes, cut between two sequences or, if the emulator pauses,*)
(* anywhere.                                                               *)
Arrives(n) ==
  "pauses" \notin world.events /\ n < Len(screen.wire) => screen.wire[n + 1] \in {Esc, "k"}

Read ==
  /\ Idle /\ dec.out = <<>> /\ ~stopCh
  /\ \E n \in 1..Len(screen.wire) :
       /\ Arrives(n)
       /\ screen' = [screen EXCEPT !.wire = SubSeq(@, n + 1, Len(@))]
       /\ dec' = IF loop.draining THEN dec ELSE Write(dec, SubSeq(screen.wire, 1, n))
  /\ UNCHANGED <<world, term, loop, probe, cmds, chans, stopCh, stopper, app, typed, seen, late>>

(* The flush deadline: the bytes of an answer stopped coming, no earlier   *)
(* than after the three that introduce it.  Pastes and keys come whole.    *)
FlushDue ==
  /\ Idle /\ dec.out = <<>> /\ ~stopCh /\ "pauses" \in world.events
  /\ Len(dec.buf) >= 3 /\ probe.owners # <<>> /\ ~loop.draining
  /\ PrivateCSIPartial(dec.buf) \/ IsPrefix(SubSeq(Colour, 1, 3), dec.buf)
  /\ dec' = flushExpired(dec)
  /\ UNCHANGED <<world, screen, term, loop, probe, cmds, chans, stopCh, stopper, app, typed, seen, late>>

(* The drain ends after its longest or its idle time.                      *)
DrainEnds ==
  /\ Idle /\ loop.draining /\ dec.out = <<>>
  /\ loop' = [loop EXCEPT !.draining = FALSE]
  /\ app' = IF app.does = "draining" THEN [app EXCEPT !.does = "stop"] ELSE app
  /\ UNCHANGED <<world, screen, term, dec, probe, cmds, chans, stopCh, stopper, typed, seen, late>>

(* The end of the input is an event too; after it, or when stopCh is       *)
(* closed, the loop leaves and closes the channel.                         *)
InputEnds ==
  /\ Idle /\ ~stopCh /\ "eof" \in world.events /\ screen.wire = <<>> /\ Len(typed) = Len(world.keys)
  /\ loop' = [loop EXCEPT !.todo = <<Act("emit", <<"closed">>), Act("leave", "")>>]
  /\ UNCHANGED <<world, screen, term, dec, probe, cmds, chans, stopCh, stopper, app, typed, seen, late>>

Leave ==
  /\ (Idle /\ stopCh) \/ Doing("leave")
  /\ loop' = [loop EXCEPT !.on = FALSE] /\ chans' = [chans EXCEPT ![Current].closed = TRUE]
  /\ UNCHANGED <<world, screen, term, dec, probe, cmds, stopCh, stopper, app, typed, seen, late>>

LoopStep ==
  \/ Probe \/ TurnOn \/ TurnOff \/ Note \/ Unnote \/ Claim \/ SetMouseMode \/ NoteMouseMode
  \/ Resolve \/ KittyAnswers \/ KeyboardMiss \/ ColourAnswers \/ AppearanceChanged \/ Emit
  \/ TakeCommand \/ Route \/ Read \/ InputEnds \/ Leave

-----------------------------------------------------------------------------
(* Stop.  The first caller marks the terminal stopped, takes the modes     *)
(* back that it always sets, looks at the others, takes those back, closes *)
(* stopCh, waits for every goroutine and restores the rest.                *)
At(here, next) == stopper.at = here /\ stopper' = [stopper EXCEPT !.at = next]

StopBegins ==
  /\ app.does = "stop" /\ term.started /\ ~term.stopped /\ At("out", "disabling")
  /\ term' = [term EXCEPT !.stopped = TRUE, !.fallback = FALSE, !.due = FALSE]
  /\ UNCHANGED <<world, screen, loop, dec, probe, cmds, chans, stopCh, app, typed, seen, late>>

StopDisables ==
  /\ At("disabling", "looking")
  /\ LET back == {"paste", "mouse", "appearance"} IN screen' = TurnedOff(back) /\ late' = late \ back
  /\ term' = [term EXCEPT !.flags = @ \ {"mouse"}]
  /\ UNCHANGED <<world, loop, dec, probe, cmds, chans, stopCh, app, typed, seen>>

StopLooks ==
  /\ stopper.at = "looking"
  /\ stopper' = [at |-> "unwinding", saw |-> term.flags]
  /\ term' = [term EXCEPT !.flags = @ \ {"noscroll"}]
  /\ late' = late \cup Unnoted
  /\ UNCHANGED <<world, screen, loop, dec, probe, cmds, chans, stopCh, app, typed, seen>>

StopUnwinds ==
  /\ At("unwinding", "closing")
  /\ LET back == stopper.saw \ {"alt"} IN
       screen' = TurnedOff(back) /\ term' = [term EXCEPT !.flags = @ \ back] /\ late' = late \ back
  /\ UNCHANGED <<world, loop, dec, probe, cmds, chans, stopCh, app, typed, seen>>

StopCloses ==
  /\ At("closing", "waiting") /\ stopCh' = TRUE
  /\ UNCHANGED <<world, screen, term, loop, dec, probe, cmds, chans, app, typed, seen, late>>

StopReturns ==
  /\ ~loop.on /\ At("waiting", "out")
  /\ probe' = NoProbes
  /\ LET back == {"raw"} \cup (stopper.saw \cap {"alt"}) IN
       /\ screen' = [TurnedOff(back) EXCEPT !.wire = <<>>]
       /\ late' = late \ back
       /\ term' = [term EXCEPT !.started = FALSE, !.resolved = {}, !.supported = {}, !.appearance = FALSE,
                               !.flags = @ \ back]
  /\ app' = [app EXCEPT !.does = IF app.why = "" THEN "start" ELSE "gone"]
  /\ UNCHANGED <<world, loop, dec, cmds, chans, stopCh, typed, seen>>

Stopping == StopBegins \/ StopDisables \/ StopLooks \/ StopUnwinds \/ StopCloses \/ StopReturns

-----------------------------------------------------------------------------
(* The application's loop reads the channel it took when it began; a       *)
(* closed one ends it, and it drains the input and stops the terminal.     *)
Reading == app.does = "run" /\ chans[app.reads].buf # <<>>

Receive ==
  /\ Reading
  /\ LET e == Head(chans[app.reads].buf) IN
       seen' = IF e \in {<<"mode">>, <<"appearance">>, <<"closed">>} \/ app.reads # Current THEN seen ELSE Append(seen, e)
  /\ chans' = [chans EXCEPT ![app.reads].buf = Tail(@)]
  /\ UNCHANGED <<world, screen, term, loop, dec, probe, cmds, stopCh, stopper, app, typed, late>>

Quits(why) == app' = [app EXCEPT !.does = "drain", !.why = why]

FindsClosed ==
  /\ app.does = "run" /\ chans[app.reads] = [buf |-> <<>>, closed |-> TRUE]
  /\ Quits("tty-closed")
  /\ UNCHANGED <<world, screen, term, loop, dec, probe, cmds, chans, stopCh, stopper, typed, seen, late>>

Quit ==
  /\ app.does = "run" /\ "quits" \in world.events /\ Quits("user")
  /\ UNCHANGED <<world, screen, term, loop, dec, probe, cmds, chans, stopCh, stopper, typed, seen, late>>

(* handleSuspend: Stop, SIGTSTP, and Start again after SIGCONT.            *)
Suspend ==
  /\ app.does = "run" /\ app.suspends > 0
  /\ app' = [app EXCEPT !.does = "stop", !.suspends = @ - 1]
  /\ UNCHANGED <<world, screen, term, loop, dec, probe, cmds, chans, stopCh, stopper, typed, seen, late>>

(* DrainInput waits for the loop, 200 ms at most.                          *)
Drain ==
  /\ app.does = "drain"
  /\ cmds' = Append(cmds, Act("drain", "")) /\ app' = [app EXCEPT !.does = "draining"]
  /\ UNCHANGED <<world, screen, term, loop, dec, probe, chans, stopCh, stopper, typed, seen, late>>

DrainTimesOut ==
  /\ app.does = "draining" /\ app' = [app EXCEPT !.does = "stop"]
  /\ UNCHANGED <<world, screen, term, loop, dec, probe, cmds, chans, stopCh, stopper, typed, seen, late>>

-----------------------------------------------------------------------------
(* The user types the world's keys; timers and other callers send commands.*)
Type ==
  /\ loop.on /\ ~term.stopped /\ Len(typed) < Len(world.keys)
  /\ LET key == world.keys[Len(typed) + 1] IN
       typed' = Append(typed, key) /\ screen' = [screen EXCEPT !.wire = @ \o key]
  /\ UNCHANGED <<world, term, loop, dec, probe, cmds, chans, stopCh, stopper, app, seen, late>>

Sends(event, c) ==
  /\ event \in world.events /\ term.started /\ ~term.stopped
  /\ world' = [world EXCEPT !.events = @ \ {event}] /\ cmds' = Append(cmds, c)
  /\ UNCHANGED <<screen, term, loop, dec, probe, chans, stopCh, stopper, app, typed, seen, late>>

EnableMouse    == Sends("mouse", Act("mouse", ""))
EnterAltScreen == Sends("alt", Act("alt", ""))

(* The poll of the background colour, until the terminal reports changes.  *)
Poll == cmds = <<>> /\ Sends("poll", Act("probe", "colour"))

ChangeColours ==
  /\ "dsr" \in world.events /\ "appearance" \in screen.modes
  /\ world' = [world EXCEPT !.events = @ \ {"dsr"}]
  /\ screen' = [screen EXCEPT !.wire = @ \o AppearanceDSR]
  /\ UNCHANGED <<term, loop, dec, probe, cmds, chans, stopCh, stopper, app, typed, seen, late>>

AskColour ==
  /\ term.due /\ term' = [term EXCEPT !.due = FALSE]
  /\ cmds' = Append(cmds, Act("probe", "colour"))
  /\ UNCHANGED <<world, screen, loop, dec, probe, chans, stopCh, stopper, app, typed, seen, late>>

KittyFallback ==
  /\ term.fallback /\ "slow" \in world.events /\ term' = [term EXCEPT !.fallback = FALSE]
  /\ cmds' = Append(cmds, Act("fallback", ""))
  /\ UNCHANGED <<world, screen, loop, dec, probe, chans, stopCh, stopper, app, typed, seen, late>>

Next ==
  \/ Start \/ LoopStep \/ FlushDue \/ DrainEnds \/ Stopping
  \/ Receive \/ FindsClosed \/ Quit \/ Suspend \/ Drain \/ DrainTimesOut
  \/ Type \/ EnableMouse \/ EnterAltScreen \/ Poll \/ ChangeColours \/ AskColour \/ KittyFallback

(* The loop runs, and so does the application's goroutine inside a call;   *)
(* nobody has to read an event or to type.                                 *)
Fairness == WF_vars(LoopStep) /\ WF_vars(Stopping \/ Drain \/ DrainTimesOut)

Spec == Init /\ [][Next]_vars /\ Fairness

-----------------------------------------------------------------------------
(* A capability that was settled was settled by its own answer, until a    *)
(* drain throws answers away.                                              *)
AnswersReachTheirQuery ==
  app.why = "" => \A m \in term.resolved : m \in term.supported <=> {m, "decrqm"} \subseteq world.features

(* What the application receives is what the user typed, whole and in      *)
(* order: no byte of an answer, no key lost before a drain.                *)
KeysSurvive == IsPrefix(seen, typed)

(* When Stop has returned every mode that anybody switched on is off, but  *)
(* for those the loop switched on behind its back: after Stop was through  *)
(* with the mode, or just before Stop looked and not yet noted.  The mouse *)
(* is off in any case, since its command looks again.                      *)
StopRestores == ~term.started => screen.modes \subseteq (late \ {"mouse"})

(* The drain and Stop return, although nobody reads the events any more.   *)
CallsReturn == app.does \in {"drain", "draining", "stop"} ~> app.does \in {"start", "gone"}

(* "Re-start terminal after resume from SIGCONT" (app/suspend_unix.go:35): *)
(* the loop takes the terminal for closed only when it is.                 *)
SuspendIsSurvived == app.why = "tty-closed" => chans[Len(chans)].closed
=============================================================================
