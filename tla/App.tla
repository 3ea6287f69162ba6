--------------------------------- MODULE App ---------------------------------
(***************************************************************************)
(* The application (ompui/app): one loop that paints when a render was     *)
(* requested and otherwise handles one event, over what it hosts for the   *)
(* core (Hosts) and the calls it makes of it (Jobs).  A handler is one     *)
(* step except where it waits: for room in the queue of calls.             *)
(***************************************************************************)
EXTENDS Hosts, Jobs, FiniteSets

CONSTANT Worlds  \* the behaviours to explore, one bundle of events each

ASSUME WorldAssumption ==
  \A w \in Worlds :
    /\ w.asks \subseteq {"models", "dequeue"} /\ w.slots \subseteq Slots
    /\ None \notin w.comps \cup w.dialogs /\ w.comps \cap w.dialogs = {}

appVars == <<hostVars, jobVars>>

Init == world \in Worlds /\ HostInit /\ JobsInit

Running == ~ended /\ owed = <<>>  \* the loop is not inside a handler
Free    == Running /\ ~dirty

-----------------------------------------------------------------------------
(* Keys the built-in editor gets: no overlay is visible, nor has anybody   *)
(* else the root's focus.                                                  *)
EditorHasKeys == Free /\ ~HasVisible(host.stack) /\ host.root = Ed

Paste ==
  /\ EditorHasKeys /\ pasted < world.images
  /\ pasted' = pasted + 1 /\ pending' = pending \cup {pasted + 1} /\ dirty' = TRUE
  /\ host' = Rebuild(host)
  /\ UNCHANGED <<world, cols, queueVars, draft, peer, lost, unsure, armed, caused, ctx, ended>>

Type ==
  /\ EditorHasKeys /\ "types" \in world.flags /\ ~draft
  /\ draft' = TRUE /\ cmds' = Ticked(cmds) /\ dirty' = TRUE
  /\ UNCHANGED <<world, host, cols, jobs, worker, owed, pending, peer, lost, unsure, pasted, armed, caused, ctx, ended>>

Ask(job) == caused < world.jobs /\ caused' = caused + 1 /\ owed' = <<job>> /\ dirty' = TRUE

(* submitEditor: the text and the images leave the editor, and the loop    *)
(* waits for room in the queue.                                            *)
Submit ==
  /\ EditorHasKeys /\ (draft \/ pending # {})
  /\ Ask(Prompt) /\ TakeDraft /\ cmds' = Ticked(cmds)
  /\ UNCHANGED <<world, host, cols, jobs, worker, peer, lost, unsure, pasted, armed, ctx, ended>>

(* The model selector and the queued messages are asked of the core first. *)
AskFor ==
  /\ EditorHasKeys
  /\ \E kind \in world.asks : Ask(Job(kind))
  /\ UNCHANGED <<world, host, cols, jobs, cmds, worker, draftVars, armed, ctx, ended>>

(* A model is chosen in the selector.                                      *)
Choose ==
  /\ Free /\ HasVisible(host.stack) /\ host.stack.focused[1] = "picker"
  /\ Handles(Unshow(host, host.stack.focused)) /\ Ask(Job("set"))
  /\ UNCHANGED <<jobs, cmds, worker, draftVars, armed, ctx, ended>>

-----------------------------------------------------------------------------
(* handleCommand of an outcome: a notice or a snapshot rebuilds the root,  *)
(* unless the call failed only because the context ended.                  *)
HandleOutcome(c) ==
  LET synced == Rebuild(host)
  IN  /\ HandleDone(c.job, c.outcome)
      /\ \/ host' = IF c.job.kind = "models" /\ c.outcome = "ok" THEN Opened(synced) ELSE synced
         \/ ctx /\ c.outcome = "error" /\ host' = host
      /\ UNCHANGED <<armed, ctx>>

(* handleCtrlC, with "rest" the commands left: with an overlay visible it  *)
(* is cancelled, ...                                                       *)
CtrlCOverlay(rest) ==
  /\ HasVisible(host.stack) /\ armed' = TRUE
  /\ \E d \in host.dialogs \cup {None} :
       (d = None => host.dialogs = {}) /\ host' = CancelTop(host, d)
  /\ cmds' = rest /\ owed' = <<>> /\ UNCHANGED <<pending, draft, ctx>>

(* ... else the editor is cleared, or the agent aborted, or the program    *)
(* ends when it comes twice.                                               *)
CtrlC(rest) ==
  /\ ~HasVisible(host.stack) /\ armed' = TRUE
  /\ \/ draft /\ owed' = <<>> /\ cmds' = Ticked(rest) /\ UNCHANGED <<host, ctx>>
     \/ ~draft /\ cmds' = rest /\ owed' = <<Job("abort")>> /\ UNCHANGED <<host, ctx>>
     \/ ~draft /\ cmds' = rest /\ owed' = <<>> /\ host' = Rebuild(host) /\ ctx' = ctx
     \/ ~draft /\ cmds' = rest /\ owed' = <<>> /\ armed /\ host' = host /\ ctx' = TRUE
  /\ draft' = FALSE /\ pending' = pending

TakeCommand ==
  /\ Free /\ cmds # <<>>
  /\ LET c == Head(cmds)
     IN  \/ /\ c.kind = "tick" /\ cmds' = Tail(cmds)
            /\ UNCHANGED <<host, pending, draft, owed, armed, ctx>>
         \/ c.kind = "done" /\ HandleOutcome(c)
         \/ c.kind = "signal" /\ (CtrlCOverlay(Tail(cmds)) \/ CtrlC(Tail(cmds)))
  /\ dirty' = TRUE
  /\ UNCHANGED <<world, cols, jobs, worker, peer, lost, unsure, pasted, caused, ended>>

(* Ctrl+C as a key: the built-in editor's, unless somebody else owns it.   *)
CtrlCKey ==
  /\ EditorHasKeys /\ caused < world.signals /\ caused' = caused + 1
  /\ CtrlC(cmds) /\ dirty' = TRUE
  /\ UNCHANGED <<world, cols, jobs, worker, peer, lost, unsure, pasted, ended>>

Interrupted == caused < world.signals /\ caused' = caused + 1 /\ SignalArrives /\ UNCHANGED hostVars

(* The loop notices that its context has ended, and shuts down.            *)
End ==
  /\ Running /\ ctx
  /\ ended' = TRUE /\ dirty' = FALSE /\ host' = ShutDown(host)
  /\ UNCHANGED <<world, cols, queueVars, draftVars, armed, caused, ctx>>

Quit == "quits" \in world.flags /\ ContextEnds /\ UNCHANGED hostVars

Hosting == Running /\ HostNext /\ UNCHANGED jobVars

Queueing == (Enqueue \/ Unqueued) /\ UNCHANGED hostVars
Working  == (TakeJob \/ CallEnds \/ PostDone \/ DropDone) /\ UNCHANGED hostVars

Next ==
  \/ Hosting \/ Paste \/ Type \/ Submit \/ AskFor \/ Choose \/ TakeCommand \/ CtrlCKey
  \/ Interrupted \/ Quit \/ End \/ Queueing \/ Working

(* The worker is a goroutine and its calls time out; the loop takes the    *)
(* room it waits for.                                                      *)
Spec == Init /\ [][Next]_appVars /\ WF_appVars(Working) /\ WF_appVars(Queueing)

-----------------------------------------------------------------------------
(* No request of an extension is answered twice; an open one has its       *)
(* dialog on the stack, where it can be answered; and when the loop has    *)
(* ended every one has been answered.                                      *)
DialogsAnsweredOnce ==
  \A d \in world.dialogs :
    /\ host.answers[d] <= 1
    /\ d \in host.asked /\ host.answers[d] = 0 => ~ended /\ Dialog(d) \in Owners(host.stack)
    /\ Dialog(d) \in Owners(host.stack) => host.answers[d] = 0

(* With an overlay visible, keys go to an overlay that is visible: never   *)
(* to the editor below, to an overlay that is hidden, or to one that left. *)
KeysReachAVisibleOverlay ==
  HasVisible(host.stack) =>
    \E i \in Visible(host.stack) : host.stack.entries[i].comp = host.stack.focused

(* When nothing is under way, a remote component shows the core's answer   *)
(* to the newest request, made for the width it was last painted at,       *)
(* whatever the order of the answers.  Exempt: an id that was disposed     *)
(* with a request unanswered, where an answer meant for the old component  *)
(* can outrank the new one's.                                              *)
NewestAnswerShown ==
  \A c \in world.comps \ host.reused :
    Live(host, c) /\ ~dirty /\ (\A q \in host.wire : q.id # c) =>
      /\ host.shown[c].gen = host.gen[c]
      /\ host.seen[c] > 0 => host.shown[c].width = host.seen[c]

(* An attached image is in one place of the application at most: with the  *)
(* editor, or with one prompt on its way out or back; and in none only     *)
(* when the core has it, or a call or command that carried it was given    *)
(* up.  Only a call that failed after the core had taken the prompt can    *)
(* leave an image with both, for the application to get it back twice.     *)
ImagesInOnePlace ==
  LET held   == <<pending, IF worker.at = "idle" THEN {}
                           ELSE IF worker.at = "calling" THEN worker.job.images
                           ELSE Carried(worker.job, worker.outcome)>>
                  \o [i \in DOMAIN jobs |-> jobs[i].images] \o [i \in DOMAIN owed |-> owed[i].images]
                  \o [i \in DOMAIN cmds |-> Carried(cmds[i].job, cmds[i].outcome)]
  IN  /\ \A i, j \in DOMAIN held : i # j => held[i] \cap held[j] \subseteq unsure
      /\ 1..pasted = (UNION {held[i] : i \in DOMAIN held}) \cup peer \cup lost

(* A handler that waits for room in the queue of calls gets on, whatever   *)
(* the worker itself is waiting for.                                       *)
LoopGetsOn == owed # <<>> ~> owed = <<>>
=============================================================================
