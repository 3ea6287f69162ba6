-------------------------------- MODULE Jobs --------------------------------
(***************************************************************************)
(* Calls of the core made by the application: the loop puts them in the    *)
(* bounded queue rpcJobs and waits while it is full, one worker makes them *)
(* in turn and posts each outcome to the loop's bounded command queue,     *)
(* giving up after two seconds (app/app.go, app/input.go).  What a prompt  *)
(* carries, its text and its images, has left the editor meanwhile and     *)
(* comes back when the call fails.                                         *)
(***************************************************************************)
EXTENDS Integers, SequencesExt

CONSTANTS JobCap, CmdCap  \* capacities of rpcJobs and cmds

ASSUME CapAssumption == JobCap \in Nat \ {0} /\ CmdCap \in Nat \ {0}

VARIABLES
  jobs,     \* rpcJobs
  cmds,     \* cmds
  worker,   \* what the worker is doing, with which job
  owed,     \* jobs the handler under way has still to queue: the loop waits
  pending,  \* pendingPromptImages
  draft,    \* the editor holds text
  peer,     \* images the core holds, in prompts it accepted
  lost,     \* images that went with a command nobody took, or with a call the core answered too late
  unsure,   \* images of prompts that the core took and whose call failed all the same
  pasted,   \* images attached so far
  armed,    \* Ctrl+C came before: the next one may quit
  caused,   \* calls the user has caused so far
  ctx,      \* the application's context has ended
  ended     \* the loop has returned and shut down

queueVars == <<jobs, cmds, worker, owed>>
draftVars == <<pending, draft, peer, lost, unsure, pasted>>
jobVars   == <<queueVars, draftVars, armed, caused, ctx, ended>>

Nothing  == [kind |-> "none", images |-> {}, text |-> FALSE]
Job(kind) == [Nothing EXCEPT !.kind = kind]
Prompt   == [kind |-> "prompt", images |-> pending, text |-> draft]

Tick      == [kind |-> "tick", job |-> Nothing, outcome |-> "none"]
Signal    == [Tick EXCEPT !.kind = "signal"]
Done(job, outcome) == [kind |-> "done", job |-> job, outcome |-> outcome]

JobsInit ==
  /\ jobs = <<>> /\ cmds = <<>> /\ owed = <<>>
  /\ worker = [at |-> "idle", job |-> Nothing, outcome |-> "none"]
  /\ pending = {} /\ draft = FALSE /\ peer = {} /\ lost = {} /\ unsure = {}
  /\ pasted = 0 /\ caused = 0 /\ armed = FALSE /\ ctx = FALSE /\ ended = FALSE

-----------------------------------------------------------------------------
(* post, of a command that may be dropped at once.                         *)
Ticked(queue) == IF Len(queue) < CmdCap THEN Append(queue, Tick) ELSE queue

NeverGivesUp == FALSE

(* post, of one that may not: the poster waits, at most two seconds.       *)
CanPost == Len(cmds) < CmdCap
GivesUp == Len(cmds) >= CmdCap \/ ctx

(* takePendingPromptImages and the cleared editor.                         *)
TakeDraft == pending' = {} /\ draft' = FALSE

(* Images that a command carries back to the loop.                         *)
Carried(job, outcome) == IF outcome = "ok" /\ job.kind # "dequeue" THEN {} ELSE job.images

RestoreText(job) == pending' = pending /\ draft' = (draft \/ job.text)
Restored(job)    == pending' = job.images \cup pending /\ draft' = (draft \/ job.text)

(* What handleRPCDone queues in its turn.                                  *)
FollowUp(job) == IF job.kind \in {"prompt", "set", "abort"} THEN <<Job("state")>> ELSE <<>>

-----------------------------------------------------------------------------
(* The loop's side of a handler that queued too much.                      *)
Enqueue ==
  /\ owed # <<>> /\ Len(jobs) < JobCap
  /\ jobs' = Append(jobs, Head(owed)) /\ owed' = Tail(owed)
  /\ UNCHANGED <<cmds, worker, draftVars, armed, caused, ctx, ended>>

(* enqueueRPC gives up when the context ends: the draft is put back.       *)
Unqueued ==
  /\ owed # <<>> /\ ctx
  /\ owed' = <<>> /\ Restored(Head(owed))
  /\ cmds' = IF Head(owed).text THEN Ticked(cmds) ELSE cmds
  /\ UNCHANGED <<jobs, worker, peer, lost, unsure, pasted, armed, caused, ctx, ended>>

TakeJob ==
  /\ worker.at = "idle" /\ jobs # <<>>
  /\ worker' = [worker EXCEPT !.at = "calling", !.job = Head(jobs)] /\ jobs' = Tail(jobs)
  /\ UNCHANGED <<cmds, owed, draftVars, armed, caused, ctx, ended>>

(* The call returns: done, refused, or with an error, its five minutes     *)
(* over or the connection lost, whether or not the core had done it.       *)
CallEnds ==
  /\ worker.at = "calling"
  /\ \E outcome \in {"ok", "refused", "error"}, taken \in BOOLEAN :
       LET job  == worker.job
           give == job.kind = "dequeue"
       IN  /\ (outcome = "ok" => taken) /\ (outcome = "refused" => ~taken)
           /\ worker' = [at |-> "posting", outcome |-> outcome,
                         job |-> IF give /\ outcome = "ok" THEN [job EXCEPT !.images = peer] ELSE job]
           /\ peer' = IF ~taken THEN peer ELSE IF give THEN {} ELSE peer \cup job.images
           /\ lost' = IF give /\ taken /\ outcome = "error" THEN lost \cup peer ELSE lost
           /\ unsure' = IF ~give /\ taken /\ outcome = "error" THEN unsure \cup job.images ELSE unsure
  /\ UNCHANGED <<jobs, cmds, owed, pending, draft, pasted, armed, caused, ctx, ended>>

PostDone ==
  /\ worker.at = "posting" /\ CanPost
  /\ cmds' = Append(cmds, Done(worker.job, worker.outcome))
  /\ worker' = [at |-> "idle", job |-> Nothing, outcome |-> "none"]
  /\ UNCHANGED <<jobs, owed, draftVars, armed, caused, ctx, ended>>

(* "command queue stuck dropping": the outcome is never heard of.          *)
DropDone ==
  /\ worker.at = "posting" /\ GivesUp
  /\ lost' = lost \cup Carried(worker.job, worker.outcome)
  /\ worker' = [at |-> "idle", job |-> Nothing, outcome |-> "none"]
  /\ UNCHANGED <<jobs, cmds, owed, pending, draft, peer, unsure, pasted, armed, caused, ctx, ended>>

(* A signal: its goroutine waits to post it, or drops it.                  *)
SignalArrives ==
  /\ CanPost /\ cmds' = Append(cmds, Signal)
  /\ UNCHANGED <<jobs, worker, owed, draftVars, armed, ctx, ended>>

ContextEnds == ~ctx /\ ctx' = TRUE /\ UNCHANGED <<queueVars, draftVars, armed, caused, ended>>

(* handleRPCDone, up to what it does to the components and overlays: a     *)
(* failed prompt comes back, and so do the messages the core dequeued.     *)
HandleDone(job, outcome) ==
  LET dequeued == job.kind = "dequeue" /\ outcome = "ok"
      back     == IF dequeued THEN [job EXCEPT !.text = job.images # {}]
                  ELSE IF outcome = "ok" THEN Nothing ELSE job
  IN  /\ Restored(back)
      /\ owed' = IF outcome = "ok" THEN FollowUp(job) ELSE <<>>
      /\ cmds' = IF back.text THEN Ticked(Tail(cmds)) ELSE Tail(cmds)
=============================================================================
