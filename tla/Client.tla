------------------------------- MODULE Client -------------------------------
(***************************************************************************)
(* The RPC client of the core process (client/client.go, event.go,         *)
(* process.go, write.go).  Start spawns the child and three goroutines:    *)
(* waitLoop reaps the child, readLoop turns its output into frames,        *)
(* dispatchLoop hands every frame to every subscription.  Calls, Shutdown, *)
(* Wait and Unsubscribe run in goroutines of the application.              *)
(*                                                                         *)
(* todo[g] is what goroutine g still has to do: the rest of the function   *)
(* it is in, one entry per critical section, channel operation or system   *)
(* call.  A function that calls another replaces its entry by the callee's *)
(* entries.  Callers and the dispatcher have program counters.             *)
(***************************************************************************)
EXTENDS Integers, Sequences, FiniteSets

CONSTANTS
  Callers,         \* goroutines that Call
  Subs,            \* subscriptions
  Initial,         \* the one of SubscribeBeforeReady
  DispatchBuffer,  \* capacity of dispatchCh
  EventBuffer,     \* capacity of a subscription's channel
  Nobody,          \* the mutex is free, the Once has not run
  Done,            \* the Once has run
  Worlds           \* instances: see Init

ASSUME ClientAssumption ==
  /\ Initial \in Subs
  /\ DispatchBuffer \in Nat \ {0} /\ EventBuffer \in Nat \ {0}
  /\ Nobody # Done
  /\ Subs \cap {"read", "wait", "start", "shut", "waitcall"} = {}
  /\ {Nobody, Done} \cap (Callers \cup Subs \cup {"read", "wait", "start", "shut", "waitcall"}) = {}

(* Goroutines that run lists of steps: readLoop, waitLoop, Start, Shutdown, *)
(* Wait, and for each subscription the goroutine that unsubscribes it.      *)
Routines == {"read", "wait", "start", "shut", "waitcall"} \cup Subs

VARIABLES
  world,   \* who takes part: see Init
  child,   \* [alive, clean, reads, talks]: see Init
  frames,  \* frames readLoop has taken so far
  stdin,   \* our end of the child's stdin is open
  stdout,  \* our end of its stdout is open
  encoder, \* who holds the encoder's mutex
  c,       \* flags of Client and writer: see Flags
  todo,    \* todo[g]: the steps goroutine g has left
  call,    \* call[t]: a goroutine in Call
  pend,    \* the pending map: calls that wait for their answer
  queue,   \* dispatchCh
  seq,     \* frames emitted so far
  disp,    \* dispatchLoop: [pc, ev, left, cur]
  subs,    \* the subs map
  sub      \* sub[s]: a Subscription

vars == <<world, child, frames, stdin, stdout, encoder, c, todo, call, pend,
          queue, seq, disp, subs, sub>>

process  == <<world, child, frames, stdin, stdout, encoder>>
delivery == <<queue, seq, disp, subs, sub>>
calls    == <<call, pend>>

Frames == {"ready", "hello", "badHello", "event", "garbage", "fatal", "bye"} \cup Callers

(* ready, readyErr, closed, peerV1, writer.closed, exitErr, waitDone; how  *)
(* far fatalOnce and closeOnce are; how Start ended; who has returned.     *)
Flags ==
  [ready : BOOLEAN, failed : BOOLEAN, closed : BOOLEAN, v1 : BOOLEAN, mute : BOOLEAN,
   exitErr : BOOLEAN, waitDone : BOOLEAN, fatal : Routines \cup {Nobody, Done},
   finish : Routines \cup {Nobody, Done}, started : {"no", "yes", "failed"},
   ended : SUBSET Routines]

(* dead is dead and quit, closed is chClosed, unread what ch holds; last   *)
(* (history) is the number of the last frame put on ch.                    *)
SubType == [on : BOOLEAN, dead : BOOLEAN, closed : BOOLEAN, inflight : BOOLEAN,
            unread : 0..EventBuffer, last : Nat]

(* A world says which callers and subscriptions there are, what the child  *)
(* may write and how much (a bound), and what else may happen.             *)
Init ==
  /\ world \in Worlds
  /\ child = [alive |-> TRUE, clean |-> TRUE, reads |-> TRUE, talks |-> TRUE]
  /\ frames = 0
  /\ stdin = TRUE /\ stdout = TRUE /\ encoder = Nobody
  /\ c = [ready |-> FALSE, failed |-> FALSE, closed |-> FALSE, v1 |-> FALSE,
          mute |-> FALSE, exitErr |-> FALSE, waitDone |-> FALSE, fatal |-> Nobody,
          finish |-> Nobody, started |-> "no", ended |-> {}]
  /\ todo = [g \in Routines |->
               CASE g = "start" -> (IF world.greets THEN <<"write">> ELSE <<>>)
                                     \o <<"awaitReady">>
                 [] g = "wait"  -> <<"reap">>
                 [] g = "read"  -> <<"take">>
                 [] OTHER       -> <<>>]
  /\ call = [t \in Callers |-> [pc |-> "idle", answer |-> FALSE, cancelled |-> FALSE]]
  /\ pend = {} /\ queue = <<>> /\ seq = 0
  /\ disp = [pc |-> "idle", ev |-> 0, left |-> {}, cur |-> Nobody]
  /\ subs = {Initial} \cap world.subs
  /\ sub = [s \in Subs |-> [on |-> s \in {Initial} \cap world.subs, dead |-> FALSE, closed |-> FALSE,
                            inflight |-> FALSE, unread |-> 0, last |-> 0]]

-----------------------------------------------------------------------------
(* Running a list of steps. *)

At(g, op)        == todo[g] # <<>> /\ Head(todo[g]) = op
Then(g, steps)   == todo' = [todo EXCEPT ![g] = steps \o Tail(@)]
Become(g, steps) == todo' = [todo EXCEPT ![g] = steps]
Continue(g)      == Then(g, <<>>)

(* onReadError for a malformed frame or a fatal fault, and the synthetic   *)
(* event that follows.                                                     *)
ReadFault == <<"fatal", "emit", "end">>

Ready(flags)     == [flags EXCEPT !.ready = TRUE]
FailStart(flags) == IF flags.ready THEN flags
                    ELSE [flags EXCEPT !.ready = TRUE, !.failed = TRUE]

-----------------------------------------------------------------------------
(* The child stops reading its input or closes its output, and exits.  The *)
(* frames it writes are chosen when readLoop takes them (TakeFrame).       *)

ChildStalls ==
  /\ child.alive /\ world.stalls
  /\ \/ child.reads /\ child' = [child EXCEPT !.reads = FALSE]
     \/ child.talks /\ child' = [child EXCEPT !.talks = FALSE]
  /\ UNCHANGED <<world, frames, stdin, stdout, encoder, c, todo, calls, delivery>>

ChildExits ==
  /\ child.alive /\ world.exits
  /\ \E clean \in BOOLEAN : child' = [child EXCEPT !.alive = FALSE, !.clean = clean]
  /\ UNCHANGED <<world, frames, stdin, stdout, encoder, c, todo, calls, delivery>>

-----------------------------------------------------------------------------
(* Writing a frame: the encoder's mutex is held for the whole write.  A    *)
(* write ends at once if the child reads or an end of the pipe is closed;  *)
(* otherwise it waits, holding the mutex.  The first frame always fits.    *)

WriteFails     == ~child.alive \/ ~stdin
WriteCanEnd(g) == child.reads \/ WriteFails \/ g = "start"

(* What is left to do when a frame cannot be written, by who writes it:    *)
(* Start cleans up, a hello that cannot be answered ends readLoop (closed  *)
(* pipes count as an end of file), other frames are let go.                *)
Unwritten(g, rest, kind) ==
  IF kind = "tell" THEN rest
  ELSE IF g = "start" THEN <<"cleanup">>
  ELSE IF stdin THEN ReadFault
  ELSE <<"eof", "emit", "end">>

(* writer.dead is asked first; a write that has to wait becomes "held".    *)
Write(g) ==
  \E kind \in {"write", "tell"} :
    /\ At(g, kind)
    /\ IF c.mute /\ kind = "write"
       THEN Become(g, Unwritten(g, Tail(todo[g]), kind)) /\ encoder' = encoder
       ELSE /\ encoder = Nobody
            /\ IF WriteCanEnd(g)
               THEN /\ encoder' = Nobody
                    /\ Become(g, IF WriteFails THEN Unwritten(g, Tail(todo[g]), kind)
                                 ELSE Tail(todo[g]))
               ELSE encoder' = g /\ Then(g, <<"held", kind>>)
    /\ UNCHANGED <<world, child, frames, stdin, stdout, c, calls, delivery>>

HeldWriteEnds(g) ==
  /\ At(g, "held") /\ WriteCanEnd(g)
  /\ encoder' = Nobody
  /\ LET rest == SubSeq(todo[g], 3, Len(todo[g]))
     IN  Become(g, IF WriteFails THEN Unwritten(g, rest, todo[g][2]) ELSE rest)
  /\ UNCHANGED <<world, child, frames, stdin, stdout, c, calls, delivery>>

-----------------------------------------------------------------------------
(* Call. *)

Return(t) ==
  /\ call' = [call EXCEPT ![t].pc = "returned"]
  /\ pend' = pend \ {t}

(* Call, up to the entry into the pending map and the look at the writer;  *)
(* ids are fresh.  Send, and the replies to the core, do not wait.         *)
CallBegins(t) ==
  /\ t \in world.callers /\ call[t].pc = "idle" /\ c.started = "yes"
  /\ ~c.closed /\ c.ready /\ ~c.failed
  /\ IF c.mute THEN Return(t)
     ELSE /\ call' = [call EXCEPT ![t].pc = "locking"]
          /\ pend' = IF t \in world.senders THEN pend ELSE pend \cup {t}
  /\ UNCHANGED <<process, c, todo, delivery>>

CallWrites(t) ==
  /\ \/ call[t].pc = "locking" /\ encoder = Nobody
     \/ call[t].pc = "writing" /\ WriteCanEnd(t)
  /\ IF ~WriteCanEnd(t)
     THEN encoder' = t /\ call' = [call EXCEPT ![t].pc = "writing"] /\ pend' = pend
     ELSE /\ encoder' = Nobody
          /\ IF WriteFails \/ t \in world.senders THEN Return(t)
             ELSE call' = [call EXCEPT ![t].pc = "waiting"] /\ pend' = pend
  /\ UNCHANGED <<world, child, frames, stdin, stdout, c, todo, delivery>>

(* The slip EverybodyReturns is about: the exit is not waited for.         *)
CallReturnsIfToldTo(t) ==
  /\ call[t].pc = "waiting"
  /\ call[t].answer \/ call[t].cancelled
  /\ Return(t)
  /\ UNCHANGED <<process, c, todo, delivery>>

(* The select: the answer, the cancelled context, or the exit.             *)
CallReturns(t) ==
  /\ call[t].pc = "waiting"
  /\ call[t].answer \/ call[t].cancelled \/ c.waitDone
  /\ Return(t)
  /\ UNCHANGED <<process, c, todo, delivery>>

(* The caller's own context ends.                                          *)
CallerGivesUp(t) ==
  /\ call[t].pc = "waiting" /\ Return(t)
  /\ UNCHANGED <<process, c, todo, delivery>>

CancelAll == [t \in Callers |-> IF t \in pend THEN [call[t] EXCEPT !.cancelled = TRUE]
                                ELSE call[t]]

-----------------------------------------------------------------------------
(* readLoop. *)

(* handleFrame: what readLoop does about frame f, the channel send of emit *)
(* being a step of its own.                                                *)
Handle(f) ==
  CASE f = "garbage"  -> ReadFault
    [] f = "hello"    -> (IF world.greets THEN <<>> ELSE <<"write">>)
                           \o <<"ready", "emit", "take">>
    [] f = "badHello" -> <<"tell", "refuse">> \o ReadFault
    [] f = "fatal"    -> <<"emit">> \o ReadFault
    [] f = "bye"      -> <<"emit", "closeStdin", "take">>
    [] OTHER          -> <<"emit", "take">>

(* deliverPending takes the call out of the map before it sends.           *)
TakeFrame ==
  /\ At("read", "take") /\ frames < world.max /\ child.talks
  /\ \E f \in world.frames :
       /\ f \in Callers => call[f].pc \notin {"idle", "locking"}
       /\ Become("read", Handle(f))
       /\ c' = CASE f = "hello" -> [c EXCEPT !.v1 = TRUE]
                 [] f \in {"garbage", "badHello"} -> c
                 [] OTHER -> Ready(c)
       /\ IF f \in pend
          THEN call' = [call EXCEPT ![f].answer = TRUE] /\ pend' = pend \ {f}
          ELSE UNCHANGED calls
  /\ frames' = frames + 1
  /\ UNCHANGED <<world, child, stdin, stdout, encoder, delivery>>

(* The child's output ends, or waitLoop has closed our end of it, with     *)
(* whatever the decoder had not buffered.                                  *)
EndOfOutput ==
  /\ At("read", "take")
  /\ ~child.alive \/ ~child.talks \/ ~stdout
  /\ Become("read", <<"eof", "end">>)
  /\ UNCHANGED <<world, child, frames, stdin, stdout, encoder, c, calls, delivery>>

(* onReadError for an end of file: a fault if the child is known to have   *)
(* failed, otherwise the pending calls are cancelled without one.          *)
ReadEnds ==
  /\ At("read", "eof")
  /\ Then("read", IF c.exitErr THEN <<"fatal">> ELSE <<"cancelPending", "mute">>)
  /\ c' = FailStart(c)
  /\ UNCHANGED <<process, calls, delivery>>

MarkReady ==
  /\ At("read", "ready") /\ Continue("read")
  /\ c' = Ready(c)
  /\ UNCHANGED <<process, calls, delivery>>

RefuseHello ==
  /\ At("read", "refuse") /\ Continue("read")
  /\ c' = [c EXCEPT !.failed = TRUE, !.ready = TRUE]
  /\ UNCHANGED <<process, calls, delivery>>

(* The slip FramesInOrder is about: a full queue drops.                    *)
EmitOrDrop ==
  /\ At("read", "emit") /\ Continue("read")
  /\ queue' = IF Len(queue) < DispatchBuffer THEN Append(queue, seq + 1) ELSE queue
  /\ seq' = seq + 1
  /\ UNCHANGED <<process, c, calls, disp, subs, sub>>

(* emit: a full queue holds readLoop back until there is room or the child *)
(* has been reaped, when the frame is dropped.                             *)
Emit ==
  /\ At("read", "emit") /\ Continue("read")
  /\ \/ Len(queue) < DispatchBuffer /\ queue' = Append(queue, seq + 1)
     \/ Len(queue) = DispatchBuffer /\ c.waitDone /\ queue' = queue
  /\ seq' = seq + 1
  /\ UNCHANGED <<process, c, calls, disp, subs, sub>>

-----------------------------------------------------------------------------
(* waitLoop. *)

(* Process.Wait returns; the exit is recorded, stdout closed, then waitDone.*)
Reap ==
  /\ At("wait", "reap") /\ ~child.alive
  /\ stdout' = FALSE
  /\ c' = [c EXCEPT !.exitErr = ~child.clean, !.waitDone = TRUE]
  /\ Become("wait", (IF child.clean THEN <<"cancelPending", "hangUp">> ELSE <<"fatal">>)
                       \o <<"end">>)
  /\ UNCHANGED <<world, child, frames, stdin, encoder, calls, delivery>>

(* Its last look at ready.                                                 *)
EndWaitLoop ==
  /\ At("wait", "end") /\ Continue("wait")
  /\ c' = FailStart(c)
  /\ UNCHANGED <<process, calls, delivery>>

-----------------------------------------------------------------------------
(* dispatchLoop: fanout takes the subscriptions there are, then serves one *)
(* after the other with trySend.                                           *)

TakeEvent ==
  /\ disp.pc = "idle" /\ queue # <<>>
  /\ disp' = [disp EXCEPT !.pc = "next", !.ev = Head(queue), !.left = subs]
  /\ queue' = Tail(queue)
  /\ UNCHANGED <<process, c, todo, calls, seq, subs, sub>>

EndDispatch ==
  /\ disp.pc = "idle" /\ queue = <<>> /\ "read" \in c.ended
  /\ disp' = [disp EXCEPT !.pc = "ended"]
  /\ UNCHANGED <<process, c, todo, calls, queue, seq, subs, sub>>

(* The first look at dead and quit.                                        *)
NextSubscription ==
  /\ disp.pc = "next"
  /\ \/ disp.left = {} /\ disp' = [disp EXCEPT !.pc = "idle", !.ev = 0, !.cur = Nobody]
     \/ \E s \in disp.left :
          disp' = [disp EXCEPT !.left = @ \ {s}, !.cur = s,
                               !.pc = IF sub[s].dead THEN "next" ELSE "join"]
  /\ UNCHANGED <<process, c, todo, calls, queue, seq, subs, sub>>

JoinInflight ==
  /\ disp.pc = "join"
  /\ sub' = [sub EXCEPT ![disp.cur].inflight = TRUE]
  /\ disp' = [disp EXCEPT !.pc = "recheck"]
  /\ UNCHANGED <<process, c, todo, calls, queue, seq, subs>>

(* The slip NoSendOnClosed is about: no second look after joining.         *)
RecheckBlindly ==
  /\ disp.pc = "recheck" /\ disp' = [disp EXCEPT !.pc = "send"]
  /\ UNCHANGED <<process, c, todo, calls, queue, seq, subs, sub>>

LeaveInflight == sub' = [sub EXCEPT ![disp.cur].inflight = FALSE]

Recheck ==
  /\ disp.pc = "recheck"
  /\ IF sub[disp.cur].dead \/ sub[disp.cur].closed
     THEN LeaveInflight /\ disp' = [disp EXCEPT !.pc = "next"]
     ELSE sub' = sub /\ disp' = [disp EXCEPT !.pc = "send"]
  /\ UNCHANGED <<process, c, todo, calls, queue, seq, subs>>

(* The two selects: room in the channel, quit, and only when parked on a   *)
(* full channel the exit of the child.                                     *)
Send ==
  /\ disp.pc \in {"send", "parked"}
  /\ LET s == disp.cur IN
       \/ /\ sub[s].unread < EventBuffer
          /\ sub' = [sub EXCEPT ![s].inflight = FALSE, ![s].unread = @ + 1,
                                ![s].last = disp.ev]
          /\ disp' = [disp EXCEPT !.pc = "next"]
       \/ /\ sub[s].dead \/ (disp.pc = "parked" /\ c.waitDone)
          /\ LeaveInflight /\ disp' = [disp EXCEPT !.pc = "next"]
       \/ /\ disp.pc = "send" /\ sub[s].unread = EventBuffer /\ ~sub[s].dead
          /\ disp' = [disp EXCEPT !.pc = "parked"] /\ sub' = sub
  /\ UNCHANGED <<process, c, todo, calls, queue, seq, subs>>

(* The owner of the subscription receives.                                 *)
Receive(s) ==
  /\ sub[s].unread > 0
  /\ sub' = [sub EXCEPT ![s].unread = @ - 1]
  /\ UNCHANGED <<process, c, todo, calls, queue, seq, disp, subs>>

-----------------------------------------------------------------------------
(* Subscriptions. *)

(* The slip ClosedIsQuiet is about: closed is not looked at under subMu.   *)
SubscribeAnyway(s) ==
  /\ s \in world.subs /\ ~sub[s].on /\ c.started = "yes"
  /\ sub' = [sub EXCEPT ![s].on = TRUE] /\ subs' = subs \cup {s}
  /\ UNCHANGED <<process, c, todo, calls, queue, seq, disp>>

(* One that comes after the close is closed at once.                       *)
Subscribe(s) ==
  /\ s \in world.subs /\ ~sub[s].on /\ c.started = "yes"
  /\ sub' = [sub EXCEPT ![s].on = TRUE, ![s].dead = c.closed, ![s].closed = c.closed]
  /\ subs' = IF c.closed THEN subs ELSE subs \cup {s}
  /\ UNCHANGED <<process, c, todo, calls, queue, seq, disp>>

(* Unsubscribe leaves the map and signals quit; then closeCh waits for a   *)
(* send in flight before it closes the channel.                            *)
Unsubscribe(s) ==
  /\ sub[s].on /\ todo[s] = <<>> /\ ~sub[s].dead /\ c.started = "yes"
  /\ subs' = subs \ {s}
  /\ sub' = [sub EXCEPT ![s].dead = TRUE]
  /\ Become(s, <<"close">>)
  /\ UNCHANGED <<process, c, calls, queue, seq, disp>>

CloseChannel(s) ==
  /\ At(s, "close") /\ ~sub[s].inflight
  /\ sub' = [sub EXCEPT ![s].closed = TRUE]
  /\ Continue(s)
  /\ UNCHANGED <<process, c, calls, queue, seq, disp, subs>>

-----------------------------------------------------------------------------
(* fatal and finishClose, once each; a second caller waits for the first.  *)

EnterFatal(g) ==
  /\ At(g, "fatal") /\ c.fatal \in {Nobody, Done}
  /\ IF c.fatal = Done THEN Continue(g) /\ c' = c
     ELSE /\ Then(g, <<"cancelPending", "hangUp">>)
          /\ c' = [FailStart(c) EXCEPT !.fatal = g]
  /\ UNCHANGED <<process, calls, delivery>>

CancelPending(g) ==
  /\ At(g, "cancelPending") /\ Continue(g)
  /\ call' = CancelAll
  /\ UNCHANGED <<process, c, pend, delivery>>

CloseStdin(g) ==
  /\ At(g, "closeStdin") /\ Continue(g)
  /\ stdin' = FALSE
  /\ UNCHANGED <<world, child, frames, stdout, encoder, c, calls, delivery>>

(* stdin and the writer are closed, the last thing fatal does; a write in  *)
(* between fails either way.                                               *)
HangUp(g) ==
  /\ At(g, "hangUp") /\ Continue(g)
  /\ stdin' = FALSE
  /\ c' = [c EXCEPT !.mute = TRUE, !.fatal = IF @ = g THEN Done ELSE @]
  /\ UNCHANGED <<world, child, frames, stdout, encoder, calls, delivery>>

(* Steps that set one flag.                                                *)
SetFlag(g) ==
  /\ \/ At(g, "mute") /\ c' = [c EXCEPT !.mute = TRUE]
     \/ At(g, "end") /\ g # "wait" /\ c' = [c EXCEPT !.ended = @ \cup {g}]
     \/ At(g, "startFailed") /\ c' = [c EXCEPT !.started = "failed"]
  /\ Continue(g)
  /\ UNCHANGED <<process, calls, delivery>>

EnterFinish(g) ==
  /\ At(g, "finish") /\ c.finish \in {Nobody, Done}
  /\ IF c.finish = Done THEN Continue(g) /\ c' = c
     ELSE Then(g, <<"clearPending", "closeSubs">>) /\ c' = [c EXCEPT !.finish = g, !.closed = TRUE]
  /\ UNCHANGED <<process, calls, delivery>>

ClearPending(g) ==
  /\ At(g, "clearPending") /\ Continue(g)
  /\ call' = CancelAll /\ pend' = {}
  /\ UNCHANGED <<process, c, delivery>>

(* When both loops have ended nobody is sending: closeCh does not wait.    *)
CloseSubs(g) ==
  /\ At(g, "closeSubs") /\ "read" \in c.ended /\ disp.pc = "ended"
  /\ Continue(g)
  /\ c' = [c EXCEPT !.finish = Done]
  /\ sub' = [s \in Subs |-> IF s \in subs THEN [sub[s] EXCEPT !.dead = TRUE, !.closed = TRUE]
                            ELSE sub[s]]
  /\ subs' = {}
  /\ UNCHANGED <<process, calls, queue, seq, disp>>

-----------------------------------------------------------------------------
(* Start, Shutdown, Wait. *)

(* awaitReady: the peer is ready, start-up has failed, the child has been  *)
(* reaped, or the time is over.                                            *)
AwaitReady ==
  /\ At("start", "awaitReady")
  /\ \/ /\ c.ready /\ ~c.failed
        /\ c' = [c EXCEPT !.started = "yes"] /\ Become("start", <<>>)
     \/ /\ (c.ready /\ c.failed) \/ c.waitDone \/ world.late
        /\ Become("start", <<"cleanup">>) /\ c' = c
  /\ UNCHANGED <<process, calls, delivery>>

CleanUpStart ==
  /\ At("start", "cleanup")
  /\ Become("start", <<"fatal", "kill", "awaitReaped", "finish", "startFailed">>)
  /\ c' = [c EXCEPT !.ready = TRUE, !.failed = TRUE]
  /\ UNCHANGED <<process, calls, delivery>>

Shutdown ==
  /\ world.shuts /\ c.started = "yes" /\ todo["shut"] = <<>> /\ "shut" \notin c.ended
  /\ Become("shut", <<"goodbye", "hangUp", "awaitExit", "finish", "end">>)
  /\ UNCHANGED <<process, c, calls, delivery>>

(* Only a v1 peer is sent a shutdown frame.                                *)
SayGoodbye ==
  /\ At("shut", "goodbye")
  /\ Then("shut", IF c.v1 /\ ~c.mute THEN <<"tell">> ELSE <<>>)
  /\ UNCHANGED <<process, c, calls, delivery>>

Wait ==
  /\ world.waits /\ c.started = "yes" /\ todo["waitcall"] = <<>> /\ "waitcall" \notin c.ended
  /\ Become("waitcall", <<"awaitReaped", "finish", "end">>)
  /\ UNCHANGED <<process, c, calls, delivery>>

AwaitExit(g) ==
  /\ \/ At(g, "awaitReaped") /\ c.waitDone /\ Continue(g)
     \/ At(g, "awaitExit") /\ c.waitDone /\ Continue(g)
     \/ At(g, "awaitExit") /\ ~c.waitDone /\ Then(g, <<"kill", "awaitReaped">>)
  /\ UNCHANGED <<process, c, calls, delivery>>

Kill(g) ==
  /\ At(g, "kill") /\ Continue(g)
  /\ child' = IF child.alive THEN [child EXCEPT !.alive = FALSE, !.clean = FALSE] ELSE child
  /\ UNCHANGED <<world, frames, stdin, stdout, encoder, c, calls, delivery>>

-----------------------------------------------------------------------------
Run(g) ==
  \/ Write(g) \/ HeldWriteEnds(g)
  \/ EnterFatal(g) \/ CancelPending(g) \/ CloseStdin(g) \/ HangUp(g) \/ SetFlag(g)
  \/ EnterFinish(g) \/ ClearPending(g) \/ CloseSubs(g)
  \/ (g \in Subs /\ CloseChannel(g)) \/ AwaitExit(g) \/ Kill(g)

ReadLoop     == TakeFrame \/ EndOfOutput \/ ReadEnds \/ MarkReady \/ RefuseHello \/ Emit
WaitLoop     == Reap \/ EndWaitLoop
DispatchLoop == TakeEvent \/ EndDispatch \/ NextSubscription \/ JoinInflight \/ Recheck \/ Send
Calling(t)   == CallWrites(t) \/ CallReturns(t)
Own          == AwaitReady \/ CleanUpStart \/ SayGoodbye

Next ==
  \/ ChildStalls \/ ChildExits
  \/ \E t \in Callers : CallBegins(t) \/ Calling(t) \/ CallerGivesUp(t)
  \/ ReadLoop \/ WaitLoop \/ DispatchLoop \/ Own
  \/ \E g \in Routines : Run(g)
  \/ \E s \in Subs : Receive(s) \/ Subscribe(s) \/ Unsubscribe(s)
  \/ Shutdown \/ Wait

Spec == Init /\ [][Next]_vars

Goroutines ==
  \/ ReadLoop \/ WaitLoop \/ DispatchLoop \/ Own
  \/ \E g \in Routines : Run(g)
  \/ \E t \in Callers : Calling(t)

(* Goroutines run, timers included, until none can take a step.  Nothing   *)
(* is asked of the child, the callers or the owners of the subscriptions.  *)
(* No behaviour has a cycle, so fairness of all goroutines together is as  *)
(* much as fairness of each.                                               *)
FairSpec == Spec /\ WF_vars(Goroutines)

-----------------------------------------------------------------------------
(* Properties *)

TypeOK ==
  /\ c \in Flags
  /\ sub \in [Subs -> SubType]
  /\ queue \in Seq(Nat) /\ Len(queue) <= DispatchBuffer
  /\ subs \subseteq Subs /\ pend \subseteq Callers
  /\ encoder \in Callers \cup Routines \cup {Nobody}

(* trySend is never at its send, or parked on it, when closeCh has closed  *)
(* the channel: a send there panics (event.go, closeCh and trySend).       *)
NoSendOnClosed ==
  disp.pc \in {"send", "parked"} => ~sub[disp.cur].closed

(* A subscription gets the frames in the order the reader saw them, and    *)
(* until the child has been reaped without a gap; the one made before the  *)
(* reader started gets them from the first.                                *)
FramesInOrder ==
  [][\A s \in Subs :
       LET old == sub[s].last
           new == sub'[s].last
       IN  new # old => /\ new > old
                        /\ ~c.waitDone /\ (old # 0 \/ s = Initial) => new = old + 1]_vars

(* After finishClose nothing is left that could block or be woken: no call *)
(* pending, no loop running, every channel closed or being closed.         *)
ClosedIsQuiet ==
  c.finish = Done =>
    /\ pend = {} /\ c.closed /\ c.waitDone
    /\ "read" \in c.ended /\ disp.pc = "ended"
    /\ \A s \in Subs : sub[s].on => sub[s].closed \/ todo[s] # <<>>
    /\ \A t \in Callers : call[t].pc = "waiting" => call[t].cancelled \/ c.waitDone

(* A shutdown frame, or another one before it, waits for a child that does *)
(* not read: the encoder is held and no timer runs yet.                    *)
Jammed == c.v1 /\ child.alive /\ ~child.reads /\ encoder # Nobody

(* Again and again nobody is inside a function that should be over: Call   *)
(* and Wait when the child is gone, Start unless its timer is left out,    *)
(* Shutdown unless its frame jams.                                         *)
EverybodyReturns ==
  []<>(/\ \A t \in Callers : call[t].pc \notin {"idle", "returned"} => child.alive
       /\ c.started = "no" => todo["start"] = <<"awaitReady">> /\ ~world.late
       /\ todo["shut"] # <<>> => Jammed
       /\ todo["waitcall"] # <<>> => child.alive)
=============================================================================
