---------------------------- MODULE ClientProofs ----------------------------
(***************************************************************************)
(* Proofs about Client for every number of callers and subscriptions,      *)
(* every buffer size and every world: no send on a closed channel, frames  *)
(* in order, nothing left after finishClose.  Liveness stays with TLC.     *)
(***************************************************************************)
EXTENDS Client, SequenceTheorems, TLAPS

(* The dispatcher is between its first look at a subscription and the end  *)
(* of its send there; it has joined the sends in flight.                   *)
Serving == {"join", "recheck", "send", "parked"}
Joined  == {"recheck", "send", "parked"}

(* The steps of the goroutines. *)
Steps == {"write", "tell", "held", "fatal", "emit", "end", "eof", "ready", "take", "refuse",
          "closeStdin", "cancelPending", "hangUp", "close", "mute", "startFailed", "finish",
          "clearPending", "closeSubs", "awaitReady", "cleanup", "kill", "awaitReaped", "awaitExit",
          "goodbye", "reap"}

CallType == [pc : {"idle", "locking", "writing", "waiting", "returned"},
             answer : BOOLEAN, cancelled : BOOLEAN]
DispType == [pc : {"idle", "next", "ended"} \cup Serving, ev : Nat, left : SUBSET Subs,
             cur : Subs \cup {Nobody}]

(* TypeOK and the types of what it leaves out. *)
Typed ==
  /\ TypeOK
  /\ child \in [alive : BOOLEAN, clean : BOOLEAN, reads : BOOLEAN, talks : BOOLEAN]
  /\ stdin \in BOOLEAN
  /\ todo \in [Routines -> Seq(Steps)]
  /\ call \in [Callers -> CallType]
  /\ seq \in Nat
  /\ disp \in DispType
  /\ disp.pc \in Serving => disp.cur \in Subs

(* Subscriptions that still get frames are on and not dead, and only the   *)
(* goroutine that unsubscribes one closes its channel.                     *)
Subscriptions ==
  \A s \in Subs : /\ s \in subs => sub[s].on /\ ~sub[s].dead
                  /\ sub[s].closed => sub[s].dead
                  /\ sub[s].dead => sub[s].on
                  /\ todo[s] \in {<<>>, <<"close">>}
                  /\ todo[s] # <<>> => sub[s].dead

Dispatcher ==
  /\ \A s \in disp.left : sub[s].on
  /\ disp.pc \in Serving => sub[disp.cur].on
  /\ disp.pc \in Joined => sub[disp.cur].inflight
  /\ disp.pc \in {"send", "parked"} => ~sub[disp.cur].closed

Delivery == Subscriptions /\ Dispatcher

(* Where finishClose stands in a list of steps: after the child was waited *)
(* for, and what it has done so far holds; a write is never split.         *)
Ordered(q, flags, pending) ==
  \A i \in 1..Len(q) :
    /\ q[i] \in {"finish", "clearPending", "closeSubs"} =>
         flags.waitDone \/ \E j \in 1..i-1 : q[j] \in {"awaitReaped", "awaitExit"}
    /\ q[i] \in {"clearPending", "closeSubs"} => flags.closed
    /\ q[i] = "closeSubs" => pending = {} \/ \E j \in 1..i-1 : q[j] = "clearPending"
    /\ q[i] = "held" => i < Len(q) /\ q[i + 1] \in {"write", "tell"}

AllOrdered == \A g \in Routines : Ordered(todo[g], c, pend)

(* Every subscription that is on is in the map, closed, or being closed.   *)
Kept == \A s \in Subs : sub[s].on => s \in subs \/ sub[s].closed \/ todo[s] # <<>>

Over == c.finish = Done => /\ c.closed /\ c.waitDone /\ pend = {} /\ subs = {}
                           /\ "read" \in c.ended /\ disp.pc = "ended"

Finished == AllOrdered /\ Kept /\ Over

(* The subscription still waits for the frame the dispatcher holds.        *)
Awaits(s) == s \in disp.left \/ (disp.pc \in Serving /\ disp.cur = s)

(* Numbers rise along the pipeline: subscriptions, dispatcher, queue,      *)
(* reader.  Until the child is reaped they rise by one, and a subscription *)
(* in step is at most the frame in hand behind.                            *)
Rising ==
  /\ disp.ev <= seq
  /\ \A i \in 1..Len(queue) : /\ queue[i] <= seq /\ disp.ev < queue[i]
                              /\ \A k \in i+1..Len(queue) : queue[i] < queue[k]
                              /\ \A s \in Subs : sub[s].last < queue[i]

Behind ==
  /\ disp.pc \in {"idle", "ended"} => disp.left = {}
  /\ disp.pc \in Serving => disp.cur \notin disp.left
  /\ \A s \in Subs : /\ sub[s].last <= seq
                     /\ Awaits(s) => sub[s].last < disp.ev
                     /\ sub[s].last # 0 => sub[s].on
  /\ Initial \in world.subs => sub[Initial].on

InStep ==
  ~c.waitDone =>
    /\ \A i \in 1..Len(queue) : queue[i] = seq - Len(queue) + i
    /\ disp.pc \notin {"idle", "ended"} => disp.ev = seq - Len(queue)
    /\ \A s \in Subs : sub[s].last # 0 \/ (s = Initial /\ sub[s].on) =>
         /\ Awaits(s) => sub[s].last = disp.ev - 1
         /\ s \in subs /\ ~Awaits(s) => sub[s].last = seq - Len(queue)

InLine == Rising /\ Behind /\ InStep

-----------------------------------------------------------------------------
(* Types. *)

(* What replaces a step keeps the lists lists. *)
LEMMA ListsStayLists ==
  ASSUME Typed, NEW g \in Routines, NEW steps \in Seq(Steps), todo[g] # <<>>
  PROVE  /\ Then(g, steps) => todo' \in [Routines -> Seq(Steps)]
         /\ Become(g, steps) => todo' \in [Routines -> Seq(Steps)]
         /\ Continue(g) => todo' \in [Routines -> Seq(Steps)]
  <1>1. Tail(todo[g]) \in Seq(Steps)  BY DEF Typed
  <1>2. steps \o Tail(todo[g]) \in Seq(Steps) /\ <<>> \o Tail(todo[g]) \in Seq(Steps)  BY <1>1
  <1>. QED  BY <1>2 DEF Typed, Then, Become, Continue

(* The program starts with every variable in its type. *)
LEMMA InitTyped == Init => Typed
  <1>. SUFFICES ASSUME Init PROVE Typed  OBVIOUS
  <1>1. c \in Flags /\ sub \in [Subs -> SubType]  BY ClientAssumption DEF Init, Flags, SubType
  <1>2. queue \in Seq(Nat) /\ Len(queue) <= DispatchBuffer /\ subs \subseteq Subs /\ pend \subseteq Callers
        /\ encoder \in Callers \cup Routines \cup {Nobody} /\ seq \in Nat
    BY ClientAssumption DEF Init
  <1>3. todo \in [Routines -> Seq(Steps)]
    <2>1. /\ <<"write">> \o <<"awaitReady">> \in Seq(Steps) /\ <<>> \o <<"awaitReady">> \in Seq(Steps)
          /\ <<"reap">> \in Seq(Steps) /\ <<"take">> \in Seq(Steps) /\ <<>> \in Seq(Steps)
      BY DEF Steps
    <2>. QED  BY <2>1 DEF Init
  <1>. QED  BY <1>1, <1>2, <1>3 DEF Init, Typed, TypeOK, Serving, CallType, DispType

(* The lists that replace the step a goroutine is at. *)
LEMMA KnownLists ==
  /\ ReadFault \in Seq(Steps) /\ \A f : Handle(f) \in Seq(Steps)
  /\ \A g, kind, rest : rest \in Seq(Steps) => Unwritten(g, rest, kind) \in Seq(Steps)
  /\ \A q \in Seq(Steps) : /\ q # <<>> => Tail(q) \in Seq(Steps)
                           /\ SubSeq(q, 3, Len(q)) \in Seq(Steps)
  /\ <<>> \in Seq(Steps)
  <1>1. ReadFault \in Seq(Steps) /\ <<"emit">> \o ReadFault \in Seq(Steps)
        /\ <<"tell", "refuse">> \o ReadFault \in Seq(Steps)
    BY DEF ReadFault, Steps
  <1>2. /\ <<>> \o <<"ready", "emit", "take">> \in Seq(Steps)
        /\ <<"write">> \o <<"ready", "emit", "take">> \in Seq(Steps)
        /\ <<"emit", "closeStdin", "take">> \in Seq(Steps) /\ <<"emit", "take">> \in Seq(Steps)
        /\ <<"cleanup">> \in Seq(Steps) /\ <<"eof", "emit", "end">> \in Seq(Steps)
        /\ <<>> \in Seq(Steps)
    BY DEF Steps
  <1>3. ASSUME NEW f PROVE Handle(f) \in Seq(Steps)
    BY <1>1, <1>2 DEF Handle
  <1>4. ASSUME NEW g, NEW kind, NEW rest \in Seq(Steps) PROVE Unwritten(g, rest, kind) \in Seq(Steps)
    BY <1>1, <1>2 DEF Unwritten
  <1>5. ASSUME NEW q \in Seq(Steps)
        PROVE  (q # <<>> => Tail(q) \in Seq(Steps)) /\ SubSeq(q, 3, Len(q)) \in Seq(Steps)
    OBVIOUS
  <1>. QED  BY <1>1, <1>2, <1>3, <1>4, <1>5

(* Updates of the flags and of a subscription keep their types. *)
LEMMA FlagsStayFlags ==
  ASSUME NEW f \in Flags, NEW g \in Routines
  PROVE  /\ FailStart(f) \in Flags /\ Ready(f) \in Flags
         /\ [FailStart(f) EXCEPT !.fatal = g] \in Flags
         /\ [f EXCEPT !.mute = TRUE, !.fatal = IF @ = g THEN Done ELSE @] \in Flags
         /\ [f EXCEPT !.mute = TRUE] \in Flags
         /\ [f EXCEPT !.ended = @ \cup {g}] \in Flags
         /\ [f EXCEPT !.started = "failed"] \in Flags
         /\ [f EXCEPT !.started = "yes"] \in Flags
         /\ [f EXCEPT !.finish = g, !.closed = TRUE] \in Flags
         /\ [f EXCEPT !.finish = Done] \in Flags
         /\ [f EXCEPT !.v1 = TRUE] \in Flags
         /\ [f EXCEPT !.ready = TRUE, !.failed = TRUE] \in Flags
         /\ [f EXCEPT !.failed = TRUE, !.ready = TRUE] \in Flags
         /\ \A e \in BOOLEAN : [f EXCEPT !.exitErr = e, !.waitDone = TRUE] \in Flags
  <1>1. FailStart(f) \in Flags /\ Ready(f) \in Flags  BY ZenonT(40) DEF Flags, FailStart, Ready
  <1>2. \A h \in Flags : [h EXCEPT !.fatal = g] \in Flags  BY DEF Flags
  <1>3. [f EXCEPT !.mute = TRUE, !.fatal = IF @ = g THEN Done ELSE @] \in Flags  BY DEF Flags
  <1>4. [f EXCEPT !.mute = TRUE] \in Flags /\ [f EXCEPT !.ended = @ \cup {g}] \in Flags  BY DEF Flags
  <1>5. [f EXCEPT !.started = "failed"] \in Flags /\ [f EXCEPT !.started = "yes"] \in Flags  BY DEF Flags
  <1>6. [f EXCEPT !.finish = g, !.closed = TRUE] \in Flags /\ [f EXCEPT !.finish = Done] \in Flags  BY DEF Flags
  <1>7. [f EXCEPT !.v1 = TRUE] \in Flags /\ [f EXCEPT !.ready = TRUE, !.failed = TRUE] \in Flags  BY DEF Flags
  <1>8. [f EXCEPT !.failed = TRUE, !.ready = TRUE] \in Flags  BY DEF Flags
  <1>9. \A e \in BOOLEAN : [f EXCEPT !.exitErr = e, !.waitDone = TRUE] \in Flags  BY DEF Flags
  <1>. QED  BY <1>1, <1>2, <1>3, <1>4, <1>5, <1>6, <1>7, <1>8, <1>9

(* Each change the code makes to a subscription record leaves it one. *)
LEMMA SubsStaySubs ==
  ASSUME NEW s \in SubType
  PROVE  /\ [s EXCEPT !.dead = TRUE, !.closed = TRUE] \in SubType
         /\ [s EXCEPT !.dead = TRUE] \in SubType
         /\ [s EXCEPT !.closed = TRUE] \in SubType
         /\ \A b \in BOOLEAN : [s EXCEPT !.inflight = b] \in SubType
         /\ \A b \in BOOLEAN : [s EXCEPT !.on = TRUE, !.dead = b, !.closed = b] \in SubType
         /\ s.unread > 0 => [s EXCEPT !.unread = @ - 1] \in SubType
         /\ s.unread < EventBuffer => \A n \in Nat :
              [s EXCEPT !.inflight = FALSE, !.unread = @ + 1, !.last = n] \in SubType
  <1>1. EventBuffer \in Nat  BY ClientAssumption
  <1>2. /\ [s EXCEPT !.dead = TRUE, !.closed = TRUE] \in SubType
        /\ [s EXCEPT !.dead = TRUE] \in SubType /\ [s EXCEPT !.closed = TRUE] \in SubType
    BY DEF SubType
  <1>3. \A b \in BOOLEAN : [s EXCEPT !.inflight = b] \in SubType  BY DEF SubType
  <1>4. \A b \in BOOLEAN : [s EXCEPT !.on = TRUE, !.dead = b, !.closed = b] \in SubType  BY DEF SubType
  <1>5. ASSUME s.unread > 0 PROVE [s EXCEPT !.unread = @ - 1] \in SubType
    <2>1. s.unread - 1 \in 0..EventBuffer  BY <1>1, <1>5 DEF SubType
    <2>. QED  BY <2>1 DEF SubType
  <1>6. ASSUME s.unread < EventBuffer, NEW n \in Nat
        PROVE  [s EXCEPT !.inflight = FALSE, !.unread = @ + 1, !.last = n] \in SubType
    <2>1. s.unread + 1 \in 0..EventBuffer  BY <1>1, <1>6 DEF SubType
    <2>. QED  BY <2>1 DEF SubType
  <1>. QED  BY <1>2, <1>3, <1>4, <1>5, <1>6

(* A goroutine that starts with its list of steps stays typed. *)
LEMMA RunTyped == ASSUME Typed, NEW g \in Routines, Run(g) PROVE Typed'
  <1> USE DEF Typed, TypeOK, process, calls, delivery
  <1>1. ASSUME NEW steps \in Seq(Steps), Then(g, steps) \/ Become(g, steps) \/ Continue(g), todo[g] # <<>>
        PROVE  todo' \in [Routines -> Seq(Steps)]
    BY <1>1, ListsStayLists
  <1>2. CASE Write(g)
    <2>1. PICK kind \in {"write", "tell"} : Write(g)!(kind)  BY <1>2 DEF Write
    <2>2. todo[g] # <<>> /\ Tail(todo[g]) \in Seq(Steps)  BY <2>1, KnownLists DEF At
    <2>3. Unwritten(g, Tail(todo[g]), kind) \in Seq(Steps)  BY <2>2, KnownLists
    <2>5. <<"held", kind>> \in Seq(Steps)  BY DEF Steps
    <2>4. todo' \in [Routines -> Seq(Steps)]  BY <2>1, <2>2, <2>3, <2>5, <1>1
    <2>. QED  BY <2>1, <2>4
  <1>3. CASE HeldWriteEnds(g)
    <2> DEFINE rest == SubSeq(todo[g], 3, Len(todo[g]))
    <2>1. todo[g] # <<>> /\ rest \in Seq(Steps)  BY <1>3, KnownLists DEF HeldWriteEnds, At
    <2>2. Unwritten(g, rest, todo[g][2]) \in Seq(Steps)  BY <2>1, KnownLists
    <2>3. todo' \in [Routines -> Seq(Steps)]  BY <2>1, <2>2, <1>1, <1>3 DEF HeldWriteEnds
    <2>. QED  BY <2>3, <1>3 DEF HeldWriteEnds
  <1>4. <<"cancelPending", "hangUp">> \in Seq(Steps) /\ <<"clearPending", "closeSubs">> \in Seq(Steps)
        /\ <<"kill", "awaitReaped">> \in Seq(Steps) /\ <<>> \in Seq(Steps)
    BY DEF Steps
  <1>5. CASE EnterFatal(g)
    <2>1. todo' \in [Routines -> Seq(Steps)]  BY <1>1, <1>4, <1>5 DEF EnterFatal, At
    <2>2. c' \in Flags
      <3>1. [FailStart(c) EXCEPT !.fatal = g] \in Flags  BY FlagsStayFlags
      <3>. QED  BY <3>1, <1>5 DEF EnterFatal
    <2>. QED  BY <2>1, <2>2, <1>5 DEF EnterFatal
  <1>6. CASE CancelPending(g) \/ ClearPending(g)
    <2>1. todo' \in [Routines -> Seq(Steps)]  BY <1>1, <1>4, <1>6 DEF CancelPending, ClearPending, At
    <2>2. CancelAll \in [Callers -> CallType]  BY DEF CancelAll, CallType
    <2>3. call' = CancelAll /\ pend' \subseteq Callers  BY <1>6 DEF CancelPending, ClearPending
    <2>. QED  BY <2>1, <2>2, <2>3, <1>6 DEF CancelPending, ClearPending
  <1>7. CASE CloseStdin(g) \/ HangUp(g) \/ SetFlag(g)
    <2>1. todo' \in [Routines -> Seq(Steps)]  BY <1>1, <1>4, <1>7 DEF CloseStdin, HangUp, SetFlag, At
    <2>2. c' \in Flags
      <3>1. /\ [c EXCEPT !.mute = TRUE, !.fatal = IF @ = g THEN Done ELSE @] \in Flags
            /\ [c EXCEPT !.mute = TRUE] \in Flags /\ [c EXCEPT !.ended = @ \cup {g}] \in Flags
            /\ [c EXCEPT !.started = "failed"] \in Flags
        BY FlagsStayFlags
      <3>. QED  BY <3>1, <1>7 DEF CloseStdin, HangUp, SetFlag
    <2>. QED  BY <2>1, <2>2, <1>7 DEF CloseStdin, HangUp, SetFlag
  <1>8. CASE EnterFinish(g)
    <2>1. todo' \in [Routines -> Seq(Steps)]  BY <1>1, <1>4, <1>8 DEF EnterFinish, At
    <2>2. c' \in Flags
      <3>1. [c EXCEPT !.finish = g, !.closed = TRUE] \in Flags  BY FlagsStayFlags
      <3>. QED  BY <3>1, <1>8 DEF EnterFinish
    <2>. QED  BY <2>1, <2>2, <1>8 DEF EnterFinish
  <1>9. CASE CloseSubs(g)
    <2>1. todo' \in [Routines -> Seq(Steps)]  BY <1>1, <1>4, <1>9 DEF CloseSubs, At
    <2>2. c' \in Flags  BY <1>9, FlagsStayFlags DEF CloseSubs
    <2>3. sub' \in [Subs -> SubType]  BY <1>9, SubsStaySubs DEF CloseSubs
    <2>. QED  BY <2>1, <2>2, <2>3, <1>9 DEF CloseSubs
  <1>10. CASE g \in Subs /\ CloseChannel(g)
    <2>1. todo' \in [Routines -> Seq(Steps)]  BY <1>1, <1>4, <1>10 DEF CloseChannel, At
    <2>2. sub' \in [Subs -> SubType]
      <3>1. [sub[g] EXCEPT !.closed = TRUE] \in SubType  BY <1>10, SubsStaySubs
      <3>. QED  BY <3>1, <1>10 DEF CloseChannel
    <2>. QED  BY <2>1, <2>2, <1>10 DEF CloseChannel
  <1>11. CASE AwaitExit(g) \/ Kill(g)
    <2>1. todo' \in [Routines -> Seq(Steps)]  BY <1>1, <1>4, <1>11 DEF AwaitExit, Kill, At
    <2>. QED  BY <2>1, <1>11 DEF AwaitExit, Kill
  <1>. QED  BY <1>2, <1>3, <1>5, <1>6, <1>7, <1>8, <1>9, <1>10, <1>11 DEF Run

(* The steps of a Call keep the types. *)
LEMMA CallsTyped ==
  ASSUME Typed, NEW t \in Callers, CallBegins(t) \/ Calling(t) \/ CallerGivesUp(t)
  PROVE  Typed'
  <1> USE DEF Typed, TypeOK, process, calls, delivery
  <1>1. \A pc \in {"locking", "writing", "waiting", "returned"} :
          [call EXCEPT ![t].pc = pc] \in [Callers -> CallType]
    BY DEF CallType
  <1>2. Return(t) => call' \in [Callers -> CallType] /\ pend' \subseteq Callers  BY <1>1 DEF Return
  <1>3. CASE CallBegins(t)
    <2>1. call' \in [Callers -> CallType] /\ pend' \subseteq Callers  BY <1>1, <1>2, <1>3 DEF CallBegins
    <2>. QED  BY <2>1, <1>3 DEF CallBegins
  <1>4. CASE CallWrites(t)
    <2>1. call' \in [Callers -> CallType] /\ pend' \subseteq Callers  BY <1>1, <1>2, <1>4 DEF CallWrites
    <2>. QED  BY <2>1, <1>4 DEF CallWrites
  <1>5. CASE CallReturns(t) \/ CallerGivesUp(t)
    BY <1>2, <1>5 DEF CallReturns, CallerGivesUp
  <1>. QED  BY <1>3, <1>4, <1>5 DEF Calling

(* The steps of the read and wait goroutines keep the types. *)
LEMMA ReadLoopTyped == ASSUME Typed, ReadLoop \/ WaitLoop PROVE Typed'
  <1> USE DEF Typed, TypeOK, process, calls, delivery
  <1>0. {"read", "wait"} \subseteq Routines  BY DEF Routines
  <1>1. ASSUME NEW g \in {"read", "wait"}, NEW steps \in Seq(Steps),
               Then(g, steps) \/ Become(g, steps) \/ Continue(g), todo[g] # <<>>
        PROVE  todo' \in [Routines -> Seq(Steps)]
    BY <1>0, <1>1, ListsStayLists
  <1>2. /\ <<"eof", "end">> \in Seq(Steps) /\ <<"fatal">> \in Seq(Steps)
        /\ <<"cancelPending", "mute">> \in Seq(Steps) /\ <<>> \in Seq(Steps)
        /\ <<"cancelPending", "hangUp">> \o <<"end">> \in Seq(Steps)
        /\ <<"fatal">> \o <<"end">> \in Seq(Steps)
    BY DEF Steps
  <1>3. /\ FailStart(c) \in Flags /\ Ready(c) \in Flags
        /\ [c EXCEPT !.v1 = TRUE] \in Flags /\ [c EXCEPT !.failed = TRUE, !.ready = TRUE] \in Flags
        /\ [c EXCEPT !.exitErr = ~child.clean, !.waitDone = TRUE] \in Flags
    <2>1. "read" \in Routines /\ (~child.clean) \in BOOLEAN  BY DEF Routines
    <2>. QED  BY <2>1, FlagsStayFlags
  <1>4. CASE TakeFrame
    <2>1. PICK f \in world.frames :
            /\ Become("read", Handle(f))
            /\ c' = CASE f = "hello" -> [c EXCEPT !.v1 = TRUE]
                      [] f \in {"garbage", "badHello"} -> c
                      [] OTHER -> Ready(c)
            /\ IF f \in pend
               THEN call' = [call EXCEPT ![f].answer = TRUE] /\ pend' = pend \ {f}
               ELSE UNCHANGED calls
      BY <1>4 DEF TakeFrame
    <2>2. todo' \in [Routines -> Seq(Steps)]
      <3>1. Handle(f) \in Seq(Steps) /\ todo["read"] # <<>>  BY <1>4, KnownLists DEF TakeFrame, At
      <3>. QED  BY <2>1, <3>1, <1>1
    <2>3. c' \in Flags  BY <2>1, <1>3
    <2>4. /\ pend' \subseteq Callers
          /\ call' \in [Callers -> CallType]
      <3>1. CASE f \in pend
        <4>1. [call EXCEPT ![f].answer = TRUE] \in [Callers -> CallType]  BY <3>1 DEF CallType
        <4>. QED  BY <2>1, <3>1, <4>1
      <3>2. CASE f \notin pend  BY <2>1, <3>2
      <3>. QED  BY <3>1, <3>2
    <2>. QED  BY <2>2, <2>3, <2>4, <1>4 DEF TakeFrame
  <1>5. CASE EndOfOutput \/ MarkReady \/ RefuseHello
    <2>1. todo' \in [Routines -> Seq(Steps)]
      BY <1>1, <1>2, <1>5 DEF EndOfOutput, MarkReady, RefuseHello, At
    <2>. QED  BY <2>1, <1>3, <1>5 DEF EndOfOutput, MarkReady, RefuseHello
  <1>6. CASE ReadEnds
    <2>1. todo' \in [Routines -> Seq(Steps)]  BY <1>1, <1>2, <1>6 DEF ReadEnds, At
    <2>. QED  BY <2>1, <1>3, <1>6 DEF ReadEnds
  <1>7. CASE Emit
    <2>1. todo' \in [Routines -> Seq(Steps)]  BY <1>1, <1>2, <1>7 DEF Emit, At
    <2>2. queue' \in Seq(Nat) /\ Len(queue') <= DispatchBuffer
      <3>1. queue' = queue \/ (queue' = Append(queue, seq + 1) /\ Len(queue) < DispatchBuffer)
        BY <1>7 DEF Emit
      <3>2. Append(queue, seq + 1) \in Seq(Nat) /\ Len(Append(queue, seq + 1)) = Len(queue) + 1  OBVIOUS
      <3>. QED  BY <3>1, <3>2, ClientAssumption
    <2>. QED  BY <2>1, <2>2, <1>7 DEF Emit
  <1>8. CASE Reap
    <2>1. todo' \in [Routines -> Seq(Steps)]  BY <1>1, <1>2, <1>8 DEF Reap, At
    <2>. QED  BY <2>1, <1>3, <1>8 DEF Reap
  <1>9. CASE EndWaitLoop
    <2>1. todo' \in [Routines -> Seq(Steps)]  BY <1>1, <1>2, <1>9 DEF EndWaitLoop, At
    <2>. QED  BY <2>1, <1>3, <1>9 DEF EndWaitLoop
  <1>. QED  BY <1>4, <1>5, <1>6, <1>7, <1>8, <1>9 DEF ReadLoop, WaitLoop

(* The steps of the dispatch goroutine keep the types. *)
LEMMA DispatchTyped == ASSUME Typed, DispatchLoop PROVE Typed'
  <1> USE DEF Typed, TypeOK, process, calls, Serving
  <1>1. CASE TakeEvent
    <2>1. Head(queue) \in Nat /\ Tail(queue) \in Seq(Nat) /\ Len(Tail(queue)) <= DispatchBuffer
      BY <1>1, ClientAssumption DEF TakeEvent
    <2>2. disp' \in DispType /\ disp'.pc \notin Serving  BY <2>1, <1>1 DEF TakeEvent, DispType
    <2>. QED  BY <2>1, <2>2, <1>1 DEF TakeEvent
  <1>2. CASE EndDispatch \/ NextSubscription
    <2>1. disp' \in DispType /\ (disp'.pc \in Serving => disp'.cur \in Subs)
      <3>1. CASE EndDispatch  BY <3>1 DEF EndDispatch, DispType
      <3>2. CASE NextSubscription /\ disp.left = {} /\ disp' = [disp EXCEPT !.pc = "idle", !.ev = 0, !.cur = Nobody]
        BY <3>2 DEF DispType
      <3>3. ASSUME NEW s \in disp.left,
                   disp' = [disp EXCEPT !.left = @ \ {s}, !.cur = s, !.pc = IF sub[s].dead THEN "next" ELSE "join"]
            PROVE  disp' \in DispType /\ (disp'.pc \in Serving => disp'.cur \in Subs)
        BY <3>3 DEF DispType
      <3>. QED  BY <1>2, <3>1, <3>2, <3>3 DEF NextSubscription
    <2>. QED  BY <2>1, <1>2 DEF EndDispatch, NextSubscription
  <1>3. CASE JoinInflight \/ Recheck
    <2>1. disp.cur \in Subs  BY <1>3 DEF JoinInflight, Recheck
    <2>2. \A b \in BOOLEAN : [sub[disp.cur] EXCEPT !.inflight = b] \in SubType  BY <2>1, SubsStaySubs
    <2>3. sub' \in [Subs -> SubType]  BY <2>1, <2>2, <1>3 DEF JoinInflight, Recheck, LeaveInflight
    <2>4. disp' \in DispType /\ disp'.cur = disp.cur  BY <1>3 DEF JoinInflight, Recheck, DispType
    <2>. QED  BY <2>1, <2>3, <2>4, <1>3 DEF JoinInflight, Recheck
  <1>4. CASE Send
    <2>1. disp.cur \in Subs /\ disp.ev \in Nat  BY <1>4 DEF Send, DispType
    <2>2. \A b \in BOOLEAN : [sub[disp.cur] EXCEPT !.inflight = b] \in SubType  BY <2>1, SubsStaySubs
    <2>3. sub[disp.cur].unread < EventBuffer =>
            [sub[disp.cur] EXCEPT !.inflight = FALSE, !.unread = @ + 1, !.last = disp.ev] \in SubType
      BY <2>1, SubsStaySubs
    <2>4. sub' \in [Subs -> SubType]  BY <2>1, <2>2, <2>3, <1>4 DEF Send, LeaveInflight
    <2>5. disp' \in DispType /\ disp'.cur = disp.cur  BY <1>4 DEF Send, DispType
    <2>. QED  BY <2>1, <2>4, <2>5, <1>4 DEF Send, LeaveInflight
  <1>. QED  BY <1>1, <1>2, <1>3, <1>4 DEF DispatchLoop

(* The child, the owner, Shutdown, Wait and the subscribers keep the types. *)
LEMMA RestTyped ==
  ASSUME Typed, \/ ChildStalls \/ ChildExits \/ Own \/ Shutdown \/ Wait
                \/ \E s \in Subs : Receive(s) \/ Subscribe(s) \/ Unsubscribe(s)
  PROVE  Typed'
  <1> USE DEF Typed, TypeOK, process, calls, delivery
  <1>0. {"start", "shut", "waitcall"} \cup Subs \subseteq Routines  BY DEF Routines
  <1>1. ASSUME NEW g \in Routines, NEW steps \in Seq(Steps), Become(g, steps)
        PROVE  todo' \in [Routines -> Seq(Steps)]
    BY <1>1 DEF Become
  <1>2. CASE ChildStalls \/ ChildExits
    BY <1>2 DEF ChildStalls, ChildExits
  <1>3. CASE AwaitReady \/ CleanUpStart
    <2>1. /\ <<>> \in Seq(Steps) /\ <<"cleanup">> \in Seq(Steps)
          /\ <<"fatal", "kill", "awaitReaped", "finish", "startFailed">> \in Seq(Steps)
      BY DEF Steps
    <2>2. todo' \in [Routines -> Seq(Steps)]  BY <1>0, <1>1, <1>3, <2>1 DEF AwaitReady, CleanUpStart
    <2>3. [c EXCEPT !.started = "yes"] \in Flags /\ [c EXCEPT !.ready = TRUE, !.failed = TRUE] \in Flags
      BY <1>0, FlagsStayFlags
    <2>. QED  BY <2>2, <2>3, <1>3 DEF AwaitReady, CleanUpStart
  <1>4. CASE SayGoodbye
    <2>1. todo["shut"] # <<>> /\ <<"tell">> \in Seq(Steps) /\ <<>> \in Seq(Steps)
      BY <1>4 DEF SayGoodbye, At, Steps
    <2>2. todo' \in [Routines -> Seq(Steps)]  BY <1>0, <1>4, <2>1, ListsStayLists DEF SayGoodbye
    <2>. QED  BY <2>2, <1>4 DEF SayGoodbye
  <1>5. CASE Shutdown \/ Wait
    <2>1. /\ <<"goodbye", "hangUp", "awaitExit", "finish", "end">> \in Seq(Steps)
          /\ <<"awaitReaped", "finish", "end">> \in Seq(Steps)
      BY DEF Steps
    <2>2. todo' \in [Routines -> Seq(Steps)]  BY <1>0, <1>1, <1>5, <2>1 DEF Shutdown, Wait
    <2>. QED  BY <2>2, <1>5 DEF Shutdown, Wait
  <1>6. ASSUME NEW s \in Subs, Receive(s) PROVE Typed'
    <2>1. [sub[s] EXCEPT !.unread = @ - 1] \in SubType  BY <1>6, SubsStaySubs DEF Receive
    <2>2. sub' \in [Subs -> SubType]  BY <2>1, <1>6 DEF Receive
    <2>. QED  BY <2>2, <1>6 DEF Receive
  <1>7. ASSUME NEW s \in Subs, Subscribe(s) PROVE Typed'
    <2>1. c.closed \in BOOLEAN  BY DEF Flags
    <2>2. [sub[s] EXCEPT !.on = TRUE, !.dead = c.closed, !.closed = c.closed] \in SubType
      BY <2>1, SubsStaySubs
    <2>3. sub' \in [Subs -> SubType]  BY <2>2, <1>7 DEF Subscribe
    <2>. QED  BY <2>3, <1>7 DEF Subscribe
  <1>8. ASSUME NEW s \in Subs, Unsubscribe(s) PROVE Typed'
    <2>1. [sub[s] EXCEPT !.dead = TRUE] \in SubType  BY SubsStaySubs
    <2>3. <<"close">> \in Seq(Steps)  BY DEF Steps
    <2>2. sub' \in [Subs -> SubType] /\ todo' \in [Routines -> Seq(Steps)]
      BY <2>1, <2>3, <1>0, <1>1, <1>8 DEF Unsubscribe
    <2>. QED  BY <2>2, <1>8 DEF Unsubscribe
  <1>. QED  BY <1>2, <1>3, <1>4, <1>5, <1>6, <1>7, <1>8 DEF Own

(* Every variable keeps its type: channels within their capacity, only     *)
(* known subscriptions and calls in the maps, one holder of the encoder.   *)
THEOREM ClientTypeCorrect == Spec => []Typed
  <1>1. Init => Typed  BY InitTyped
  <1>2. Typed /\ [Next]_vars => Typed'
    <2>1. CASE UNCHANGED vars
      BY <2>1 DEF vars, Typed, TypeOK
    <2>2. Typed /\ Next => Typed'
      BY RunTyped, CallsTyped, ReadLoopTyped, DispatchTyped, RestTyped DEF Next
    <2>. QED  BY <2>1, <2>2
  <1>. QED  BY <1>1, <1>2, PTL DEF Spec

-----------------------------------------------------------------------------
(* Delivery. *)

(* Only these steps touch a subscription or what is on its way to one.     *)
Delivers ==
  \/ Emit \/ DispatchLoop
  \/ \E s \in Subs : Receive(s) \/ Subscribe(s) \/ Unsubscribe(s) \/ CloseChannel(s)
  \/ \E g \in Routines : CloseSubs(g)

(* Only the dispatcher and the subscribers touch what delivery is about, or a
   subscriber's steps. *)
LEMMA Elsewhere ==
  ASSUME Typed, Delivery, Next
  PROVE  \/ Delivers
         \/ UNCHANGED delivery /\ \A s \in Subs : todo'[s] = todo[s]
  <1> USE DEF process, calls, delivery
  <1>0. /\ Subs \subseteq Routines /\ {"read", "wait", "start", "shut", "waitcall"} \subseteq Routines
        /\ Subs \cap {"read", "wait", "start", "shut", "waitcall"} = {}
    BY ClientAssumption DEF Routines
  <1>1. todo \in [Routines -> Seq(Steps)]  BY DEF Typed
  <1>2. ASSUME NEW g \in Routines \ Subs, NEW steps, Then(g, steps) \/ Become(g, steps) \/ Continue(g)
        PROVE  \A s \in Subs : todo'[s] = todo[s]
    BY <1>0, <1>1, <1>2 DEF Then, Become, Continue
  <1>3. ASSUME NEW g \in Subs, NEW op, At(g, op) PROVE op = "close"
    BY <1>3 DEF At, Delivery, Subscriptions
  <1>4. ASSUME NEW g \in Routines, Run(g) PROVE Delivers \/ (UNCHANGED delivery /\ \A s \in Subs : todo'[s] = todo[s])
    <2>1. CASE g \in Subs
      <3>1. CASE CloseChannel(g)  BY <2>1, <3>1 DEF Delivers
      <3>2. ~CloseChannel(g) => FALSE
        BY <1>3, <1>4, <2>1 DEF Run, Write, HeldWriteEnds, EnterFatal, CancelPending, CloseStdin, HangUp,
           SetFlag, EnterFinish, ClearPending, CloseSubs, AwaitExit, Kill
      <3>. QED  BY <3>1, <3>2
    <2>2. CASE g \notin Subs
      <3>1. CASE CloseSubs(g)  BY <3>1 DEF Delivers
      <3>2. CASE ~CloseSubs(g)
        <4>1. UNCHANGED delivery
          BY <1>4, <2>2, <3>2 DEF Run, Write, HeldWriteEnds, EnterFatal, CancelPending, CloseStdin, HangUp,
             SetFlag, EnterFinish, ClearPending, AwaitExit, Kill
        <4>2. (\E steps : Then(g, steps) \/ Become(g, steps) \/ Continue(g)) \/ todo' = todo
          BY <1>4, <2>2, <3>2 DEF Run, Write, HeldWriteEnds, EnterFatal, CancelPending, CloseStdin, HangUp,
             SetFlag, EnterFinish, ClearPending, AwaitExit, Kill
        <4>. QED  BY <1>2, <2>2, <4>1, <4>2
      <3>. QED  BY <3>1, <3>2
    <2>. QED  BY <2>1, <2>2
  <1>5. ASSUME NEW t \in Callers, CallBegins(t) \/ Calling(t) \/ CallerGivesUp(t)
        PROVE  UNCHANGED <<delivery, todo>>
    BY <1>5 DEF CallBegins, Calling, CallWrites, CallReturns, CallerGivesUp
  <1>6. CASE ChildStalls \/ ChildExits  BY <1>6 DEF ChildStalls, ChildExits
  <1>7. ASSUME ReadLoop \/ WaitLoop, ~Emit
        PROVE  UNCHANGED delivery /\ \A s \in Subs : todo'[s] = todo[s]
    <2>1. UNCHANGED delivery
      BY <1>7 DEF ReadLoop, WaitLoop, TakeFrame, EndOfOutput, ReadEnds, MarkReady, RefuseHello, Reap, EndWaitLoop
    <2>2. \E g \in {"read", "wait"} : \E steps : Then(g, steps) \/ Become(g, steps) \/ Continue(g)
      BY <1>7 DEF ReadLoop, WaitLoop, TakeFrame, EndOfOutput, ReadEnds, MarkReady, RefuseHello, Reap, EndWaitLoop
    <2>. QED  BY <1>0, <1>2, <2>1, <2>2
  <1>8. CASE Own \/ Shutdown \/ Wait
    <2>1. UNCHANGED delivery  BY <1>8 DEF Own, AwaitReady, CleanUpStart, SayGoodbye, Shutdown, Wait
    <2>2. \E g \in {"start", "shut", "waitcall"} : \E steps : Then(g, steps) \/ Become(g, steps)
      BY <1>8 DEF Own, AwaitReady, CleanUpStart, SayGoodbye, Shutdown, Wait
    <2>. QED  BY <1>0, <1>2, <2>1, <2>2
  <1>. QED  BY <1>4, <1>5, <1>6, <1>7, <1>8 DEF Next, Delivers

(* Delivery is in order before anything is sent. *)
LEMMA InitDelivery == Init => Delivery
  <1>. SUFFICES ASSUME Init PROVE Delivery  OBVIOUS
  <1>1. Subs \cap {"read", "wait", "start", "shut", "waitcall"} = {} /\ Initial \in Subs  BY ClientAssumption
  <1>2. \A s \in Subs : todo[s] = <<>>  BY <1>1 DEF Init, Routines
  <1>3. Subscriptions  BY <1>1, <1>2 DEF Init, Subscriptions
  <1>4. Dispatcher  BY DEF Init, Dispatcher, Serving, Joined
  <1>. QED  BY <1>3, <1>4 DEF Delivery

(* Every step keeps the channel discipline of delivery. *)
LEMMA DeliveryKept == ASSUME Typed, Delivery, [Next]_vars PROVE Delivery'
  <1> USE DEF process, calls, Delivery
  <1>0. /\ sub \in [Subs -> SubType] /\ subs \subseteq Subs /\ disp \in DispType
        /\ todo \in [Routines -> Seq(Steps)] /\ Subs \subseteq Routines
        /\ disp.left \subseteq Subs /\ (disp.pc \in Serving => disp.cur \in Subs)
    BY DEF Typed, TypeOK, Routines, DispType
  <1>00. "send" \in Serving /\ "parked" \in Serving /\ "recheck" \in Serving /\ "join" \in Serving
         /\ "idle" \notin Serving /\ "next" \notin Serving /\ "ended" \notin Serving
         /\ Joined \subseteq Serving /\ "join" \notin Joined
    BY DEF Serving, Joined
  <1>1. CASE UNCHANGED vars  BY <1>1 DEF vars, Subscriptions, Dispatcher
  <1>2. CASE UNCHANGED delivery /\ \A s \in Subs : todo'[s] = todo[s]
    BY <1>2 DEF delivery, Subscriptions, Dispatcher
  <1>3. CASE Emit
    <2>1. UNCHANGED <<disp, subs, sub>> /\ todo' = [todo EXCEPT !["read"] = <<>> \o Tail(@)]
      BY <1>3 DEF Emit, Continue, Then
    <2>2. \A s \in Subs : todo'[s] = todo[s]
      BY <2>1, <1>0, ClientAssumption
    <2>. QED  BY <2>1, <2>2 DEF Subscriptions, Dispatcher
  <1>4. CASE TakeEvent \/ EndDispatch
    <2>1. UNCHANGED <<todo, subs, sub>> /\ disp'.pc \in {"next", "ended"} /\ disp'.left \subseteq disp.left \cup subs
      BY <1>0, <1>4 DEF TakeEvent, EndDispatch, DispType
    <2>2. Subscriptions'  BY <2>1 DEF Subscriptions
    <2>3. Dispatcher'  BY <1>0, <1>00, <2>1 DEF Subscriptions, Dispatcher
    <2>. QED  BY <2>2, <2>3
  <1>5. CASE NextSubscription
    <2>1. /\ UNCHANGED <<todo, subs, sub>> /\ disp'.left \subseteq disp.left
          /\ disp'.pc \in {"idle", "next", "join"}
          /\ disp'.pc = "join" => disp'.cur \in disp.left
      <3>1. CASE disp' = [disp EXCEPT !.pc = "idle", !.ev = 0, !.cur = Nobody]
        BY <1>0, <1>5, <3>1 DEF NextSubscription, DispType
      <3>2. ASSUME NEW s \in disp.left,
                   disp' = [disp EXCEPT !.left = @ \ {s}, !.cur = s, !.pc = IF sub[s].dead THEN "next" ELSE "join"]
            PROVE  disp'.left \subseteq disp.left /\ disp'.cur = s /\ disp'.pc \in {"next", "join"}
        BY <1>0, <3>2 DEF DispType
      <3>. QED  BY <1>5, <3>1, <3>2 DEF NextSubscription
    <2>2. Subscriptions'  BY <2>1 DEF Subscriptions
    <2>3. Dispatcher'  BY <1>0, <1>00, <2>1 DEF Dispatcher
    <2>. QED  BY <2>2, <2>3
  <1>6. CASE JoinInflight \/ Recheck \/ Send
    <2>1. disp.cur \in Subs /\ UNCHANGED <<todo, subs>> /\ disp'.left = disp.left /\ disp'.cur = disp.cur
      BY <1>0, <1>00, <1>6 DEF JoinInflight, Recheck, Send, DispType
    <2>2. \A s \in Subs : sub'[s].on = sub[s].on /\ sub'[s].dead = sub[s].dead /\ sub'[s].closed = sub[s].closed
      <3>1. CASE JoinInflight  BY <1>0, <3>1 DEF JoinInflight, SubType
      <3>2. CASE sub' = sub  BY <3>2
      <3>3. CASE LeaveInflight  BY <1>0, <3>3 DEF LeaveInflight, SubType
      <3>4. CASE sub' = [sub EXCEPT ![disp.cur].inflight = FALSE, ![disp.cur].unread = @ + 1,
                                    ![disp.cur].last = disp.ev]
        BY <1>0, <3>4 DEF SubType
      <3>5. Recheck \/ Send => sub' = sub \/ LeaveInflight
                               \/ sub' = [sub EXCEPT ![disp.cur].inflight = FALSE, ![disp.cur].unread = @ + 1,
                                                     ![disp.cur].last = disp.ev]
        BY DEF Recheck, Send
      <3>. QED  BY <1>6, <3>1, <3>2, <3>3, <3>4, <3>5
    <2>3. Subscriptions'  BY <2>1, <2>2 DEF Subscriptions
    <2>4. /\ disp'.pc \in Joined => sub'[disp.cur].inflight
          /\ disp'.pc \in {"send", "parked"} => ~sub[disp.cur].closed
          /\ disp.pc \in Serving
      <3>1. CASE JoinInflight  BY <1>0, <1>00, <2>1, <3>1 DEF JoinInflight, DispType, SubType
      <3>2. CASE Recheck
        BY <1>0, <1>00, <2>1, <3>2 DEF Recheck, DispType, SubType, Dispatcher, Joined
      <3>3. CASE Send  BY <1>0, <1>00, <2>1, <3>3 DEF Send, DispType, SubType, Dispatcher, Joined
      <3>. QED  BY <1>6, <3>1, <3>2, <3>3
    <2>5. Dispatcher'  BY <1>0, <1>00, <2>1, <2>2, <2>4 DEF Dispatcher
    <2>. QED  BY <2>3, <2>5
  <1>7. ASSUME NEW s \in Subs, Receive(s) \/ Subscribe(s)
        PROVE  Delivery'
    <2>1. /\ UNCHANGED <<todo, disp>>
          /\ \A r \in Subs : /\ sub'[r].inflight = sub[r].inflight
                             /\ sub[r].on => sub'[r].on /\ sub'[r].closed = sub[r].closed
      <3>1. CASE Receive(s)  BY <1>0, <3>1 DEF Receive, SubType
      <3>2. CASE Subscribe(s)  BY <1>0, <3>2 DEF Subscribe, SubType
      <3>. QED  BY <1>7, <3>1, <3>2
    <2>2. CASE Receive(s)  
      <3>1. /\ subs' = subs
            /\ \A r \in Subs : sub'[r].on = sub[r].on /\ sub'[r].dead = sub[r].dead /\ sub'[r].closed = sub[r].closed
        BY <1>0, <2>2 DEF Receive, SubType
      <3>. QED  BY <1>0, <1>00, <2>1, <3>1 DEF Subscriptions, Dispatcher
    <2>3. CASE Subscribe(s)
      <3>1. Subscriptions'
        BY <1>0, <2>1, <2>3 DEF Subscribe, SubType, Subscriptions
      <3>2. Dispatcher'  BY <1>0, <1>00, <2>1 DEF Dispatcher, Joined
      <3>. QED  BY <3>1, <3>2
    <2>. QED  BY <1>7, <2>2, <2>3
  <1>8. ASSUME NEW s \in Subs, Unsubscribe(s) \/ CloseChannel(s)
        PROVE  Delivery'
    <2>1. disp' = disp /\ \A r \in Subs : sub'[r].inflight = sub[r].inflight /\ sub'[r].on = sub[r].on
                       /\ (sub[r].inflight => sub'[r].closed = sub[r].closed)
      <3>1. CASE Unsubscribe(s)  BY <1>0, <3>1 DEF Unsubscribe, SubType
      <3>2. CASE CloseChannel(s)  BY <1>0, <3>2 DEF CloseChannel, SubType
      <3>. QED  BY <1>8, <3>1, <3>2
    <2>2. Subscriptions'
      <3>1. CASE Unsubscribe(s)  BY <1>0, <3>1 DEF Unsubscribe, Become, Subscriptions, SubType
      <3>2. CASE CloseChannel(s)
        <4>1. sub[s].dead /\ todo'[s] = <<>> /\ \A r \in Subs : r # s => todo'[r] = todo[r]
          BY <1>0, <3>2 DEF CloseChannel, Continue, Then, At, Subscriptions
        <4>. QED  BY <1>0, <4>1, <3>2 DEF CloseChannel, Subscriptions, SubType
      <3>. QED  BY <1>8, <3>1, <3>2
    <2>3. Dispatcher'  BY <1>0, <1>00, <2>1 DEF Dispatcher, Joined
    <2>. QED  BY <2>2, <2>3
  <1>9. ASSUME NEW g \in Routines, CloseSubs(g)
        PROVE  Delivery'
    <2>1. disp' = disp /\ disp.pc = "ended" /\ subs' = {}
          /\ \A r \in Subs : /\ sub'[r].on = sub[r].on /\ (sub[r].dead => sub'[r].dead)
                             /\ r \in subs => sub'[r].dead
                             /\ sub'[r].closed => r \in subs \/ sub[r].closed
                             /\ sub'[r].dead => r \in subs \/ sub[r].dead
      BY <1>0, <1>9 DEF CloseSubs, SubType
    <2>2. \A r \in Subs : todo'[r] \in {todo[r], <<>>}
      <3>1. At(g, "closeSubs") /\ todo' = [todo EXCEPT ![g] = <<>> \o Tail(@)]
        BY <1>9 DEF CloseSubs, Continue, Then
      <3>2. g \notin Subs  BY <3>1 DEF At, Subscriptions
      <3>. QED  BY <1>0, <3>1, <3>2
    <2>3. Subscriptions'  BY <1>0, <2>1, <2>2 DEF Subscriptions
    <2>4. Dispatcher'  BY <1>0, <1>00, <2>1 DEF Dispatcher, Joined
    <2>. QED  BY <2>3, <2>4
  <1>. QED  BY <1>1, <1>2, <1>3, <1>4, <1>5, <1>6, <1>7, <1>8, <1>9, Elsewhere
       DEF Delivers, DispatchLoop

(* Types and channel discipline hold in every reachable state. *)
LEMMA DeliveryCorrect == Spec => [](Typed /\ Delivery)
  <1>1. Init => Typed /\ Delivery  BY InitTyped, InitDelivery
  <1>2. Typed /\ Delivery /\ [Next]_vars => Delivery'  BY DeliveryKept
  <1>. QED  BY <1>1, <1>2, ClientTypeCorrect, PTL DEF Spec

(* trySend joins the sends in flight and looks again before it sends, and  *)
(* closeCh waits for them: a send never meets a closed channel, however    *)
(* many subscriptions come and go, and whoever closes them.                *)
THEOREM SendsMeetOpenChannels == Spec => []NoSendOnClosed
  <1>1. Delivery => NoSendOnClosed  BY DEF Delivery, Dispatcher, NoSendOnClosed
  <1>. QED  BY <1>1, DeliveryCorrect, PTL

-----------------------------------------------------------------------------
(* finishClose. *)

LEMMA OrderedStays ==
  ASSUME NEW q, NEW f, NEW p, NEW h, NEW r, Ordered(q, f, p),
         f.waitDone => h.waitDone, f.closed => h.closed, f.closed /\ p = {} => r = {}
  PROVE  Ordered(q, h, r)
  BY DEF Ordered

(* Two ordered lists of steps, one after the other, are ordered. *)
LEMMA OrderedJoin ==
  ASSUME NEW a \in Seq(Steps), NEW b \in Seq(Steps), NEW f, NEW p, Ordered(a, f, p), Ordered(b, f, p)
  PROVE  Ordered(a \o b, f, p)
  <1> DEFINE q == a \o b
  <1>1. /\ q \in Seq(Steps) /\ Len(q) = Len(a) + Len(b) /\ Len(a) \in Nat /\ Len(b) \in Nat
        /\ \A i \in 1..Len(a) : q[i] = a[i]
        /\ \A i \in 1..Len(b) : q[Len(a) + i] = b[i]
    BY ConcatProperties
  <1> HIDE DEF q
  <1> SUFFICES ASSUME NEW i \in 1..Len(q)
               PROVE  Ordered(q, f, p)!(i)
    BY DEF Ordered, q
  <1>2. CASE i <= Len(a)
    <2>1. i \in 1..Len(a) /\ \A j \in 1..i-1 : j \in 1..Len(a)  BY <1>1, <1>2
    <2>2. q[i] = a[i] /\ (\A j \in 1..i-1 : q[j] = a[j]) /\ (i < Len(a) => q[i+1] = a[i+1] /\ i < Len(q))
      BY <1>1, <2>1
    <2>. QED  BY <2>1, <2>2 DEF Ordered
  <1>3. CASE i > Len(a)
    <2> DEFINE k == i - Len(a)
    <2>1. k \in 1..Len(b) /\ i = Len(a) + k  BY <1>1, <1>3
    <2>2. q[i] = b[k] /\ \A j \in 1..k-1 : q[Len(a) + j] = b[j] /\ Len(a) + j \in 1..i-1
      <3>1. q[i] = b[k]  BY <1>1, <2>1
      <3>2. ASSUME NEW j \in 1..k-1 PROVE q[Len(a) + j] = b[j] /\ Len(a) + j \in 1..i-1
        <4>1. j \in 1..Len(b) /\ Len(a) + j \in 1..i-1  BY <1>1, <2>1
        <4>. QED  BY <1>1, <4>1
      <3>. QED  BY <3>1, <3>2
    <2>3. ASSUME k < Len(b) PROVE q[i+1] = b[k+1] /\ i < Len(q)
      <3>1. k + 1 \in 1..Len(b) /\ Len(a) + (k + 1) = i + 1  BY <1>1, <2>1, <2>3
      <3>. QED  BY <1>1, <2>1, <2>3, <3>1
    <2> HIDE DEF k
    <2>4. Ordered(b, f, p)!(k)  BY <2>1 DEF Ordered
    <2>5. q[i] \in {"finish", "clearPending", "closeSubs"} =>
            f.waitDone \/ \E j \in 1..i-1 : q[j] \in {"awaitReaped", "awaitExit"}
      BY <2>2, <2>4
    <2>6. q[i] = "closeSubs" => p = {} \/ \E j \in 1..i-1 : q[j] = "clearPending"
      BY <2>2, <2>4
    <2>. QED  BY <2>2, <2>3, <2>4, <2>5, <2>6
  <1>. QED  BY <1>1, <1>2, <1>3

(* Doing the first step of an ordered list leaves an ordered list. *)
LEMMA OrderedTail ==
  ASSUME NEW q \in Seq(Steps), q # <<>>, NEW f, NEW p, Ordered(q, f, p),
         Head(q) \in {"awaitReaped", "awaitExit"} => f.waitDone,
         Head(q) = "clearPending" => p = {}
  PROVE  Ordered(Tail(q), f, p)
  <1> DEFINE t == Tail(q)
  <1>1. /\ Len(q) \in Nat \ {0} /\ Len(t) = Len(q) - 1 /\ q[1] = Head(q)
        /\ \A i \in 1..Len(t) : t[i] = q[i+1]
    OBVIOUS
  <1> HIDE DEF t
  <1> SUFFICES ASSUME NEW i \in 1..Len(t)
               PROVE  Ordered(t, f, p)!(i)
    BY DEF Ordered, t
  <1>2. i + 1 \in 1..Len(q) /\ t[i] = q[i+1] /\ (i < Len(t) => t[i+1] = q[i+2] /\ i + 1 < Len(q))
    BY <1>1
  <1>3. \A j \in 1..i : j = 1 \/ (j - 1 \in 1..i-1 /\ t[j-1] = q[j])
    BY <1>1
  <1>4. ASSUME q[i+1] \in {"finish", "clearPending", "closeSubs"}, ~f.waitDone
        PROVE  \E j \in 1..i-1 : t[j] \in {"awaitReaped", "awaitExit"}
    <2>1. PICK j \in 1..i : q[j] \in {"awaitReaped", "awaitExit"}  BY <1>1, <1>2, <1>4 DEF Ordered
    <2>2. j # 1  BY <1>1, <1>4, <2>1
    <2>. QED  BY <1>3, <2>1, <2>2
  <1>5. ASSUME q[i+1] = "closeSubs", p # {}
        PROVE  \E j \in 1..i-1 : t[j] = "clearPending"
    <2>1. PICK j \in 1..i : q[j] = "clearPending"  BY <1>1, <1>2, <1>5 DEF Ordered
    <2>2. j # 1  BY <1>1, <1>5, <2>1
    <2>. QED  BY <1>3, <2>1, <2>2
  <1>6. q[i+1] \in {"clearPending", "closeSubs"} => f.closed  BY <1>2 DEF Ordered
  <1>7. q[i+1] = "held" => i < Len(t) /\ t[i+1] \in {"write", "tell"}  BY <1>1, <1>2 DEF Ordered
  <1>. QED  BY <1>2, <1>4, <1>5, <1>6, <1>7

(* Shutdown gives up waiting for the exit, kills, and waits again. *)
LEMMA OrderedAwait ==
  ASSUME NEW q \in Seq(Steps), q # <<>>, NEW f, NEW p, Ordered(q, f, p), Head(q) = "awaitExit"
  PROVE  Ordered(<<"kill", "awaitReaped">> \o Tail(q), f, p)
  <1> DEFINE a == <<"kill", "awaitReaped">>  r == a \o Tail(q)
  <1>0. a \in Seq(Steps)  BY DEF Steps
  <1>1. /\ Len(q) \in Nat \ {0} /\ Len(Tail(q)) = Len(q) - 1 /\ q[1] = Head(q) /\ Tail(q) \in Seq(Steps)
        /\ \A i \in 1..Len(q)-1 : Tail(q)[i] = q[i+1]
    OBVIOUS
  <1>2. /\ Len(r) = Len(a) + Len(Tail(q))
        /\ \A i \in 1..Len(a) + Len(Tail(q)) : r[i] = IF i <= Len(a) THEN a[i] ELSE Tail(q)[i - Len(a)]
    BY <1>0, <1>1, ConcatProperties
  <1>3. Len(a) = 2 /\ a[1] = "kill" /\ a[2] = "awaitReaped"  OBVIOUS
  <1>4. /\ Len(r) = Len(q) + 1 /\ r[1] = "kill" /\ r[2] = "awaitReaped"
        /\ \A i \in 3..Len(q) + 1 : r[i] = q[i-1]
    <2> HIDE DEF a, r
    <2>1. ASSUME NEW i \in 3..Len(q) + 1 PROVE r[i] = q[i-1]
      <3>1. i - 2 \in 1..Len(q)-1 /\ ~(i <= Len(a)) /\ i \in 1..Len(a) + Len(Tail(q)) /\ i - Len(a) = i - 2
        BY <1>1, <1>3
      <3>2. r[i] = Tail(q)[i-2]  BY <1>2, <3>1
      <3>3. Tail(q)[i-2] = q[(i-2)+1]  BY <1>1, <3>1
      <3>. QED  BY <3>2, <3>3
    <2>2. Len(r) = Len(q) + 1 /\ r[1] = "kill" /\ r[2] = "awaitReaped"  BY <1>1, <1>2, <1>3
    <2>. QED  BY <2>1, <2>2
  <1> HIDE DEF r
  <1> SUFFICES ASSUME NEW i \in 1..Len(r) PROVE Ordered(r, f, p)!(i)
    BY DEF Ordered, r
  <1>5. CASE i \in {1, 2}  BY <1>4, <1>5
  <1>6. CASE i \in 3..Len(q) + 1
    <2>1. i - 1 \in 1..Len(q) /\ r[i] = q[i-1] /\ 2 \in 1..i-1  BY <1>1, <1>4, <1>6
    <2>2. Ordered(q, f, p)!(i - 1)  BY <2>1 DEF Ordered
    <2>3. r[i] = "closeSubs" /\ p # {} => \E j \in 1..i-1 : r[j] = "clearPending"
      <3>1. SUFFICES ASSUME r[i] = "closeSubs", p # {}
                     PROVE  \E j \in 1..i-1 : r[j] = "clearPending"
        OBVIOUS
      <3>2. PICK j \in 1..(i-1)-1 : q[j] = "clearPending"  BY <2>1, <2>2, <3>1
      <3>3. j # 1  BY <1>1, <3>2
      <3>4. j + 1 \in 3..Len(q) + 1 /\ j + 1 \in 1..i-1 /\ (j + 1) - 1 = j  BY <1>1, <1>6, <3>2, <3>3
      <3>. QED  BY <1>4, <3>2, <3>4
    <2>4. r[i] = "held" => i < Len(r) /\ r[i+1] \in {"write", "tell"}
      <3>1. SUFFICES ASSUME r[i] = "held" PROVE i < Len(r) /\ r[i+1] \in {"write", "tell"}
        OBVIOUS
      <3>2. i - 1 < Len(q) /\ q[(i-1)+1] \in {"write", "tell"}  BY <2>1, <2>2, <3>1
      <3>3. i + 1 \in 3..Len(q) + 1 /\ (i + 1) - 1 = (i - 1) + 1  BY <1>1, <1>6, <3>2
      <3>. QED  BY <1>4, <3>2, <3>3
    <2>. QED  BY <1>4, <2>1, <2>2, <2>3, <2>4
  <1>. QED  BY <1>1, <1>4, <1>5, <1>6

(* Dropping two steps of a list is taking its tail twice. *)
LEMMA SkipTwo ==
  ASSUME NEW q \in Seq(Steps), 1 < Len(q)
  PROVE  /\ SubSeq(q, 3, Len(q)) = Tail(Tail(q)) /\ Tail(Tail(q)) \in Seq(Steps)
         /\ Tail(q) \in Seq(Steps) /\ Tail(q) # <<>> /\ Head(Tail(q)) = q[2]
  <1>1. q # <<>> /\ Len(q) \in Nat /\ 2 \in 1..Len(q) /\ Len(q) \in 2..Len(q)  OBVIOUS
  <1>2. Tail(q) = SubSeq(q, 2, Len(q)) /\ Tail(q) \in Seq(Steps) /\ Len(Tail(q)) = Len(q) - 1
    BY <1>1, TailIsSubSeq, HeadTailProperties
  <1>3. Head(SubSeq(q, 2, Len(q))) = q[2] /\ Tail(SubSeq(q, 2, Len(q))) = SubSeq(q, 2 + 1, Len(q))
    BY <1>1, HeadTailOfSubSeq
  <1>4. Tail(q) # <<>>
    <2>1. Len(Tail(q)) # 0  BY <1>1, <1>2
    <2>. QED  BY <2>1, EmptySeq
  <1>5. Tail(Tail(q)) \in Seq(Steps)  BY <1>2, <1>4, HeadTailProperties
  <1>. QED  BY <1>2, <1>3, <1>4, <1>5

(* Lists without a part of finishClose. *)
Plain(q) == \A i \in 1..Len(q) : q[i] \notin {"finish", "clearPending", "closeSubs", "held"}

(* The lists without a waiting or a clearing step are ordered in every state.
   *)
LEMMA PlainLists ==
  /\ \A f : Plain(Handle(f))
  /\ \A q, f, p : Plain(q) => Ordered(q, f, p)
  /\ Plain(ReadFault) /\ Plain(<<"eof", "emit", "end">>) /\ Plain(<<"cleanup">>) /\ Plain(<<>>)
  <1>1. ASSUME NEW a \in Seq(Steps), NEW b \in Seq(Steps), Plain(a), Plain(b) PROVE Plain(a \o b)
    <2>1. /\ Len(a \o b) = Len(a) + Len(b) /\ Len(a) \in Nat /\ Len(b) \in Nat
          /\ \A i \in 1..Len(a) + Len(b) : (a \o b)[i] = IF i <= Len(a) THEN a[i] ELSE b[i - Len(a)]
      BY ConcatProperties
    <2> SUFFICES ASSUME NEW i \in 1..Len(a) + Len(b)
                 PROVE  (a \o b)[i] \notin {"finish", "clearPending", "closeSubs", "held"}
      BY <2>1 DEF Plain
    <2>2. CASE i <= Len(a)
      <3>1. i \in 1..Len(a)  BY <2>1, <2>2
      <3>. QED  BY <1>1, <2>1, <2>2, <3>1 DEF Plain
    <2>3. CASE ~(i <= Len(a))
      <3>1. i - Len(a) \in 1..Len(b)  BY <2>1, <2>3
      <3>. QED  BY <1>1, <2>1, <2>3, <3>1 DEF Plain
    <2>. QED  BY <2>2, <2>3
  <1>2. /\ Plain(ReadFault) /\ Plain(<<"emit">>) /\ Plain(<<"tell", "refuse">>) /\ Plain(<<>>)
        /\ Plain(<<"write">>) /\ Plain(<<"ready", "emit", "take">>)
        /\ Plain(<<"emit", "closeStdin", "take">>) /\ Plain(<<"emit", "take">>)
        /\ Plain(<<"cleanup">>) /\ Plain(<<"eof", "emit", "end">>)
    BY DEF Plain, ReadFault
  <1>3. /\ ReadFault \in Seq(Steps) /\ <<"emit">> \in Seq(Steps) /\ <<"tell", "refuse">> \in Seq(Steps)
        /\ <<>> \in Seq(Steps) /\ <<"write">> \in Seq(Steps) /\ <<"ready", "emit", "take">> \in Seq(Steps)
    BY DEF Steps, ReadFault
  <1>4. /\ Plain(<<"emit">> \o ReadFault) /\ Plain(<<"tell", "refuse">> \o ReadFault)
        /\ Plain(<<>> \o <<"ready", "emit", "take">>) /\ Plain(<<"write">> \o <<"ready", "emit", "take">>)
    BY <1>1, <1>2, <1>3
  <1>5. ASSUME NEW f PROVE Plain(Handle(f))  BY <1>2, <1>4 DEF Handle
  <1>6. ASSUME NEW q, NEW f, NEW p, Plain(q) PROVE Ordered(q, f, p)  BY <1>6 DEF Plain, Ordered
  <1>. QED  BY <1>2, <1>5, <1>6

(* A goroutine that takes up new ordered steps leaves every list ordered. *)
LEMMA ListsStayOrdered ==
  ASSUME Typed, NEW g \in Routines, NEW steps \in Seq(Steps), NEW f, NEW p,
         \A k \in Routines : Ordered(todo[k], f, p), Ordered(steps, f, p)
  PROVE  /\ Become(g, steps) => \A k \in Routines : Ordered(todo'[k], f, p)
         /\ /\ todo[g] # <<>>
            /\ Head(todo[g]) \in {"awaitReaped", "awaitExit"} => f.waitDone
            /\ Head(todo[g]) = "clearPending" => p = {}
            => /\ Then(g, steps) => \A k \in Routines : Ordered(todo'[k], f, p)
               /\ Continue(g) => \A k \in Routines : Ordered(todo'[k], f, p)
  <1>0. todo \in [Routines -> Seq(Steps)]  BY DEF Typed
  <1>1. Become(g, steps) => \A k \in Routines : Ordered(todo'[k], f, p)  BY <1>0 DEF Become
  <1>2. ASSUME todo[g] # <<>>, Head(todo[g]) \in {"awaitReaped", "awaitExit"} => f.waitDone,
               Head(todo[g]) = "clearPending" => p = {}, NEW s \in Seq(Steps), Ordered(s, f, p), Then(g, s)
        PROVE  \A k \in Routines : Ordered(todo'[k], f, p)
    <2>1. Tail(todo[g]) \in Seq(Steps) /\ Ordered(Tail(todo[g]), f, p)  BY <1>0, <1>2, OrderedTail
    <2>2. Ordered(s \o Tail(todo[g]), f, p)  BY <1>2, <2>1, OrderedJoin
    <2>3. \A k \in Routines : todo'[k] = IF k = g THEN s \o Tail(todo[g]) ELSE todo[k]  BY <1>0, <1>2 DEF Then
    <2>. QED  BY <2>2, <2>3
  <1>3. <<>> \in Seq(Steps) /\ Ordered(<<>>, f, p)  BY PlainLists, KnownLists
  <1>. QED  BY <1>1, <1>2, <1>3 DEF Continue

(* What never goes back. *)
LEMMA FlagsGrow ==
  ASSUME Typed, [Next]_vars
  PROVE  /\ c.waitDone => c'.waitDone
         /\ c.closed => c'.closed
         /\ "read" \in c.ended => "read" \in c'.ended
         /\ disp.pc = "ended" => disp'.pc = "ended"
         /\ c.closed /\ pend = {} => pend' = {}
  <1> USE DEF process, calls, delivery
  <1>0. c \in Flags  BY DEF Typed, TypeOK
  <1>1. ASSUME NEW g \in Routines, Run(g)
        PROVE  /\ c.waitDone => c'.waitDone
               /\ c.closed => c'.closed
               /\ c.ended \subseteq c'.ended
               /\ disp' = disp /\ (pend = {} => pend' = {})
    <2>1. disp' = disp /\ (pend = {} => pend' = {})
      BY <1>1 DEF Run, Write, HeldWriteEnds, EnterFatal, CancelPending, CloseStdin, HangUp,
         SetFlag, EnterFinish, ClearPending, CloseSubs, CloseChannel, AwaitExit, Kill
    <2>2. CASE c' = c  BY <2>2, <2>1
    <2>3. CASE EnterFatal(g)  BY ZenonT(40), <2>1, <2>3, <1>0 DEF EnterFatal, FailStart, Flags
    <2>4. CASE HangUp(g) \/ SetFlag(g)  BY ZenonT(40), <2>1, <2>4, <1>0 DEF HangUp, SetFlag, Flags
    <2>5. CASE EnterFinish(g) \/ CloseSubs(g)  BY <2>1, <2>5, <1>0 DEF EnterFinish, CloseSubs, Flags
    <2>6. c' = c \/ EnterFatal(g) \/ HangUp(g) \/ SetFlag(g) \/ EnterFinish(g) \/ CloseSubs(g)
      BY <1>1 DEF Run, Write, HeldWriteEnds, CancelPending, CloseStdin, ClearPending, CloseChannel, AwaitExit, Kill
    <2>. QED  BY <2>2, <2>3, <2>4, <2>5, <2>6
  <1>2. ASSUME NEW t \in Callers, CallBegins(t) \/ Calling(t) \/ CallerGivesUp(t)
        PROVE  c' = c /\ disp' = disp /\ (c.closed /\ pend = {} => pend' = {})
    BY <1>2 DEF CallBegins, Calling, CallWrites, CallReturns, CallerGivesUp, Return
  <1>3. ASSUME ReadLoop \/ WaitLoop
        PROVE  /\ c.waitDone => c'.waitDone
               /\ c.closed => c'.closed
               /\ c'.ended = c.ended
               /\ disp' = disp /\ (pend = {} => pend' = {})
    <2>1. disp' = disp /\ (pend = {} => pend' = {})
      BY <1>3 DEF ReadLoop, WaitLoop, TakeFrame, EndOfOutput, ReadEnds, MarkReady, RefuseHello, Emit,
         Reap, EndWaitLoop
    <2>2. CASE TakeFrame
      <3>1. c' = [c EXCEPT !.v1 = TRUE] \/ c' = c \/ c' = Ready(c)  BY <2>2 DEF TakeFrame
      <3>. QED  BY <1>0, <2>1, <3>1 DEF Ready, Flags
    <2>3. CASE ReadEnds \/ MarkReady \/ RefuseHello \/ EndWaitLoop
      BY <1>0, <2>1, <2>3 DEF ReadEnds, MarkReady, RefuseHello, EndWaitLoop, Ready, FailStart, Flags
    <2>4. CASE Reap  BY <1>0, <2>1, <2>4 DEF Reap, Flags
    <2>5. CASE EndOfOutput \/ Emit  BY <2>1, <2>5 DEF EndOfOutput, Emit
    <2>. QED  BY <1>3, <2>2, <2>3, <2>4, <2>5 DEF ReadLoop, WaitLoop
  <1>4. ASSUME DispatchLoop
        PROVE  c' = c /\ pend' = pend /\ (disp.pc = "ended" => disp'.pc = "ended")
    BY <1>4 DEF DispatchLoop, TakeEvent, EndDispatch, NextSubscription, JoinInflight, Recheck, Send
  <1>5. ASSUME ChildStalls \/ ChildExits \/ Own \/ Shutdown \/ Wait
        PROVE  /\ c.waitDone => c'.waitDone
               /\ c.closed => c'.closed
               /\ c'.ended = c.ended /\ disp' = disp /\ pend' = pend
    <2>1. disp' = disp /\ pend' = pend
      BY <1>5 DEF ChildStalls, ChildExits, Own, AwaitReady, CleanUpStart, SayGoodbye, Shutdown, Wait
    <2>2. CASE c' = c  BY <2>1, <2>2
    <2>3. CASE AwaitReady \/ CleanUpStart  BY <1>0, <2>1, <2>3 DEF AwaitReady, CleanUpStart, Flags
    <2>. QED  BY <1>5, <2>2, <2>3 DEF ChildStalls, ChildExits, Own, SayGoodbye, Shutdown, Wait
  <1>6. ASSUME NEW s \in Subs, Receive(s) \/ Subscribe(s) \/ Unsubscribe(s)
        PROVE  c' = c /\ disp' = disp /\ pend' = pend
    BY <1>6 DEF Receive, Subscribe, Unsubscribe
  <1>7. CASE UNCHANGED vars  BY <1>7 DEF vars
  <1>. QED  BY <1>1, <1>2, <1>3, <1>4, <1>5, <1>6, <1>7 DEF Next

(* Every step keeps every goroutine's list ordered. *)
LEMMA OrderedKept == ASSUME Typed, AllOrdered, [Next]_vars PROVE AllOrdered'
  <1> USE DEF process, calls, delivery
  <1> DEFINE f == c'
             p == pend'
             InOrder == \A k \in Routines : Ordered(todo'[k], f, p)
  <1>0. \A k \in Routines : Ordered(todo[k], f, p)  BY FlagsGrow, OrderedStays DEF AllOrdered
  <1>1. \A q : Plain(q) => Ordered(q, f, p)  BY PlainLists
  <1>2. ASSUME todo' = todo PROVE InOrder  BY <1>0, <1>2
  <1>3. {"read", "wait", "start", "shut", "waitcall"} \cup Subs = Routines  BY DEF Routines
  <1>4. todo \in [Routines -> Seq(Steps)] /\ c \in Flags  BY DEF Typed, TypeOK
  <1>5. ASSUME NEW g \in Routines, NEW steps \in Seq(Steps), Ordered(steps, f, p)
        PROVE  /\ Become(g, steps) => InOrder
               /\ \A op : At(g, op) /\ op \notin {"awaitReaped", "awaitExit", "clearPending"} =>
                    (Then(g, steps) \/ Continue(g) => InOrder)
    BY <1>0, <1>5, ListsStayOrdered DEF At
  <1> SUFFICES InOrder  BY DEF AllOrdered
  <1> HIDE DEF f, p, InOrder
  <1>6. <<>> \in Seq(Steps) /\ Ordered(<<>>, f, p)  BY <1>1, PlainLists, KnownLists
  <1>7. ASSUME NEW g \in Routines, Run(g) PROVE InOrder
    <2>1. CASE Write(g)
      <3>1. PICK kind \in {"write", "tell"} : Write(g)!(kind)  BY <2>1 DEF Write
      <3>2. /\ todo[g] # <<>> /\ Head(todo[g]) = kind /\ Tail(todo[g]) \in Seq(Steps)
        BY <3>1, <1>4 DEF At
      <3>3. Ordered(Tail(todo[g]), f, p)  BY <1>0, <1>4, <3>2, OrderedTail
      <3>4. Ordered(Unwritten(g, Tail(todo[g]), kind), f, p) /\ Unwritten(g, Tail(todo[g]), kind) \in Seq(Steps)
        BY <1>1, <3>2, <3>3, PlainLists, KnownLists DEF Unwritten
      <3>5. /\ <<"held", kind>> \in Seq(Steps) /\ Ordered(<<"held", kind>>, f, p)
        <4>1. <<"held", kind>> \in Seq(Steps)  BY DEF Steps
        <4>. QED  BY <4>1 DEF Ordered
      <3>6. Become(g, Tail(todo[g])) \/ Become(g, Unwritten(g, Tail(todo[g]), kind)) \/ Then(g, <<"held", kind>>)
        BY <3>1
      <3>. QED  BY <1>5, <3>1, <3>2, <3>3, <3>4, <3>5, <3>6
    <2>2. CASE HeldWriteEnds(g)
      <3> DEFINE q == todo[g]  rest == SubSeq(q, 3, Len(q))
      <3>1. /\ q \in Seq(Steps) /\ q # <<>> /\ Head(q) = "held" /\ Ordered(q, f, p)
        BY <2>2, <1>0, <1>4 DEF HeldWriteEnds, At
      <3>2. 1 < Len(q) /\ q[2] \in {"write", "tell"}
        BY <3>1 DEF Ordered
      <3>5. rest = Tail(Tail(q)) /\ Tail(q) \in Seq(Steps) /\ Tail(q) # <<>> /\ Head(Tail(q)) = q[2]
            /\ Tail(Tail(q)) \in Seq(Steps)
        BY <3>1, <3>2, SkipTwo
      <3> HIDE DEF q, rest
      <3>3. Ordered(Tail(q), f, p)  BY <3>1, OrderedTail
      <3>4. Ordered(Tail(Tail(q)), f, p)  BY <3>2, <3>3, <3>5, OrderedTail
      <3>6. Become(g, rest) \/ Become(g, Unwritten(g, rest, q[2]))  BY <2>2 DEF HeldWriteEnds, q, rest
      <3>7. rest \in Seq(Steps) /\ Ordered(rest, f, p)  BY <3>4, <3>5
      <3>8. Ordered(Unwritten(g, rest, q[2]), f, p) /\ Unwritten(g, rest, q[2]) \in Seq(Steps)
        BY <1>1, <3>7, PlainLists, KnownLists DEF Unwritten
      <3>. QED  BY <1>5, <3>6, <3>7, <3>8
    <2>3. CASE EnterFatal(g)
      <3>1. <<"cancelPending", "hangUp">> \in Seq(Steps) /\ Plain(<<"cancelPending", "hangUp">>)
        BY DEF Steps, Plain
      <3>. QED  BY <1>1, <1>5, <1>6, <3>1, <2>3 DEF EnterFatal
    <2>4. CASE CancelPending(g) \/ CloseStdin(g) \/ HangUp(g) \/ SetFlag(g) \/ CloseSubs(g) \/ Kill(g)
               \/ (g \in Subs /\ CloseChannel(g))
      BY <1>5, <1>6, <2>4 DEF CancelPending, CloseStdin, HangUp, SetFlag, CloseSubs, Kill, CloseChannel
    <2>5. CASE EnterFinish(g)
      <3>1. CASE c.finish = Done  BY <1>5, <1>6, <2>5, <3>1 DEF EnterFinish
      <3>2. CASE c.finish # Done
        <4>1. c.waitDone
          <5>1. todo[g] # <<>> /\ todo[g][1] = "finish"  BY <1>4, <2>5 DEF EnterFinish, At
          <5>2. 1 \in 1..Len(todo[g])  BY <1>4, <5>1
          <5>. QED  BY <5>1, <5>2 DEF AllOrdered, Ordered
        <4>2. f.waitDone /\ f.closed  BY <1>4, <2>5, <3>2, <4>1 DEF EnterFinish, Flags, f
        <4>3. /\ <<"clearPending", "closeSubs">> \in Seq(Steps)
              /\ Ordered(<<"clearPending", "closeSubs">>, f, p)
          <5>1. <<"clearPending", "closeSubs">> \in Seq(Steps)  BY DEF Steps
          <5>. QED  BY <5>1, <4>2 DEF Ordered
        <4>. QED  BY <1>5, <2>5, <3>2, <4>3 DEF EnterFinish
      <3>. QED  BY <3>1, <3>2
    <2>6. CASE ClearPending(g)
      <3>1. p = {} /\ todo[g] # <<>> /\ Head(todo[g]) = "clearPending"  BY <2>6 DEF ClearPending, At, p
      <3>. QED  BY <1>0, <1>6, <2>6, <3>1, ListsStayOrdered DEF ClearPending, InOrder
    <2>7. CASE AwaitExit(g)
      <3>1. CASE c.waitDone
        <4>1. f.waitDone /\ Continue(g) /\ todo[g] # <<>> /\ Head(todo[g]) \in {"awaitReaped", "awaitExit"}
          BY <2>7, <3>1, <1>4 DEF AwaitExit, At, f
        <4>. QED  BY <1>0, <1>6, <4>1, ListsStayOrdered DEF InOrder
      <3>2. CASE ~c.waitDone
        <4>1. At(g, "awaitExit") /\ Then(g, <<"kill", "awaitReaped">>)  BY <2>7, <3>2 DEF AwaitExit
        <4>2. todo[g] # <<>> /\ Head(todo[g]) = "awaitExit"  BY <4>1 DEF At
        <4>3. Ordered(<<"kill", "awaitReaped">> \o Tail(todo[g]), f, p)  BY <1>0, <1>4, <4>2, OrderedAwait
        <4>4. \A k \in Routines : todo'[k] = IF k = g THEN <<"kill", "awaitReaped">> \o Tail(todo[g]) ELSE todo[k]
          BY <1>4, <4>1 DEF Then
        <4>. QED  BY <1>0, <4>3, <4>4 DEF InOrder
      <3>. QED  BY <3>1, <3>2
    <2>. QED  BY <1>7, <2>1, <2>2, <2>3, <2>4, <2>5, <2>6, <2>7 DEF Run
  <1>8. ASSUME NEW t \in Callers, CallBegins(t) \/ Calling(t) \/ CallerGivesUp(t) PROVE InOrder
    BY <1>2, <1>8 DEF CallBegins, Calling, CallWrites, CallReturns, CallerGivesUp
  <1>9. CASE ChildStalls \/ ChildExits \/ DispatchLoop
    BY <1>2, <1>9 DEF ChildStalls, ChildExits, DispatchLoop, TakeEvent, EndDispatch, NextSubscription, JoinInflight,
       Recheck, Send
  <1>10. CASE TakeFrame
    <2>1. \E fr : Become("read", Handle(fr))  BY <1>10 DEF TakeFrame
    <2>. QED  BY <1>1, <1>3, <1>5, <2>1, PlainLists, KnownLists
  <1>11. CASE EndOfOutput \/ ReadEnds \/ MarkReady \/ RefuseHello \/ Emit
    <2>1. /\ <<"eof", "end">> \in Seq(Steps) /\ Plain(<<"eof", "end">>)
          /\ <<"fatal">> \in Seq(Steps) /\ Plain(<<"fatal">>)
          /\ <<"cancelPending", "mute">> \in Seq(Steps) /\ Plain(<<"cancelPending", "mute">>)
      BY DEF Steps, Plain
    <2>. QED  BY <1>1, <1>3, <1>5, <1>6, <1>11, <2>1 DEF EndOfOutput, ReadEnds, MarkReady, RefuseHello, Emit
  <1>12. CASE Reap \/ EndWaitLoop
    <2>1. /\ <<"cancelPending", "hangUp">> \in Seq(Steps) /\ Plain(<<"cancelPending", "hangUp">>)
          /\ <<"fatal">> \in Seq(Steps) /\ Plain(<<"fatal">>)
          /\ <<"end">> \in Seq(Steps) /\ Plain(<<"end">>)
      BY DEF Steps, Plain
    <2>2. /\ <<"cancelPending", "hangUp">> \o <<"end">> \in Seq(Steps) /\ <<"fatal">> \o <<"end">> \in Seq(Steps)
      BY <2>1
    <2>3. /\ Ordered(<<"cancelPending", "hangUp">> \o <<"end">>, f, p) /\ Ordered(<<"fatal">> \o <<"end">>, f, p)
      BY <1>1, <2>1, OrderedJoin
    <2>. QED  BY <1>3, <1>5, <1>6, <1>12, <2>2, <2>3 DEF Reap, EndWaitLoop
  <1>13. CASE Own
    <2>1. /\ <<"fatal", "kill", "awaitReaped", "finish", "startFailed">> \in Seq(Steps)
          /\ <<"cleanup">> \in Seq(Steps) /\ <<"tell">> \in Seq(Steps)
      BY DEF Steps
    <2>2. /\ Ordered(<<"fatal", "kill", "awaitReaped", "finish", "startFailed">>, f, p)
          /\ Plain(<<"tell">>) /\ Plain(<<"cleanup">>)
      BY <2>1 DEF Ordered, Plain
    <2>. QED  BY <1>1, <1>3, <1>5, <1>6, <1>13, <2>1, <2>2 DEF Own, AwaitReady, CleanUpStart, SayGoodbye
  <1>14. CASE Shutdown \/ Wait
    <2>1. /\ <<"goodbye", "hangUp", "awaitExit", "finish", "end">> \in Seq(Steps)
          /\ <<"awaitReaped", "finish", "end">> \in Seq(Steps)
      BY DEF Steps
    <2>2. /\ Ordered(<<"goodbye", "hangUp", "awaitExit", "finish", "end">>, f, p)
          /\ Ordered(<<"awaitReaped", "finish", "end">>, f, p)
      BY <2>1 DEF Ordered
    <2>. QED  BY <1>3, <1>5, <1>14, <2>1, <2>2 DEF Shutdown, Wait
  <1>15. ASSUME NEW s \in Subs, Receive(s) \/ Subscribe(s) \/ Unsubscribe(s) PROVE InOrder
    <2>1. <<"close">> \in Seq(Steps) /\ Plain(<<"close">>)  BY DEF Steps, Plain
    <2>. QED  BY <1>1, <1>2, <1>3, <1>5, <1>15, <2>1 DEF Receive, Subscribe, Unsubscribe
  <1>16. CASE UNCHANGED vars  BY <1>2, <1>16 DEF vars
  <1>. QED
    BY <1>7, <1>8, <1>9, <1>10, <1>11, <1>12, <1>13, <1>14, <1>15, <1>16 DEF Next, ReadLoop, WaitLoop

(* Every step keeps what is known of a client that is shutting down or is
   over. *)
LEMMA FinishedKept == ASSUME Typed, Delivery, Finished, [Next]_vars PROVE Finished'
  <1> USE DEF process, calls, delivery, Finished
  <1>0. /\ c \in Flags /\ sub \in [Subs -> SubType] /\ todo \in [Routines -> Seq(Steps)] /\ Subs \subseteq Routines
        /\ Done \notin Routines
    BY ClientAssumption DEF Typed, TypeOK, Routines
  <1>1. AllOrdered'  BY OrderedKept
  <1>2. Over'
    <2>1. CASE c.finish = Done
      <3>1. subs' = {}
        <4>1. CASE UNCHANGED vars  BY <2>1, <4>1 DEF Over, vars
        <4>2. CASE UNCHANGED delivery  BY <2>1, <4>2 DEF Over
        <4>3. CASE Delivers
          BY <2>1, <4>3 DEF Over, Delivers, DispatchLoop, Emit, TakeEvent, EndDispatch, NextSubscription, JoinInflight,
             Recheck, Send, Receive, Subscribe, Unsubscribe, CloseChannel, CloseSubs
        <4>. QED  BY <4>1, <4>2, <4>3, Elsewhere
      <3>. QED  BY <2>1, <3>1, FlagsGrow DEF Over
    <2>2. CASE c.finish # Done
      <3>1. CASE \E g \in Routines : CloseSubs(g)
        <4>1. PICK g \in Routines : CloseSubs(g)  BY <3>1
        <4>2. todo[g] # <<>> /\ todo[g][1] = "closeSubs" /\ 1 \in 1..Len(todo[g])
          <5>1. todo[g] # <<>> /\ Head(todo[g]) = "closeSubs" /\ todo[g] \in Seq(Steps)
            BY <1>0, <4>1 DEF CloseSubs, At
          <5>. QED  BY <5>1
        <4>3. c.closed /\ c.waitDone /\ pend = {}
          BY <4>2 DEF AllOrdered, Ordered
        <4>4. subs' = {} /\ disp' = disp /\ disp.pc = "ended" /\ pend' = pend /\ "read" \in c.ended
              /\ c' = [c EXCEPT !.finish = Done]
          BY <4>1 DEF CloseSubs
        <4>. QED  BY <1>0, <4>3, <4>4 DEF Over, Flags
      <3>2. CASE ~\E g \in Routines : CloseSubs(g)
        <4>1. c'.finish # Done
          <5>1. CASE c' = c  BY <2>2, <5>1
          <5>2. CASE \E g \in Routines : EnterFatal(g) \/ HangUp(g) \/ SetFlag(g)
            BY <1>0, <2>2, <5>2 DEF EnterFatal, HangUp, SetFlag, FailStart, Flags
          <5>3. CASE \E g \in Routines : EnterFinish(g)
            BY ZenonT(40), <1>0, <2>2, <5>3 DEF EnterFinish, Flags
          <5>4. CASE ReadLoop \/ WaitLoop \/ Own
            <6>1. CASE TakeFrame
              <7>1. c' = [c EXCEPT !.v1 = TRUE] \/ c' = c \/ c' = Ready(c)  BY <6>1 DEF TakeFrame
              <7>. QED  BY <1>0, <2>2, <7>1 DEF Ready, Flags
            <6>2. CASE ReadEnds \/ MarkReady \/ RefuseHello \/ WaitLoop
              BY <1>0, <2>2, <6>2 DEF ReadEnds, MarkReady, RefuseHello, WaitLoop, Reap, EndWaitLoop, Ready,
                 FailStart, Flags
            <6>3. CASE Own
              BY <1>0, <2>2, <6>3 DEF Own, AwaitReady, CleanUpStart, SayGoodbye, Flags
            <6>4. CASE EndOfOutput \/ Emit  BY <2>2, <6>4 DEF EndOfOutput, Emit
            <6>. QED  BY <5>4, <6>1, <6>2, <6>3, <6>4 DEF ReadLoop
          <5>5. c' = c \/ (\E g \in Routines : EnterFatal(g) \/ HangUp(g) \/ SetFlag(g) \/ EnterFinish(g))
                \/ ReadLoop \/ WaitLoop \/ Own
            <6>1. ASSUME NEW g \in Routines, Run(g)
                  PROVE  c' = c \/ EnterFatal(g) \/ HangUp(g) \/ SetFlag(g) \/ EnterFinish(g)
              BY <3>2, <6>1 DEF Run, Write, HeldWriteEnds, CancelPending, CloseStdin, ClearPending, CloseChannel,
                 AwaitExit, Kill
            <6>2. ASSUME NEW t \in Callers, CallBegins(t) \/ Calling(t) \/ CallerGivesUp(t) PROVE c' = c
              BY <6>2 DEF CallBegins, Calling, CallWrites, CallReturns, CallerGivesUp
            <6>3. ASSUME ChildStalls \/ ChildExits \/ DispatchLoop \/ Shutdown \/ Wait \/ UNCHANGED vars PROVE c' = c
              BY <6>3 DEF ChildStalls, ChildExits, DispatchLoop, TakeEvent, EndDispatch, NextSubscription,
                 JoinInflight, Recheck, Send, Shutdown, Wait, vars
            <6>4. ASSUME NEW s \in Subs, Receive(s) \/ Subscribe(s) \/ Unsubscribe(s) PROVE c' = c
              BY <6>4 DEF Receive, Subscribe, Unsubscribe
            <6>. QED  BY <6>1, <6>2, <6>3, <6>4 DEF Next
          <5>. QED  BY <5>1, <5>2, <5>3, <5>4, <5>5
        <4>. QED  BY <4>1 DEF Over
      <3>. QED  BY <3>1, <3>2
    <2>. QED  BY <2>1, <2>2
  <1>3. Kept'
    <2>1. CASE UNCHANGED vars  BY <2>1 DEF vars, Kept
    <2>2. CASE UNCHANGED delivery /\ \A s \in Subs : todo'[s] = todo[s]  BY <2>2 DEF Kept
    <2>3. CASE Emit \/ DispatchLoop
      <3>1. subs' = subs /\ \A s \in Subs : todo'[s] = todo[s]
        <4>1. CASE Emit
          <5>1. todo' = [todo EXCEPT !["read"] = <<>> \o Tail(@)] /\ subs' = subs  BY <4>1 DEF Emit, Continue, Then
          <5>. QED  BY <1>0, <5>1, ClientAssumption
        <4>2. CASE DispatchLoop
          BY <4>2 DEF DispatchLoop, TakeEvent, EndDispatch, NextSubscription, JoinInflight, Recheck, Send
        <4>. QED  BY <2>3, <4>1, <4>2
      <3>2. sub' = sub
            \/ (\E b \in BOOLEAN : sub' = [sub EXCEPT ![disp.cur].inflight = b])
            \/ sub' = [sub EXCEPT ![disp.cur].inflight = FALSE, ![disp.cur].unread = @ + 1,
                                  ![disp.cur].last = disp.ev]
        BY <2>3 DEF Emit, DispatchLoop, TakeEvent, EndDispatch, NextSubscription, JoinInflight, Recheck, Send,
           LeaveInflight
      <3>3. \A s \in Subs : sub'[s].on = sub[s].on /\ sub'[s].closed = sub[s].closed
        <4>1. CASE sub' = sub  BY <4>1
        <4>2. ASSUME NEW b \in BOOLEAN, sub' = [sub EXCEPT ![disp.cur].inflight = b]
              PROVE  \A s \in Subs : sub'[s].on = sub[s].on /\ sub'[s].closed = sub[s].closed
          BY <1>0, <4>2 DEF SubType
        <4>3. CASE sub' = [sub EXCEPT ![disp.cur].inflight = FALSE, ![disp.cur].unread = @ + 1,
                                      ![disp.cur].last = disp.ev]
          BY <1>0, <4>3 DEF SubType
        <4>. QED  BY <3>2, <4>1, <4>2, <4>3
      <3>. QED  BY <3>1, <3>3 DEF Kept
    <2>4. ASSUME NEW s \in Subs, Receive(s)
          PROVE  Kept'
      <3>1. subs' = subs /\ todo' = todo /\ \A r \in Subs : sub'[r].on = sub[r].on /\ sub'[r].closed = sub[r].closed
        BY <1>0, <2>4 DEF Receive, SubType
      <3>. QED  BY <3>1 DEF Kept
    <2>5. ASSUME NEW s \in Subs, Subscribe(s)
          PROVE  Kept'
      BY <1>0, <2>5 DEF Subscribe, SubType, Kept
    <2>6. ASSUME NEW s \in Subs, Unsubscribe(s)
          PROVE  Kept'
      <3>1. /\ todo'[s] # <<>> /\ \A r \in Subs : r # s => todo'[r] = todo[r] /\ (r \in subs => r \in subs')
            /\ \A r \in Subs : sub'[r].on = sub[r].on /\ sub'[r].closed = sub[r].closed
        BY <1>0, <2>6 DEF Unsubscribe, Become, SubType
      <3>. QED  BY <3>1 DEF Kept
    <2>7. ASSUME NEW s \in Subs, CloseChannel(s)
          PROVE  Kept'
      <3>1. /\ sub'[s].closed /\ subs' = subs
            /\ \A r \in Subs : sub'[r].on = sub[r].on /\ (r # s => sub'[r].closed = sub[r].closed)
        BY <1>0, <2>7 DEF CloseChannel, SubType
      <3>2. \A r \in Subs : r # s => todo'[r] = todo[r]
        BY <1>0, <2>7 DEF CloseChannel, Continue, Then
      <3>. QED  BY <3>1, <3>2 DEF Kept
    <2>8. ASSUME NEW g \in Routines, CloseSubs(g)
          PROVE  Kept'
      <3>1. At(g, "closeSubs") /\ todo' = [todo EXCEPT ![g] = <<>> \o Tail(@)]
        BY <2>8 DEF CloseSubs, Continue, Then
      <3>2. g \notin Subs  BY <3>1 DEF At, Delivery, Subscriptions
      <3>3. \A r \in Subs : todo'[r] = todo[r]  BY <1>0, <3>1, <3>2
      <3>4. \A r \in Subs : /\ sub'[r].on = sub[r].on
                            /\ r \in subs => sub'[r].closed
                            /\ r \notin subs => sub'[r].closed = sub[r].closed
        BY <1>0, <2>8 DEF CloseSubs, SubType
      <3>. QED  BY <3>3, <3>4 DEF Kept
    <2>. QED  BY <2>1, <2>2, <2>3, <2>4, <2>5, <2>6, <2>7, <2>8, Elsewhere DEF Delivers
  <1>. QED  BY <1>1, <1>2, <1>3

(* A client that has not started is not finishing. *)
LEMMA InitFinished == Init => Finished
  <1>. SUFFICES ASSUME Init PROVE Finished  OBVIOUS
  <1>1. /\ Plain(<<"reap">>) /\ Plain(<<"take">>) /\ Plain(<<>>)
        /\ Plain(<<"write">>) /\ Plain(<<"awaitReady">>)
    BY DEF Plain
  <1>2. /\ <<>> \in Seq(Steps) /\ <<"write">> \in Seq(Steps) /\ <<"awaitReady">> \in Seq(Steps)
    BY DEF Steps
  <1>3. /\ Ordered(<<"reap">>, c, pend) /\ Ordered(<<"take">>, c, pend) /\ Ordered(<<>>, c, pend)
        /\ Ordered(<<"write">> \o <<"awaitReady">>, c, pend) /\ Ordered(<<>> \o <<"awaitReady">>, c, pend)
    BY <1>1, <1>2, PlainLists, OrderedJoin
  <1>4. AllOrdered  BY <1>3 DEF Init, AllOrdered
  <1>5. Kept /\ Over  BY ClientAssumption DEF Init, Kept, Over
  <1>. QED  BY <1>4, <1>5 DEF Finished

(* finishClose comes after the child has been reaped, and what it leaves   *)
(* behind stays: no call is pending, both loops have ended, every channel  *)
(* is closed or about to be, whoever subscribes or calls afterwards.       *)
THEOREM NothingRunsAfterClose == Spec => []ClosedIsQuiet
  <1>1. Init => Finished  BY InitFinished
  <1>2. Typed /\ Delivery /\ Finished /\ [Next]_vars => Finished'  BY FinishedKept
  <1>3. Finished => ClosedIsQuiet  BY DEF Finished, Kept, Over, ClosedIsQuiet
  <1>. QED  BY <1>1, <1>2, <1>3, DeliveryCorrect, PTL DEF Spec

-----------------------------------------------------------------------------
(* Order. *)

LEMMA WorldIsFixed == ASSUME [Next]_vars PROVE world' = world
  <1> USE DEF process
  <1>1. ASSUME NEW g \in Routines, Run(g) PROVE world' = world
    BY <1>1 DEF Run, Write, HeldWriteEnds, EnterFatal, CancelPending, CloseStdin, HangUp, SetFlag, EnterFinish,
       ClearPending, CloseSubs, CloseChannel, AwaitExit, Kill
  <1>2. ASSUME NEW t \in Callers, CallBegins(t) \/ Calling(t) \/ CallerGivesUp(t) PROVE world' = world
    BY <1>2 DEF CallBegins, Calling, CallWrites, CallReturns, CallerGivesUp
  <1>3. CASE ReadLoop \/ WaitLoop \/ DispatchLoop
    BY <1>3 DEF ReadLoop, WaitLoop, DispatchLoop, TakeFrame, EndOfOutput, ReadEnds, MarkReady, RefuseHello, Emit,
       Reap, EndWaitLoop, TakeEvent, EndDispatch, NextSubscription, JoinInflight, Recheck, Send
  <1>4. CASE ChildStalls \/ ChildExits \/ Own \/ Shutdown \/ Wait
    BY <1>4 DEF ChildStalls, ChildExits, Own, AwaitReady, CleanUpStart, SayGoodbye, Shutdown, Wait
  <1>5. ASSUME NEW s \in Subs, Receive(s) \/ Subscribe(s) \/ Unsubscribe(s) PROVE world' = world
    BY <1>5 DEF Receive, Subscribe, Unsubscribe
  <1>6. CASE UNCHANGED vars  BY <1>6 DEF vars
  <1>. QED  BY <1>1, <1>2, <1>3, <1>4, <1>5, <1>6 DEF Next

(* Steps that deliver nothing and leave the pipeline alone.                *)
LEMMA LineUntouched ==
  ASSUME Typed, InLine, world' = world, c.waitDone => c'.waitDone, UNCHANGED <<queue, seq, disp>>,
         \A s \in Subs : /\ sub'[s].last = sub[s].last
                         /\ sub[s].on => sub'[s].on
                         /\ ~sub[s].on /\ sub'[s].on => s # Initial
                         /\ s \in subs' => s \in subs \/ ~sub[s].on
  PROVE  InLine'
  <1> USE DEF InLine
  <1>1. \A s : Awaits(s)' <=> Awaits(s)  BY DEF Awaits
  <1>2. Rising'  BY DEF Rising
  <1>3. Behind'  BY <1>1, ClientAssumption DEF Behind
  <1>4. InStep'  BY <1>1 DEF InStep, Behind
  <1>. QED  BY <1>2, <1>3, <1>4

(* A frame read from the child joins the line behind every earlier one. *)
LEMMA EmitKeepsLine == ASSUME Typed, InLine, Emit PROVE InLine'
  <1> USE DEF InLine
  <1>0. /\ UNCHANGED <<disp, subs, sub, world, c>> /\ seq' = seq + 1
        /\ \/ queue' = Append(queue, seq + 1)
           \/ queue' = queue /\ c.waitDone
    BY DEF Emit, process
  <1>1. /\ queue \in Seq(Nat) /\ seq \in Nat /\ Len(queue) \in Nat /\ disp.ev \in Nat
        /\ \A s \in Subs : sub[s].last \in Nat
        /\ \A i \in 1..Len(queue) : queue[i] \in Nat
    BY DEF Typed, TypeOK, DispType, SubType
  <1>2. \A s : Awaits(s)' <=> Awaits(s)  BY <1>0 DEF Awaits
  <1>3. Behind'  BY <1>0, <1>1, <1>2 DEF Behind
  <1>4. CASE queue' = queue /\ c.waitDone
    <2>1. Rising'  BY <1>0, <1>1, <1>4 DEF Rising
    <2>2. InStep'  BY <1>0, <1>4 DEF InStep
    <2>. QED  BY <1>3, <2>1, <2>2
  <1>5. CASE queue' = Append(queue, seq + 1)
    <2>1. /\ Len(queue') = Len(queue) + 1 /\ queue'[Len(queue) + 1] = seq + 1
          /\ \A i \in 1..Len(queue) : queue'[i] = queue[i]
      BY <1>1, <1>5
    <2>2. ASSUME NEW i \in 1..Len(queue')
          PROVE  (i \in 1..Len(queue) /\ queue'[i] = queue[i]) \/ (i = Len(queue) + 1 /\ queue'[i] = seq + 1)
      BY <1>1, <2>1
    <2>3. Rising'
      <3>1. disp'.ev <= seq'  BY <1>0, <1>1 DEF Rising
      <3>2. ASSUME NEW i \in 1..Len(queue')
            PROVE  /\ queue'[i] <= seq' /\ disp'.ev < queue'[i]
                   /\ \A k \in i+1..Len(queue') : queue'[i] < queue'[k]
                   /\ \A s \in Subs : sub'[s].last < queue'[i]
        <4>1. CASE i \in 1..Len(queue) /\ queue'[i] = queue[i]
          <5>1. \A k \in i+1..Len(queue') : queue'[i] < queue'[k]
            <6>1. TAKE k \in i+1..Len(queue')
            <6>2. k \in 1..Len(queue')  BY <1>1, <2>1, <4>1
            <6>. QED  BY SMTT(40), <1>1, <2>2, <4>1, <6>1, <6>2 DEF Rising
          <5>. QED  BY <1>0, <1>1, <4>1, <5>1 DEF Rising
        <4>2. CASE i = Len(queue) + 1 /\ queue'[i] = seq + 1
          BY <1>0, <1>1, <2>1, <4>2 DEF Rising, Behind
        <4>. QED  BY <2>2, <4>1, <4>2
      <3>. QED  BY <3>1, <3>2 DEF Rising
    <2>4. InStep'
      <3>1. seq' - Len(queue') = seq - Len(queue)  BY <1>0, <1>1, <2>1
      <3>2. ~c.waitDone => \A i \in 1..Len(queue') : queue'[i] = seq' - Len(queue') + i
        BY <1>0, <1>1, <2>1, <2>2, <3>1 DEF InStep
      <3>. QED  BY <1>0, <1>2, <3>1, <3>2 DEF InStep
    <2>. QED  BY <1>3, <2>3, <2>4
  <1>. QED  BY <1>0, <1>4, <1>5

(* The dispatcher takes the oldest frame of the line. *)
LEMMA TakeEventKeepsLine == ASSUME Typed, Delivery, InLine, TakeEvent PROVE InLine'
  <1> USE DEF InLine
  <1>0. /\ UNCHANGED <<subs, sub, world, c, seq>> /\ disp.pc = "idle" /\ queue # <<>>
        /\ disp'.pc = "next" /\ disp'.ev = Head(queue) /\ disp'.left = subs /\ queue' = Tail(queue)
    BY DEF TakeEvent, process, Typed, DispType
  <1>1. /\ queue \in Seq(Nat) /\ seq \in Nat /\ Len(queue) \in Nat /\ disp.ev \in Nat
        /\ \A s \in Subs : sub[s].last \in Nat
        /\ \A i \in 1..Len(queue) : queue[i] \in Nat
    BY DEF Typed, TypeOK, DispType, SubType
  <1>2. /\ Len(queue') = Len(queue) - 1 /\ 1 \in 1..Len(queue) /\ Head(queue) = queue[1]
        /\ \A i \in 1..Len(queue') : queue'[i] = queue[i+1] /\ i + 1 \in 1..Len(queue) /\ i + 1 \in 2..Len(queue)
    BY <1>0, <1>1
  <1>3. /\ \A s : Awaits(s)' <=> s \in subs
        /\ \A s : ~Awaits(s)
    BY <1>0 DEF Awaits, Serving, Behind
  <1>4. Rising'
    <2>1. disp'.ev <= seq'  BY <1>0, <1>1, <1>2 DEF Rising
    <2>2. ASSUME NEW i \in 1..Len(queue')
          PROVE  /\ queue'[i] <= seq' /\ disp'.ev < queue'[i]
                 /\ \A k \in i+1..Len(queue') : queue'[i] < queue'[k]
                 /\ \A s \in Subs : sub'[s].last < queue'[i]
      <3>1. queue'[i] = queue[i+1] /\ i + 1 \in 1..Len(queue) /\ i + 1 \in 2..Len(queue)  BY <1>2
      <3>2. ASSUME NEW k \in i+1..Len(queue') PROVE queue'[i] < queue'[k]
        <4>1. k \in 1..Len(queue') /\ k + 1 \in (i+1)+1..Len(queue)  BY <1>1, <1>2, <3>1
        <4>. QED  BY <1>2, <3>1, <4>1 DEF Rising
      <3>3. disp'.ev < queue'[i]  BY <1>0, <1>2, <3>1 DEF Rising
      <3>. QED  BY <1>0, <3>1, <3>2, <3>3 DEF Rising
    <2>. QED  BY <2>1, <2>2 DEF Rising
  <1>5. Behind'
    BY <1>0, <1>1, <1>2, <1>3 DEF Behind, Rising, Serving
  <1>6. InStep'
    <2>1. seq' - Len(queue') = seq - Len(queue) + 1  BY <1>0, <1>1, <1>2
    <2> SUFFICES ASSUME ~c.waitDone PROVE InStep'  BY <1>0 DEF InStep
    <2>2. \A i \in 1..Len(queue') : queue'[i] = seq' - Len(queue') + i  BY <1>0, <1>1, <1>2, <2>1 DEF InStep
    <2>3. disp'.ev = seq' - Len(queue')  BY <1>0, <1>1, <1>2, <2>1 DEF InStep
    <2>4. \A s \in subs : sub[s].last # 0 \/ (s = Initial /\ sub[s].on) => sub'[s].last = disp'.ev - 1
      <3>1. subs \subseteq Subs  BY DEF Typed, TypeOK
      <3>2. ASSUME NEW s \in subs, sub[s].last # 0 \/ (s = Initial /\ sub[s].on)
            PROVE  sub'[s].last = disp'.ev - 1
        <4>1. sub[s].last = seq - Len(queue)  BY <1>3, <3>1, <3>2 DEF InStep
        <4>. QED  BY <1>0, <1>1, <2>1, <2>3, <4>1
      <3>. QED  BY <3>2
    <2>. QED  BY <1>0, <1>3, <2>2, <2>3, <2>4 DEF InStep
  <1>. QED  BY <1>4, <1>5, <1>6

(* The dispatcher turns to a subscription, or has served them all.         *)
LEMMA NextSubscriptionKeepsLine == ASSUME Typed, Delivery, InLine, NextSubscription PROVE InLine'
  <1> USE DEF InLine
  <1>0. UNCHANGED <<subs, sub, world, c, seq, queue>> /\ disp.pc = "next"
    BY DEF NextSubscription, process
  <1>1. /\ queue \in Seq(Nat) /\ seq \in Nat /\ Len(queue) \in Nat /\ disp \in DispType
        /\ disp.left \subseteq Subs /\ \A i \in 1..Len(queue) : queue[i] \in Nat
    BY DEF Typed, TypeOK, DispType
  <1>2. CASE disp.left = {} /\ disp' = [disp EXCEPT !.pc = "idle", !.ev = 0, !.cur = Nobody]
    <2>1. disp'.pc = "idle" /\ disp'.left = {} /\ disp'.ev = 0  BY <1>1, <1>2 DEF DispType
    <2>2. \A s : ~Awaits(s) /\ ~Awaits(s)'  BY <1>0, <1>2, <2>1 DEF Awaits, Serving
    <2>3. \A i \in 1..Len(queue) : 0 < queue[i]
      BY <1>1 DEF Rising, DispType
    <2>4. Rising'  BY <1>0, <1>1, <2>1, <2>3 DEF Rising
    <2>5. Behind'  BY <1>0, <2>1, <2>2 DEF Behind, Serving
    <2>6. InStep'  BY <1>0, <2>1, <2>2 DEF InStep
    <2>. QED  BY <2>4, <2>5, <2>6
  <1>3. ASSUME NEW t \in disp.left,
               disp' = [disp EXCEPT !.left = @ \ {t}, !.cur = t, !.pc = IF sub[t].dead THEN "next" ELSE "join"]
        PROVE  InLine'
    <2>1. /\ disp'.left = disp.left \ {t} /\ disp'.cur = t /\ disp'.ev = disp.ev
          /\ disp'.pc = IF sub[t].dead THEN "next" ELSE "join"
      BY <1>1, <1>3 DEF DispType
    <2>2. \A s : Awaits(s)' => Awaits(s)  BY <1>0, <2>1 DEF Awaits, Serving
    <2>3. \A s : Awaits(s) => Awaits(s)' \/ (s = t /\ sub[t].dead)  BY <1>0, <2>1 DEF Awaits, Serving
    <2>4. sub[t].dead => t \notin subs  BY <1>1, <1>3 DEF Delivery, Subscriptions
    <2>5. Rising'  BY <1>0, <2>1 DEF Rising
    <2>6. Behind'  BY <1>0, <2>1, <2>2 DEF Behind, Serving
    <2>7. InStep'  BY <1>0, <2>1, <2>2, <2>3, <2>4 DEF InStep
    <2>. QED  BY <2>5, <2>6, <2>7
  <1>. QED  BY <1>2, <1>3 DEF NextSubscription

(* A step of trySend that does not put the frame on the channel.           *)
LEMMA NoDeliveryKeepsLine ==
  ASSUME Typed, Delivery, InLine, UNCHANGED <<subs, world, c, seq, queue>>,
         disp.pc \in Serving, disp'.pc \in Serving \cup {"next"},
         disp'.left = disp.left, disp'.cur = disp.cur, disp'.ev = disp.ev,
         disp'.pc = "next" => sub[disp.cur].dead \/ c.waitDone,
         \A s \in Subs : sub'[s].last = sub[s].last /\ sub'[s].on = sub[s].on
  PROVE  InLine'
  <1> USE DEF InLine
  <1>1. \A s : Awaits(s)' => Awaits(s)  BY DEF Awaits
  <1>2. \A s : Awaits(s) => Awaits(s)' \/ (s = disp.cur /\ disp'.pc = "next")
    BY DEF Awaits
  <1>3. disp.cur \in Subs /\ (sub[disp.cur].dead => disp.cur \notin subs)
    BY DEF Typed, Delivery, Subscriptions
  <1>4. Rising'  BY DEF Rising
  <1>5. Behind'  BY <1>1, ClientAssumption DEF Behind, Serving
  <1>6. InStep'  BY <1>1, <1>2, <1>3, ClientAssumption DEF InStep, Serving
  <1>. QED  BY <1>4, <1>5, <1>6

Delivered ==
  /\ disp.pc \in {"send", "parked"} /\ disp'.pc = "next" /\ UNCHANGED <<subs, world, c, seq, queue>>
  /\ disp'.left = disp.left /\ disp'.cur = disp.cur /\ disp'.ev = disp.ev
  /\ \A s \in Subs : sub'[s].last = (IF s = disp.cur THEN disp.ev ELSE sub[s].last) /\ sub'[s].on = sub[s].on

(* A frame handed to a subscriber is newer than its last one. *)
LEMMA DeliveredKeepsLine == ASSUME Typed, Delivery, InLine, Delivered PROVE InLine'
  <1> USE DEF InLine
  <1>0. disp.cur \in Subs /\ disp.pc \in Serving /\ Awaits(disp.cur) /\ sub[disp.cur].on /\ disp.cur \notin disp.left
    BY DEF Delivered, Typed, Serving, Awaits, Delivery, Dispatcher, Behind
  <1>1. \A s : Awaits(s)' <=> Awaits(s) /\ s # disp.cur
    BY <1>0 DEF Delivered, Awaits, Serving
  <1>2. Rising'  BY DEF Delivered, Rising
  <1>3. Behind'  BY <1>0, <1>1, ClientAssumption DEF Delivered, Behind, Rising, Serving
  <1>4. InStep'
    <2> SUFFICES ASSUME ~c.waitDone PROVE InStep'  BY DEF InStep, Delivered
    <2>1. /\ disp'.ev = seq' - Len(queue') /\ \A i \in 1..Len(queue') : queue'[i] = seq' - Len(queue') + i
      BY DEF InStep, Delivered
    <2>2. ASSUME NEW s \in Subs, sub'[s].last # 0 \/ (s = Initial /\ sub'[s].on)
          PROVE  /\ Awaits(s)' => sub'[s].last = disp'.ev - 1
                 /\ s \in subs' /\ ~Awaits(s)' => sub'[s].last = seq' - Len(queue')
      <3>1. CASE s = disp.cur  BY <1>1, <2>1, <3>1 DEF Delivered
      <3>2. CASE s # disp.cur  BY <1>1, <2>2, <3>2 DEF Delivered, InStep
      <3>. QED  BY <3>1, <3>2
    <2>. QED  BY <2>1, <2>2 DEF InStep
  <1>. QED  BY <1>2, <1>3, <1>4

(* A step of serving one subscriber delivers, or leaves what subscribers have
   seen. *)
LEMMA ServingEffect ==
  ASSUME Typed, Delivery, InLine, JoinInflight \/ Recheck \/ Send
  PROVE  InLine' /\ (Delivered \/ \A s \in Subs : sub'[s].last = sub[s].last)
  <1>0. /\ sub \in [Subs -> SubType] /\ disp \in DispType /\ disp.cur \in Subs
        /\ disp.pc \in Serving /\ UNCHANGED <<subs, world, c, seq, queue>>
    BY DEF Typed, TypeOK, JoinInflight, Recheck, Send, Serving, process
  <1>1. disp'.left = disp.left /\ disp'.cur = disp.cur /\ disp'.ev = disp.ev
    BY <1>0 DEF JoinInflight, Recheck, Send, DispType
  <1>2. CASE sub' = [sub EXCEPT ![disp.cur].inflight = FALSE, ![disp.cur].unread = @ + 1, ![disp.cur].last = disp.ev]
             /\ disp.pc \in {"send", "parked"} /\ disp'.pc = "next"
    <2>1. \A s \in Subs : sub'[s].last = (IF s = disp.cur THEN disp.ev ELSE sub[s].last) /\ sub'[s].on = sub[s].on
      BY <1>0, <1>2 DEF SubType
    <2>2. Delivered  BY <1>0, <1>1, <1>2, <2>1 DEF Delivered
    <2>. QED  BY <2>2, DeliveredKeepsLine
  <1>3. CASE /\ sub' = sub \/ \E b \in BOOLEAN : sub' = [sub EXCEPT ![disp.cur].inflight = b]
             /\ disp'.pc \in Serving \cup {"next"}
             /\ disp'.pc = "next" => sub[disp.cur].dead \/ c.waitDone
    <2>1. \A s \in Subs : sub'[s].last = sub[s].last /\ sub'[s].on = sub[s].on
      <3>1. CASE sub' = sub  BY <3>1
      <3>2. ASSUME NEW b \in BOOLEAN, sub' = [sub EXCEPT ![disp.cur].inflight = b]
            PROVE  \A s \in Subs : sub'[s].last = sub[s].last /\ sub'[s].on = sub[s].on
        BY <1>0, <3>2 DEF SubType
      <3>. QED  BY <1>3, <3>1, <3>2
    <2>. QED  BY <1>0, <1>1, <1>3, <2>1, NoDeliveryKeepsLine
  <1>4. CASE JoinInflight
    <2>1. sub' = [sub EXCEPT ![disp.cur].inflight = TRUE] /\ disp'.pc = "recheck"
      BY <1>0, <1>4 DEF JoinInflight, DispType
    <2>. QED  BY <1>3, <2>1 DEF Serving
  <1>5. CASE Recheck
    <2>1. sub[disp.cur].closed => sub[disp.cur].dead  BY <1>0 DEF Delivery, Subscriptions
    <2>2. CASE sub[disp.cur].dead \/ sub[disp.cur].closed
      <3>1. sub' = [sub EXCEPT ![disp.cur].inflight = FALSE] /\ disp'.pc = "next"
        BY <1>0, <1>5, <2>2 DEF Recheck, LeaveInflight, DispType
      <3>. QED  BY <1>3, <2>1, <2>2, <3>1
    <2>3. CASE ~(sub[disp.cur].dead \/ sub[disp.cur].closed)
      <3>1. sub' = sub /\ disp'.pc = "send"  BY <1>0, <1>5, <2>3 DEF Recheck, DispType
      <3>. QED  BY <1>3, <3>1 DEF Serving
    <2>. QED  BY <2>2, <2>3
  <1>6. CASE Send
    <2>1. CASE sub[disp.cur].dead \/ (disp.pc = "parked" /\ c.waitDone)
      <3>1. CASE LeaveInflight /\ disp' = [disp EXCEPT !.pc = "next"]
        <4>1. disp'.pc = "next" /\ sub' = [sub EXCEPT ![disp.cur].inflight = FALSE]
          BY <1>0, <3>1 DEF LeaveInflight, DispType
        <4>. QED  BY <1>3, <2>1, <4>1
      <3>2. CASE ~(LeaveInflight /\ disp' = [disp EXCEPT !.pc = "next"])
        BY <1>0, <1>2, <1>3, <1>6, <3>2 DEF Send, DispType, Serving
      <3>. QED  BY <3>1, <3>2
    <2>2. CASE ~(sub[disp.cur].dead \/ (disp.pc = "parked" /\ c.waitDone))
      BY <1>0, <1>2, <1>3, <1>6, <2>2 DEF Send, DispType, Serving
    <2>. QED  BY <2>1, <2>2
  <1>. QED  BY <1>4, <1>5, <1>6

(* One step of the client, seen from the order of the frames. *)
LEMMA LineKept ==
  ASSUME Typed, Delivery, InLine, [Next]_vars
  PROVE  InLine' /\ (Delivered \/ \A s \in Subs : sub'[s].last = sub[s].last)
  <1> USE DEF process, calls
  <1>0. /\ world' = world /\ (c.waitDone => c'.waitDone) /\ sub \in [Subs -> SubType] /\ Initial \in Subs
        /\ c \in Flags
    BY WorldIsFixed, FlagsGrow, ClientAssumption DEF Typed, TypeOK
  <1>1. ASSUME UNCHANGED <<queue, seq, disp>>,
               \A s \in Subs : /\ sub'[s].last = sub[s].last
                               /\ sub[s].on => sub'[s].on
                               /\ ~sub[s].on /\ sub'[s].on => s # Initial
                               /\ s \in subs' => s \in subs \/ ~sub[s].on
        PROVE  InLine' /\ (Delivered \/ \A s \in Subs : sub'[s].last = sub[s].last)
    BY <1>0, <1>1, LineUntouched
  <1>2. CASE UNCHANGED delivery \/ UNCHANGED vars
    <2>1. UNCHANGED <<queue, seq, disp, subs, sub>>  BY <1>2 DEF delivery, vars
    <2>. QED  BY <1>1, <2>1
  <1>3. CASE Emit
    <2>1. sub' = sub  BY <1>3 DEF Emit
    <2>. QED  BY <1>3, <2>1, EmitKeepsLine
  <1>4. CASE TakeEvent \/ NextSubscription
    <2>1. sub' = sub  BY <1>4 DEF TakeEvent, NextSubscription
    <2>. QED  BY <1>4, <2>1, TakeEventKeepsLine, NextSubscriptionKeepsLine
  <1>5. CASE EndDispatch
    <2>1. UNCHANGED <<queue, seq, subs, sub, c>> /\ disp.pc = "idle" /\ disp'.pc = "ended"
          /\ disp'.left = disp.left /\ disp'.ev = disp.ev
      BY <1>5 DEF EndDispatch, Typed, DispType
    <2>2. \A s : ~Awaits(s) /\ ~Awaits(s)'  BY <2>1 DEF Awaits, InLine, Behind, Serving
    <2>3. Rising'  BY <2>1 DEF InLine, Rising
    <2>4. Behind'  BY <1>0, <2>1, <2>2 DEF InLine, Behind, Serving
    <2>5. InStep'  BY <2>1, <2>2 DEF InLine, InStep
    <2>. QED  BY <2>1, <2>3, <2>4, <2>5 DEF InLine
  <1>6. CASE JoinInflight \/ Recheck \/ Send  BY <1>6, ServingEffect
  <1>7. ASSUME NEW s \in Subs, Receive(s)
        PROVE  InLine' /\ (Delivered \/ \A r \in Subs : sub'[r].last = sub[r].last)
    <2>1. UNCHANGED <<queue, seq, disp, subs>> /\ \A r \in Subs : sub'[r].last = sub[r].last /\ sub'[r].on = sub[r].on
      BY <1>0, <1>7 DEF Receive, SubType
    <2>. QED  BY <1>1, <2>1
  <1>8. ASSUME NEW s \in Subs, Subscribe(s)
        PROVE  InLine' /\ (Delivered \/ \A r \in Subs : sub'[r].last = sub[r].last)
    <2>1. /\ UNCHANGED <<queue, seq, disp>> /\ s \in world.subs /\ ~sub[s].on /\ subs' \subseteq subs \cup {s}
          /\ \A r \in Subs : /\ sub'[r].last = sub[r].last
                             /\ sub'[r].on = (sub[r].on \/ r = s)
      BY <1>0, <1>8 DEF Subscribe, SubType
    <2>2. s # Initial  BY <2>1 DEF InLine, Behind
    <2>. QED  BY <1>1, <2>1, <2>2
  <1>9. ASSUME NEW s \in Subs, Unsubscribe(s) \/ CloseChannel(s)
        PROVE  InLine' /\ (Delivered \/ \A r \in Subs : sub'[r].last = sub[r].last)
    <2>1. UNCHANGED <<queue, seq, disp>> /\ subs' \subseteq subs
      BY <1>9 DEF Unsubscribe, CloseChannel
    <2>2. \A r \in Subs : sub'[r].last = sub[r].last /\ sub'[r].on = sub[r].on
      <3>1. CASE Unsubscribe(s)  BY <1>0, <3>1 DEF Unsubscribe, SubType
      <3>2. CASE CloseChannel(s)  BY <1>0, <3>2 DEF CloseChannel, SubType
      <3>. QED  BY <1>9, <3>1, <3>2
    <2>. QED  BY <1>1, <2>1, <2>2
  <1>10. ASSUME NEW g \in Routines, CloseSubs(g)
         PROVE  InLine' /\ (Delivered \/ \A r \in Subs : sub'[r].last = sub[r].last)
    <2>1. /\ UNCHANGED <<queue, seq, disp>> /\ subs' = {}
          /\ \A r \in Subs : sub'[r].last = sub[r].last /\ sub'[r].on = sub[r].on
      BY <1>0, <1>10 DEF CloseSubs, SubType
    <2>. QED  BY <1>1, <2>1
  <1>. QED  BY <1>2, <1>3, <1>4, <1>5, <1>6, <1>7, <1>8, <1>9, <1>10, Elsewhere DEF Delivers, DispatchLoop

(* Frames stand in line in every reachable state. *)
LEMMA LineCorrect == Spec => [](Typed /\ Delivery /\ InLine)
  <1>1. Init => InLine
    <2> SUFFICES ASSUME Init PROVE InLine  OBVIOUS
    <2>1. \A s : ~Awaits(s)  BY DEF Init, Awaits, Serving
    <2>2. Rising /\ InStep  BY <2>1 DEF Init, Rising, InStep
    <2>3. Initial \in Subs /\ sub[Initial].on = (Initial \in {Initial} \cap world.subs)
      BY ClientAssumption DEF Init
    <2>4. /\ seq = 0 /\ disp.pc = "idle" /\ disp.left = {}
          /\ \A s \in Subs : sub[s].last = 0
      BY DEF Init
    <2>5. Behind
      <3>1. Initial \in world.subs => sub[Initial].on  BY <2>3
      <3>2. disp.pc \notin Serving  BY <2>4 DEF Serving
      <3>3. \A s \in Subs : sub[s].last <= seq /\ ~(sub[s].last # 0)  BY <2>4
      <3>. QED  BY <2>1, <2>4, <3>1, <3>2, <3>3 DEF Behind
    <2>. QED  BY <2>2, <2>5 DEF InLine
  <1>2. Typed /\ Delivery /\ InLine /\ [Next]_vars => InLine'  BY LineKept
  <1>. QED  BY <1>1, <1>2, DeliveryCorrect, PTL DEF Spec

(* emit holds the reader back rather than drop a frame: a subscription     *)
(* never sees frames out of order, and sees no gap before the child has    *)
(* been reaped, whatever the capacities and whoever comes and goes.        *)
THEOREM FramesStayInOrder == Spec => FramesInOrder
  <1> DEFINE Step == \A s \in Subs :
               LET old == sub[s].last
                   new == sub'[s].last
               IN  new # old => /\ new > old
                                /\ ~c.waitDone /\ (old # 0 \/ s = Initial) => new = old + 1
  <1>1. Typed /\ Delivery /\ InLine /\ [Next]_vars => [Step]_vars
    <2> SUFFICES ASSUME Typed, Delivery, InLine, Next PROVE Step  OBVIOUS
    <2>1. CASE \A s \in Subs : sub'[s].last = sub[s].last  BY <2>1
    <2>2. CASE Delivered
      <3>1. /\ disp.cur \in Subs /\ Awaits(disp.cur) /\ sub[disp.cur].on
            /\ disp.ev \in Nat /\ \A s \in Subs : sub[s].last \in Nat
        BY <2>2 DEF Delivered, Typed, TypeOK, SubType, DispType, Serving, Awaits, Delivery, Dispatcher
      <3>2. sub[disp.cur].last < disp.ev  BY <3>1 DEF InLine, Behind
      <3>3. ~c.waitDone /\ (sub[disp.cur].last # 0 \/ disp.cur = Initial) => sub[disp.cur].last = disp.ev - 1
        BY <3>1 DEF InLine, InStep
      <3>4. \A s \in Subs : sub'[s].last # sub[s].last => s = disp.cur /\ sub'[s].last = disp.ev
        BY <2>2 DEF Delivered
      <3>. QED  BY <3>1, <3>2, <3>3, <3>4
    <2>. QED  BY <2>1, <2>2, LineKept
  <1>. QED  BY <1>1, LineCorrect, PTL DEF Spec, FramesInOrder, Step
=============================================================================
