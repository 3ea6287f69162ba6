------------------------------ MODULE Scheduler ------------------------------
(***************************************************************************)
(* renderer.Scheduler: the serialization of concurrent render requests     *)
(* against one Engine (src/ompui/renderer/scheduler.go).                   *)
(*                                                                         *)
(* The goroutines are the callers of the public methods and the callbacks  *)
(* of time.AfterFunc, one per timer.  A step is a critical section of s.mu;*)
(* the lock is released only around eng.Draw and inside cond.Wait, so a    *)
(* Draw is a pair of steps and a wait is membership in "asleep".           *)
(*                                                                         *)
(* A timer that has expired is "fired": its callback runs in a goroutine   *)
(* that has not taken s.mu yet, and cancel (t.Stop) no longer prevents it. *)
(***************************************************************************)
EXTENDS Integers, Sequences, FiniteSets

CONSTANTS
  Callers,      \* goroutines that call the public methods
  Timers,       \* slots for AfterFunc timers and their callbacks
  Reasons,      \* the Reason values requests carry in this instance
  Rows,         \* rows of a frame, for StablePrefixRows
  ImageChoice,  \* whether a request carries an image sequence: {FALSE} or BOOLEAN
  MinInterval,  \* SchedulerConfig.MinInterval in clock ticks
  MaxRequests,  \* bound: requests accepted in a behaviour
  None

ASSUME SchedulerAssumption ==
  /\ Callers # {} /\ Callers \cap Timers = {}
  /\ Reasons \subseteq {"update", "flush", "force", "resize", "replace", "reset"}
  /\ Rows \in Nat /\ MinInterval \in Nat /\ MaxRequests \in Nat
  /\ ImageChoice \subseteq BOOLEAN
  /\ None \notin Timers

VARIABLES
  pending,       \* s.pending: None or the coalesced request
  pendingForce,  \* s.pendingForce
  scheduled,     \* s.scheduled
  handle,        \* s.timerCancel: the timer it cancels, or None
  stopped,       \* s.stopped
  drawing,       \* s.drawing
  sinceDraw,     \* Now() - s.lastDrawAt, saturating at MinInterval
  timer,         \* timer[t]: state of the slot and ticks until it expires
  pc,            \* pc[c]: what caller c is doing
  asleep,        \* callers inside cond.Wait
  rewrite,       \* e.forceViewportRepaint, set through the scheduler
  (* History, read by the properties only. *)
  asked,         \* the number of the newest accepted request; numbers name frames
  content,       \* content[r]: the request that last changed row r
  shown,         \* the rows of the frame last handed to eng.Draw
  owed,          \* highest reason rank accepted and not yet handed to eng.Draw
  images,        \* image sequences accepted, in order
  emitted,       \* image sequences handed to eng.Draw, in order
  cur,           \* the request eng.Draw got last
  inDraw,        \* goroutines inside eng.Draw
  finished,      \* the newest frame whose Draw has returned
  goal           \* goal[c]: what the last Flush of c was asked to draw

sVars == <<pending, pendingForce, scheduled, handle, stopped, drawing, sinceDraw>>
cVars == <<pc, asleep>>
hVars == <<asked, content, shown, owed, images, emitted, cur, inDraw, finished, goal>>
vars  == <<sVars, timer, cVars, rewrite, hVars>>

RowIds == 1..Rows

(* What the slot of a timer holds. *)
Idle         == [st |-> "idle", left |-> 0]
Armed(delay) == [st |-> "armed", left |-> delay]
Fired        == [st |-> "fired", left |-> 0]
Drawing      == [st |-> "drawing", left |-> 0]
TimerStates  == {Idle, Fired, Drawing} \cup {Armed(delay) : delay \in 0..MinInterval}

IsImmediate(reason) == reason \in {"flush", "force", "resize", "replace", "reset"}

reasonRank(reason) ==
  CASE reason \in {"replace", "reset"} -> 5
    [] reason = "resize"               -> 4
    [] reason = "force"                -> 3
    [] reason = "flush"                -> 2
    [] OTHER                           -> 1

(* The callers that can make a call, and what makes a caller finished.     *)
Ready == {c \in Callers : pc[c] \in {"idle", "flushed", "aborted"}}

(* A frame of the caller: rows after "stable" are the ones it changed.     *)
NewRequest(reason, stable, image) ==
  [frame |-> asked + 1, reason |-> reason, stable |-> stable,
   images |-> IF image THEN <<asked + 1>> ELSE <<>>]

Inputs == Reasons \X (0..Rows) \X ImageChoice

-----------------------------------------------------------------------------
Init ==
  /\ pending = None /\ pendingForce = FALSE /\ scheduled = FALSE
  /\ handle = None /\ stopped = FALSE /\ drawing = FALSE
  /\ sinceDraw = MinInterval
  /\ timer = [t \in Timers |-> Idle]
  /\ pc = [c \in Callers |-> "idle"] /\ asleep = {}
  /\ rewrite = FALSE
  /\ asked = 0 /\ finished = 0 /\ owed = 0
  /\ content = [r \in RowIds |-> 0] /\ shown = [r \in RowIds |-> 0]
  /\ images = <<>> /\ emitted = <<>> /\ inDraw = {}
  /\ cur = [frame |-> 0, reason |-> "update", stable |-> 0, images |-> <<>>]
  /\ goal = [c \in Callers |-> [frame |-> 0, queued |-> FALSE]]

(* mergeLocked: the newest frame wins; the stronger reason, the smaller    *)
(* stable prefix and every image sequence survive.                         *)
NewestReason(old, new)   == new
StrongerReason(old, new) == IF reasonRank(old) > reasonRank(new) THEN old ELSE new

NewestPrefix(old, new)  == new
SmallerPrefix(old, new) == IF old < new THEN old ELSE new

NewestImages(old, new) == IF new = <<>> THEN old ELSE new
AllImages(old, new)    == old \o new

OldestFrame(old, new) == old
NewestFrame(old, new) == new

Coalesced(req) ==
  IF pending = None THEN req
  ELSE [frame  |-> NewestFrame(pending.frame, req.frame),
        reason |-> StrongerReason(pending.reason, req.reason),
        stable |-> SmallerPrefix(pending.stable, req.stable),
        images |-> AllImages(pending.images, req.images)]

(* A caller has composed and handed over the frame of req (history only). *)
Ask(req) ==
  /\ asked < MaxRequests
  /\ asked' = asked + 1
  /\ content' = [r \in RowIds |-> IF r > req.stable THEN asked + 1 ELSE content[r]]
  /\ images' = images \o req.images

(* mergeLocked, when the request stays pending. *)
Merge(req, force) ==
  /\ pending' = Coalesced(req)
  /\ pendingForce' = (pendingForce \/ force)
  /\ owed' = IF reasonRank(req.reason) > owed THEN reasonRank(req.reason) ELSE owed

(* The timers tm after timerCancel(): only one that has not expired stops. *)
Cancelled(tm) ==
  IF handle # None /\ tm[handle].st = "armed" THEN [tm EXCEPT ![handle] = Idle] ELSE tm

(* "Cancel timer": it takes back the flag that suppresses arming too.     *)
CancelTimerKeepFlag ==
  timer' = Cancelled(timer) /\ handle' = None /\ UNCHANGED scheduled
CancelTimer ==
  timer' = Cancelled(timer) /\ handle' = None /\ scheduled' = FALSE

(* AfterFunc(delay, timerFire) on the timers tm. *)
StartTimer(tm, delay) ==
  \E t \in Timers :
    /\ tm[t] = Idle /\ t = CHOOSE u \in Timers : tm[u] = Idle
    /\ timer' = [tm EXCEPT ![t] = Armed(delay)]
    /\ handle' = t
    /\ scheduled' = TRUE

(* armLocked, after the rest of the critical section has set pending',     *)
(* pendingForce', drawing' and sinceDraw'.                                 *)
Arm(tm) ==
  IF drawing' \/ pending' = None
  THEN timer' = tm /\ UNCHANGED <<handle, scheduled>>
  ELSE IF pendingForce'
  THEN StartTimer(Cancelled(tm), 0)
  ELSE IF scheduled
  THEN timer' = tm /\ UNCHANGED <<handle, scheduled>>
  ELSE StartTimer(tm, MinInterval - sinceDraw')

(* The first half of runDrawLocked, up to the call of eng.Draw by d: req   *)
(* leaves the pending slot, and an ordinary one with immediate intent      *)
(* becomes a flush.                                                        *)
BeginDraw(d, req, force) ==
  /\ pending' = None /\ pendingForce' = FALSE
  /\ drawing' = TRUE
  /\ cur' = [req EXCEPT !.reason = IF force /\ @ = "update" THEN "flush" ELSE @]
  /\ inDraw' = inDraw \cup {d}
  /\ shown' = content'
  /\ emitted' = emitted \o req.images
  /\ owed' = 0

(* cond.Broadcast. *)
Signal    == IF asleep = {} THEN asleep' = {} ELSE \E c \in asleep : asleep' = asleep \ {c}
Broadcast == asleep' = {}

(* waitForIdleLocked: c sleeps while a Draw runs, else goes on to "done"   *)
(* and leaves the callers in "rest" asleep.                                *)
DoNotWait(c, wait, done, rest) ==
  pc' = [pc EXCEPT ![c] = done] /\ asleep' = rest
WaitForIdle(c, wait, done, rest) ==
  IF drawing
  THEN pc' = [pc EXCEPT ![c] = wait] /\ asleep' = asleep \cup {c}
  ELSE pc' = [pc EXCEPT ![c] = done] /\ asleep' = rest

(* The guard of runDrawLocked and of timerFire. *)
Drawable        == ~stopped /\ pending # None /\ ~drawing

(* The second half: Draw has returned; d holds s.mu again. *)
EndDraw(d, ok) ==
  /\ d \in inDraw
  /\ inDraw' = inDraw \ {d}
  /\ finished' = cur.frame
  /\ rewrite' = IF ok THEN FALSE ELSE rewrite
  /\ sinceDraw' = 0
  /\ drawing' = FALSE
  /\ Broadcast
  /\ UNCHANGED <<pending, pendingForce, stopped>>
  /\ LET tm == IF d \in Timers THEN [timer EXCEPT ![d] = Idle] ELSE timer
     IN  IF stopped THEN timer' = tm /\ UNCHANGED <<handle, scheduled>>
                    ELSE Arm(tm)
  /\ pc' = IF d \in Callers THEN [pc EXCEPT ![d] = "flushed"] ELSE pc
  /\ UNCHANGED <<asked, content, shown, owed, images, emitted, cur, goal>>

-----------------------------------------------------------------------------
(* Request, and RequestImmediate when immediate = TRUE. A stopped          *)
(* scheduler returns without a state change, so the step needs ~stopped.   *)
Request(c, in, immediate) ==
  LET req == NewRequest(in[1], in[2], in[3])
  IN  /\ c \in Ready /\ ~stopped
      /\ Ask(req)
      /\ Merge(req, immediate \/ IsImmediate(req.reason))
      /\ UNCHANGED <<stopped, drawing, sinceDraw>>
      /\ Arm(timer)
      /\ pc' = [pc EXCEPT ![c] = "idle"]
      /\ UNCHANGED <<asleep, rewrite, shown, emitted, cur, inDraw, finished, goal>>

(* Flush from "Cancel timer; run now" on, for the coalesced request req:   *)
(* the caller draws it, or waits for the Draw in flight first.             *)
FlushNow(c, req) ==
  /\ CancelTimer
  /\ IF drawing
     THEN /\ pending' = req /\ pendingForce' = TRUE
          /\ owed' = IF reasonRank(req.reason) > owed THEN reasonRank(req.reason) ELSE owed
          /\ pc' = [pc EXCEPT ![c] = "flushing"]
          /\ asleep' = asleep \cup {c}
          /\ UNCHANGED <<drawing, shown, emitted, cur, inDraw>>
     ELSE /\ BeginDraw(c, req, TRUE)
          /\ pc' = [pc EXCEPT ![c] = "drawing"]
          /\ UNCHANGED asleep
  /\ goal' = [goal EXCEPT ![c] = [frame |-> asked', queued |-> TRUE]]
  /\ UNCHANGED <<stopped, sinceDraw, rewrite, finished>>

(* Flush(&req). *)
FlushRequest(c, in) ==
  LET req == NewRequest(in[1], in[2], in[3])
  IN  /\ c \in Ready /\ ~stopped
      /\ Ask(req)
      /\ FlushNow(c, Coalesced(req))

(* Flush(nil): nothing pending returns at once, even while a Draw runs.    *)
FlushNil(c) ==
  /\ c \in Ready /\ ~stopped
  /\ UNCHANGED <<asked, content, images>>
  /\ \/ pending # None /\ FlushNow(c, pending)
     \/ /\ pending = None
        /\ pc' = [pc EXCEPT ![c] = "flushed"]
        /\ goal' = [goal EXCEPT ![c] = [frame |-> asked, queued |-> FALSE]]
        /\ UNCHANGED <<sVars, timer, asleep, rewrite, shown, owed, emitted, cur, inDraw, finished>>

(* Flush(&req) whose wait is an "if" instead of a "for".                   *)
FlushWakeOnce(c) ==
  /\ pc[c] = "flushing" /\ c \notin asleep
  /\ pc' = [pc EXCEPT ![c] = IF stopped THEN "aborted" ELSE "flushed"]
  /\ UNCHANGED <<sVars, timer, asleep, rewrite, hVars>>

(* Flush after cond.Wait returns: stopped wins, a new Draw means another   *)
(* wait, and a request another goroutine has taken is done.                *)
FlushWake(c) ==
  /\ pc[c] = "flushing" /\ c \notin asleep
  /\ UNCHANGED <<scheduled, handle, stopped, sinceDraw, timer, rewrite,
                 asked, content, images, finished, goal>>
  /\ \/ /\ Drawable
        /\ BeginDraw(c, pending, pendingForce)
        /\ pc' = [pc EXCEPT ![c] = "drawing"]
        /\ UNCHANGED asleep
     \/ /\ ~Drawable
        /\ asleep' = IF ~stopped /\ drawing THEN asleep \cup {c} ELSE asleep
        /\ pc' = [pc EXCEPT ![c] = IF stopped THEN "aborted"
                                   ELSE IF drawing THEN @ ELSE "flushed"]
        /\ UNCHANGED <<pending, pendingForce, drawing, shown, owed, emitted, cur, inDraw>>

(* Stop: it ends the service at once and returns when no Draw is running.  *)
Stop(c) ==
  /\ c \in Ready
  /\ stopped' = TRUE
  /\ CancelTimer
  /\ pending' = None /\ owed' = 0
  /\ UNCHANGED <<pendingForce, drawing, sinceDraw, rewrite>>
  /\ WaitForIdle(c, "stopping", "stopped", {})
  /\ UNCHANGED <<asked, content, shown, images, emitted, cur, inDraw, finished, goal>>

StopWake(c) ==
  /\ pc[c] = "stopping" /\ c \notin asleep
  /\ WaitForIdle(c, "stopping", "stopped", {})
  /\ UNCHANGED <<sVars, timer, rewrite, hVars>>

(* ForceNextWindowRewrite and MarkResizeEvent wait until no Draw runs,     *)
(* then write the engine under s.mu; SetCaps has the same shape.           *)
Touch(c) ==
  /\ \/ c \in Ready
     \/ pc[c] = "touching" /\ c \notin asleep
  /\ WaitForIdle(c, "touching", "idle", asleep)
  /\ rewrite' = (rewrite \/ pc'[c] = "idle")
  /\ UNCHANGED <<sVars, timer, hVars>>

(* timerFire: it forgets whatever timer is armed now, its own or not.      *)
TimerFire(t) ==
  /\ timer[t] = Fired
  /\ handle' = None /\ scheduled' = FALSE
  /\ UNCHANGED <<stopped, sinceDraw, cVars, rewrite, asked, content, images, finished, goal>>
  /\ \/ /\ Drawable
        /\ BeginDraw(t, pending, pendingForce)
        /\ timer' = [timer EXCEPT ![t] = Drawing]
     \/ /\ ~Drawable
        /\ timer' = [timer EXCEPT ![t] = Idle]
        /\ UNCHANGED <<pending, pendingForce, drawing, shown, owed, emitted, cur, inDraw>>

(* The runtime starts the callback of a timer whose delay has passed.      *)
TimerExpire(t) ==
  /\ timer[t] = Armed(0)
  /\ timer' = [timer EXCEPT ![t] = Fired]
  /\ UNCHANGED <<sVars, cVars, rewrite, hVars>>

(* A tick of the clock. *)
Tick ==
  /\ sinceDraw < MinInterval \/ \E t \in Timers : timer[t].left > 0
  /\ sinceDraw' = IF sinceDraw < MinInterval THEN sinceDraw + 1 ELSE sinceDraw
  /\ timer' = [t \in Timers |-> IF timer[t].left > 0 THEN Armed(timer[t].left - 1) ELSE timer[t]]
  /\ UNCHANGED <<pending, pendingForce, scheduled, handle, stopped, drawing,
                 cVars, rewrite, hVars>>

CallerStep(c) ==
  \/ \E in \in Inputs : Request(c, in, FALSE) \/ Request(c, in, TRUE) \/ FlushRequest(c, in)
  \/ FlushNil(c)
  \/ Stop(c)
  \/ Touch(c)

Wake(c) == FlushWake(c) \/ StopWake(c) \/ (pc[c] = "touching" /\ Touch(c))

DrawReturns(d) == \E ok \in BOOLEAN : EndDraw(d, ok)

Next ==
  \/ \E c \in Callers : CallerStep(c) \/ Wake(c)
  \/ \E d \in Callers \cup Timers : DrawReturns(d)
  \/ \E t \in Timers : TimerFire(t) \/ TimerExpire(t)
  \/ Tick

(* Go runs every runnable goroutine, timers expire, and a write to the     *)
(* terminal returns.  Nobody has to make a call.                           *)
Fairness ==
  /\ \A c \in Callers : WF_vars(Wake(c))
  /\ \A d \in Callers \cup Timers : WF_vars(DrawReturns(d))
  /\ \A t \in Timers : WF_vars(TimerFire(t)) /\ WF_vars(TimerExpire(t))
  /\ WF_vars(Tick)

Spec     == Init /\ [][Next]_vars
FairSpec == Spec /\ Fairness

-----------------------------------------------------------------------------
RequestType ==
  [frame : 0..MaxRequests, reason : Reasons \cup {"update", "flush"},
   stable : 0..Rows, images : Seq(1..MaxRequests)]

ASSUME NoneIsNoRequest == None \notin RequestType

TypeOK ==
  /\ pending \in RequestType \cup {None} /\ cur \in RequestType
  /\ pendingForce \in BOOLEAN /\ scheduled \in BOOLEAN
  /\ stopped \in BOOLEAN /\ drawing \in BOOLEAN /\ rewrite \in BOOLEAN
  /\ handle \in Timers \cup {None}
  /\ sinceDraw \in 0..MinInterval
  /\ timer \in [Timers -> TimerStates]
  /\ pc \in [Callers -> {"idle", "flushing", "drawing", "flushed", "aborted",
                         "stopping", "stopped", "touching"}]
  /\ asleep \subseteq Callers /\ inDraw \subseteq Callers \cup Timers
  /\ asked \in 0..MaxRequests /\ finished \in 0..MaxRequests /\ owed \in 0..5
  /\ content \in [RowIds -> 0..MaxRequests] /\ shown \in [RowIds -> 0..MaxRequests]
  /\ images \in Seq(1..MaxRequests) /\ emitted \in Seq(1..MaxRequests)
  /\ goal \in [Callers -> [frame : 0..MaxRequests, queued : BOOLEAN]]

(* "Only one Draw runs at a time" (scheduler.go:120), whatever mix of      *)
(* throttled, immediate and stale timers and of Flush callers there is.    *)
OneDrawAtATime ==
  /\ \A d, e \in inDraw : d = e
  /\ drawing <=> inDraw # {}

(* After Stop has returned nothing draws, although a timer that had        *)
(* expired before Stop still runs its callback.                            *)
StopIsQuiet == (\E c \in Callers : pc[c] = "stopped") => inDraw = {}

(* A pending request always has somebody who will draw it: the Draw in     *)
(* flight re-arms, a live timer fires, or a woken Flush caller draws.      *)
PendingHasADrawer ==
  pending # None /\ ~drawing =>
    \/ \E t \in Timers : timer[t].st \in {"armed", "fired"}
    \/ \E c \in Callers : pc[c] = "flushing" /\ c \notin asleep

(* s.scheduled suppresses arming, so it may be true only while the tracked *)
(* timer is really going to call back.                                     *)
ScheduledIsTrue == scheduled => handle # None /\ timer[handle].st \in {"armed", "fired"}

(* Coalescing never claims a row unchanged that differs from the frame the *)
(* engine drew last: the engine reuses its cached rows below that index.   *)
StablePrefixIsSound ==
  pending # None => \A r \in 1..pending.stable : content[r] = shown[r]

(* No coalescing, promotion or Flush weakens an intent: the request that   *)
(* will be drawn has the strongest reason anybody asked for.               *)
StrongestReasonSurvives == pending # None => reasonRank(pending.reason) >= owed

(* Image sequences reach the engine once each and in order, however their  *)
(* requests were coalesced; only Stop drops the ones still pending.        *)
ImagesOnceInOrder ==
  ~stopped => images = emitted \o (IF pending = None THEN <<>> ELSE pending.images)

(* The request that is drawn owes nothing to the ones merged into it: its  *)
(* claim of unchanged rows is true of the last drawn frame, no reason is   *)
(* weakened and no image is lost, repeated or moved (mergeLocked).         *)
CoalescingLosesNothing ==
  StablePrefixIsSound /\ StrongestReasonSurvives /\ ImagesOnceInOrder

(* Flush(&req), or Flush(nil) with a request pending, returns nil only     *)
(* after a Draw of that frame or a newer one has completed.                *)
FlushHasDrawn ==
  \A c \in Callers : pc[c] = "flushed" /\ goal[c].queued => finished >= goal[c].frame

(* Engine setters never write the engine while a Draw reads it.            *)
EngineTouchedWhenIdle == [][~rewrite /\ rewrite' => inDraw = {}]_vars

(* The newest request is drawn in the end unless the scheduler is stopped. *)
LatestIsDrawn == \A n \in 1..MaxRequests : asked = n ~> (finished >= n \/ stopped)

(* Flush and Stop return: nobody sleeps through the last Broadcast.        *)
CallsReturn ==
  \A c \in Callers :
    pc[c] \in {"flushing", "stopping", "touching", "drawing"} ~>
      pc[c] \notin {"flushing", "stopping", "touching", "drawing"}

(* The scheduler implements FrameServer: latest frame wins, one at a time, *)
(* nothing begins after Stop.                                              *)
Server == INSTANCE FrameServer WITH
  serving <- IF inDraw = {} THEN 0 ELSE cur.frame,
  served  <- finished,
  open    <- ~stopped

ImplementsFrameServer == Server!Spec
-----------------------------------------------------------------------------
(* The inductive strengthenings behind the safety properties. *)

(* Who draws, who has stopped, and which timers are live. *)
ControlInv ==
  /\ OneDrawAtATime /\ StopIsQuiet /\ ScheduledIsTrue /\ PendingHasADrawer
  /\ \A t \in Timers \cap inDraw : timer[t] = Drawing
  /\ stopped => pending = None
  /\ \A c \in Callers : pc[c] \in {"stopping", "stopped"} => stopped

(* How far the frames handed over, drawn and finished are from each other. *)
FrameInv ==
  /\ FlushHasDrawn
  /\ \A c \in Callers : pc[c] = "drawing" <=> c \in inDraw
  /\ pending # None => pending.frame = asked /\ cur.frame < asked
  /\ pending = None /\ ~stopped => cur.frame = asked
  /\ cur.frame <= asked /\ finished <= cur.frame
  /\ IF drawing THEN cur.frame > 0 ELSE finished = cur.frame
  /\ \A c \in Callers : goal[c].frame <= IF pc[c] = "drawing" THEN cur.frame ELSE asked

(* What a coalesced request still owes the requests it stands for. *)
DataInv ==
  /\ CoalescingLosesNothing
  /\ pending = None /\ ~stopped => content = shown
  /\ pending = None => owed = 0

=============================================================================
