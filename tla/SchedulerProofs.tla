---------------------------- MODULE SchedulerProofs ----------------------------
(***************************************************************************)
(* Proofs about Scheduler for every set of callers and timers, every frame *)
(* height and every bound: type correctness first, then the invariant of   *)
(* the control state, then the one of the frames that go through it.       *)
(***************************************************************************)
EXTENDS Scheduler, SequenceTheorems, TLAPS

(* The helpers, as facts the proofs of the actions cite. *)
LEMMA RankType == \A r : reasonRank(r) \in 1..5
  BY DEF reasonRank

(* A new request is well typed while the bound is not reached. *)
LEMMA NewRequestType ==
  ASSUME TypeOK, asked < MaxRequests, NEW in \in Inputs
  PROVE  NewRequest(in[1], in[2], in[3]) \in RequestType
  <1>1. in[1] \in Reasons /\ in[2] \in 0..Rows
    BY DEF Inputs
  <1>2. asked + 1 \in 1..MaxRequests
    BY SchedulerAssumption DEF SchedulerAssumption, TypeOK
  <1>3. (IF in[3] THEN <<asked + 1>> ELSE <<>>) \in Seq(1..MaxRequests)
    <2>1. <<asked + 1>> \in Seq(1..MaxRequests)  BY <1>2
    <2>2. <<>> \in Seq(1..MaxRequests)  OBVIOUS
    <2>. QED  BY <2>1, <2>2, Zenon
  <1>. QED  BY <1>1, <1>2, <1>3 DEF NewRequest, RequestType

(* Merging two requests gives a request. *)
LEMMA CoalescedType ==
  ASSUME TypeOK, NEW req \in RequestType
  PROVE  Coalesced(req) \in RequestType
  <1>1. CASE pending = None
    BY <1>1 DEF Coalesced
  <1>2. CASE pending # None
    <2>1. pending \in RequestType  BY <1>2 DEF TypeOK
    <2>2. AllImages(pending.images, req.images) \in Seq(1..MaxRequests)
      BY <2>1 DEF AllImages, RequestType
    <2>. QED
      BY <1>2, <2>1, <2>2 DEF Coalesced, RequestType, NewestFrame, StrongerReason, SmallerPrefix
  <1>. QED  BY <1>1, <1>2

-----------------------------------------------------------------------------
(* Arming and cancelling leave the timers well formed. *)
LEMMA CancelledType ==
  ASSUME TypeOK, NEW tm \in [Timers -> TimerStates]
  PROVE  Cancelled(tm) \in [Timers -> TimerStates]
  BY DEF TypeOK, Cancelled, TimerStates

(* What armLocked subtracts stays a delay. *)
LEMMA DelayRange ==
  /\ 0 \in 0..MinInterval
  /\ \A since \in 0..MinInterval : MinInterval - since \in 0..MinInterval
  BY SchedulerAssumption

(* A started timer is a timer with a handle. *)
LEMMA StartTimerType ==
  ASSUME NEW tm \in [Timers -> TimerStates], NEW delay \in 0..MinInterval,
         StartTimer(tm, delay)
  PROVE  timer' \in [Timers -> TimerStates] /\ handle' \in Timers \cup {None}
         /\ scheduled' \in BOOLEAN
  <1>. Armed(delay) \in TimerStates  BY DEF TimerStates
  <1>. QED  BY DEF StartTimer

(* armLocked, with or without a timer. *)
LEMMA ArmType ==
  ASSUME TypeOK, NEW tm \in [Timers -> TimerStates], Arm(tm),
         sinceDraw' \in 0..MinInterval
  PROVE  timer' \in [Timers -> TimerStates] /\ handle' \in Timers \cup {None}
         /\ scheduled' \in BOOLEAN
  <1>. 0 \in 0..MinInterval /\ MinInterval - sinceDraw' \in 0..MinInterval
    BY DelayRange
  <1>1. CASE drawing' \/ pending' = None
    BY <1>1 DEF Arm, TypeOK
  <1>2. CASE ~(drawing' \/ pending' = None) /\ pendingForce'
    BY <1>2, CancelledType, StartTimerType DEF Arm
  <1>3. CASE ~(drawing' \/ pending' = None) /\ ~pendingForce' /\ scheduled
    BY <1>3 DEF Arm, TypeOK
  <1>4. CASE ~(drawing' \/ pending' = None) /\ ~pendingForce' /\ ~scheduled
    BY <1>4, StartTimerType DEF Arm
  <1>. QED  BY <1>1, <1>2, <1>3, <1>4

(* What handing over a frame and starting a Draw leave behind. *)
LEMMA AskType ==
  ASSUME TypeOK, NEW in \in Inputs, Ask(NewRequest(in[1], in[2], in[3]))
  PROVE  /\ NewRequest(in[1], in[2], in[3]) \in RequestType
         /\ asked' \in 0..MaxRequests
         /\ content' \in [RowIds -> 0..MaxRequests]
         /\ images' \in Seq(1..MaxRequests)
  <1>. DEFINE req == NewRequest(in[1], in[2], in[3])
  <1>1. asked < MaxRequests  BY DEF Ask
  <1>2. req \in RequestType  BY <1>1, NewRequestType
  <1>3. asked + 1 \in 0..MaxRequests
    BY <1>1, SchedulerAssumption DEF TypeOK, SchedulerAssumption
  <1>4. content' \in [RowIds -> 0..MaxRequests]  BY <1>3 DEF Ask, TypeOK
  <1>5. images' \in Seq(1..MaxRequests)  BY <1>2 DEF Ask, TypeOK, RequestType
  <1>. QED  BY <1>2, <1>3, <1>4, <1>5 DEF Ask

(* Handing the pending request to Draw. *)
LEMMA BeginDrawType ==
  ASSUME TypeOK, NEW d \in Callers \cup Timers, NEW req \in RequestType, NEW force,
         BeginDraw(d, req, force), content' \in [RowIds -> 0..MaxRequests]
  PROVE  /\ pending' \in RequestType \cup {None} /\ cur' \in RequestType
         /\ pendingForce' \in BOOLEAN /\ drawing' \in BOOLEAN
         /\ inDraw' \subseteq Callers \cup Timers
         /\ shown' \in [RowIds -> 0..MaxRequests]
         /\ emitted' \in Seq(1..MaxRequests) /\ owed' \in 0..5
  <1>1. cur' \in RequestType  BY DEF BeginDraw, RequestType
  <1>2. emitted' \in Seq(1..MaxRequests)  BY DEF BeginDraw, RequestType, TypeOK
  <1>3. shown' \in [RowIds -> 0..MaxRequests]  BY DEF BeginDraw
  <1>4. inDraw' \subseteq Callers \cup Timers  BY DEF BeginDraw, TypeOK
  <1>5. pending' \in RequestType \cup {None}  BY DEF BeginDraw
  <1>6. pendingForce' \in BOOLEAN /\ drawing' \in BOOLEAN  BY DEF BeginDraw
  <1>7. owed' \in 0..5  BY DEF BeginDraw
  <1>. QED  BY <1>1, <1>2, <1>3, <1>4, <1>5, <1>6, <1>7

-----------------------------------------------------------------------------
(* Request and RequestImmediate. *)
LEMMA RequestPreservesType ==
  ASSUME TypeOK, NEW c \in Callers, NEW in \in Inputs, NEW immediate \in BOOLEAN,
         Request(c, in, immediate)
  PROVE  TypeOK'
  <1>. DEFINE req == NewRequest(in[1], in[2], in[3])
  <1>1. Ask(req) /\ Merge(req, immediate \/ IsImmediate(req.reason)) /\ Arm(timer)
    BY DEF Request
  <1>2. /\ req \in RequestType /\ asked' \in 0..MaxRequests
        /\ content' \in [RowIds -> 0..MaxRequests] /\ images' \in Seq(1..MaxRequests)
    BY <1>1, AskType
  <1>3. pending' \in RequestType  BY <1>1, <1>2, CoalescedType DEF Merge
  <1>4. pendingForce' \in BOOLEAN  BY <1>1 DEF Merge, TypeOK, IsImmediate
  <1>5. owed' \in 0..5  BY <1>1, RankType DEF Merge, TypeOK
  <1>6. /\ timer' \in [Timers -> TimerStates] /\ handle' \in Timers \cup {None}
        /\ scheduled' \in BOOLEAN
    BY <1>1, ArmType DEF Request, TypeOK
  <1>7. UNCHANGED <<stopped, drawing, sinceDraw, asleep, rewrite, shown, emitted,
                    cur, inDraw, finished, goal>>
    BY DEF Request
  <1>8. pc' = [pc EXCEPT ![c] = "idle"]  BY DEF Request
  <1>. QED  BY <1>2, <1>3, <1>4, <1>5, <1>6, <1>7, <1>8 DEF TypeOK

(* The part of Flush after its wait. *)
LEMMA FlushNowPreservesType ==
  ASSUME TypeOK, NEW c \in Callers, NEW req \in RequestType, FlushNow(c, req),
         asked' \in 0..MaxRequests, content' \in [RowIds -> 0..MaxRequests],
         images' \in Seq(1..MaxRequests)
  PROVE  TypeOK'
  <1>1. /\ timer' \in [Timers -> TimerStates] /\ handle' \in Timers \cup {None}
        /\ scheduled' \in BOOLEAN
    BY CancelledType DEF FlushNow, CancelTimer, TypeOK
  <1>2. goal' \in [Callers -> [frame : 0..MaxRequests, queued : BOOLEAN]]
    BY DEF FlushNow, TypeOK
  <1>3. UNCHANGED <<stopped, sinceDraw, rewrite, finished>>  BY DEF FlushNow
  <1>4. CASE drawing
    <2>1. /\ pending' = req /\ pendingForce' = TRUE
          /\ UNCHANGED <<drawing, shown, emitted, cur, inDraw>>
          /\ pc' = [pc EXCEPT ![c] = "flushing"] /\ asleep' = asleep \cup {c}
      BY <1>4 DEF FlushNow
    <2>2. owed' \in 0..5  BY <1>4, RankType DEF FlushNow, TypeOK
    <2>. QED  BY <1>1, <1>2, <1>3, <2>1, <2>2 DEF TypeOK
  <1>5. CASE ~drawing
    <2>1. /\ BeginDraw(c, req, TRUE) /\ pc' = [pc EXCEPT ![c] = "drawing"]
          /\ UNCHANGED asleep
      BY <1>5 DEF FlushNow
    <2>2. /\ pending' \in RequestType \cup {None} /\ cur' \in RequestType
          /\ pendingForce' \in BOOLEAN /\ drawing' \in BOOLEAN
          /\ inDraw' \subseteq Callers \cup Timers
          /\ shown' \in [RowIds -> 0..MaxRequests]
          /\ emitted' \in Seq(1..MaxRequests) /\ owed' \in 0..5
      BY <2>1, BeginDrawType
    <2>. QED  BY <1>1, <1>2, <1>3, <2>1, <2>2 DEF TypeOK
  <1>. QED  BY <1>4, <1>5

(* Every action keeps the types. *)
LEMMA TypeStep ==
  ASSUME TypeOK, [Next]_vars
  PROVE  TypeOK'
  <1>. USE SchedulerAssumption
  <1>1. ASSUME NEW c \in Callers, NEW in \in Inputs, Request(c, in, FALSE) \/ Request(c, in, TRUE)
        PROVE  TypeOK'
    BY <1>1, RequestPreservesType
  <1>2. ASSUME NEW c \in Callers, NEW in \in Inputs, FlushRequest(c, in)
        PROVE  TypeOK'
    <2>. DEFINE req == NewRequest(in[1], in[2], in[3])
    <2>1. Ask(req) /\ FlushNow(c, Coalesced(req))  BY <1>2 DEF FlushRequest
    <2>2. /\ req \in RequestType /\ asked' \in 0..MaxRequests
          /\ content' \in [RowIds -> 0..MaxRequests] /\ images' \in Seq(1..MaxRequests)
      BY <2>1, AskType
    <2>3. Coalesced(req) \in RequestType  BY <2>2, CoalescedType
    <2>. QED  BY <2>1, <2>2, <2>3, FlushNowPreservesType
  <1>3. ASSUME NEW c \in Callers, FlushNil(c)
        PROVE  TypeOK'
    <2>1. /\ asked' \in 0..MaxRequests /\ content' \in [RowIds -> 0..MaxRequests]
          /\ images' \in Seq(1..MaxRequests)
      BY <1>3 DEF FlushNil, TypeOK
    <2>2. CASE pending # None /\ FlushNow(c, pending)
      BY <2>1, <2>2, FlushNowPreservesType DEF TypeOK
    <2>3. CASE pending = None
      <3>1. /\ pc' = [pc EXCEPT ![c] = "flushed"]
            /\ goal' = [goal EXCEPT ![c] = [frame |-> asked, queued |-> FALSE]]
            /\ UNCHANGED <<asked, content, images>>
            /\ UNCHANGED <<sVars, timer, asleep, rewrite, shown, owed, emitted, cur, inDraw, finished>>
        BY <1>3, <2>3 DEF FlushNil
      <3>2. goal' \in [Callers -> [frame : 0..MaxRequests, queued : BOOLEAN]]
        BY <3>1 DEF TypeOK
      <3>. QED  BY <3>1, <3>2 DEF TypeOK, sVars
    <2>. QED  BY <1>3, <2>2, <2>3 DEF FlushNil
  <1>4. ASSUME NEW c \in Callers, Stop(c)
        PROVE  TypeOK'
    <2>1. timer' \in [Timers -> TimerStates]
      BY <1>4, CancelledType DEF Stop, CancelTimer, TypeOK
    <2>2. /\ stopped' = TRUE /\ handle' = None /\ scheduled' = FALSE
          /\ pending' = None /\ owed' = 0
          /\ UNCHANGED <<pendingForce, drawing, sinceDraw, rewrite>>
          /\ UNCHANGED <<asked, content, shown, images, emitted, cur, inDraw, finished, goal>>
      BY <1>4 DEF Stop, CancelTimer
    <2>3. /\ pc' \in [Callers -> {"idle", "flushing", "drawing", "flushed", "aborted",
                                  "stopping", "stopped", "touching"}]
          /\ asleep' \subseteq Callers
      BY <1>4 DEF Stop, WaitForIdle, TypeOK
    <2>4. pending' \in RequestType \cup {None} /\ handle' \in Timers \cup {None}
      BY <2>2
    <2>5. owed' \in 0..5  BY <2>2
    <2>6. stopped' \in BOOLEAN /\ scheduled' \in BOOLEAN  BY <2>2, Zenon
    <2>. QED  BY <2>1, <2>2, <2>3, <2>4, <2>5, <2>6 DEF TypeOK
  <1>5. ASSUME NEW c \in Callers, Touch(c)
        PROVE  TypeOK'
    BY ZenonT(40), <1>5 DEF Touch, WaitForIdle, TypeOK, sVars, hVars
  <1>6. ASSUME NEW c \in Callers, FlushWake(c)
        PROVE  TypeOK'
    <2>1. CASE Drawable
      <3>1. pending \in RequestType  BY <2>1 DEF Drawable, TypeOK
      <3>2. BeginDraw(c, pending, pendingForce) /\ pc' = [pc EXCEPT ![c] = "drawing"]
            /\ UNCHANGED <<asleep, scheduled, handle, stopped, sinceDraw, timer, rewrite,
                           asked, content, images, finished, goal>>
        BY <1>6, <2>1 DEF FlushWake
      <3>3. content' \in [RowIds -> 0..MaxRequests]  BY <3>2 DEF TypeOK
      <3>4. /\ pending' \in RequestType \cup {None} /\ cur' \in RequestType
            /\ pendingForce' \in BOOLEAN /\ drawing' \in BOOLEAN
            /\ inDraw' \subseteq Callers \cup Timers
            /\ shown' \in [RowIds -> 0..MaxRequests]
            /\ emitted' \in Seq(1..MaxRequests) /\ owed' \in 0..5
        BY <3>1, <3>2, <3>3, BeginDrawType
      <3>. QED  BY <3>2, <3>4 DEF TypeOK
    <2>2. CASE ~Drawable
      BY <1>6, <2>2 DEF FlushWake, TypeOK
    <2>. QED  BY <2>1, <2>2
  <1>7. ASSUME NEW c \in Callers, StopWake(c)
        PROVE  TypeOK'
    BY <1>7 DEF StopWake, WaitForIdle, TypeOK, sVars, hVars
  <1>8. ASSUME NEW d \in Callers \cup Timers, NEW ok \in BOOLEAN, EndDraw(d, ok)
        PROVE  TypeOK'
    <2>. DEFINE tm == IF d \in Timers THEN [timer EXCEPT ![d] = Idle] ELSE timer
    <2>1. tm \in [Timers -> TimerStates]  BY DEF TypeOK, TimerStates
    <2>2. sinceDraw' \in 0..MinInterval  BY <1>8, DelayRange DEF EndDraw
    <2>3. IF stopped THEN timer' = tm /\ UNCHANGED <<handle, scheduled>> ELSE Arm(tm)
      BY <1>8 DEF EndDraw
    <2>4. /\ timer' \in [Timers -> TimerStates] /\ handle' \in Timers \cup {None}
          /\ scheduled' \in BOOLEAN
      <3>1. CASE stopped  BY <2>1, <2>3, <3>1 DEF TypeOK
      <3>2. CASE ~stopped  BY <2>1, <2>2, <2>3, <3>2, ArmType
      <3>. QED  BY <3>1, <3>2
    <2>5. finished' \in 0..MaxRequests  BY <1>8 DEF EndDraw, TypeOK, RequestType
    <2>6. inDraw' \subseteq Callers \cup Timers /\ drawing' \in BOOLEAN /\ asleep' \subseteq Callers
      BY <1>8 DEF EndDraw, Broadcast, TypeOK
    <2>7. rewrite' \in BOOLEAN  BY <1>8 DEF EndDraw, TypeOK
    <2>8. /\ UNCHANGED <<pending, pendingForce, stopped, asked, content, shown, owed, images,
                         emitted, cur, goal>>
          /\ pc' = IF d \in Callers THEN [pc EXCEPT ![d] = "flushed"] ELSE pc
      BY <1>8 DEF EndDraw
    <2>. QED  BY <2>2, <2>4, <2>5, <2>6, <2>7, <2>8 DEF TypeOK
  <1>9. ASSUME NEW t \in Timers, TimerFire(t)
        PROVE  TypeOK'
    <2>0. Idle \in TimerStates /\ Drawing \in TimerStates  BY DEF TimerStates
    <2>1. CASE Drawable
      <3>1. pending \in RequestType  BY <2>1 DEF Drawable, TypeOK
      <3>2. /\ BeginDraw(t, pending, pendingForce) /\ timer' = [timer EXCEPT ![t] = Drawing]
            /\ handle' = None /\ scheduled' = FALSE
            /\ UNCHANGED <<stopped, sinceDraw, pc, asleep, rewrite, asked, content, images,
                           finished, goal>>
        BY <1>9, <2>1 DEF TimerFire, cVars
      <3>3. content' \in [RowIds -> 0..MaxRequests]  BY <3>2 DEF TypeOK
      <3>4. /\ pending' \in RequestType \cup {None} /\ cur' \in RequestType
            /\ pendingForce' \in BOOLEAN /\ drawing' \in BOOLEAN
            /\ inDraw' \subseteq Callers \cup Timers
            /\ shown' \in [RowIds -> 0..MaxRequests]
            /\ emitted' \in Seq(1..MaxRequests) /\ owed' \in 0..5
        BY <3>1, <3>2, <3>3, BeginDrawType
      <3>. QED  BY <2>0, <3>2, <3>4 DEF TypeOK
    <2>2. CASE ~Drawable
      <3>1. /\ timer' = [timer EXCEPT ![t] = Idle] /\ handle' = None /\ scheduled' = FALSE
            /\ UNCHANGED <<stopped, sinceDraw, pc, asleep, rewrite, asked, content, images,
                           finished, goal>>
            /\ UNCHANGED <<pending, pendingForce, drawing, shown, owed, emitted, cur, inDraw>>
        BY <1>9, <2>2 DEF TimerFire, cVars
      <3>. QED  BY <2>0, <3>1 DEF TypeOK
    <2>. QED  BY <2>1, <2>2
  <1>10. ASSUME NEW t \in Timers, TimerExpire(t)
         PROVE  TypeOK'
    <2>1. Fired \in TimerStates  BY DEF TimerStates
    <2>. QED  BY <1>10, <2>1 DEF TimerExpire, TypeOK, sVars, cVars, hVars
  <1>11. CASE Tick
    <2>1. sinceDraw' \in 0..MinInterval  BY <1>11 DEF Tick, TypeOK
    <2>2. \A t \in Timers : timer[t].left > 0 => Armed(timer[t].left - 1) \in TimerStates
      <3>. SUFFICES ASSUME NEW t \in Timers, timer[t].left > 0
                    PROVE  Armed(timer[t].left - 1) \in TimerStates
        OBVIOUS
      <3>1. timer[t] \in TimerStates  BY DEF TypeOK
      <3>2. PICK delay \in 0..MinInterval : timer[t] = Armed(delay)
        BY <3>1 DEF TimerStates, Idle, Fired, Drawing
      <3>3. timer[t].left = delay /\ delay - 1 \in 0..MinInterval
        BY <3>2 DEF Armed
      <3>. QED  BY <3>3 DEF TimerStates
    <2>3. timer' \in [Timers -> TimerStates]  BY <1>11, <2>2 DEF Tick, TypeOK
    <2>. QED  BY <1>11, <2>1, <2>3 DEF Tick, TypeOK, cVars, hVars
  <1>12. CASE UNCHANGED vars
    BY <1>12 DEF vars, sVars, cVars, hVars, TypeOK
  <1>. QED
    BY <1>1, <1>2, <1>3, <1>4, <1>5, <1>6, <1>7, <1>8, <1>9, <1>10, <1>11, <1>12
       DEF Next, CallerStep, Wake, DrawReturns

(* Every variable keeps its type: in particular no armed delay exceeds     *)
(* MinInterval and no number of a frame exceeds what was handed over.      *)
THEOREM TypeCorrect == Spec => []TypeOK
  <1>1. Init => TypeOK
    <2>. SUFFICES ASSUME Init PROVE TypeOK  OBVIOUS
    <2>. USE SchedulerAssumption
    <2>1. MinInterval \in 0..MinInterval /\ 0 \in 0..MaxRequests /\ 0 \in 0..Rows
      OBVIOUS
    <2>2. cur \in RequestType  BY <2>1 DEF Init, RequestType
    <2>3. timer \in [Timers -> TimerStates]  BY DEF Init, TimerStates
    <2>4. goal \in [Callers -> [frame : 0..MaxRequests, queued : BOOLEAN]]
      BY <2>1 DEF Init
    <2>5. images \in Seq(1..MaxRequests) /\ emitted \in Seq(1..MaxRequests)
      BY DEF Init
    <2>6. /\ pending \in RequestType \cup {None} /\ handle \in Timers \cup {None}
          /\ sinceDraw \in 0..MinInterval /\ owed \in 0..5
          /\ asked \in 0..MaxRequests /\ finished \in 0..MaxRequests
      BY <2>1 DEF Init
    <2>7. /\ pendingForce \in BOOLEAN /\ scheduled \in BOOLEAN /\ stopped \in BOOLEAN
          /\ drawing \in BOOLEAN /\ rewrite \in BOOLEAN
      BY DEF Init
    <2>8. /\ content \in [RowIds -> 0..MaxRequests] /\ shown \in [RowIds -> 0..MaxRequests]
          /\ asleep \subseteq Callers /\ inDraw \subseteq Callers \cup Timers
          /\ pc \in [Callers -> {"idle", "flushing", "drawing", "flushed", "aborted",
                                "stopping", "stopped", "touching"}]
      BY <2>1 DEF Init
    <2>. QED  BY <2>2, <2>3, <2>4, <2>5, <2>6, <2>7, <2>8 DEF TypeOK
  <1>2. TypeOK /\ [Next]_vars => TypeOK'
    BY TypeStep
  <1>. QED  BY <1>1, <1>2, PTL DEF Spec

-----------------------------------------------------------------------------
(* Live timers: those whose callback will still run. *)
Live(tm, t) == tm[t].st \in {"armed", "fired"}

(* Starting a timer makes the tracked one live and spares the others that  *)
(* are live or drawing.                                                    *)
LEMMA StartTimerLive ==
  ASSUME NEW tm \in [Timers -> TimerStates], NEW delay, StartTimer(tm, delay)
  PROVE  /\ handle' \in Timers /\ Live(timer', handle') /\ scheduled' = TRUE
         /\ \A t \in Timers : tm[t] = Drawing => timer'[t] = Drawing
  <1>1. PICK t \in Timers : /\ tm[t] = Idle /\ timer' = [tm EXCEPT ![t] = Armed(delay)]
                            /\ handle' = t /\ scheduled' = TRUE
    BY DEF StartTimer
  <1>2. timer'[t] = Armed(delay)  BY <1>1
  <1>3. Idle # Drawing  BY DEF Idle, Drawing
  <1>. QED  BY <1>1, <1>2, <1>3 DEF Live, Armed

(* Cancelling spares a timer that draws. *)
LEMMA CancelledDrawing ==
  ASSUME TypeOK, NEW tm \in [Timers -> TimerStates]
  PROVE  \A t \in Timers : tm[t] = Drawing => Cancelled(tm)[t] = Drawing
  BY DEF Cancelled, Drawing, TypeOK

(* Arming leaves a live timer behind whenever a request stays pending and  *)
(* nobody draws; it never leaves the flag "scheduled" without one.         *)
LEMMA ArmLive ==
  ASSUME TypeOK, NEW tm \in [Timers -> TimerStates], Arm(tm),
         scheduled => handle # None /\ Live(tm, handle)
  PROVE  /\ scheduled' => handle' # None /\ Live(timer', handle')
         /\ pending' # None /\ ~drawing' => \E t \in Timers : Live(timer', t)
         /\ \A t \in Timers : tm[t] = Drawing => timer'[t] = Drawing
  <1>. None \notin Timers  BY SchedulerAssumption
  <1>0. handle # None => handle \in Timers  BY DEF TypeOK
  <1>1. CASE drawing' \/ pending' = None
    BY <1>1 DEF Arm
  <1>2. CASE ~(drawing' \/ pending' = None) /\ pendingForce'
    <2>1. StartTimer(Cancelled(tm), 0)  BY <1>2 DEF Arm
    <2>. QED  BY <2>1, CancelledType, CancelledDrawing, StartTimerLive
  <1>3. CASE ~(drawing' \/ pending' = None) /\ ~pendingForce' /\ scheduled
    <2>1. timer' = tm /\ UNCHANGED <<handle, scheduled>>  BY <1>3 DEF Arm
    <2>. QED  BY <1>0, <1>3, <2>1
  <1>4. CASE ~(drawing' \/ pending' = None) /\ ~pendingForce' /\ ~scheduled
    <2>1. StartTimer(tm, MinInterval - sinceDraw')  BY <1>4 DEF Arm
    <2>. QED  BY <2>1, StartTimerLive
  <1>. QED  BY <1>1, <1>2, <1>3, <1>4

(* Which callers sleep, and who draws, while FlushNow runs. *)
LEMMA FlushNowControl ==
  ASSUME TypeOK, ControlInv, NEW c \in Callers, pc[c] \notin {"stopping", "stopped"},
         ~stopped, NEW req, FlushNow(c, req)
  PROVE  ControlInv'
  <1>1. /\ timer' = Cancelled(timer) /\ handle' = None /\ scheduled' = FALSE
        /\ UNCHANGED stopped
    BY DEF FlushNow, CancelTimer
  <1>2. \A t \in Timers : timer[t] = Drawing => timer'[t] = Drawing
    BY <1>1, CancelledDrawing DEF TypeOK
  <1>3. CASE drawing
    <2>1. UNCHANGED <<drawing, inDraw>> /\ pc' = [pc EXCEPT ![c] = "flushing"]
      BY <1>3 DEF FlushNow
    <2>. QED
      BY <1>1, <1>2, <1>3, <2>1
         DEF ControlInv, OneDrawAtATime, StopIsQuiet, ScheduledIsTrue, PendingHasADrawer, TypeOK
  <1>4. CASE ~drawing
    <2>1. /\ drawing' = TRUE /\ inDraw' = inDraw \cup {c} /\ inDraw = {}
          /\ pc' = [pc EXCEPT ![c] = "drawing"]
      BY <1>4 DEF FlushNow, BeginDraw, ControlInv, OneDrawAtATime
    <2>2. c \notin Timers  BY SchedulerAssumption
    <2>. QED
      BY <1>1, <2>1, <2>2
         DEF ControlInv, OneDrawAtATime, StopIsQuiet, ScheduledIsTrue, PendingHasADrawer, TypeOK
  <1>. QED  BY <1>3, <1>4

(* Every action keeps the control invariant. *)
LEMMA ControlStep ==
  ASSUME TypeOK, ControlInv, [Next]_vars
  PROVE  ControlInv'
  <1>. USE DEF ControlInv, OneDrawAtATime, StopIsQuiet, ScheduledIsTrue, PendingHasADrawer
  <1>1. ASSUME NEW c \in Callers, NEW in \in Inputs, NEW immediate, Request(c, in, immediate)
        PROVE  ControlInv'
    <2>1. /\ Arm(timer) /\ c \in Ready /\ ~stopped
          /\ UNCHANGED <<stopped, drawing, inDraw, asleep>> /\ pc' = [pc EXCEPT ![c] = "idle"]
      BY <1>1 DEF Request
    <2>2. timer \in [Timers -> TimerStates] /\ (scheduled => handle # None /\ Live(timer, handle))
      BY DEF TypeOK, Live
    <2>3. /\ scheduled' => handle' # None /\ Live(timer', handle')
          /\ pending' # None /\ ~drawing' => \E t \in Timers : Live(timer', t)
          /\ \A t \in Timers : timer[t] = Drawing => timer'[t] = Drawing
      BY <2>1, <2>2, ArmLive
    <2>. QED  BY <2>1, <2>3 DEF TypeOK, Ready, Live
  <1>2. ASSUME NEW c \in Callers, NEW in \in Inputs, FlushRequest(c, in)
        PROVE  ControlInv'
    BY <1>2, FlushNowControl DEF FlushRequest, Ready
  <1>3. ASSUME NEW c \in Callers, FlushNil(c)
        PROVE  ControlInv'
    <2>1. CASE FlushNow(c, pending)
      BY <1>3, <2>1, FlushNowControl DEF FlushNil, Ready
    <2>2. CASE ~FlushNow(c, pending)
      <3>1. /\ pending = None /\ pc' = [pc EXCEPT ![c] = "flushed"] /\ ~stopped
            /\ UNCHANGED <<sVars, timer, asleep, inDraw>>
        BY <1>3, <2>2 DEF FlushNil
      <3>. QED  BY <3>1 DEF TypeOK, sVars
    <2>. QED  BY <2>1, <2>2
  <1>4. ASSUME NEW c \in Callers, Stop(c)
        PROVE  ControlInv'
    <2>1. /\ timer' = Cancelled(timer) /\ handle' = None /\ scheduled' = FALSE
          /\ stopped' = TRUE /\ pending' = None /\ UNCHANGED <<drawing, inDraw>>
          /\ pc' = [pc EXCEPT ![c] = IF drawing THEN "stopping" ELSE "stopped"]
      BY <1>4 DEF Stop, CancelTimer, WaitForIdle
    <2>2. \A t \in Timers : timer[t] = Drawing => timer'[t] = Drawing
      BY <2>1, CancelledDrawing DEF TypeOK
    <2>. QED  BY <2>1, <2>2 DEF TypeOK
  <1>5. ASSUME NEW c \in Callers, Touch(c)
        PROVE  ControlInv'
    <2>1. /\ UNCHANGED <<sVars, timer, inDraw>>
          /\ pc' = [pc EXCEPT ![c] = IF drawing THEN "touching" ELSE "idle"]
          /\ pc[c] \notin {"flushing", "stopped", "stopping"}
          /\ asleep' = IF drawing THEN asleep \cup {c} ELSE asleep
      BY <1>5 DEF Touch, WaitForIdle, hVars, Ready
    <2>. QED  BY <2>1 DEF TypeOK, sVars
  <1>6. ASSUME NEW c \in Callers, FlushWake(c)
        PROVE  ControlInv'
    <2>1. UNCHANGED <<scheduled, handle, stopped, timer>> /\ pc[c] = "flushing"
      BY <1>6 DEF FlushWake
    <2>2. CASE Drawable
      <3>1. /\ drawing' = TRUE /\ inDraw' = inDraw \cup {c} /\ inDraw = {} /\ ~stopped
            /\ pc' = [pc EXCEPT ![c] = "drawing"]
        BY <1>6, <2>2 DEF FlushWake, BeginDraw, Drawable
      <3>2. c \notin Timers  BY SchedulerAssumption
      <3>. QED  BY <2>1, <3>1, <3>2 DEF TypeOK
    <2>3. CASE ~Drawable
      <3>1. /\ UNCHANGED <<pending, drawing, inDraw>>
            /\ pc' = [pc EXCEPT ![c] = IF stopped THEN "aborted"
                                       ELSE IF drawing THEN @ ELSE "flushed"]
        BY <1>6, <2>3 DEF FlushWake
      <3>. QED  BY <2>1, <2>3, <3>1 DEF TypeOK, Drawable
    <2>. QED  BY <2>2, <2>3
  <1>7. ASSUME NEW c \in Callers, StopWake(c)
        PROVE  ControlInv'
    <2>1. /\ UNCHANGED <<sVars, timer, inDraw>> /\ pc[c] = "stopping"
          /\ pc' = [pc EXCEPT ![c] = IF drawing THEN "stopping" ELSE "stopped"]
          /\ asleep' = IF drawing THEN asleep \cup {c} ELSE {}
      BY <1>7 DEF StopWake, WaitForIdle, hVars
    <2>. QED  BY <2>1 DEF TypeOK, sVars
  <1>8. ASSUME NEW d \in Callers \cup Timers, NEW ok, EndDraw(d, ok)
        PROVE  ControlInv'
    <2>. DEFINE tm == IF d \in Timers THEN [timer EXCEPT ![d] = Idle] ELSE timer
    <2>1. /\ inDraw' = {} /\ drawing' = FALSE /\ UNCHANGED <<pending, stopped>>
          /\ d \in inDraw
          /\ pc' = IF d \in Callers THEN [pc EXCEPT ![d] = "flushed"] ELSE pc
          /\ IF stopped THEN timer' = tm /\ UNCHANGED <<handle, scheduled>> ELSE Arm(tm)
      BY <1>8 DEF EndDraw
    <2>2. tm \in [Timers -> TimerStates]  BY DEF TypeOK, TimerStates
    <2>3. scheduled => handle # None /\ Live(tm, handle)
      <3>1. d \in Timers => timer[d] = Drawing  BY <2>1
      <3>2. Drawing.st = "drawing"  BY DEF Drawing
      <3>. QED  BY <3>1, <3>2 DEF TypeOK, Live
    <2>4. CASE stopped
      <3>1. pending' = None /\ timer' = tm /\ UNCHANGED <<handle, scheduled, stopped>>
        BY <2>1, <2>4
      <3>. QED  BY <2>1, <2>3, <2>4, <3>1 DEF TypeOK, Live
    <2>5. CASE ~stopped
      <3>1. Arm(tm)  BY <2>1, <2>5
      <3>2. /\ scheduled' => handle' # None /\ Live(timer', handle')
            /\ pending' # None /\ ~drawing' => \E t \in Timers : Live(timer', t)
        BY <2>2, <2>3, <3>1, ArmLive
      <3>. QED  BY <2>1, <2>5, <3>2 DEF TypeOK, Live
    <2>. QED  BY <2>4, <2>5
  <1>9. ASSUME NEW t \in Timers, TimerFire(t)
        PROVE  ControlInv'
    <2>0. Fired # Drawing  BY DEF Fired, Drawing
    <2>1. handle' = None /\ scheduled' = FALSE /\ UNCHANGED <<stopped, pc>> /\ timer[t] = Fired
      BY <1>9 DEF TimerFire, cVars
    <2>2. CASE Drawable
      <3>1. /\ drawing' = TRUE /\ inDraw' = inDraw \cup {t} /\ inDraw = {} /\ ~stopped
            /\ timer' = [timer EXCEPT ![t] = Drawing]
        BY <1>9, <2>2 DEF TimerFire, BeginDraw, Drawable
      <3>. QED  BY <2>1, <3>1 DEF TypeOK
    <2>3. CASE ~Drawable
      <3>1. UNCHANGED <<pending, drawing, inDraw>> /\ timer' = [timer EXCEPT ![t] = Idle]
        BY <1>9, <2>3 DEF TimerFire
      <3>. QED  BY <2>0, <2>1, <2>3, <3>1 DEF TypeOK, Drawable
    <2>. QED  BY <2>2, <2>3
  <1>10. ASSUME NEW t \in Timers, TimerExpire(t)
         PROVE  ControlInv'
    <2>0. Armed(0) # Drawing /\ Fired.st = "fired"  BY DEF Armed, Drawing, Fired
    <2>1. /\ timer[t] = Armed(0) /\ timer' = [timer EXCEPT ![t] = Fired]
          /\ UNCHANGED <<sVars, cVars, inDraw>>
      BY <1>10 DEF TimerExpire, hVars
    <2>. QED  BY <2>0, <2>1 DEF TypeOK, sVars, cVars
  <1>11. CASE Tick
    <2>0. \A t \in Timers : /\ timer[t] = Drawing => timer'[t] = Drawing
                            /\ Live(timer, t) => Live(timer', t)
      BY <1>11 DEF Tick, Drawing, Armed, Live
    <2>1. UNCHANGED <<pending, scheduled, handle, stopped, drawing, cVars, inDraw>>
      BY <1>11 DEF Tick, hVars
    <2>. QED  BY <2>0, <2>1 DEF TypeOK, cVars, Live
  <1>12. CASE UNCHANGED vars
    BY <1>12 DEF vars, sVars, cVars, hVars
  <1>. QED
    BY <1>1, <1>2, <1>3, <1>4, <1>5, <1>6, <1>7, <1>8, <1>9, <1>10, <1>11, <1>12
       DEF Next, CallerStep, Wake, DrawReturns

(* One Draw at a time, none after Stop has returned, and a pending request *)
(* always has a live timer, a Draw in flight or a woken Flush behind it.   *)
THEOREM ControlCorrect ==
  Spec => [](OneDrawAtATime /\ StopIsQuiet /\ ScheduledIsTrue /\ PendingHasADrawer)
  <1>1. Init => ControlInv
    BY DEF Init, ControlInv, OneDrawAtATime, StopIsQuiet, ScheduledIsTrue, PendingHasADrawer
  <1>2. TypeOK /\ ControlInv /\ [Next]_vars => ControlInv'
    BY ControlStep
  <1>3. ControlInv => OneDrawAtATime /\ StopIsQuiet /\ ScheduledIsTrue /\ PendingHasADrawer
    BY DEF ControlInv
  <1>. QED  BY <1>1, <1>2, <1>3, TypeCorrect, PTL DEF Spec

-----------------------------------------------------------------------------
(* What the request m, about to wait or to be drawn, keeps of those merged *)
(* into it.                                                                *)
OwesNothing(m) ==
  /\ \A r \in 1..m.stable : content'[r] = shown[r]
  /\ reasonRank(m.reason) >= owed
  /\ images' = emitted \o m.images

(* Merging a new request keeps the claims of both. *)
LEMMA CoalescedData ==
  ASSUME TypeOK, DataInv, ~stopped, NEW in \in Inputs,
         Ask(NewRequest(in[1], in[2], in[3]))
  PROVE  LET req == NewRequest(in[1], in[2], in[3])
         IN  /\ OwesNothing(Coalesced(req))
             /\ reasonRank(Coalesced(req).reason) >= reasonRank(req.reason)
  <1>. DEFINE req == NewRequest(in[1], in[2], in[3])
  <1>1. req \in RequestType  BY NewRequestType DEF Ask
  <1>2. req.stable \in Nat /\ req.images \in Seq(1..MaxRequests)
    BY <1>1, SchedulerAssumption DEF RequestType
  <1>3. \A r \in RowIds : r <= req.stable => content'[r] = content[r]
    BY <1>2 DEF Ask, TypeOK, RowIds
  <1>4. images' = images \o req.images  BY DEF Ask
  <1>5. \A r : reasonRank(r) \in 1..5  BY RankType
  <1>6. req.stable <= Rows  BY <1>1, SchedulerAssumption DEF RequestType
  <1>7. CASE pending = None
    <2>1. content = shown /\ owed = 0 /\ images = emitted \o <<>>
      BY <1>7 DEF DataInv, CoalescingLosesNothing, ImagesOnceInOrder
    <2>2. Coalesced(req) = req  BY <1>7 DEF Coalesced
    <2>3. images = emitted  BY <2>1 DEF TypeOK
    <2>4. \A r \in 1..req.stable : content'[r] = shown[r]
      BY <1>2, <1>3, <1>6, <2>1, SchedulerAssumption DEF RowIds
    <2>. QED  BY <1>4, <1>5, <2>1, <2>2, <2>3, <2>4 DEF OwesNothing
  <1>8. CASE pending # None
    <2>. DEFINE m == Coalesced(req)
    <2>0. pending \in RequestType  BY <1>8 DEF TypeOK
    <2>1. /\ pending.stable \in Nat /\ pending.images \in Seq(1..MaxRequests)
      BY <2>0, SchedulerAssumption DEF RequestType
    <2>2. /\ m.stable = SmallerPrefix(pending.stable, req.stable)
          /\ m.reason = StrongerReason(pending.reason, req.reason)
          /\ m.images = pending.images \o req.images
      BY <1>8 DEF Coalesced, AllImages
    <2>3. /\ \A r \in 1..pending.stable : content[r] = shown[r]
          /\ reasonRank(pending.reason) >= owed
          /\ images = emitted \o pending.images
      BY <1>8 DEF DataInv, CoalescingLosesNothing, StablePrefixIsSound, StrongestReasonSurvives, ImagesOnceInOrder
    <2>4. m.stable \in Nat /\ m.stable <= pending.stable /\ m.stable <= req.stable
      BY <1>2, <2>1, <2>2 DEF SmallerPrefix
    <2>5. \A r \in 1..m.stable : content'[r] = shown[r]
      <3>. SUFFICES ASSUME NEW r \in 1..m.stable PROVE content'[r] = shown[r]  OBVIOUS
      <3>1. r \in 1..pending.stable /\ r \in RowIds /\ r <= req.stable
        BY <1>2, <1>6, <2>1, <2>4, SchedulerAssumption DEF RowIds
      <3>. QED  BY <1>3, <2>3, <3>1
    <2>6. reasonRank(m.reason) >= owed /\ reasonRank(m.reason) >= reasonRank(req.reason)
      <3>1. owed \in 0..5  BY DEF TypeOK
      <3>. QED  BY <1>5, <2>2, <2>3, <3>1 DEF StrongerReason
    <2>7. images' = emitted \o m.images
      <3>1. emitted \in Seq(1..MaxRequests)  BY DEF TypeOK
      <3>2. \A e, p, q \in Seq(1..MaxRequests) : (e \o p) \o q = e \o (p \o q)
        BY ConcatAssociative
      <3>. HIDE DEF req, m
      <3>3. (emitted \o pending.images) \o req.images = emitted \o (pending.images \o req.images)
        BY <1>2, <2>1, <3>1, <3>2
      <3>. QED  BY <1>4, <2>2, <2>3, <3>3
    <2>. QED  BY <2>5, <2>6, <2>7 DEF OwesNothing
  <1>. QED  BY <1>7, <1>8

(* A request that goes to the engine leaves nothing owed. *)
LEMMA BeginDrawData ==
  ASSUME NEW d, NEW req, NEW force, BeginDraw(d, req, force), images' = emitted \o req.images,
         TypeOK'
  PROVE  DataInv'
  <1>1. /\ pending' = None /\ shown' = content' /\ owed' = 0 /\ emitted' = images'
    BY DEF BeginDraw
  <1>2. images' = emitted' \o <<>>  BY <1>1 DEF TypeOK
  <1>. QED
    BY <1>1, <1>2 DEF DataInv, CoalescingLosesNothing, StablePrefixIsSound, StrongestReasonSurvives, ImagesOnceInOrder

(* Flush of a request that owes nothing, drawn at once or left waiting.    *)
LEMMA FlushNowData ==
  ASSUME TypeOK, TypeOK', NEW c \in Callers, NEW req \in RequestType, OwesNothing(req),
         FlushNow(c, req)
  PROVE  DataInv'
  <1>1. CASE ~drawing
    <2>1. BeginDraw(c, req, TRUE)  BY <1>1 DEF FlushNow
    <2>. QED  BY <2>1, BeginDrawData DEF OwesNothing
  <1>2. CASE drawing
    <2>1. /\ pending' = req /\ UNCHANGED <<shown, emitted>>
          /\ owed' = IF reasonRank(req.reason) > owed THEN reasonRank(req.reason) ELSE owed
      BY <1>2 DEF FlushNow
    <2>2. owed \in 0..5 /\ reasonRank(req.reason) \in 1..5  BY RankType DEF TypeOK
    <2>3. CASE pending' = None
      <3>1. req = None  BY <2>1, <2>3
      <3>. QED  BY <3>1, NoneIsNoRequest
    <2>4. CASE pending' # None
      <3>. QED
        BY <2>1, <2>2, <2>4
           DEF OwesNothing, DataInv, CoalescingLosesNothing, StablePrefixIsSound, StrongestReasonSurvives, ImagesOnceInOrder
    <2>. QED  BY <2>3, <2>4
  <1>. QED  BY <1>1, <1>2

(* Every action keeps what the pending request owes. *)
LEMMA DataStep ==
  ASSUME TypeOK, TypeOK', DataInv, [Next]_vars
  PROVE  DataInv'
  <1>. DEFINE Same == UNCHANGED <<pending, stopped, content, shown, owed, images, emitted>>
  <1>0. ASSUME Same PROVE DataInv'
    BY <1>0 DEF DataInv, CoalescingLosesNothing, StablePrefixIsSound, StrongestReasonSurvives, ImagesOnceInOrder
  <1>. HIDE DEF Same
  <1>1. ASSUME NEW c \in Callers, NEW in \in Inputs, NEW immediate, Request(c, in, immediate)
        PROVE  DataInv'
    <2>. DEFINE req == NewRequest(in[1], in[2], in[3])
    <2>1. /\ ~stopped /\ UNCHANGED <<stopped, shown, emitted>> /\ Ask(req)
          /\ pending' = Coalesced(req)
          /\ owed' = IF reasonRank(req.reason) > owed THEN reasonRank(req.reason) ELSE owed
      BY <1>1 DEF Request, Merge
    <2>2. OwesNothing(Coalesced(req)) /\ reasonRank(Coalesced(req).reason) >= reasonRank(req.reason)
      BY <2>1, CoalescedData
    <2>3. owed \in 0..5 /\ \A r : reasonRank(r) \in 1..5  BY RankType DEF TypeOK
    <2>4. Coalesced(req) # None
      BY <2>1, NoneIsNoRequest, NewRequestType, CoalescedType DEF Ask
    <2>. HIDE DEF req
    <2>. QED
      BY <2>1, <2>2, <2>3, <2>4
         DEF OwesNothing, DataInv, CoalescingLosesNothing, StablePrefixIsSound, StrongestReasonSurvives, ImagesOnceInOrder
  <1>2. ASSUME NEW c \in Callers, NEW in \in Inputs, FlushRequest(c, in)
        PROVE  DataInv'
    <2>. DEFINE req == NewRequest(in[1], in[2], in[3])
    <2>1. ~stopped /\ Ask(req) /\ FlushNow(c, Coalesced(req))
      BY <1>2 DEF FlushRequest
    <2>2. Coalesced(req) \in RequestType
      BY <2>1, NewRequestType, CoalescedType DEF Ask
    <2>. QED  BY <2>1, <2>2, CoalescedData, FlushNowData
  <1>3. ASSUME NEW c \in Callers, FlushNil(c)
        PROVE  DataInv'
    <2>1. ~stopped /\ UNCHANGED <<content, images>>  BY <1>3 DEF FlushNil
    <2>2. CASE pending # None /\ FlushNow(c, pending)
      <3>1. pending \in RequestType  BY <2>2 DEF TypeOK
      <3>2. OwesNothing(pending)
        BY <2>1, <2>2
           DEF OwesNothing, DataInv, CoalescingLosesNothing, StablePrefixIsSound, StrongestReasonSurvives, ImagesOnceInOrder
      <3>. QED  BY <2>2, <3>1, <3>2, FlushNowData
    <2>3. CASE UNCHANGED <<sVars, shown, owed, emitted>>
      BY <1>0, <2>1, <2>3 DEF Same, sVars
    <2>. QED  BY <1>3, <2>2, <2>3 DEF FlushNil
  <1>4. ASSUME NEW c \in Callers, Stop(c)
        PROVE  DataInv'
    BY <1>4 DEF Stop, DataInv, CoalescingLosesNothing, StablePrefixIsSound, StrongestReasonSurvives, ImagesOnceInOrder
  <1>5. ASSUME NEW c \in Callers, Touch(c)
        PROVE  DataInv'
    BY <1>0, <1>5 DEF Touch, Same, sVars, hVars
  <1>6. ASSUME Drawable, NEW d, BeginDraw(d, pending, pendingForce), UNCHANGED <<stopped, content, images>>
        PROVE  DataInv'
    <2>1. images' = emitted \o pending.images
      BY <1>6 DEF Drawable, DataInv, CoalescingLosesNothing, ImagesOnceInOrder
    <2>. QED  BY <1>6, <2>1, BeginDrawData
  <1>7. ASSUME NEW c \in Callers, FlushWake(c)
        PROVE  DataInv'
    <2>1. UNCHANGED <<stopped, content, images>>  BY <1>7 DEF FlushWake
    <2>2. CASE Drawable
      BY <1>6, <1>7, <2>1, <2>2 DEF FlushWake
    <2>3. CASE ~Drawable
      BY <1>0, <1>7, <2>1, <2>3 DEF FlushWake, Same
    <2>. QED  BY <2>2, <2>3
  <1>8. ASSUME NEW c \in Callers, StopWake(c)
        PROVE  DataInv'
    BY <1>0, <1>8 DEF StopWake, Same, sVars, hVars
  <1>9. ASSUME NEW d \in Callers \cup Timers, NEW ok, EndDraw(d, ok)
        PROVE  DataInv'
    BY <1>0, <1>9 DEF EndDraw, Same
  <1>10. ASSUME NEW t \in Timers, TimerFire(t)
         PROVE  DataInv'
    <2>1. UNCHANGED <<stopped, content, images>>  BY <1>10 DEF TimerFire
    <2>2. CASE Drawable
      BY <1>6, <1>10, <2>1, <2>2 DEF TimerFire
    <2>3. CASE ~Drawable
      BY <1>0, <1>10, <2>1, <2>3 DEF TimerFire, Same
    <2>. QED  BY <2>2, <2>3
  <1>11. ASSUME NEW t \in Timers, TimerExpire(t)
         PROVE  DataInv'
    BY <1>0, <1>11 DEF TimerExpire, Same, sVars, hVars
  <1>12. CASE Tick
    BY <1>0, <1>12 DEF Tick, Same, hVars
  <1>13. CASE UNCHANGED vars
    BY <1>0, <1>13 DEF vars, Same, sVars, hVars
  <1>. QED
    BY <1>1, <1>2, <1>3, <1>4, <1>5, <1>7, <1>8, <1>9, <1>10, <1>11, <1>12, <1>13
       DEF Next, CallerStep, Wake, DrawReturns

(* Coalescing loses nothing: the request that is drawn claims no changed   *)
(* row unchanged, keeps the strongest reason and every image once.         *)
THEOREM DataCorrect == Spec => []CoalescingLosesNothing
  <1>1. Init => DataInv
    BY DEF Init, DataInv, CoalescingLosesNothing, StablePrefixIsSound, StrongestReasonSurvives, ImagesOnceInOrder
  <1>2. TypeOK /\ TypeOK' /\ DataInv /\ [Next]_vars => DataInv'
    BY DataStep
  <1>3. DataInv => CoalescingLosesNothing
    BY DEF DataInv
  <1>. QED  BY <1>1, <1>2, <1>3, TypeCorrect, PTL DEF Spec

-----------------------------------------------------------------------------
(* A Draw that begins takes the newest frame, so whoever waits for a frame *)
(* waits for it or for an older one.                                       *)
LEMMA BeginDrawFrame ==
  ASSUME TypeOK, FrameInv, OneDrawAtATime, NEW d \in Callers \cup Timers, NEW req \in RequestType,
         NEW force, ~drawing, ~stopped, BeginDraw(d, req, force), UNCHANGED <<stopped, finished>>,
         asked' \in Nat, req.frame = asked', cur.frame < asked', asked <= asked',
         pc' = IF d \in Callers THEN [pc EXCEPT ![d] = "drawing"] ELSE pc,
         \A c \in Callers : goal'[c].frame <= asked' /\ (c # d => goal'[c] = goal[c])
  PROVE  FrameInv'
  <1>1. /\ pending' = None /\ drawing' = TRUE /\ inDraw' = inDraw \cup {d} /\ inDraw = {}
        /\ cur'.frame = asked'
    BY DEF BeginDraw, OneDrawAtATime, RequestType
  <1>2. \A c \in Callers : pc[c] # "drawing"  BY <1>1 DEF FrameInv
  <1>3. finished \in Nat /\ cur.frame \in Nat  BY SchedulerAssumption DEF TypeOK, RequestType
  <1>4. \A c \in Callers : pc'[c] = IF c = d THEN "drawing" ELSE pc[c]
    BY DEF TypeOK
  <1>5. FlushHasDrawn'
    BY <1>4 DEF FrameInv, FlushHasDrawn
  <1>6. \A c \in Callers : pc'[c] = "drawing" <=> c \in inDraw'
    BY <1>1, <1>2, <1>4
  <1>7. cur'.frame <= asked' /\ finished' <= cur'.frame /\ cur'.frame > 0
    BY <1>1, <1>3 DEF FrameInv
  <1>8. \A c \in Callers : goal'[c].frame <= IF pc'[c] = "drawing" THEN cur'.frame ELSE asked'
    BY <1>1
  <1>. QED  BY <1>1, <1>5, <1>6, <1>7, <1>8 DEF FrameInv

(* Every action keeps the distances between the frames asked for, drawn    *)
(* and finished.                                                           *)
LEMMA FrameStep ==
  ASSUME TypeOK, TypeOK', ControlInv, FrameInv, [Next]_vars
  PROVE  FrameInv'
  <1>. USE DEF FrameInv, FlushHasDrawn
  <1>a. /\ asked \in Nat /\ finished \in Nat /\ cur.frame \in Nat
        /\ \A c \in Callers : goal[c].frame \in Nat
    BY SchedulerAssumption DEF TypeOK, RequestType
  <1>b. OneDrawAtATime  BY DEF ControlInv
  <1>c. \A c \in Callers : c \notin Timers  BY SchedulerAssumption
  <1>1. ASSUME NEW c \in Callers, NEW in \in Inputs, NEW immediate, Request(c, in, immediate)
        PROVE  FrameInv'
    <2>. DEFINE req == NewRequest(in[1], in[2], in[3])
    <2>1. /\ c \in Ready /\ ~stopped /\ asked' = asked + 1 /\ pending' = Coalesced(req)
          /\ UNCHANGED <<stopped, drawing, cur, inDraw, finished, goal>>
          /\ pc' = [pc EXCEPT ![c] = "idle"]
      BY <1>1 DEF Request, Merge, Ask
    <2>2. Coalesced(req).frame = asked + 1
      BY DEF Coalesced, NewRequest, NewestFrame
    <2>3. pending' # None
      BY <1>1, <2>1, NoneIsNoRequest, NewRequestType, CoalescedType DEF Request, Ask
    <2>. HIDE DEF req
    <2>. QED  BY <1>a, <2>1, <2>2, <2>3 DEF TypeOK, Ready
  <1>2. ASSUME NEW c \in Callers, pc[c] # "drawing", ~stopped, NEW req \in RequestType, FlushNow(c, req),
               req.frame = asked', cur.frame < asked', asked <= asked', asked' \in Nat
        PROVE  FrameInv'
    <2>1. /\ UNCHANGED <<stopped, finished>>
          /\ goal' = [goal EXCEPT ![c] = [frame |-> asked', queued |-> TRUE]]
      BY <1>2 DEF FlushNow
    <2>2. CASE drawing
      <3>1. /\ UNCHANGED <<drawing, cur, inDraw>> /\ pending' = req
            /\ pc' = [pc EXCEPT ![c] = "flushing"]
        BY <1>2, <2>2 DEF FlushNow
      <3>. QED  BY <1>a, <1>2, <2>1, <2>2, <3>1, NoneIsNoRequest DEF TypeOK
    <2>3. CASE ~drawing
      <3>1. BeginDraw(c, req, TRUE) /\ pc' = [pc EXCEPT ![c] = "drawing"]
        BY <1>2, <2>3 DEF FlushNow
      <3>2. \A e \in Callers : goal'[e].frame <= asked' /\ (e # c => goal'[e] = goal[e])
        <4>1. \A e \in Callers : goal[e].frame <= asked
          BY <1>a
        <4>. QED  BY <1>a, <1>2, <2>1, <4>1 DEF TypeOK
      <3>. QED  BY <1>b, <1>2, <2>1, <2>3, <3>1, <3>2, BeginDrawFrame
    <2>. QED  BY <2>2, <2>3
  <1>3. ASSUME NEW c \in Callers, NEW in \in Inputs, FlushRequest(c, in)
        PROVE  FrameInv'
    <2>. DEFINE req == NewRequest(in[1], in[2], in[3])
    <2>1. /\ c \in Ready /\ ~stopped /\ asked' = asked + 1 /\ FlushNow(c, Coalesced(req))
      BY <1>3 DEF FlushRequest, Ask
    <2>2. Coalesced(req).frame = asked + 1
      BY DEF Coalesced, NewRequest, NewestFrame
    <2>3. Coalesced(req) \in RequestType
      BY <1>3, NewRequestType, CoalescedType DEF FlushRequest, Ask
    <2>. HIDE DEF req
    <2>. QED  BY <1>a, <1>2, <2>1, <2>2, <2>3 DEF Ready
  <1>4. ASSUME NEW c \in Callers, FlushNil(c)
        PROVE  FrameInv'
    <2>1. c \in Ready /\ ~stopped /\ asked' = asked  BY <1>4 DEF FlushNil
    <2>2. CASE pending # None /\ FlushNow(c, pending)
      <3>1. pending \in RequestType  BY <2>2 DEF TypeOK
      <3>. QED  BY <1>a, <1>2, <2>1, <2>2, <3>1 DEF Ready
    <2>3. CASE ~(pending # None /\ FlushNow(c, pending))
      <3>1. /\ UNCHANGED <<sVars, asked, cur, inDraw, finished>>
            /\ pc' = [pc EXCEPT ![c] = "flushed"]
            /\ goal' = [goal EXCEPT ![c] = [frame |-> asked, queued |-> FALSE]]
        BY <1>4, <2>3 DEF FlushNil
      <3>. QED  BY <1>a, <2>1, <3>1 DEF TypeOK, sVars, Ready
    <2>. QED  BY <2>2, <2>3
  <1>5. ASSUME NEW c \in Callers, Stop(c)
        PROVE  FrameInv'
    <2>1. /\ c \in Ready /\ stopped' = TRUE /\ pending' = None
          /\ UNCHANGED <<drawing, asked, cur, inDraw, finished, goal>>
          /\ pc' = [pc EXCEPT ![c] = IF drawing THEN "stopping" ELSE "stopped"]
      BY <1>5 DEF Stop, WaitForIdle
    <2>. QED  BY <1>a, <2>1 DEF TypeOK, Ready
  <1>6. ASSUME NEW c \in Callers, Touch(c)
        PROVE  FrameInv'
    <2>1. /\ UNCHANGED <<sVars, hVars>> /\ pc[c] # "drawing"
          /\ pc' = [pc EXCEPT ![c] = IF drawing THEN "touching" ELSE "idle"]
      BY <1>6 DEF Touch, WaitForIdle, Ready
    <2>. QED  BY <1>a, <2>1 DEF TypeOK, sVars, hVars
  <1>7. ASSUME NEW c \in Callers, FlushWake(c)
        PROVE  FrameInv'
    <2>1. UNCHANGED <<stopped, asked, finished, goal>> /\ pc[c] = "flushing"
      BY <1>7 DEF FlushWake
    <2>2. CASE Drawable
      <3>1. /\ ~stopped /\ ~drawing /\ pending # None /\ BeginDraw(c, pending, pendingForce)
            /\ pc' = [pc EXCEPT ![c] = "drawing"]
        BY <1>7, <2>2 DEF FlushWake, Drawable
      <3>2. pending \in RequestType /\ pending.frame = asked' /\ cur.frame < asked'
        BY <2>1, <3>1 DEF TypeOK
      <3>3. \A e \in Callers : goal'[e].frame <= asked' /\ (e # c => goal'[e] = goal[e])
        BY <1>a, <2>1
      <3>4. pc' = IF c \in Callers THEN [pc EXCEPT ![c] = "drawing"] ELSE pc
        BY <3>1
      <3>5. asked' \in Nat /\ asked <= asked' /\ UNCHANGED <<stopped, finished>>
        BY <1>a, <2>1
      <3>. QED  BY ZenonT(40), <1>b, <3>1, <3>2, <3>3, <3>4, <3>5, BeginDrawFrame
    <2>3. CASE ~Drawable
      <3>1. /\ UNCHANGED <<pending, drawing, cur, inDraw>>
            /\ pc' = [pc EXCEPT ![c] = IF stopped THEN "aborted"
                                       ELSE IF drawing THEN @ ELSE "flushed"]
        BY <1>7, <2>3 DEF FlushWake
      <3>2. ~stopped /\ ~drawing => finished = asked
        BY <2>3 DEF Drawable
      <3>. QED  BY <1>a, <2>1, <3>1, <3>2 DEF TypeOK
    <2>. QED  BY <2>2, <2>3
  <1>8. ASSUME NEW c \in Callers, StopWake(c)
        PROVE  FrameInv'
    <2>1. /\ UNCHANGED <<sVars, hVars>> /\ pc[c] = "stopping"
          /\ pc' = [pc EXCEPT ![c] = IF drawing THEN "stopping" ELSE "stopped"]
      BY <1>8 DEF StopWake, WaitForIdle
    <2>. QED  BY <1>a, <2>1 DEF TypeOK, sVars, hVars
  <1>9. ASSUME NEW d \in Callers \cup Timers, NEW ok, EndDraw(d, ok)
        PROVE  FrameInv'
    <2>1. /\ d \in inDraw /\ inDraw' = inDraw \ {d} /\ finished' = cur.frame /\ drawing' = FALSE
          /\ UNCHANGED <<pending, stopped, asked, cur, goal>>
          /\ pc' = IF d \in Callers THEN [pc EXCEPT ![d] = "flushed"] ELSE pc
      BY <1>9 DEF EndDraw
    <2>2. inDraw = {d} /\ inDraw' = {}  BY <1>b, <2>1 DEF OneDrawAtATime
    <2>3. \A e \in Callers : pc[e] = "drawing" <=> e = d  BY <2>2
    <2>4. \A e \in Callers : pc'[e] = IF e = d THEN "flushed" ELSE pc[e]
      BY <2>1 DEF TypeOK
    <2>. QED  BY <1>a, <2>1, <2>2, <2>3, <2>4
  <1>10. ASSUME NEW t \in Timers, TimerFire(t)
         PROVE  FrameInv'
    <2>1. UNCHANGED <<stopped, pc, asked, finished, goal>>  BY <1>10 DEF TimerFire, cVars
    <2>2. CASE Drawable
      <3>1. ~stopped /\ ~drawing /\ pending # None /\ BeginDraw(t, pending, pendingForce)
        BY <1>10, <2>2 DEF TimerFire, Drawable
      <3>2. pending \in RequestType /\ pending.frame = asked' /\ cur.frame < asked'
        BY <2>1, <3>1 DEF TypeOK
      <3>3. \A e \in Callers : goal'[e].frame <= asked' /\ (e # t => goal'[e] = goal[e])
        BY <1>a, <2>1
      <3>4. pc' = IF t \in Callers THEN [pc EXCEPT ![t] = "drawing"] ELSE pc
        BY <1>c, <2>1
      <3>. QED  BY <1>a, <1>b, <2>1, <3>1, <3>2, <3>3, <3>4, BeginDrawFrame
    <2>3. CASE ~Drawable
      BY <1>10, <2>1, <2>3 DEF TimerFire
    <2>. QED  BY <2>2, <2>3
  <1>11. ASSUME NEW t \in Timers, TimerExpire(t)
         PROVE  FrameInv'
    BY <1>11 DEF TimerExpire, sVars, cVars, hVars
  <1>12. CASE Tick
    BY <1>12 DEF Tick, cVars, hVars
  <1>13. CASE UNCHANGED vars
    BY <1>13 DEF vars, sVars, cVars, hVars
  <1>. QED
    BY <1>1, <1>3, <1>4, <1>5, <1>6, <1>7, <1>8, <1>9, <1>10, <1>11, <1>12, <1>13
       DEF Next, CallerStep, Wake, DrawReturns

(* A Flush that returns nil has had its frame, or a newer one, drawn.      *)
THEOREM FrameCorrect == Spec => []FlushHasDrawn
  <1>1. Init => FrameInv
    BY DEF Init, FrameInv, FlushHasDrawn
  <1>2. Init => ControlInv
    BY DEF Init, ControlInv, OneDrawAtATime, StopIsQuiet, ScheduledIsTrue, PendingHasADrawer
  <1>3. TypeOK /\ ControlInv /\ [Next]_vars => ControlInv'
    BY ControlStep
  <1>4. TypeOK /\ TypeOK' /\ ControlInv /\ FrameInv /\ [Next]_vars => FrameInv'
    BY FrameStep
  <1>5. FrameInv => FlushHasDrawn
    BY DEF FrameInv
  <1>. QED  BY <1>1, <1>2, <1>3, <1>4, <1>5, TypeCorrect, PTL DEF Spec

-----------------------------------------------------------------------------
(* A Draw that begins is the server taking the newest frame. *)
LEMMA BeginDrawServes ==
  ASSUME TypeOK, FrameInv, OneDrawAtATime, NEW d \in Callers \cup Timers, NEW req \in RequestType,
         NEW force, BeginDraw(d, req, force), ~drawing, ~stopped,
         UNCHANGED <<stopped, finished>>, req.frame = asked'
  PROVE  /\ asked' = asked /\ pending # None => Server!Serve
         /\ asked' = asked + 1 => Server!AskAndServe
  <1>1. inDraw = {} /\ inDraw' # {} /\ cur'.frame = asked'
    BY DEF BeginDraw, OneDrawAtATime, RequestType
  <1>2. pending # None => finished < asked
    BY SchedulerAssumption DEF FrameInv, TypeOK, RequestType
  <1>. QED  BY <1>1, <1>2 DEF Server!Serve, Server!AskAndServe

(* Every step of the scheduler is a step of the server or leaves it alone. *)
LEMMA ServerStep ==
  ASSUME TypeOK, ControlInv, FrameInv, [Next]_vars
  PROVE  [Server!Next]_(Server!vars)
  <1>. USE DEF Server!vars
  <1>a. OneDrawAtATime  BY DEF ControlInv
  <1>1. ASSUME NEW c \in Callers, NEW in \in Inputs, NEW immediate, Request(c, in, immediate)
        PROVE  Server!Next
    <2>1. Server!Ask  BY <1>1 DEF Request, Ask, Server!Ask
    <2>. QED  BY <2>1 DEF Server!Next
  <1>2. ASSUME NEW c \in Callers, ~stopped, NEW req \in RequestType, FlushNow(c, req),
               req.frame = asked',
               \/ asked' = asked + 1
               \/ asked' = asked /\ pending # None
        PROVE  [Server!Next]_(Server!vars)
    <2>1. UNCHANGED <<stopped, finished>>  BY <1>2 DEF FlushNow
    <2>2. CASE drawing
      <3>1. UNCHANGED <<cur, inDraw>>  BY <1>2, <2>2 DEF FlushNow
      <3>. QED  BY <1>2, <2>1, <3>1 DEF Server!Next, Server!Ask
    <2>3. CASE ~drawing
      <3>1. BeginDraw(c, req, TRUE)  BY <1>2, <2>3 DEF FlushNow
      <3>. QED  BY <1>a, <1>2, <2>1, <2>3, <3>1, BeginDrawServes DEF Server!Next
    <2>. QED  BY <2>2, <2>3
  <1>3. ASSUME NEW c \in Callers, NEW in \in Inputs, FlushRequest(c, in)
        PROVE  [Server!Next]_(Server!vars)
    <2>. DEFINE req == NewRequest(in[1], in[2], in[3])
    <2>1. ~stopped /\ asked' = asked + 1 /\ FlushNow(c, Coalesced(req))
      BY <1>3 DEF FlushRequest, Ask
    <2>2. Coalesced(req).frame = asked'
      BY <2>1 DEF Coalesced, NewRequest, NewestFrame
    <2>3. Coalesced(req) \in RequestType
      BY <1>3, NewRequestType, CoalescedType DEF FlushRequest, Ask
    <2>. HIDE DEF req
    <2>. QED  BY <1>2, <2>1, <2>2, <2>3
  <1>4. ASSUME NEW c \in Callers, FlushNil(c)
        PROVE  [Server!Next]_(Server!vars)
    <2>1. ~stopped /\ asked' = asked  BY <1>4 DEF FlushNil
    <2>2. CASE pending # None /\ FlushNow(c, pending)
      <3>1. pending \in RequestType /\ pending.frame = asked'  BY <2>1, <2>2 DEF TypeOK, FrameInv
      <3>. QED  BY <1>2, <2>1, <2>2, <3>1
    <2>3. CASE ~(pending # None /\ FlushNow(c, pending))
      BY <1>4, <2>1, <2>3 DEF FlushNil, sVars
    <2>. QED  BY <2>2, <2>3
  <1>5. ASSUME NEW c \in Callers, Stop(c)
        PROVE  Server!Next
    <2>1. Server!Close  BY <1>5 DEF Stop, Server!Close
    <2>. QED  BY <2>1 DEF Server!Next
  <1>6. ASSUME NEW c \in Callers, Touch(c) \/ StopWake(c)
        PROVE  UNCHANGED Server!vars
    BY <1>6 DEF Touch, StopWake, sVars, hVars
  <1>7. ASSUME NEW c \in Callers, FlushWake(c)
        PROVE  [Server!Next]_(Server!vars)
    <2>1. UNCHANGED <<stopped, asked, finished>>  BY <1>7 DEF FlushWake
    <2>2. CASE Drawable
      <3>1. ~stopped /\ ~drawing /\ pending # None /\ BeginDraw(c, pending, pendingForce)
        BY <1>7, <2>2 DEF FlushWake, Drawable
      <3>2. pending \in RequestType /\ pending.frame = asked'
        BY <2>1, <3>1 DEF TypeOK, FrameInv
      <3>. QED  BY <1>a, <2>1, <3>1, <3>2, BeginDrawServes DEF Server!Next
    <2>3. CASE ~Drawable
      BY <1>7, <2>1, <2>3 DEF FlushWake
    <2>. QED  BY <2>2, <2>3
  <1>8. ASSUME NEW d \in Callers \cup Timers, NEW ok, EndDraw(d, ok)
        PROVE  Server!Next
    <2>1. /\ d \in inDraw /\ inDraw' = inDraw \ {d} /\ finished' = cur.frame
          /\ UNCHANGED <<stopped, asked>>
      BY <1>8 DEF EndDraw
    <2>2. inDraw' = {} /\ drawing  BY <1>a, <2>1 DEF OneDrawAtATime
    <2>3. cur.frame # 0  BY <2>2 DEF FrameInv
    <2>4. Server!Done  BY <2>1, <2>2, <2>3 DEF Server!Done
    <2>. QED  BY <2>4 DEF Server!Next
  <1>9. ASSUME NEW t \in Timers, TimerFire(t)
        PROVE  [Server!Next]_(Server!vars)
    <2>1. UNCHANGED <<stopped, asked, finished>>  BY <1>9 DEF TimerFire
    <2>2. CASE Drawable
      <3>1. ~stopped /\ ~drawing /\ pending # None /\ BeginDraw(t, pending, pendingForce)
        BY <1>9, <2>2 DEF TimerFire, Drawable
      <3>2. pending \in RequestType /\ pending.frame = asked'
        BY <2>1, <3>1 DEF TypeOK, FrameInv
      <3>. QED  BY <1>a, <2>1, <3>1, <3>2, BeginDrawServes DEF Server!Next
    <2>3. CASE ~Drawable
      BY <1>9, <2>1, <2>3 DEF TimerFire
    <2>. QED  BY <2>2, <2>3
  <1>10. ASSUME NEW t \in Timers, TimerExpire(t)
         PROVE  UNCHANGED Server!vars
    BY <1>10 DEF TimerExpire, sVars, hVars
  <1>11. CASE Tick
    BY <1>11 DEF Tick, hVars
  <1>12. CASE UNCHANGED vars
    BY <1>12 DEF vars, sVars, hVars
  <1>. QED
    BY <1>1, <1>3, <1>4, <1>5, <1>6, <1>7, <1>8, <1>9, <1>10, <1>11, <1>12
       DEF Next, CallerStep, Wake, DrawReturns

(* The scheduler implements the frame server: whatever the mix of timers,  *)
(* coalescing and Flush callers, the frame that is drawn is the newest one *)
(* handed over, one at a time, and nothing begins after Stop.              *)
THEOREM Refinement == Spec => ImplementsFrameServer
  <1>1. Init => FrameInv
    BY DEF Init, FrameInv, FlushHasDrawn
  <1>2. Init => ControlInv
    BY DEF Init, ControlInv, OneDrawAtATime, StopIsQuiet, ScheduledIsTrue, PendingHasADrawer
  <1>3. TypeOK /\ ControlInv /\ [Next]_vars => ControlInv'
    BY ControlStep
  <1>4. TypeOK /\ TypeOK' /\ ControlInv /\ FrameInv /\ [Next]_vars => FrameInv'
    BY FrameStep
  <1>5. Init => Server!Init
    BY DEF Init, Server!Init
  <1>6. TypeOK /\ ControlInv /\ FrameInv /\ [Next]_vars => [Server!Next]_(Server!vars)
    BY ServerStep
  <1>. QED
    BY <1>1, <1>2, <1>3, <1>4, <1>5, <1>6, TypeCorrect, PTL
       DEF Spec, ImplementsFrameServer, Server!Spec

(* Only a setter asks for a rewrite, and it waits until no Draw runs. *)
LEMMA TouchStep ==
  ASSUME TypeOK, ControlInv, [Next]_vars
  PROVE  ~rewrite /\ rewrite' => inDraw = {}
  <1>1. ASSUME NEW c \in Callers, Touch(c)
        PROVE  rewrite' => rewrite \/ inDraw = {}
    <2>1. CASE drawing
      <3>1. pc' = [pc EXCEPT ![c] = "touching"] /\ rewrite' = (rewrite \/ pc'[c] = "idle")
        BY <1>1, <2>1 DEF Touch, WaitForIdle
      <3>2. pc'[c] = "touching"  BY <3>1 DEF TypeOK
      <3>. QED  BY <3>1, <3>2
    <2>2. CASE ~drawing
      BY <2>2 DEF ControlInv, OneDrawAtATime
    <2>. QED  BY <2>1, <2>2
  <1>2. CASE \E c \in Callers : Touch(c)
    BY <1>1, <1>2
  <1>3. CASE ~\E c \in Callers : Touch(c)
    <2>1. UNCHANGED rewrite \/ rewrite' = FALSE
      BY ZenonT(40), <1>3 DEF Next, CallerStep, Wake, DrawReturns, Request, FlushRequest, FlushNil, FlushNow,
                  FlushWake, Stop, StopWake, EndDraw, TimerFire, TimerExpire, Tick, vars
    <2>. QED  BY <2>1
  <1>. QED  BY <1>2, <1>3

(* ForceNextWindowRewrite and MarkResizeEvent write the engine between two *)
(* Draws, never during one.                                                *)
THEOREM TouchCorrect == Spec => EngineTouchedWhenIdle
  <1>1. Init => ControlInv
    BY DEF Init, ControlInv, OneDrawAtATime, StopIsQuiet, ScheduledIsTrue, PendingHasADrawer
  <1>2. TypeOK /\ ControlInv /\ [Next]_vars => ControlInv'
    BY ControlStep
  <1>3. TypeOK /\ ControlInv /\ [Next]_vars => [~rewrite /\ rewrite' => inDraw = {}]_vars
    BY TouchStep
  <1>. QED  BY <1>1, <1>2, <1>3, TypeCorrect, PTL DEF Spec, EngineTouchedWhenIdle

================================================================================
