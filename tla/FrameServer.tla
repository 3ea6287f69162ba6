----------------------------- MODULE FrameServer -----------------------------
(***************************************************************************)
(* What renderer.Scheduler promises its callers, without timers, locks or  *)
(* reasons: frames are numbered as they are handed over; one frame at a    *)
(* time is drawn, always the newest one handed over so far, and after      *)
(* Close nothing new is drawn.  Scheduler implements it.                   *)
(***************************************************************************)
EXTENDS Naturals

VARIABLES
  asked,    \* the newest frame handed over, 0 before the first
  serving,  \* the frame being drawn, 0 when none is
  served,   \* the newest frame whose Draw has returned
  open      \* TRUE until Close

vars == <<asked, serving, served, open>>

Init == asked = 0 /\ serving = 0 /\ served = 0 /\ open = TRUE

(* A caller hands over a frame and leaves. *)
Ask == open /\ asked' = asked + 1 /\ UNCHANGED <<serving, served, open>>

(* The newest frame starts to be drawn, if it has not been drawn yet.      *)
Serve == /\ open /\ serving = 0 /\ served < asked
         /\ serving' = asked
         /\ UNCHANGED <<asked, served, open>>

(* A caller hands over a frame and draws it itself. *)
AskAndServe == /\ open /\ serving = 0
               /\ asked' = asked + 1 /\ serving' = asked + 1
               /\ UNCHANGED <<served, open>>

Done == /\ serving # 0
        /\ served' = serving /\ serving' = 0
        /\ UNCHANGED <<asked, open>>

Close == open' = FALSE /\ UNCHANGED <<asked, serving, served>>

Next == Ask \/ Serve \/ AskAndServe \/ Done \/ Close

Spec     == Init /\ [][Next]_vars
FairSpec == Spec /\ WF_vars(Serve) /\ WF_vars(Done)
=============================================================================
