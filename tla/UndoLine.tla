------------------------------ MODULE UndoLine ------------------------------
(***************************************************************************)
(* What undo and redo promise a user, without stacks: the versions of the  *)
(* text since it was loaded lie on one line; undo and redo only walk along *)
(* it; an edit cuts off what lies ahead and adds a version; typing on      *)
(* within a word replaces the newest version, never the loaded one.  Only  *)
(* the oldest versions are forgotten, one at a time, once there are Limit  *)
(* behind the present one.  Editor implements it.                          *)
(***************************************************************************)
EXTENDS Naturals, Sequences

CONSTANT Limit

VARIABLES versions, here

vars == <<versions, here>>

Init == Len(versions) = 1 /\ here = 1

Load == Len(versions') = 1 /\ here' = 1

Edit == \/ /\ here <= Limit
           /\ here' = here + 1 /\ Len(versions') = here'
           /\ SubSeq(versions', 1, here) = SubSeq(versions, 1, here)
        \/ /\ here = Limit + 1
           /\ here' = here /\ Len(versions') = here'
           /\ SubSeq(versions', 1, here - 1) = SubSeq(versions, 2, here)

TypeOn == /\ here = Len(versions) /\ here > 1
          /\ here' = here /\ Len(versions') = here
          /\ SubSeq(versions', 1, here - 1) = SubSeq(versions, 1, here - 1)

Undo == here > 1 /\ here' = here - 1 /\ UNCHANGED versions
Redo == here < Len(versions) /\ here' = here + 1 /\ UNCHANGED versions

Next == Load \/ Edit \/ TypeOn \/ Undo \/ Redo
Spec == Init /\ [][Next]_vars
=============================================================================
