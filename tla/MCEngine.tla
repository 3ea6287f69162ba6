------------------------------ MODULE MCEngine ------------------------------
(* Instances of Engine for TLC: the .cfg files give the constants.         *)
EXTENDS Engine
CONSTANTS x, y, z, blank, box
Renaming == Permutations(Versions \ {Blank})

(* While a first paint is due the next Draw erases the screen before it    *)
(* writes: what is there, and what the engine believes of it, is dead      *)
(* unless a resize pushes it into the scrollback.                          *)
Live ==
  <<vars, world, force, alt, size, winch, stale,
    IF fresh /\ "winch" \notin world THEN <<term.scroll>> ELSE <<term.scroll, term, shown, hw>>>>
=============================================================================
