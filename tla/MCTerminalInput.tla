--------------------------- MODULE MCTerminalInput ---------------------------
(* Instances of TerminalInput for TLC: the .cfg files give the constants.  *)
EXTENDS TerminalInput
=============================================================================
