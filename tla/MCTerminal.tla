----------------------------- MODULE MCTerminal -----------------------------
(* Worlds for TLC: what the emulator supports and what happens.            *)
EXTENDS Terminal
W(features, keys, suspends, events) ==
  [features |-> features, keys |-> keys, suspends |-> suspends, events |-> events]
Key   == <<"k">>
Arrow == <<Esc, "[", "A">>
Pasted == pasteStart \o <<"k">> \o pasteEnd
MCWorlds == {
  W({"kitty", "inband", "decrqm", "colour", "appearance"}, <<Arrow, Key>>, 0, {"pauses"}),
  W({"inband", "decrqm", "appearance"}, <<Key>>, 0, {"dsr", "pauses"}),
  W({"colour"}, <<Pasted>>, 0, {"quits"}),
  W({"colour"}, <<>>, 0, {"poll"}),
  W({"kitty", "appearance"}, <<>>, 0, {"mouse", "quits", "slow"}),
  W({"kitty", "scroll", "decrqm"}, <<>>, 0, {"alt", "quits"}),
  W({"kitty"}, <<Key>>, 1, {}),
  W({}, <<Key, Key>>, 0, {"eof", "mouse", "slow"})}
(* Nothing but a user who suspends the program once.                       *)
MCSuspendWorlds == {W({"kitty"}, <<Key>>, 1, {})}
=============================================================================
