------------------------------ MODULE MCEditor ------------------------------
(* An instance of Editor for TLC: what is pressed together.                *)
EXTENDS Editor

a == Token("a")
b == Token("b")

World(n, cmds, letters, drafts) ==
  [keys |-> n, cmds |-> cmds, letters |-> letters, drafts |-> drafts]

(* Typing against undo; kills against yanks, within and across lines; the  *)
(* core's caret; markers against everything that moves and cuts text; the  *)
(* history.                                                                *)
MCWorlds ==
  { World(5, {"type", "newline", "erase", "undo", "move"}, {a, Space}, {<<a, b>>}),
    World(7, {"kill", "lines", "words", "yank", "pop", "undo"}, {}, {<<a, Space, b, NL, b>>}),
    World(7, {"kill", "words", "yank", "pop", "type", "move"}, {b}, {<<a, Space, b>>}),
    World(6, {"kill", "lines", "yank", "host", "load", "pop"}, {}, {<<a, NL>>}),
    World(6, {"paste", "snippet", "kill", "lines", "yank", "undo", "submit"}, {}, {<<a>>}),
    World(6, {"paste", "erase", "move", "type"}, {Close}, {<<a>>}),
    World(6, {"paste", "kill", "words", "yank", "undo", "submit"}, {}, {}),
    World(7, {"paste", "submit", "follow", "arrow", "type", "undo"}, {a}, {<<NL>>}) }
=============================================================================
