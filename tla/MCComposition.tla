---------------------------- MODULE MCComposition ----------------------------
(* Instances of Composition for TLC: the .cfg files give the constants.    *)
EXTENDS Composition

World(evs, n, cards) == [events |-> evs, changes |-> n, cards |-> cards]

Texts == {"stream", "grow", "replace", "toggle", "theme", "header", "type", "resize", "fullscreen", "scroll"}

(* Text in all its ways; images of tool calls, with room for one graphic,  *)
(* laid out anew together or one alone; images of messages.                *)
MCWorlds == {World(Texts, 3, 0),
             World({"theme", "stream"}, 2, 2),
             World({"cards", "theme", "fullscreen"}, 4, 1),
             World({"theme", "resize", "fullscreen"}, 3, 2),
             World({"pictures", "theme", "replace", "resize"}, 3, 0)}

MCTyping   == {World({"type", "stream", "grow", "scroll"}, 2, 0)}
MCPictures == {World({"pictures"}, 2, 0)}

(* The prepared rows decide nothing about what is composed: they are left  *)
(* out where the properties are about the composition.                     *)
Composed == <<world, treeVars, dirty, pending, engine.width, composed, drawn, missed, changes, mediaVars, muddled>>
=============================================================================
