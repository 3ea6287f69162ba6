------------------------------ MODULE MCViewport ------------------------------
(* Worlds for TLC: kind of viewport, window, frames, what is inserted.     *)
(* "R" stands only in the first column: a styled wide cell under a wide    *)
(* one that begins one column later is not refreshed (diff.go:173).        *)
EXTENDS Viewport
Plain == {<<<<"a">>>>, <<<<"a", "b", "a">>, <<"b", "b">>>>, <<<<>>, <<"a">>>>}
Wides == {<<<<"W", "a">>>>, <<<<"R", "W">>, <<"W", "b">>>>, <<<<"a", "W">>, <<"a", "b">>>>}
One   == <<<<"i", "j">>>>
Two   == <<<<"i">>, <<>>>>
Three == <<<<"W", "i">>, <<"j">>, <<"i", "j", "i">>>>
W(kind, height, h, row, regions, frames, inserted, sizes, fails) ==
  [kind |-> kind, height |-> height, area |-> Area(1, 0, 2, 2), w |-> 4, h |-> h, row |-> row,
   regions |-> regions, frames |-> frames, inserted |-> inserted, sizes |-> sizes, fails |-> fails]
MCWorlds == {
  W("inline", 2, 4, 1, TRUE, Plain, <<Three, One, Two>>, <<>>, 0),
  W("inline", 1, 3, 2, TRUE, Plain, <<Two, Three>>, <<>>, 0),
  W("inline", 3, 3, 1, TRUE, Plain, <<Two, One, Three>>, <<>>, 0),
  W("inline", 2, 4, 1, FALSE, Plain, <<Two, One, <<<<"i">>, <<"j">>, <<"i">>, <<"j">>, <<"i">>>>, Three>>, <<>>, 0),
  W("inline", 2, 4, 2, TRUE, Plain, <<>>, <<[w |-> 4, h |-> 3], [w |-> 3, h |-> 4]>>, 0),
  W("inline", 2, 4, 1, TRUE, Plain, <<One, Three>>, <<[w |-> 4, h |-> 5], [w |-> 3, h |-> 4]>>, 1),
  W("inline", 2, 5, 3, FALSE, Wides, <<One, Two, Three>>, <<[w |-> 4, h |-> 4]>>, 1),
  W("full", 0, 2, 0, TRUE, Wides, <<>>, <<[w |-> 4, h |-> 3]>>, 2),
  W("full", 0, 2, 0, TRUE, Wides \cup Plain, <<>>, <<[w |-> 3, h |-> 3], [w |-> 4, h |-> 1]>>, 0),
  W("inline", 3, 5, 2, TRUE, Wides \cup Plain, <<Three, Two, Three>>, <<>>, 1),
  W("inline", 3, 3, 1, TRUE, Plain, <<Two, Three>>, <<[w |-> 4, h |-> 2], [w |-> 4, h |-> 5]>>, 1),
  W("fixed", 0, 3, 2, TRUE, {<<<<"a", "b">>, <<"b">>>>, <<<<"R">>, <<"b", "a">>>>, <<<<>>, <<"W">>>>}, <<>>, <<>>, 1)}
=============================================================================
