-------------------------------- MODULE MCApp --------------------------------
(* An instance of App for TLC: what each world puts together.              *)
EXTENDS App

CONSTANTS c1, c2, d1, d2, o1, o2

World(comps, slots, dialogs, mounts, gens, flags) ==
  [comps |-> comps, slots |-> slots, dialogs |-> dialogs, mounts |-> mounts, gens |-> gens,
   flags |-> flags, asks |-> {}, images |-> 0, jobs |-> 0, signals |-> 0]

Calls(flags, asks, images, made, signals) ==
  [World({}, {}, {}, {}, 0, flags) EXCEPT !.asks = asks, !.images = images,
     !.jobs = made, !.signals = signals]

(* One remote through every slot; two in one place; a remote and overlays  *)
(* with the focus moving; dialogs under overlays that come and go; dialogs *)
(* and a picker; prompts and images; Ctrl+C twice; a shutdown.             *)
MCWorlds ==
  { World({c1}, {"header", "overlay"}, {}, {}, 4, {"resize", "invalidate", "dispose"}),
    World({c1, c2}, {"editor", "widget"}, {}, {}, 2, {"dispose", "model"}),
    World({c1}, {"tool", "overlay"}, {}, {o1}, 3, {"dispose", "focus"}),
    [World({c1}, {"overlay"}, {d1}, {}, 2, {"dispose", "quits"}) EXCEPT !.signals = 1],
    World({}, {}, {d1}, {o1, o2}, 0, {"resize", "model", "quits"}),
    [World({}, {}, {d1, d2}, {}, 0, {"types"}) EXCEPT !.asks = {"models"}, !.jobs = 2, !.signals = 1],
    Calls({"types"}, {}, 2, 4, 0),
    Calls({"types"}, {}, 0, 3, 2),
    Calls({"quits"}, {"dequeue"}, 2, 3, 0) }
=============================================================================
