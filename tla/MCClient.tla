------------------------------ MODULE MCClient ------------------------------
(* An instance of Client for TLC: what each world puts together.           *)
EXTENDS Client, TLC

CONSTANTS t1, t2, s1, s2

World(callers, ss, fs, max, flags) ==
  [callers |-> callers, senders |-> {t \in callers : "sends" \in flags},
   subs |-> ss, frames |-> fs, max |-> max,
   greets |-> "greets" \in flags, stalls |-> "stalls" \in flags,
   exits |-> "exits" \in flags, late |-> "late" \in flags,
   shuts |-> "shuts" \in flags, waits |-> "waits" \in flags]

(* Two calls and a failing reader; delivery with backpressure and with two *)
(* subscriptions; the handshake of a v1 peer; a child that stalls; Wait    *)
(* against an exit, and against Shutdown; a start that is too late.        *)
MCWorlds ==
  { World({t1, t2}, {}, {"ready", "garbage", t1}, 2, {"exits"}),
    World({}, {s1}, {"event"}, 4, {"shuts"}),
    World({}, {s1, s2}, {"event"}, 3, {}),
    World({t1}, {}, {"hello", "badHello", t1}, 2, {"shuts"}),
    World({t1}, {}, {"hello", "bye"}, 2, {"greets", "stalls", "shuts"}),
    World({t1}, {s2}, {"ready"}, 1, {"sends", "exits", "waits"}),
    World({}, {}, {"ready"}, 1, {"exits", "waits", "shuts"}),
    World({}, {s1}, {"ready", "fatal"}, 1, {"late", "exits"}) }
=============================================================================
