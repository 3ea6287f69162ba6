------------------------------- MODULE Ledger -------------------------------
(***************************************************************************)
(* The ledger in use: a component composes frames, Step and Finish decide  *)
(* what enters the native scrollback, an emit may fail and is rolled back. *)
(*                                                                         *)
(* The component keeps its promise: the first "final" rows of a frame      *)
(* never change again, and the stable prefix it reports is unchanged since *)
(* the frame it composed before.  Rows after those are live and change at  *)
(* will; only a session replacement starts over.                           *)
(***************************************************************************)
EXTENDS LedgerOps, SequencesExt

CONSTANTS
  Versions,   \* contents a row can have; a row is its place and its content
  MaxRows,    \* bound: rows of a frame
  Heights,    \* viewport heights
  InPlace,    \* Caps.ResizeRepaintsInPlace
  Mux,        \* Caps.Multiplexer
  Events,     \* what else may happen: a subset of AllEvents
  MaxHistory  \* bound: rows in the scrollback

(* A frame becomes shorter; live rows are called durable; final rows are   *)
(* called live; the component gives no stable-prefix hint; an overlay is   *)
(* up; the terminal is resized; the session is replaced; an emit fails.    *)
AllEvents == {"shrink", "snapshot", "retreat", "nohint", "overlay", "resize", "replace", "fail"}

ASSUME LedgerAssumption ==
  /\ MaxRows \in Nat /\ MaxHistory \in Nat /\ Heights \subseteq Nat \ {0}
  /\ {InPlace, Mux} \subseteq BOOLEAN /\ Events \subseteq AllEvents

VARIABLES
  led,     \* Engine.ledger
  frame,   \* the frame the component composed last
  final,   \* how many of its rows are final
  height,  \* the viewport height of the last paint
  fresh,   \* the next paint is a first paint: nothing painted yet, or the last emit failed
  hist,    \* the rows in the native scrollback since it was cleared last
  calm     \* nothing since then asked for a duplicate (history, for OnceInOrder)

vars == <<led, frame, final, height, fresh, hist, calm>>

Init ==
  /\ led = EmptyLedger /\ frame = <<>> /\ final = 0
  /\ height \in Heights
  /\ fresh = TRUE /\ hist = <<>> /\ calm = TRUE

Row(i, v) == IF v = Blank THEN Blank ELSE <<i, v>>
Frames == [n \in 0..MaxRows |-> {[i \in 1..n |-> Row(i, v[i])] : v \in [1..n -> Versions]}]

(* How many rows at the start of f are the rows of g. *)
Common(f, g) == Cardinality({n \in 1..Least(Len(f), Len(g)) : \A i \in 1..n : f[i] = g[i]})

(* What the component composes next, when it keeps its promise. *)
Composes(new, newFinal, replace) ==
  /\ newFinal <= Len(new)
  /\ ~replace => /\ newFinal >= final /\ Common(new, frame) >= final
                 /\ "shrink" \in Events \/ Len(new) >= Len(frame)

(* ledger.FrameInput for a frame "new" with "n" final rows. *)
Input(new, n, h, replace, overlay, resized, hint, retreat, snapshot) ==
  [frame |-> new, height |-> h,
   live |-> IF retreat THEN 0 ELSE n, commit |-> IF retreat THEN 0 ELSE n,
   snapshot |-> IF snapshot THEN Len(new) ELSE Unset,
   first |-> fresh, replace |-> replace, geometry |-> resized,
   inPlace |-> InPlace, mux |-> Mux, overlay |-> overlay,
   stable |-> IF hint THEN Common(new, frame) ELSE 0, cursors |-> {Len(new)}]

(* The scrollback once everything the plan asks for has reached it, and    *)
(* the scrollbacks a write that broke off can leave: rows arrive in order. *)
Cleared(res)     == IF res.plan.clear THEN <<>> ELSE hist
Emitted(in, res) == Cleared(res) \o Chunk(in, res)
Broken(in, res)  == {hist} \cup {Cleared(res) \o SubSeq(Chunk(in, res), 1, k) : k \in 0..Len(Chunk(in, res))}

(* Step, a successful emit, Finish. *)
Paint(in, res, newFinal) ==
  /\ led' = Finish(in, res)
  /\ hist' = Emitted(in, res)
  /\ calm' = \/ res.plan.clear
             \/ calm /\ res.plan.kind = "full" /\ hist = <<>>
             \/ calm /\ res.plan.kind = "extend" /\ IsPrefix(led.prefix, in.frame)
  /\ Len(hist') <= MaxHistory
  /\ frame' = in.frame /\ final' = newFinal /\ height' = in.height /\ fresh' = FALSE

EmitFailsFinished(in, res, newFinal, left) ==
  /\ hist' = left
  /\ Len(hist') <= MaxHistory
  /\ calm' = FALSE /\ fresh' = FALSE
  /\ led' = Finish(in, res)
  /\ frame' = in.frame /\ final' = newFinal /\ height' = in.height

(* Step, an emit that breaks off and leaves the scrollback "left", the     *)
(* rollback.                                                               *)
EmitFails(in, res, newFinal, left) ==
  /\ hist' = left
  /\ Len(hist') <= MaxHistory
  /\ calm' = FALSE /\ fresh' = TRUE
  /\ frame' = in.frame /\ final' = newFinal
  /\ UNCHANGED <<led, height>>

(* Engine.Draw of one frame. *)
Draw(in, newFinal) ==
  LET res == Step(led, in)
  IN  \/ Paint(in, res, newFinal)
      \/ "fail" \in Events /\ \E left \in Broken(in, res) : EmitFails(in, res, newFinal, left)

May(e)    == IF e \in Events THEN BOOLEAN ELSE {FALSE}
MayNot(e) == IF e \in Events THEN BOOLEAN ELSE {TRUE}

Next ==
  \E replace \in May("replace"), n \in 0..MaxRows :
  \E new \in Frames[n], newFinal \in 0..n :
    /\ Composes(new, newFinal, replace)
    /\ \E h \in Heights, overlay \in May("overlay"), resized \in May("resize"),
          hint \in MayNot("nohint"), retreat \in May("retreat"), snapshot \in May("snapshot") :
         /\ h # height => resized
         /\ Draw(Input(new, newFinal, h, replace, overlay, resized, hint, retreat, snapshot), newFinal)

Spec == Init /\ [][Next]_vars
-----------------------------------------------------------------------------
(* The marks are ordered, and no row is both committed and on screen.      *)
MarksOrdered ==
  /\ 0 <= led.A /\ led.A <= led.D /\ led.D <= led.C /\ led.C <= led.W
  /\ led.C = Len(led.prefix)

(* s can be read off t from left to right. *)
Embeds(s, t) ==
  \E at \in [DOMAIN s -> DOMAIN t] :
    \A i, j \in DOMAIN s : t[at[i]] = s[i] /\ (i < j => at[i] < at[j])

(* "scrollback == frame[0:CommittedRows], each row exactly once, in order" *)
(* (ledger/doc.go) as long as no committed row changes, nothing is resized *)
(* and no emit fails.                                                      *)
OnceInOrder == calm => hist = led.prefix /\ hist = SubSeq(frame, 1, led.C)

(* "Never loses content: audit prefers duplication" (step.go): every final *)
(* row above the window is in the scrollback, in order.                    *)
FinalRowsSurvive ==
  ~fresh => Embeds(SubSeq(frame, 1, Least(led.C, final)), hist)
=============================================================================
