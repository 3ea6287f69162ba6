---------------------------- MODULE TerminalInput ----------------------------
(***************************************************************************)
(* The terminal input bridge of the application (app/terminal_input.go):   *)
(* while the core subscribes, every key, paste and mouse event is sent to  *)
(* it first, one at a time, and applied locally only when its answer says  *)
(* so.  A peer that is slow, silent, confused or gone must not keep a key. *)
(*                                                                         *)
(* All handlers run on the application's loop, so each is one step; the    *)
(* peer, the clock and the user act in between.  Keys are numbered in the  *)
(* order they are typed.  Events that are never forwarded (resize, focus,  *)
(* errors) do not touch the bridge and are left out.                       *)
(***************************************************************************)
EXTENDS Integers, Sequences, FiniteSets

CONSTANTS
  MaxTerminalInputQueue,  \* protocol.MaxTerminalInputQueue
  MaxKeys,                \* bound: keys typed
  MaxMessages,            \* bound: messages from the peer
  None                    \* no key is in flight

ASSUME BridgeAssumption ==
  /\ MaxTerminalInputQueue \in Nat /\ MaxKeys \in Nat /\ MaxMessages \in Nat
  /\ None \notin [id : Nat, ev : Nat]

VARIABLES
  bridge,  \* the application's side: see BridgeType
  typed,   \* keys typed so far
  open,    \* the client still accepts frames
  inbox,   \* frames from the peer on their way, in order
  said,    \* [id, verdict] pairs the peer has ever answered (history)
  spoken   \* messages the peer has sent (for the bound)

vars == <<bridge, typed, open, inbox, said, spoken>>

Verdicts == {"consume", "pass", "change"}
Item     == [id : Nat, ev : Nat]

(* How a key was applied, and whether it was held for an answer before.    *)
Applied == [ev : Nat, id : Nat, how : {"consume", "plain", "change"}, held : BOOLEAN]

(* App.terminalInput*: subscribed, last id given out, the item awaiting an *)
(* answer, the items behind it, the response timer, the ids sent, and what *)
(* became of the keys, in the order it happened.                           *)
BridgeType ==
  [active : BOOLEAN, seq : Nat, inFlight : Item \cup {None}, queue : Seq(Item),
   armed : BOOLEAN, sent : SUBSET Nat, out : Seq(Applied)]

Message ==
  [type : {"subscription"}, active : BOOLEAN] \cup [type : {"malformed"}]
    \cup [type : {"result"}, id : Nat, verdict : Verdicts]

Init ==
  /\ bridge = [active |-> FALSE, seq |-> 0, inFlight |-> None, queue |-> <<>>,
               armed |-> FALSE, sent |-> {}, out |-> <<>>]
  /\ typed = 0 /\ open = TRUE
  /\ inbox = <<>> /\ said = {} /\ spoken = 0

-----------------------------------------------------------------------------
(* What the handlers do to the bridge b. *)

Routed(item, how) == [ev |-> item.ev, id |-> item.id, how |-> how, held |-> TRUE]
Originals(items)  == [i \in 1..Len(items) |-> Routed(items[i], "plain")]

Drain(b) == [b EXCEPT !.queue = <<>>, !.out = @ \o Originals(b.queue)]

(* Send an item and wait for its answer. *)
Ask(b, item) == [b EXCEPT !.inFlight = item, !.armed = TRUE, !.sent = @ \cup {item.id}]

PumpWaits(b) == b

Pump(b) ==
  IF b.queue = <<>> THEN b
  ELSE IF open THEN Ask([b EXCEPT !.queue = Tail(@)], Head(b.queue))
  ELSE Drain([b EXCEPT !.queue = Tail(@), !.out = Append(@, Routed(Head(b.queue), "plain"))])

SettleArmed(b, how) ==
  LET done == [b EXCEPT !.inFlight = None, !.out = Append(@, Routed(b.inFlight, how))]
  IN  IF b.active THEN Pump(done) ELSE Drain(done)

(* The item in flight is done with; the next one is due. *)
Settle(b, how) ==
  LET done == [b EXCEPT !.inFlight = None, !.armed = FALSE, !.out = Append(@, Routed(b.inFlight, how))]
  IN  IF b.active THEN Pump(done) ELSE Drain(done)

Held(b) == (IF b.inFlight = None THEN <<>> ELSE <<b.inFlight>>) \o b.queue

FailOpenInFlight(b) ==
  [b EXCEPT !.active = FALSE, !.armed = FALSE, !.inFlight = None,
            !.out = @ \o (IF b.inFlight = None THEN <<>> ELSE <<Routed(b.inFlight, "plain")>>)]

(* The circuit opens: everything held is applied as it was typed. *)
FailOpen(b) ==
  [b EXCEPT !.active = FALSE, !.armed = FALSE, !.inFlight = None, !.queue = <<>>,
            !.out = @ \o Originals(Held(b))]

(* The key "ev" goes to its local target without the bridge. *)
Local(b, ev) == [b EXCEPT !.out = Append(@, [ev |-> ev, id |-> 0, how |-> "plain", held |-> FALSE])]

Full(b) == Len(b.queue) >= MaxTerminalInputQueue

(* handleTermEvent of a key. *)
Forwarded(b, ev) ==
  LET item  == [id |-> b.seq + 1, ev |-> ev]
      named == [b EXCEPT !.seq = @ + 1]
  IN  IF ~b.active THEN Local(b, ev)
      ELSE IF b.inFlight = None THEN (IF open THEN Ask(named, item) ELSE Local(named, ev))
      ELSE IF ~Full(b) THEN [named EXCEPT !.queue = Append(@, item)]
      ELSE Local(FailOpen(named), ev)

(* applyTerminalInputSubscription. *)
Subscribed(b, active) ==
  LET set == [b EXCEPT !.active = active]
  IN  IF b.active /\ ~active /\ b.inFlight = None THEN Drain(set) ELSE set

AnsweredAny(b, id, verdict) ==
  IF b.inFlight = None THEN b ELSE Settle(b, IF verdict = "pass" THEN "plain" ELSE verdict)

(* applyTerminalInputResult: only the answer to the item in flight counts. *)
Answered(b, id, verdict) ==
  IF b.inFlight = None \/ b.inFlight.id # id THEN b
  ELSE Settle(b, IF verdict = "pass" THEN "plain" ELSE verdict)

(* A result that does not parse. *)
Malformed(b) == IF b.inFlight = None THEN b ELSE Settle(b, "plain")

-----------------------------------------------------------------------------
TypeKey ==
  /\ typed < MaxKeys
  /\ typed' = typed + 1
  /\ bridge' = Forwarded(bridge, typed + 1)
  /\ UNCHANGED <<open, inbox, said, spoken>>

HandleFrame ==
  /\ inbox # <<>>
  /\ inbox' = Tail(inbox)
  /\ LET m == Head(inbox)
     IN  bridge' = CASE m.type = "subscription" -> Subscribed(bridge, m.active)
                     [] m.type = "result"       -> Answered(bridge, m.id, m.verdict)
                     [] m.type = "malformed"    -> Malformed(bridge)
  /\ UNCHANGED <<typed, open, said, spoken>>

(* "A broken/slow extension must never hold the terminal hostage": the     *)
(* timer is due.  A stopped timer leaves nothing in its channel (go 1.25). *)
Timeout ==
  /\ bridge.armed
  /\ bridge' = FailOpen(bridge)
  /\ UNCHANGED <<typed, open, inbox, said, spoken>>

(* The core closes its input, or the client is shut down. *)
Disconnect ==
  /\ open /\ open' = FALSE
  /\ UNCHANGED <<bridge, typed, inbox, said, spoken>>

Say(m) ==
  /\ spoken < MaxMessages
  /\ spoken' = spoken + 1 /\ inbox' = Append(inbox, m)
  /\ UNCHANGED <<bridge, typed, open>>

(* The peer answers what it was asked, in any order, perhaps twice,        *)
(* subscribes at will, or sends a result nobody can read.                  *)
PeerAnswers ==
  \E id \in bridge.sent, verdict \in Verdicts :
    /\ Say([type |-> "result", id |-> id, verdict |-> verdict])
    /\ said' = said \cup {<<id, verdict>>}

PeerSubscribes ==
  \E active \in BOOLEAN : Say([type |-> "subscription", active |-> active]) /\ UNCHANGED said

PeerBabbles == Say([type |-> "malformed"]) /\ UNCHANGED said

Next ==
  \/ TypeKey \/ HandleFrame \/ Timeout \/ Disconnect
  \/ PeerAnswers \/ PeerSubscribes \/ PeerBabbles

Spec     == Init /\ [][Next]_vars
FairSpec == Spec /\ WF_vars(HandleFrame) /\ WF_vars(Timeout)

-----------------------------------------------------------------------------
TypeOK ==
  /\ bridge \in BridgeType /\ typed \in Nat /\ open \in BOOLEAN
  /\ inbox \in Seq(Message) /\ spoken \in Nat
  /\ Len(bridge.queue) <= MaxTerminalInputQueue

(* A key waits only behind one the peer has been asked about, and for that *)
(* one a timer runs: no code path leaves a queue nobody pumps or a timer   *)
(* that would open the circuit for nothing.                                *)
HeldIsTimed ==
  /\ bridge.armed <=> bridge.inFlight # None
  /\ bridge.queue # <<>> => bridge.inFlight # None

(* Every key typed is applied once or held once, whatever the peer does.   *)
KeysHandled(b) == [i \in 1..Len(b.out) |-> b.out[i].ev] \o [i \in 1..Len(Held(b)) |-> Held(b)[i].ev]
EachKeyOnce ==
  LET keys == KeysHandled(bridge)
  IN  /\ Len(keys) = typed
      /\ \A k \in 1..typed : \E i \in 1..Len(keys) : keys[i] = k

(* "replay every held event in FIFO order" (app.go, loop): keys that were  *)
(* held are applied in the order they were typed.                          *)
HeldInOrder ==
  /\ \A i, j \in 1..Len(bridge.out) :
       i < j /\ bridge.out[i].held /\ bridge.out[j].held => bridge.out[i].ev < bridge.out[j].ev
  /\ \A i \in 1..Len(bridge.out), k \in 1..Len(Held(bridge)) :
       bridge.out[i].held => bridge.out[i].ev < Held(bridge)[k].ev

(* Both at once: nothing typed is lost, doubled or shuffled by the detour  *)
(* through the core.                                                       *)
KeysOnceInOrder == EachKeyOnce /\ HeldInOrder

(* A key is swallowed or replaced only by an answer to that very key,      *)
(* however late, doubled or reordered the answers are.                     *)
VerdictIsForTheKey ==
  \A i \in 1..Len(bridge.out) :
    bridge.out[i].how # "plain" => <<bridge.out[i].id, bridge.out[i].how>> \in said

(* A key is never kept for good: an answer, a failure or the timer frees it. *)
KeysAreReleased ==
  \A k \in 1..MaxKeys : typed >= k ~> \E i \in 1..Len(bridge.out) : bridge.out[i].ev = k

(* "One in-flight; FIFO queue; local route only after result / fail-open"  *)
(* (input.go): while the core subscribes, no key is applied before one     *)
(* that was typed earlier and is still held.  (Once the core has           *)
(* unsubscribed, new keys do overtake those held for its last answer.)     *)
NobodyOvertakes ==
  [][bridge.active =>
       \A i \in Len(bridge.out) + 1 .. Len(bridge'.out), k \in 1..Len(Held(bridge')) :
         bridge'.out[i].ev < Held(bridge')[k].ev]_vars
=============================================================================
