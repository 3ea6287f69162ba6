-------------------------------- MODULE Probes --------------------------------
(***************************************************************************)
(* The probe router (ompui/runtime/probe.go): which sequences are answers  *)
(* to capability queries, and to which.  Every query is followed by a      *)
(* request every terminal answers (DA1), and owners holds, in order, whose *)
(* DA1 is still to come: a query whose DA1 arrives first has no answer.    *)
(***************************************************************************)
EXTENDS Decoder

(* Private modes the runtime asks about: in-band resize reports and xterm's*)
(* scroll-to-bottom.                                                       *)
PrivateModes == {"inband", "scroll"}

(* The answers.                                                            *)
DA1          == <<Esc, "[", "?", "c">>
KittyFlags   == <<Esc, "[", "?", "u">>
AppearanceDSR == <<Esc, "[", "?", "n">>
Colour       == <<Esc, "]", "g", Bel>>
DECRPM(m, status) == <<Esc, "[", "?", m, status, "y">>

(* What the loop is told to do about an answer, in this order.             *)
Act(name, arg) == [op |-> name, arg |-> arg]

NoProbes == [owners |-> <<>>, csi |-> <<>>, osc11 |-> <<>>, pending |-> FALSE, queued |-> FALSE]

pushFirst(p, kind) == [p EXCEPT !.owners = <<kind>> \o @]
pushOwner(p, kind) == [p EXCEPT !.owners = Append(@, kind)]
hasOwner(p, kind)  == \E i \in DOMAIN p.owners : p.owners[i] = kind
shiftOwner(p)      == [p EXCEPT !.owners = Tail(@)]

-----------------------------------------------------------------------------
(* A private sequence that is not finished: ESC [ ? and parameters.        *)
PrivateCSIPartial(s) ==
  /\ Len(s) >= 3 /\ SubSeq(s, 1, 3) = <<Esc, "[", "?">>
  /\ \A i \in 4..Len(s) : s[i] \in PrivateModes \cup {"+", "-"}

Letters == Finals \cup {"k"}

NotReassembled(p, seq) == [p |-> p, seq |-> seq, eaten |-> FALSE]

(* Pieces the decoder gave up waiting for are put together again.  "eaten" *)
(* is a piece that is kept or dropped.                                     *)
Reassembled(p, seq) ==
  LET whole == p.csi \o seq
      kept(buf) == [p EXCEPT !.csi = buf]
  IN  CASE p.csi # <<>> /\ seq[1] = Esc -> [p |-> kept(<<>>), seq |-> seq, eaten |-> FALSE]
        [] p.csi = <<>> /\ ~(PrivateCSIPartial(seq) /\ p.owners # <<>>) ->
             [p |-> p, seq |-> seq, eaten |-> FALSE]
        [] OTHER -> CASE Last(whole) \in Letters     -> [p |-> kept(<<>>), seq |-> whole, eaten |-> FALSE]
                      [] PrivateCSIPartial(whole)   -> [p |-> kept(whole), seq |-> seq, eaten |-> TRUE]
                      [] OTHER                      -> [p |-> kept(<<>>), seq |-> seq, eaten |-> TRUE]

(* The DA1 of the query at the head of the line has arrived.               *)
Sentinel(p) ==
  LET owner == Head(p.owners)
      q     == shiftOwner(p)
  IN  CASE owner = "colour"      -> [p |-> [q EXCEPT !.pending = FALSE, !.osc11 = IF p.pending THEN <<>> ELSE @],
                                     acts |-> <<>>]
        [] owner = "keyboard"    -> [p |-> q, acts |-> <<Act("keyboardMiss", "")>>]
        [] owner \in PrivateModes -> [p |-> q, acts |-> <<Act("resolve", [mode |-> owner, supported |-> FALSE])>>]

(* The background colour, collected until its end.                         *)
CollectsColour(p, seq) ==
  /\ p.pending
  /\ IF p.osc11 = <<>> THEN Len(seq) >= 3 /\ SubSeq(seq, 1, 3) = SubSeq(Colour, 1, 3)
     ELSE seq[1] # Esc \/ seq = <<Esc, "\\">>

ColourPiece(p, seq) ==
  LET all == p.osc11 \o seq
  IN  IF all = Colour
      THEN [p |-> [p EXCEPT !.pending = FALSE, !.osc11 = <<>>], acts |-> <<Act("colour", "")>>]
      ELSE [p |-> [p EXCEPT !.osc11 = all], acts |-> <<>>]

(* route: what becomes of one sequence.  What is no answer is an event for *)
(* the user.                                                               *)
route(p0, seq0) ==
  LET r   == Reassembled(p0, seq0)
      p   == r.p
      seq == r.seq
      Answer(acts) == [p |-> p, acts |-> acts]
      Other(act) == [p |-> [p EXCEPT !.osc11 = IF p.pending THEN <<>> ELSE @], acts |-> <<act>>]
  IN  CASE r.eaten -> Answer(<<>>)
        [] ~r.eaten /\ \E m \in PrivateModes, status \in {"+", "-"} : seq = DECRPM(m, status) ->
             Answer(<<Act("resolve", [mode |-> seq[4], supported |-> seq[5] = "+"])>>
                    \o IF seq[4] = "scroll" /\ seq[5] = "+" THEN <<Act("claim", "noscroll")>> ELSE <<>>)
        [] ~r.eaten /\ seq = DA1 /\ p.owners # <<>> -> Sentinel(p)
        [] ~r.eaten /\ seq = KittyFlags -> Answer(<<Act("kitty", "")>>)
        [] ~r.eaten /\ CollectsColour(p, seq) -> ColourPiece(p, seq)
        [] ~r.eaten /\ seq = AppearanceDSR -> Other(Act("dsr", ""))
        [] OTHER -> Other(Act("emit", seq0))
=============================================================================
