------------------------------ MODULE LedgerOps ------------------------------
(***************************************************************************)
(* package ledger (src/ompui/ledger): the pure arithmetic that decides     *)
(* which rows of a frame enter the native scrollback.                      *)
(*                                                                         *)
(* A ledger is a record: C rows are committed, the first A of them are     *)
(* audited as byte-stable, rows A+1..D are exempt snapshots, prefix holds  *)
(* the committed rows and W is the number of frame rows above the screen.  *)
(* Rows are opaque and compared with "="; styling is abstracted away, so   *)
(* "=" is both the byte comparison and RowsEquivalent.                     *)
(***************************************************************************)
EXTENDS Integers, Sequences, FiniteSets

CONSTANTS
  Blank,               \* the row IsBlankRow recognises
  ResyncTailLookback,  \* audited rows the tail sample looks at (24 in the code)
  ResyncTailSamples    \* non-blank comparisons it needs at most (8 in the code)

ASSUME LedgerOpsAssumption == ResyncTailLookback \in Nat /\ ResyncTailSamples \in Nat

Unset    == -1
NoResync == -1

Least(a, b)      == IF a < b THEN a ELSE b
Greatest(a, b)   == IF a > b THEN a ELSE b
Clamp(v, lo, hi) == IF v < lo THEN lo ELSE IF v > hi THEN hi ELSE v

EmptyLedger == [C |-> 0, A |-> 0, D |-> 0, W |-> 0, prefix |-> <<>>]

(* Byte-stable and durable ends of a frame of "len" rows from its seams.   *)
ResolveBoundaries(len, live, commit, snapshot) ==
  LET stable == Clamp(IF commit # Unset THEN commit ELSE IF live # Unset THEN live ELSE len, 0, len)
  IN  [byteStable |-> stable,
       durable    |-> Greatest(stable, Clamp(IF snapshot # Unset THEN snapshot ELSE stable, 0, len))]

AuditIfUnstable(s, skip, stableRows, b) ==
  ~skip /\ stableRows < (IF s.D < s.C THEN s.C ELSE s.A)

(* ShouldAudit; "skip" is neverRendered, geometryChanged or clearScrollback. *)
ShouldAudit(s, skip, stableRows, b) ==
  /\ ~skip
  /\ \/ stableRows < (IF s.D < s.C THEN s.C ELSE s.A)
     \/ s.D < Least(s.C, b.durable)

(* The rows of the committed prefix the audit looks at.                    *)
Audited(s) == {i \in 1..s.C : i <= s.A \/ i > s.D}

(* The tail sample: of the last Lookback audited rows, those that carry a  *)
(* signal, until there are Samples of them.                                *)
TailSample(s, frame) ==
  LET above(i, S) == Cardinality({k \in S : k > i})
      signal      == {i \in Audited(s) : frame[i] # Blank \/ s.prefix[i] # Blank}
  IN  {i \in signal : above(i, Audited(s)) < ResyncTailLookback /\ above(i, signal) < ResyncTailSamples}

(* A frame lines up with the prefix if no row it calls permanent differs   *)
(* and at most one row of the tail sample does.                            *)
Aligned(s, frame, permanentEnd) ==
  /\ Len(frame) >= s.C
  /\ \A i \in s.D + 1 .. Least(s.C, permanentEnd) : frame[i] = s.prefix[i]
  /\ Cardinality({i \in TailSample(s, frame) : frame[i] # s.prefix[i]}) <= 1

ResyncExactly(s, frame, permanentEnd) ==
  LET kept == {i \in 1..Least(s.C, Len(frame)) : \A k \in 1..i : frame[k] = s.prefix[k]}
  IN  IF kept = 1..s.C THEN NoResync ELSE Cardinality(kept)

(* FindCommittedPrefixResync: how many leading rows stay committed.        *)
Resync(s, frame, permanentEnd) ==
  LET kept == {i \in 1..Least(s.C, Len(frame)) : \A k \in Audited(s) \cap 1..i : frame[k] = s.prefix[k]}
  IN  IF s.C = 0 \/ Aligned(s, frame, permanentEnd) \/ kept = 1..s.C THEN NoResync
      ELSE Cardinality(kept)

(* AuditPrefix at the row where Resync re-anchors. *)
AuditPrefix(s, to) ==
  IF to = NoResync THEN s
  ELSE [s EXCEPT !.C = to, !.A = Least(s.A, to), !.D = Least(s.D, to),
                 !.prefix = SubSeq(s.prefix, 1, to)]

-----------------------------------------------------------------------------
(* A frame handed to the ledger: "frame" and its seams, the viewport       *)
(* height, the flags of ledger.FrameInput and the rows of cursor markers.  *)

OrdinaryTop(s, len, height) == Greatest(s.C, Greatest(0, len - height))

(* The branch that puts committed rows back on the screen.                 *)
Reveals(s, in, resynced) ==
  LET len == Len(in.frame)
  IN  \/ len <= s.C
      \/ in.geometry /\ in.inPlace /\ Greatest(0, len - in.height) < s.C
      \/ resynced /\ len - s.C < in.height /\ \E r \in in.cursors : r > s.C

Clears(in, rebuild) == (in.replace \/ rebuild) /\ ~in.mux

(* PlanCommit on the audited ledger s. *)
PlanCommit(s, in, resynced) ==
  LET rebuild == in.geometry /\ ~in.inPlace
      tail    == Greatest(0, Len(in.frame) - in.height)
      top     == OrdinaryTop(s, Len(in.frame), in.height)
  IN  IF in.first \/ in.replace \/ rebuild
      THEN [kind |-> "full", top |-> tail, chunkTo |-> tail,
            clear |-> Clears(in, rebuild)]
      ELSE IF Reveals(s, in, resynced)
      THEN [kind |-> "reveal", top |-> tail, chunkTo |-> tail, clear |-> FALSE]
      ELSE [kind |-> IF in.geometry THEN "rebase" ELSE "extend", top |-> top,
            chunkTo |-> IF in.overlay \/ in.geometry THEN s.C ELSE top, clear |-> FALSE]

(* ApplyPrefixMutation, before anything is written. *)
ApplyPrefixMutation(s, frame, plan) ==
  CASE plan.kind = "reveal" -> [s EXCEPT !.C = plan.chunkTo, !.prefix = SubSeq(frame, 1, plan.chunkTo)]
    [] plan.kind = "rebase" -> [s EXCEPT !.prefix = SubSeq(frame, 1, s.C)]
    [] OTHER                -> s

(* Step: [led: the ledger to write from, audited: it before the plan,      *)
(* plan, b: the boundaries, auditRan].                                     *)
Step(s, in) ==
  LET b       == ResolveBoundaries(Len(in.frame), in.live, in.commit, in.snapshot)
      ran     == ShouldAudit(s, in.first \/ in.geometry \/ in.replace, in.stable, b)
      to      == IF ran THEN Resync(s, in.frame, b.durable) ELSE NoResync
      audited == AuditPrefix(s, to)
      plan    == PlanCommit(audited, in, to # NoResync)
  IN  [led |-> ApplyPrefixMutation(audited, in.frame, plan), audited |-> audited,
       plan |-> plan, b |-> b, auditRan |-> ran]

(* The rows a Step tells the emitter to push into the scrollback.          *)
ChunkFromWindow(in, res) ==
  SubSeq(in.frame, IF res.plan.kind = "full" THEN 1 ELSE res.led.W + 1, res.plan.chunkTo)

Chunk(in, res) ==
  IF res.plan.kind = "full" THEN SubSeq(in.frame, 1, res.plan.chunkTo)
  ELSE SubSeq(in.frame, res.led.C + 1, res.plan.chunkTo)

NoFloor(audit, durable) == durable
Floor(audit, durable)   == Greatest(audit, durable)

(* UpdateAuditRows: the marks of the rows committed now. *)
AuditMark(pre, resliced, committed, b) ==
  Least(committed, IF resliced \/ pre.A >= pre.C THEN b.byteStable ELSE pre.A)

DurableMark(pre, resliced, committed, b, hardAudited) ==
  Least(committed, IF resliced \/ pre.D >= pre.C \/ hardAudited THEN b.durable ELSE pre.D)

(* extendPrefix: the head stays, whatever the frame holds there now. *)
ExtendPrefix(prefix, frame, to) ==
  IF to <= Len(prefix) THEN SubSeq(prefix, 1, to)
  ELSE prefix \o SubSeq(frame, Len(prefix) + 1, to)

(* Finish, after a successful emit. *)
Finish(in, res) ==
  LET resliced == res.plan.kind # "extend"
      to       == res.plan.chunkTo
      ran      == res.auditRan /\ res.plan.kind # "full"
      audit    == AuditMark(res.audited, resliced, to, res.b)
      durable  == DurableMark(res.audited, resliced, to, res.b, ran)
  IN  [C |-> to, A |-> audit, D |-> Floor(audit, durable), W |-> res.plan.top,
       prefix |-> IF res.plan.kind = "full" THEN SubSeq(in.frame, 1, to)
                  ELSE ExtendPrefix(res.led.prefix, in.frame, to)]
=============================================================================
