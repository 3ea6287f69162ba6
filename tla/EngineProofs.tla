---------------------------- MODULE EngineProofs ----------------------------
(***************************************************************************)
(* Proofs about Engine for every terminal height, frame, ledger bound and  *)
(* combination of events: the engine always knows what the screen shows    *)
(* and where the cursor is, and its line feeds push into the scrollback    *)
(* exactly the rows the ledger planned.                                    *)
(***************************************************************************)
EXTENDS Engine, SequenceTheorems, FiniteSetTheorems, WellFoundedInduction, TLAPS

-----------------------------------------------------------------------------
(* The ledger: for every frame, viewport, resync bound and set of events   *)
(* the marks stay ordered, and a calm history is the committed part of the *)
(* frame, each row once and in order.                                      *)

(* Ledgers whose rows come from R and whose marks are ordered.             *)
LedgerType(R) ==
  {s \in [C : Nat, A : Nat, D : Nat, W : Nat, prefix : Seq(R)] :
     s.A <= s.D /\ s.D <= s.C /\ s.C = Len(s.prefix)}

(* Inputs the lemmas speak about. *)
InputType(R) ==
  [frame : Seq(R), height : Nat, live : Int, commit : Int, snapshot : Int, first : BOOLEAN,
   replace : BOOLEAN, geometry : BOOLEAN, inPlace : BOOLEAN, mux : BOOLEAN, overlay : BOOLEAN,
   stable : Int, cursors : SUBSET Int]

(* The seams lie within the frame. *)
LEMMA BoundariesInFrame ==
  ASSUME NEW len \in Nat, NEW live \in Int, NEW commit \in Int, NEW snapshot \in Int
  PROVE  LET b == ResolveBoundaries(len, live, commit, snapshot)
         IN  b.byteStable \in 0..len /\ b.durable \in 0..len
  <1>1. \A v \in Int : Clamp(v, 0, len) \in 0..len
    BY DEF Clamp
  <1>2. \A a, b \in 0..len : Greatest(a, b) \in 0..len
    BY DEF Greatest
  <1> DEFINE raw == IF commit # Unset THEN commit ELSE IF live # Unset THEN live ELSE len
             end == IF snapshot # Unset THEN snapshot ELSE Clamp(raw, 0, len)
  <1>3. raw \in Int  OBVIOUS
  <1>4. Clamp(raw, 0, len) \in 0..len  BY <1>1, <1>3
  <1>5. end \in Int  BY <1>4
  <1>6. Clamp(end, 0, len) \in 0..len  BY <1>1, <1>5
  <1>7. Greatest(Clamp(raw, 0, len), Clamp(end, 0, len)) \in 0..len  BY <1>2, <1>4, <1>6
  <1>. QED  BY <1>4, <1>7 DEF ResolveBoundaries

(* A leading part of a frame. *)
LEMMA SubSeqOfFrame ==
  ASSUME NEW R, NEW f \in Seq(R), NEW n \in 0..Len(f)
  PROVE  SubSeq(f, 1, n) \in Seq(R) /\ Len(SubSeq(f, 1, n)) = n /\ \A i \in 1..n : SubSeq(f, 1, n)[i] = f[i]
  OBVIOUS

(* The audit keeps a leading part of what is committed. *)
LEMMA ResyncRange ==
  ASSUME NEW R, NEW s \in LedgerType(R), NEW f \in Seq(R), NEW p \in Int
  PROVE  Resync(s, f, p) \in {NoResync} \cup 0..s.C
  <1> DEFINE limit == Least(s.C, Len(f))
             kept  == {i \in 1..limit : \A k \in Audited(s) \cap 1..i : f[k] = s.prefix[k]}
  <1>0. s.C \in Nat /\ Len(f) \in Nat  BY DEF LedgerType
  <1>1. limit \in 0..s.C
    BY <1>0 DEF Least
  <1>2. IsFiniteSet(1..limit) /\ Cardinality(1..limit) = limit
    BY <1>0, <1>1, FS_Interval
  <1>3. kept \subseteq 1..limit  OBVIOUS
  <1>4. Cardinality(kept) \in Nat /\ Cardinality(kept) <= limit
    BY <1>2, <1>3, FS_Subset, FS_CardinalityType
  <1>5. Cardinality(kept) \in 0..s.C  BY <1>0, <1>1, <1>4
  <1>. QED  BY <1>5 DEF Resync

(* An audit that cuts the prefix cuts the marks with it. *)
LEMMA AuditKeepsType ==
  ASSUME NEW R, NEW s \in LedgerType(R), NEW to \in {NoResync} \cup 0..s.C
  PROVE  AuditPrefix(s, to) \in LedgerType(R)
  <1>1. CASE to = NoResync  BY <1>1 DEF AuditPrefix
  <1>2. CASE to # NoResync
    <2>0. /\ s \in [C : Nat, A : Nat, D : Nat, W : Nat, prefix : Seq(R)]
          /\ s.A <= s.D /\ s.D <= s.C /\ s.C = Len(s.prefix)
      BY DEF LedgerType
    <2>1. to \in 0..Len(s.prefix)  BY <1>2, <2>0
    <2>2. SubSeq(s.prefix, 1, to) \in Seq(R) /\ Len(SubSeq(s.prefix, 1, to)) = to
      BY <2>0, <2>1, SubSeqOfFrame
    <2>3. Least(s.A, to) \in Nat /\ Least(s.D, to) \in Nat /\ Least(s.A, to) <= Least(s.D, to) /\ Least(s.D, to) <= to
      BY <2>0, <2>1 DEF Least
    <2> DEFINE t == AuditPrefix(s, to)
    <2>4. t = [s EXCEPT !.C = to, !.A = Least(s.A, to), !.D = Least(s.D, to), !.prefix = SubSeq(s.prefix, 1, to)]
      BY <1>2 DEF AuditPrefix
    <2>5. t.C = to /\ t.A = Least(s.A, to) /\ t.D = Least(s.D, to) /\ t.prefix = SubSeq(s.prefix, 1, to)
      BY <2>0, <2>4
    <2>6. t \in [C : Nat, A : Nat, D : Nat, W : Nat, prefix : Seq(R)]
      <3>1. to \in Nat  BY <2>1
      <3>. QED  BY <3>1, <2>0, <2>2, <2>3, <2>4
    <2>7. t.A <= t.D /\ t.D <= t.C /\ t.C = Len(t.prefix)
      BY <2>2, <2>3, <2>5
    <2> HIDE DEF t
    <2>8. t \in LedgerType(R)  BY <2>6, <2>7 DEF LedgerType
    <2>. QED  BY <2>8 DEF t
  <1>. QED  BY <1>1, <1>2

(* Where a plan puts the window and the end of the commit chunk. *)
LEMMA PlanFits ==
  ASSUME NEW R, NEW s \in LedgerType(R), NEW in \in InputType(R), NEW resynced \in BOOLEAN
  PROVE  LET plan == PlanCommit(s, in, resynced)
         IN  /\ plan.kind \in {"full", "reveal", "rebase", "extend"}
             /\ plan.chunkTo \in 0..Len(in.frame) /\ plan.top \in Nat /\ plan.chunkTo <= plan.top
             /\ plan.kind \in {"rebase", "extend"} => s.C <= plan.chunkTo
             /\ plan.kind = "rebase" => plan.chunkTo = s.C
  <1> DEFINE len  == Len(in.frame)
             tail == Greatest(0, len - in.height)
             top  == OrdinaryTop(s, len, in.height)
  <1>0. s.C \in Nat /\ len \in Nat /\ in.height \in Nat  BY DEF LedgerType, InputType
  <1>1. tail \in 0..len
    BY <1>0 DEF Greatest
  <1>2. top \in Nat /\ s.C <= top
    BY <1>0 DEF OrdinaryTop, Greatest
  <1>3. ~Reveals(s, in, resynced) => s.C <= len /\ top <= len
    <2>1. ~Reveals(s, in, resynced) => ~(len <= s.C)  BY DEF Reveals
    <2>2. s.C < len => top <= len  BY <1>0 DEF OrdinaryTop, Greatest
    <2>. QED  BY <2>1, <2>2, <1>0
  <1>4. CASE in.first \/ in.replace \/ (in.geometry /\ ~in.inPlace)
    BY <1>4, <1>1 DEF PlanCommit
  <1>5. CASE ~(in.first \/ in.replace \/ (in.geometry /\ ~in.inPlace)) /\ Reveals(s, in, resynced)
    BY <1>5, <1>1 DEF PlanCommit
  <1>6. CASE ~(in.first \/ in.replace \/ (in.geometry /\ ~in.inPlace)) /\ ~Reveals(s, in, resynced)
    <2>1. CASE in.overlay \/ in.geometry  BY <2>1, <1>6, <1>0, <1>2, <1>3 DEF PlanCommit
    <2>2. CASE ~(in.overlay \/ in.geometry)  BY <2>2, <1>6, <1>0, <1>2, <1>3 DEF PlanCommit
    <2>. QED  BY <2>1, <2>2
  <1>. QED  BY <1>4, <1>5, <1>6

(* What Finish leaves behind, whatever the emitter was told to do. *)
LEMMA StepFits ==
  ASSUME NEW R, NEW s \in LedgerType(R), NEW in \in InputType(R)
  PROVE  LET res == Step(s, in)
         IN  /\ res.audited \in LedgerType(R)
             /\ res.plan.kind \in {"full", "reveal", "rebase", "extend"}
             /\ res.plan.chunkTo \in 0..Len(in.frame) /\ res.plan.top \in Nat
             /\ res.plan.chunkTo <= res.plan.top
             /\ res.led.prefix \in Seq(R) /\ res.led.C \in Nat
             /\ res.plan.kind # "full" => Len(res.led.prefix) <= res.plan.chunkTo
             /\ res.b.byteStable \in Nat /\ res.b.durable \in Nat
  <1> DEFINE len     == Len(in.frame)
             b       == ResolveBoundaries(len, in.live, in.commit, in.snapshot)
             ran     == ShouldAudit(s, in.first \/ in.geometry \/ in.replace, in.stable, b)
             to      == IF ran THEN Resync(s, in.frame, b.durable) ELSE NoResync
             audited == AuditPrefix(s, to)
             plan    == PlanCommit(audited, in, to # NoResync)
             applied == ApplyPrefixMutation(audited, in.frame, plan)
  <1>1. in.frame \in Seq(R) /\ len \in Nat /\ in.live \in Int /\ in.commit \in Int /\ in.snapshot \in Int
    BY DEF InputType
  <1>2. b.byteStable \in Nat /\ b.durable \in Nat
    <2>1. b.byteStable \in 0..len /\ b.durable \in 0..len
      BY <1>1, BoundariesInFrame, Zenon
    <2>. QED  BY <2>1, <1>1
  <1>3. to \in {NoResync} \cup 0..s.C
    BY <1>1, <1>2, ResyncRange
  <1>4. audited \in LedgerType(R)
    BY <1>3, AuditKeepsType
  <1> HIDE DEF to, audited, b
  <1>5. /\ plan.kind \in {"full", "reveal", "rebase", "extend"}
        /\ plan.chunkTo \in 0..len /\ plan.top \in Nat /\ plan.chunkTo <= plan.top
        /\ plan.kind \in {"rebase", "extend"} => audited.C <= plan.chunkTo
        /\ plan.kind = "rebase" => plan.chunkTo = audited.C
    BY <1>4, PlanFits
  <1> HIDE DEF plan
  <1>6. applied.prefix \in Seq(R) /\ applied.C \in Nat /\ (plan.kind # "full" => Len(applied.prefix) <= plan.chunkTo)
    <2>0. audited \in [C : Nat, A : Nat, D : Nat, W : Nat, prefix : Seq(R)] /\ audited.C = Len(audited.prefix)
      BY <1>4 DEF LedgerType
    <2>1. CASE plan.kind = "reveal"
      <3>1. applied.prefix = SubSeq(in.frame, 1, plan.chunkTo) /\ applied.C = plan.chunkTo
        BY <2>0, <2>1 DEF ApplyPrefixMutation
      <3>2. SubSeq(in.frame, 1, plan.chunkTo) \in Seq(R) /\ Len(SubSeq(in.frame, 1, plan.chunkTo)) = plan.chunkTo
        BY <1>1, <1>5, SubSeqOfFrame
      <3>. QED  BY <3>1, <3>2, <1>5
    <2>2. CASE plan.kind = "rebase"
      <3>1. applied.prefix = SubSeq(in.frame, 1, audited.C) /\ applied.C = audited.C
        BY <2>0, <2>2 DEF ApplyPrefixMutation
      <3>2. audited.C \in 0..len  BY <2>2, <1>5
      <3>3. SubSeq(in.frame, 1, audited.C) \in Seq(R) /\ Len(SubSeq(in.frame, 1, audited.C)) = audited.C
        BY <1>1, <3>2, SubSeqOfFrame
      <3>. QED  BY <3>1, <3>3, <2>2, <1>5
    <2>3. CASE plan.kind \in {"full", "extend"}
      <3>1. applied = audited  BY <2>3 DEF ApplyPrefixMutation
      <3>. QED  BY <3>1, <2>0, <2>3, <1>5
    <2>. QED  BY <2>1, <2>2, <2>3, <1>5
  <1> HIDE DEF applied
  <1>7. Step(s, in) = [led |-> applied, audited |-> audited, plan |-> plan, b |-> b, auditRan |-> ran]
    BY DEF Step, applied, plan, audited, to, b
  <1>. QED  BY <1>2, <1>4, <1>5, <1>6, <1>7

(* ApplyAfterEmit leaves the marks ordered. *)
LEMMA FinishOrders ==
  ASSUME NEW R, NEW s \in LedgerType(R), NEW in \in InputType(R)
  PROVE  LET t == Finish(in, Step(s, in)) IN t \in LedgerType(R) /\ t.C <= t.W
  <1> DEFINE res      == Step(s, in)
             to       == res.plan.chunkTo
             resliced == res.plan.kind # "extend"
             ran      == res.auditRan /\ res.plan.kind # "full"
             audit    == AuditMark(res.audited, resliced, to, res.b)
             durable  == DurableMark(res.audited, resliced, to, res.b, ran)
             prefix   == IF res.plan.kind = "full" THEN SubSeq(in.frame, 1, to)
                         ELSE ExtendPrefix(res.led.prefix, in.frame, to)
  <1>0. in.frame \in Seq(R) /\ Len(in.frame) \in Nat  BY DEF InputType
  <1>1. /\ res.audited \in LedgerType(R)
        /\ to \in 0..Len(in.frame) /\ res.plan.top \in Nat /\ to <= res.plan.top
        /\ res.led.prefix \in Seq(R)
        /\ res.plan.kind # "full" => Len(res.led.prefix) <= to
        /\ res.b.byteStable \in Nat /\ res.b.durable \in Nat
    BY StepFits
  <1>2. res.audited.A \in Nat /\ res.audited.D \in Nat /\ to \in Nat
    BY <1>0, <1>1 DEF LedgerType
  <1> HIDE DEF res, to
  <1>3. audit \in 0..to
    BY <1>1, <1>2 DEF AuditMark, Least
  <1>4. durable \in 0..to
    BY SMTT(40), <1>1, <1>2 DEF DurableMark, Least
  <1> HIDE DEF audit, durable
  <1>5. Floor(audit, durable) \in 0..to /\ audit <= Floor(audit, durable)
    BY <1>2, <1>3, <1>4 DEF Floor, Greatest
  <1>6. prefix \in Seq(R) /\ Len(prefix) = to
    <2>1. CASE res.plan.kind = "full"
      BY <2>1, <1>0, <1>1, SubSeqOfFrame
    <2>2. CASE res.plan.kind # "full"
      <3>1. Len(res.led.prefix) <= to  BY <1>1, <2>2
      <3>2. CASE to <= Len(res.led.prefix)
        <4>1. to \in 0..Len(res.led.prefix)  BY <1>2, <3>2
        <4>2. prefix = SubSeq(res.led.prefix, 1, to)  BY <2>2, <3>2 DEF ExtendPrefix
        <4>. QED  BY <4>1, <4>2, <1>1, SubSeqOfFrame
      <3>3. CASE ~(to <= Len(res.led.prefix))
        <4> DEFINE from == Len(res.led.prefix) + 1
                   tail == SubSeq(in.frame, from, to)
        <4>1. prefix = res.led.prefix \o tail  BY <2>2, <3>3 DEF ExtendPrefix
        <4>0. Len(res.led.prefix) \in Nat  BY <1>1
        <4>2. from \in Int /\ from \in 1..to /\ to \in Int /\ to <= Len(in.frame)  BY <4>0, <1>0, <1>1, <1>2, <3>3
        <4> HIDE DEF from
        <4>3. tail \in Seq(R) /\ Len(tail) = to - from + 1
          <5>1. \A i \in from..to : in.frame[i] \in R  BY <1>0, <4>2
          <5>. QED  BY <5>1, <4>2, <1>2, SubSeqProperties
        <4> HIDE DEF tail, prefix
        <4>4. res.led.prefix \o tail \in Seq(R) /\ Len(res.led.prefix \o tail) = Len(res.led.prefix) + Len(tail)
          BY <4>3, <1>1, ConcatProperties
        <4>5. Len(res.led.prefix) + Len(tail) = to  BY <4>0, <4>2, <4>3 DEF from
        <4>. QED  BY <4>1, <4>4, <4>5
      <3>. QED  BY <3>2, <3>3
    <2>. QED  BY <2>1, <2>2
  <1>7. Finish(in, res) = [C |-> to, A |-> audit, D |-> Floor(audit, durable), W |-> res.plan.top, prefix |-> prefix]
    BY DEF Finish, audit, durable, to
  <1> HIDE DEF prefix
  <1>. QED  BY SMTT(40), <1>1, <1>2, <1>3, <1>5, <1>6, <1>7 DEF LedgerType, res

(* The audit finds nothing in a frame that still starts with the prefix. *)
LEMMA AlignedFrameIsLeftAlone ==
  ASSUME NEW R, NEW s \in LedgerType(R), NEW in \in InputType(R), IsPrefix(s.prefix, in.frame)
  PROVE  Step(s, in).audited = s
  <1>0. s.C \in Nat /\ s.C = Len(s.prefix) /\ s.prefix \in Seq(R) /\ in.frame \in Seq(R) /\ Len(in.frame) \in Nat
    BY DEF LedgerType, InputType
  <1>1. s.C <= Len(in.frame)  BY <1>0 DEF IsPrefix
  <1>2. \A i \in 1..s.C : in.frame[i] = s.prefix[i]
    <2> TAKE i \in 1..s.C
    <2>1. SubSeq(s.prefix, 1, s.C)[i] = s.prefix[i]  BY <1>0, SubSeqOfFrame
    <2>2. s.C \in 0..Len(in.frame)  BY <1>0, <1>1
    <2>3. SubSeq(in.frame, 1, s.C)[i] = in.frame[i]  BY <1>0, <2>2, SubSeqOfFrame
    <2>. QED  BY <2>1, <2>3, <1>0 DEF IsPrefix
  <1>3. Least(s.C, Len(in.frame)) = s.C  BY <1>0, <1>1 DEF Least
  <1>4. \A p : Resync(s, in.frame, p) = NoResync
    <2> TAKE p
    <2> DEFINE kept == {i \in 1..s.C : \A k \in Audited(s) \cap 1..i : in.frame[k] = s.prefix[k]}
    <2>1. kept = 1..s.C
      <3>1. \A i \in 1..s.C : 1..i \subseteq 1..s.C  BY <1>0
      <3>. QED  BY <3>1, <1>2
    <2>. QED  BY <1>3, <2>1 DEF Resync
  <1>. QED  BY <1>4 DEF Step, AuditPrefix

(* A prefix extended by the next rows of the frame. *)
LEMMA ExtendedPrefix ==
  ASSUME NEW R, NEW p \in Seq(R), NEW f \in Seq(R), IsPrefix(p, f), NEW to \in Len(p)..Len(f)
  PROVE  /\ ExtendPrefix(p, f, to) = SubSeq(f, 1, to)
         /\ p \o SubSeq(f, Len(p) + 1, to) = SubSeq(f, 1, to)
  <1> DEFINE n == Len(p)  tail == SubSeq(f, n + 1, to)
  <1>0. n \in Nat /\ Len(f) \in Nat /\ to \in Nat /\ n <= to /\ to <= Len(f)  BY DEF IsPrefix
  <1>1. \A i \in 1..n : p[i] = f[i]
    <2> TAKE i \in 1..n
    <2>0. n \in 0..Len(p) /\ n \in 0..Len(f)  BY <1>0
    <2>1. SubSeq(p, 1, n)[i] = p[i]  BY <2>0, SubSeqOfFrame
    <2>2. SubSeq(f, 1, n)[i] = f[i]  BY <2>0, SubSeqOfFrame
    <2>. QED  BY <2>1, <2>2 DEF IsPrefix
  <1>2. /\ tail \in Seq(R) /\ Len(tail) = to - n
        /\ \A i \in 1..to - n : tail[i] = f[n + i]
    <2>1. \A i \in n + 1..to : f[i] \in R  BY <1>0
    <2>2. n + 1 \in Int /\ to \in Int  BY <1>0
    <2>3. /\ tail \in Seq(R)
          /\ Len(tail) = IF n + 1 <= to THEN to - (n + 1) + 1 ELSE 0
          /\ \A i \in 1..to - (n + 1) + 1 : tail[i] = f[n + 1 + i - 1]
      BY <2>1, <2>2, SubSeqProperties
    <2>. QED  BY <1>0, <2>3
  <1>3. /\ SubSeq(f, 1, to) \in Seq(R) /\ Len(SubSeq(f, 1, to)) = to
        /\ \A i \in 1..to : SubSeq(f, 1, to)[i] = f[i]
    BY <1>0, SubSeqOfFrame
  <1> HIDE DEF tail
  <1>4. /\ p \o tail \in Seq(R) /\ Len(p \o tail) = n + Len(tail)
        /\ \A i \in 1..n + Len(tail) : (p \o tail)[i] = IF i <= n THEN p[i] ELSE tail[i - n]
    BY <1>2, ConcatProperties
  <1>5. \A i \in 1..to : (p \o tail)[i] = f[i]
    BY <1>0, <1>1, <1>2, <1>4
  <1>6. p \o tail = SubSeq(f, 1, to)
    BY <1>0, <1>2, <1>3, <1>4, <1>5, SeqEqual
  <1>7. CASE to <= n
    <2>1. SubSeq(p, 1, to) = SubSeq(f, 1, to)
      BY <1>7, <1>0 DEF IsPrefix
    <2>. QED  BY <2>1, <1>6, <1>7 DEF ExtendPrefix, tail
  <1>8. CASE ~(to <= n)
    BY <1>6, <1>8 DEF ExtendPrefix, tail
  <1>. QED  BY <1>7, <1>8, <1>6 DEF tail

-----------------------------------------------------------------------------
(* What is read off stays read off: a leading part of it, *)
LEMMA EmbedsPart ==
  ASSUME NEW R, NEW s \in Seq(R), NEW t, Embeds(s, t), NEW k \in 0..Len(s)
  PROVE  Embeds(SubSeq(s, 1, k), t)
  <1> DEFINE p == SubSeq(s, 1, k)
  <1>1. p \in Seq(R) /\ Len(p) = k /\ \A i \in 1..k : p[i] = s[i]  BY SubSeqOfFrame
  <1>2. DOMAIN s = 1..Len(s) /\ DOMAIN p = 1..k /\ 1..k \subseteq 1..Len(s)  BY <1>1
  <1>3. PICK at \in [DOMAIN s -> DOMAIN t] :
          \A i, j \in DOMAIN s : t[at[i]] = s[i] /\ (i < j => at[i] < at[j])
    BY DEF Embeds
  <1> HIDE DEF p
  <1> DEFINE start == [i \in 1..k |-> at[i]]
  <1>4. start \in [DOMAIN p -> DOMAIN t]  BY <1>2, <1>3
  <1>5. \A i, j \in DOMAIN p : t[start[i]] = p[i] /\ (i < j => start[i] < start[j])
    BY <1>1, <1>2, <1>3
  <1>6. Embeds(p, t)  BY <1>4, <1>5 DEF Embeds
  <1>. QED  BY <1>6 DEF p

(* both with the same rows behind them, *)
LEMMA EmbedsJoin ==
  ASSUME NEW R, NEW s \in Seq(R), NEW t \in Seq(R), NEW c \in Seq(R), Embeds(s, t)
  PROVE  Embeds(s \o c, t \o c)
  <1> DEFINE sc == s \o c  tc == t \o c  m == Len(s)  n == Len(t)  l == Len(c)
  <1>1. /\ DOMAIN sc = 1..m + l /\ DOMAIN tc = 1..n + l
        /\ \A i \in 1..m + l : sc[i] = IF i <= m THEN s[i] ELSE c[i - m]
        /\ \A i \in 1..n + l : tc[i] = IF i <= n THEN t[i] ELSE c[i - n]
    BY ConcatProperties
  <1>2. m \in Nat /\ n \in Nat /\ l \in Nat /\ DOMAIN s = 1..m /\ DOMAIN t = 1..n  OBVIOUS
  <1>3. PICK at \in [1..m -> 1..n] : \A i, j \in 1..m : t[at[i]] = s[i] /\ (i < j => at[i] < at[j])
    BY <1>2 DEF Embeds
  <1> HIDE DEF sc, tc, m, n, l
  <1> DEFINE to == [i \in 1..m + l |-> IF i <= m THEN at[i] ELSE n + (i - m)]
  <1>4. \A i \in 1..m : at[i] \in 1..n  BY <1>3
  <1>5. \A i \in 1..m + l : to[i] = IF i <= m THEN at[i] ELSE n + (i - m)  OBVIOUS
  <1>6. \A i \in 1..m + l : to[i] \in 1..n + l
    <2> TAKE i \in 1..m + l
    <2>1. CASE i <= m  BY <2>1, <1>2, <1>4, <1>5
    <2>2. CASE ~(i <= m)  BY <2>2, <1>2, <1>5
    <2>. QED  BY <2>1, <2>2
  <1>7. to \in [1..m + l -> 1..n + l]  BY <1>6
  <1> HIDE DEF to
  <1>8. \A i \in 1..m + l : tc[to[i]] = sc[i]
    <2> TAKE i \in 1..m + l
    <2>1. CASE i <= m
      <3>1. i \in 1..m /\ at[i] \in 1..n /\ to[i] = at[i]  BY <2>1, <1>2, <1>4, <1>5
      <3>2. tc[at[i]] = t[at[i]]  BY <3>1, <1>1, <1>2
      <3>. QED  BY <3>1, <3>2, <2>1, <1>1, <1>3
    <2>2. CASE ~(i <= m)
      <3>1. to[i] = n + (i - m) /\ to[i] \in 1..n + l /\ ~(to[i] <= n) /\ to[i] - n = i - m
        BY <2>2, <1>2, <1>5
      <3>. QED  BY <3>1, <2>2, <1>1
    <2>. QED  BY <2>1, <2>2
  <1>9. \A i, j \in 1..m + l : i < j => to[i] < to[j]
    <2> TAKE i, j \in 1..m + l
    <2> HAVE i < j
    <2>1. CASE j <= m
      <3>1. i \in 1..m /\ j \in 1..m /\ to[i] = at[i] /\ to[j] = at[j]  BY <2>1, <1>2, <1>5
      <3>. QED  BY <3>1, <1>3
    <2>2. CASE ~(j <= m) /\ i <= m
      <3>1. i \in 1..m /\ to[i] \in 1..n /\ to[j] = n + (j - m)  BY <2>2, <1>2, <1>4, <1>5
      <3>. QED  BY <3>1, <2>2, <1>2
    <2>3. CASE ~(i <= m)
      <3>1. to[i] = n + (i - m) /\ to[j] = n + (j - m)  BY <2>3, <1>2, <1>5
      <3>. QED  BY <3>1, <1>2
    <2>. QED  BY <2>1, <2>2, <2>3
  <1>10. Embeds(sc, tc)  BY <1>1, <1>7, <1>8, <1>9 DEF Embeds
  <1>. QED  BY <1>10 DEF sc, tc

(* and rows behind whatever there is. *)
LEMMA EmbedsEnd ==
  ASSUME NEW R, NEW t \in Seq(R), NEW c \in Seq(R)
  PROVE  Embeds(c, t \o c)
  <1>1. Embeds(<<>>, t)
    <2>1. [i \in {} |-> 1] \in [DOMAIN <<>> -> DOMAIN t]  OBVIOUS
    <2>. QED  BY <2>1 DEF Embeds
  <1>2. <<>> \in Seq(R)  OBVIOUS
  <1> DEFINE none == <<>>
  <1> HIDE DEF none
  <1>3. Embeds(none \o c, t \o c)  BY <1>1, <1>2, EmbedsJoin DEF none
  <1>4. none \o c = c  BY DEF none
  <1>. QED  BY <1>3, <1>4

-----------------------------------------------------------------------------
(* What an audit that kept "a" of the ledger "s" knows of the frame f: its *)
(* first n rows, the final ones, and all of them after a resync.           *)
Shows(s, f, n, a, resynced) ==
  /\ a.C \in 0..s.C /\ a.D <= s.D /\ a.prefix = SubSeq(s.prefix, 1, a.C)
  /\ \A i \in 1..Least(a.C, n) : f[i] = s.prefix[i]
  /\ resynced => \A i \in 1..a.C : f[i] = s.prefix[i]

(* The rows a resync keeps: as many as are left of the last one kept.      *)
LEMMA ResyncKeeps ==
  ASSUME NEW R, NEW s \in LedgerType(R), NEW f \in Seq(R), NEW p \in Int,
         \A i \in 1..s.D : f[i] = s.prefix[i], NEW to, to = Resync(s, f, p), to # NoResync
  PROVE  to \in 0..s.C /\ \A i \in 1..to : f[i] = s.prefix[i]
  <1> DEFINE limit == Least(s.C, Len(f))
             kept  == {i \in 1..limit : \A k \in Audited(s) \cap 1..i : f[k] = s.prefix[k]}
  <1>0. s.C \in Nat /\ s.A \in Nat /\ s.D \in Nat /\ s.D <= s.C /\ Len(f) \in Nat  BY DEF LedgerType
  <1>1. limit \in 0..s.C  BY <1>0 DEF Least
  <1>2. to = Cardinality(kept)  BY DEF Resync
  <1>3. to \in 0..s.C  BY <1>0, ResyncRange
  <1> HIDE DEF limit
  <1>4. \A i \in 1..to : i \in kept
    <2> SUFFICES ASSUME NEW i \in 1..to, i \notin kept PROVE FALSE  OBVIOUS
    <2>1. \A j \in kept : j < i
      <3> SUFFICES ASSUME NEW j \in kept, ~(j < i) PROVE FALSE  OBVIOUS
      <3>1. j \in 1..limit /\ i \in 1..limit /\ 1..i \subseteq 1..j  BY <1>0, <1>1, <1>3
      <3>2. i \in kept  BY <3>1
      <3>. QED  BY <3>2
    <2>2. kept \subseteq 1..(i - 1)  BY <2>1, <1>0, <1>1, <1>3
    <2>3. IsFiniteSet(1..(i - 1)) /\ Cardinality(1..(i - 1)) = i - 1
      <3>1. i - 1 \in Nat  BY <1>3
      <3>. QED  BY <3>1, FS_Interval
    <2> HIDE DEF kept
    <2>4. Cardinality(kept) <= i - 1  BY <2>2, <2>3, FS_Subset, ZenonT(40)
    <2>. QED  BY <2>4, <1>2, <1>3
  <1>5. \A i \in 1..to : f[i] = s.prefix[i]
    <2> TAKE i \in 1..to
    <2>1. i \in kept /\ i \in 1..s.C  BY <1>3, <1>4, <1>0
    <2>2. CASE i \in Audited(s)  BY <2>1, <2>2
    <2>3. CASE i \notin Audited(s)
      <3>1. i \in 1..s.D  BY <2>1, <2>3, <1>0 DEF Audited
      <3>. QED  BY <3>1
    <2>. QED  BY <2>2, <2>3
  <1>. QED  BY <1>3, <1>5

(* All final rows of a frame are permanent, and no others. *)
LEMMA FinalSeams ==
  ASSUME NEW len \in Nat, NEW n \in 0..len
  PROVE  ResolveBoundaries(len, n, n, Unset) = [byteStable |-> n, durable |-> n]
  <1>1. Clamp(n, 0, len) = n  BY DEF Clamp
  <1>2. Greatest(n, n) = n  BY DEF Greatest
  <1>3. n # Unset  BY DEF Unset
  <1>. QED  BY <1>1, <1>2, <1>3 DEF ResolveBoundaries

(* A frame that keeps its durable rows and is long enough shows the audit  *)
(* every final row it has committed.                                       *)
LEMMA AuditShows ==
  ASSUME NEW R, NEW s \in LedgerType(R), NEW in \in InputType(R), NEW n \in Nat, n <= Len(in.frame),
         in.live = n, in.commit = n, in.snapshot = Unset, ~in.first, ~in.geometry, ~in.replace,
         s.C <= Len(in.frame), \A i \in 1..s.D : in.frame[i] = s.prefix[i]
  PROVE  \E resynced \in BOOLEAN : /\ Step(s, in).plan = PlanCommit(Step(s, in).audited, in, resynced)
                                   /\ Shows(s, in.frame, n, Step(s, in).audited, resynced)
  <1> DEFINE b   == ResolveBoundaries(Len(in.frame), in.live, in.commit, in.snapshot)
             ran == ShouldAudit(s, in.first \/ in.geometry \/ in.replace, in.stable, b)
             to  == IF ran THEN Resync(s, in.frame, b.durable) ELSE NoResync
             a   == AuditPrefix(s, to)
  <1>0. /\ s.C \in Nat /\ s.A \in Nat /\ s.D \in Nat /\ s.D <= s.C /\ s.C = Len(s.prefix) /\ s.prefix \in Seq(R)
        /\ s.A <= s.D
        /\ in.frame \in Seq(R) /\ Len(in.frame) \in Nat /\ in.stable \in Int
    BY DEF LedgerType, InputType
  <1>1. b = [byteStable |-> n, durable |-> n]  BY <1>0, FinalSeams
  <1>2. b.durable = n  BY <1>1
  <1>3. Step(s, in).audited = a /\ Step(s, in).plan = PlanCommit(a, in, to # NoResync)
    BY DEF Step
  <1> HIDE DEF b
  <1>4. CASE to = NoResync
    <2>1. a = s  BY <1>4 DEF AuditPrefix
    <2>2. SubSeq(s.prefix, 1, s.C) = s.prefix  BY <1>0
    <2>3. \A i \in 1..Least(s.C, n) : in.frame[i] = s.prefix[i]
      <3> TAKE i \in 1..Least(s.C, n)
      <3>1. i \in 1..s.C /\ i <= n  BY <1>0 DEF Least
      <3>2. CASE i <= s.D  BY <3>1, <3>2, <1>0
      <3>3. CASE ~(i <= s.D)
        <4>1. s.D < Least(s.C, n)  BY <3>3, <1>0 DEF Least
        <4>2. ran  BY <4>1, <1>2 DEF ShouldAudit
        <4>3. Resync(s, in.frame, n) = NoResync  BY <4>2, <1>2, <1>4
        <4>4. i \in s.D + 1 .. Least(s.C, n)  BY <3>1, <3>3, <1>0 DEF Least
        <4>5. CASE Aligned(s, in.frame, n)  BY <4>4, <4>5 DEF Aligned
        <4>6. CASE ~Aligned(s, in.frame, n)
          <5> DEFINE kept == {j \in 1..Least(s.C, Len(in.frame)) :
                                \A k \in Audited(s) \cap 1..j : in.frame[k] = s.prefix[k]}
          <5>1. Cardinality(kept) # NoResync
            <6>1. Least(s.C, Len(in.frame)) \in Nat  BY <1>0 DEF Least
            <6>2. IsFiniteSet(1..Least(s.C, Len(in.frame)))  BY <6>1, FS_Interval
            <6>3. Cardinality(kept) \in Nat
              <7>1. kept \subseteq 1..Least(s.C, Len(in.frame))  OBVIOUS
              <7> HIDE DEF kept
              <7>. QED  BY <7>1, <6>2, FS_Subset, FS_CardinalityType
            <6>. QED  BY <6>3 DEF NoResync
          <5>2. s.C # 0  BY <3>1, <1>0
          <5>3. kept = 1..s.C  BY <4>3, <4>6, <5>1, <5>2 DEF Resync
          <5>4. i \in Audited(s)  BY <3>1, <3>3, <1>0 DEF Audited
          <5>5. i \in kept  BY <5>3, <3>1
          <5>6. i \in 1..i  BY <3>1, <1>0
          <5>. QED  BY <5>4, <5>5, <5>6
        <4>. QED  BY <4>5, <4>6
      <3>. QED  BY <3>2, <3>3
    <2>4. Shows(s, in.frame, n, a, FALSE)  BY <2>1, <2>2, <2>3, <1>0 DEF Shows
    <2>. QED  BY <2>4, <1>3, <1>4
  <1>5. CASE to # NoResync
    <2>1. to = Resync(s, in.frame, n)  BY <1>2, <1>5
    <2>2. to \in 0..s.C /\ \A i \in 1..to : in.frame[i] = s.prefix[i]  BY <2>1, <1>0, <1>5, ResyncKeeps, SMTT(40)
    <2>3. a = [s EXCEPT !.C = to, !.A = Least(s.A, to), !.D = Least(s.D, to), !.prefix = SubSeq(s.prefix, 1, to)]
      BY <1>5 DEF AuditPrefix
    <2>4. a.C = to /\ a.D = Least(s.D, to) /\ a.prefix = SubSeq(s.prefix, 1, to)
      BY <2>3 DEF LedgerType
    <2> HIDE DEF a, to
    <2>5. \A i \in 1..Least(to, n) : in.frame[i] = s.prefix[i]  BY <2>2, <1>0 DEF Least
    <2>6. Least(s.D, to) <= s.D  BY <2>2, <1>0 DEF Least
    <2>7. Shows(s, in.frame, n, a, TRUE)  BY <2>2, <2>4, <2>5, <2>6 DEF Shows
    <2>. QED  BY <2>7, <1>3, <1>5
  <1>. QED  BY <1>4, <1>5

-----------------------------------------------------------------------------
(* The inductive invariant. *)
Rows == {Blank} \cup (Nat \X Versions)

Typed(R) ==
  /\ led \in LedgerType(R) /\ led.C <= led.W
  /\ frame \in Seq(R) /\ hist \in Seq(R)
  /\ final \in Nat /\ height \in Nat
  /\ fresh \in BOOLEAN /\ calm \in BOOLEAN

Kept(R) == Typed(R) /\ OnceInOrder

IInv == Kept(Rows)

(* A composed frame is a sequence of rows. *)
LEMMA FramesAreSequences ==
  ASSUME NEW n \in 0..MaxRows, NEW f \in Frames[n]
  PROVE  f \in Seq(Rows)
  <1>1. PICK v \in [1..n -> Versions] : f = [i \in 1..n |-> Row(i, v[i])]
    BY DEF Frames
  <1>2. \A i \in 1..n : Row(i, v[i]) \in Rows
    BY DEF Row, Rows
  <1>3. f \in [1..n -> Rows]  BY <1>1, <1>2
  <1>. QED  BY <1>3

(* The stable-prefix hint is a number. *)
LEMMA CommonIsANumber ==
  ASSUME NEW R, NEW f \in Seq(R), NEW g \in Seq(R)
  PROVE  Common(f, g) \in Int
  <1> DEFINE limit == Least(Len(f), Len(g))
             same  == {n \in 1..limit : \A i \in 1..n : f[i] = g[i]}
  <1>1. limit \in Nat  BY DEF Least
  <1>2. IsFiniteSet(1..limit)  BY <1>1, FS_Interval
  <1>3. same \subseteq 1..limit  OBVIOUS
  <1>4. Cardinality(same) \in Nat  BY <1>2, <1>3, FS_Subset, FS_CardinalityType
  <1>. QED  BY <1>4 DEF Common

(* The rows pushed into the scrollback are rows. *)
LEMMA ChunkIsRows ==
  ASSUME NEW R, Typed(R), NEW in \in InputType(R)
  PROVE  Chunk(in, Step(led, in)) \in Seq(R)
  <1> DEFINE res == Step(led, in)  to == res.plan.chunkTo
  <1>1. in.frame \in Seq(R) /\ Len(in.frame) \in Nat  BY DEF InputType
  <1>2. to \in 0..Len(in.frame)  BY StepFits DEF Typed
  <1>3. res.led.C \in Nat  BY StepFits DEF Typed
  <1>4. \A k \in 1..to : in.frame[k] \in R  BY <1>1, <1>2
  <1> HIDE DEF res, to
  <1>5. \A from \in Nat \ {0} : SubSeq(in.frame, from, to) \in Seq(R)
    <2> TAKE from \in Nat \ {0}
    <2>1. \A i \in from..to : in.frame[i] \in R  BY <1>1, <1>2, <1>4
    <2>. QED  BY <1>1, <1>2, <2>1, SubSeqProperties
  <1>6. Chunk(in, res) \in Seq(R)
    <2>1. SubSeq(in.frame, 1, to) \in Seq(R)  BY <1>5
    <2>2. res.led.C + 1 \in Nat \ {0}  BY <1>3
    <2>3. SubSeq(in.frame, res.led.C + 1, to) \in Seq(R)  BY <1>5, <2>2
    <2>. QED  BY <2>1, <2>3 DEF Chunk, to
  <1>. QED  BY <1>6 DEF res

-----------------------------------------------------------------------------
(* Nothing that is final is lost: the committed rows can be read off the   *)
(* scrollback, and those of them that are final are the frame's.           *)
Recorded(f, n) ==
  /\ Embeds(led.prefix, hist)
  /\ led.C < Len(f) \/ led.C = 0
  /\ led.D <= n
  /\ \A i \in 1..led.D : f[i] = led.prefix[i]

(* The marks of a step stay among the final rows. *)
LEMMA MarksStayFinal ==
  ASSUME NEW R, NEW s \in LedgerType(R), NEW to \in Nat, NEW n \in Nat,
         NEW resliced \in BOOLEAN, resliced \/ s.D <= n, NEW ran
  PROVE  LET b == [byteStable |-> n, durable |-> n]
         IN  Floor(AuditMark(s, resliced, to, b), DurableMark(s, resliced, to, b, ran)) <= n
  <1> DEFINE b == [byteStable |-> n, durable |-> n]
             audit == AuditMark(s, resliced, to, b)
             durable == DurableMark(s, resliced, to, b, ran)
  <1>0. s.A \in Nat /\ s.D \in Nat /\ s.A <= s.D  BY DEF LedgerType
  <1>1. b.byteStable = n /\ b.durable = n  OBVIOUS
  <1> HIDE DEF b
  <1>2. audit \in Nat /\ audit <= n  BY <1>0, <1>1 DEF AuditMark, Least
  <1>3. durable \in Nat /\ durable <= n  BY <1>0, <1>1 DEF DurableMark, Least
  <1> HIDE DEF audit, durable
  <1>4. Floor(audit, durable) <= n  BY <1>2, <1>3 DEF Floor, Greatest
  <1>. QED  BY <1>4 DEF audit, durable, b

(* A paint records what it commits: from scratch when it is a full paint,  *)
(* otherwise the audit has seen that no final row above it changed.        *)
LEMMA PaintRecords ==
  ASSUME NEW R, Typed(R), NEW in \in InputType(R), in.height # 0, in.first = fresh, ~in.inPlace,
         NEW n \in 0..Len(in.frame), in.live = n, in.commit = n, in.snapshot = Unset,
         NEW res, res = Step(led, in), Paint(in, res, n),
         ~in.first /\ ~in.replace /\ ~in.geometry => Recorded(in.frame, n)
  PROVE  /\ Embeds(led'.prefix, hist') /\ (led'.C < Len(in.frame) \/ led'.C = 0)
         /\ led'.D <= n
         /\ \A i \in 1..Least(led'.C, n) : in.frame[i] = led'.prefix[i]
  <1> DEFINE to == res.plan.chunkTo  f == in.frame  len == Len(f)  a == res.audited
             chunk == Chunk(in, res)  scratch == in.first \/ in.replace \/ in.geometry
  <1>0. /\ led \in LedgerType(R) /\ hist \in Seq(R) /\ f \in Seq(R) /\ len \in Nat /\ in.height \in Nat
        /\ n \in Nat /\ in.geometry \in BOOLEAN
    BY DEF Typed, InputType
  <1>1. /\ a \in LedgerType(R) /\ to \in 0..len
        /\ res.plan = PlanCommit(a, in, TRUE) \/ res.plan = PlanCommit(a, in, FALSE)
        /\ res.b = [byteStable |-> n, durable |-> n]
        /\ res.led = ApplyPrefixMutation(a, f, res.plan)
    <2>1. a \in LedgerType(R) /\ to \in 0..len  BY <1>0, StepFits
    <2>2. res.b = [byteStable |-> n, durable |-> n]  BY <1>0, FinalSeams DEF Step
    <2>3. res.plan = PlanCommit(a, in, TRUE) \/ res.plan = PlanCommit(a, in, FALSE)  BY DEF Step
    <2>4. res.led = ApplyPrefixMutation(a, f, res.plan)  BY DEF Step
    <2>. QED  BY <2>1, <2>2, <2>3, <2>4
  <1>2. /\ led'.C = to /\ hist' = (IF res.plan.clear THEN <<>> ELSE hist) \o chunk
        /\ led'.prefix = IF res.plan.kind = "full" THEN SubSeq(f, 1, to) ELSE ExtendPrefix(res.led.prefix, f, to)
        /\ led'.D = Floor(AuditMark(a, res.plan.kind # "extend", to, res.b),
                          DurableMark(a, res.plan.kind # "extend", to, res.b, res.auditRan /\ res.plan.kind # "full"))
    BY DEF Paint, Emitted, Cleared, Finish
  <1>3. scratch <=> res.plan.kind = "full"
    <2>1. PlanCommit(a, in, TRUE).kind = "full" <=> scratch  BY DEF PlanCommit
    <2>2. PlanCommit(a, in, FALSE).kind = "full" <=> scratch  BY DEF PlanCommit
    <2>. QED  BY <1>1, <2>1, <2>2
  <1>4. CASE scratch
    <2>1. res.plan.kind = "full" /\ to = Greatest(0, len - in.height)
      <3>1. \A x \in BOOLEAN : PlanCommit(a, in, x).kind = "full" => PlanCommit(a, in, x).chunkTo = Greatest(0, len - in.height)
        <4> TAKE x \in BOOLEAN
        <4> HIDE DEF a, len
        <4>1. CASE in.first \/ in.replace \/ (in.geometry /\ ~in.inPlace)  BY <4>1 DEF PlanCommit, len
        <4>2. CASE ~(in.first \/ in.replace \/ (in.geometry /\ ~in.inPlace))
          <5>1. PlanCommit(a, in, x).kind # "full"  BY <4>2 DEF PlanCommit
          <5>. QED  BY <5>1
        <4>. QED  BY <4>1, <4>2
      <3>2. res.plan.kind = "full"  BY <1>3, <1>4
      <3> HIDE DEF a, len
      <3>. QED  BY <1>1, <3>1, <3>2
    <2>2. SubSeq(f, 1, to) \in Seq(R) /\ Len(SubSeq(f, 1, to)) = to /\ \A i \in 1..to : SubSeq(f, 1, to)[i] = f[i]
      BY <1>0, <1>1, SubSeqOfFrame
    <2>3. chunk = SubSeq(f, 1, to) /\ led'.prefix = SubSeq(f, 1, to)  BY <1>2, <2>1 DEF Chunk
    <2>4. Embeds(led'.prefix, hist')
      <3> DEFINE before == IF res.plan.clear THEN <<>> ELSE hist
      <3>1. before \in Seq(R)  BY <1>0
      <3> HIDE DEF before
      <3>2. Embeds(SubSeq(f, 1, to), before \o SubSeq(f, 1, to))  BY <2>2, <3>1, EmbedsEnd
      <3>. QED  BY <1>2, <2>3, <3>2 DEF before
    <2>5. led'.C < len \/ led'.C = 0
      <3> HIDE DEF len, to
      <3>. QED  BY <1>0, <1>2, <2>1 DEF Greatest
    <2>6. led'.D <= n
      <3>1. to \in Nat  BY <1>0, <1>1
      <3> HIDE DEF to, a
      <3>. QED  BY <1>0, <1>1, <1>2, <2>1, <3>1, MarksStayFinal
    <2>7. \A i \in 1..Least(led'.C, n) : f[i] = led'.prefix[i]
      <3>1. \A i \in 1..Least(to, n) : i \in 1..to  BY <1>0, <1>1 DEF Least
      <3>. QED  BY <3>1, <1>2, <2>2, <2>3
    <2>. QED  BY <2>4, <2>5, <2>6, <2>7
  <1>5. CASE ~scratch
    <2>0. Recorded(f, n) /\ ~in.first /\ ~in.replace /\ ~in.geometry /\ res.plan.kind # "full"
      BY <1>3, <1>5
    <2>1. /\ led.C \in Nat /\ led.C = Len(led.prefix) /\ led.prefix \in Seq(R) /\ led.C <= len
          /\ \A i \in 1..led.D : f[i] = led.prefix[i]
      <3>1. led.C \in Nat /\ led.C = Len(led.prefix) /\ led.prefix \in Seq(R)  BY <1>0 DEF LedgerType
      <3>. QED  BY <3>1, <1>0, <2>0 DEF Recorded
    <2>2. PICK resynced \in BOOLEAN : res.plan = PlanCommit(a, in, resynced) /\ Shows(led, f, n, a, resynced)
      BY <1>0, <2>0, <2>1, AuditShows
    <2>3. /\ a.C \in 0..led.C /\ a.C = Len(a.prefix) /\ a.prefix = SubSeq(led.prefix, 1, a.C) /\ a.prefix \in Seq(R)
          /\ \A i \in 1..a.C : a.prefix[i] = led.prefix[i]
      <3>1. a.C \in 0..led.C /\ a.prefix = SubSeq(led.prefix, 1, a.C)  BY <2>2 DEF Shows
      <3>. QED  BY <3>1, <2>1, SubSeqOfFrame
    <2>4. led'.D <= n
      <3>1. a.D <= n
        <4>1. a.D <= led.D /\ led.D <= n  BY <2>0, <2>2 DEF Shows, Recorded
        <4>2. a.D \in Nat /\ led.D \in Nat  BY <1>0, <1>1 DEF LedgerType
        <4>. QED  BY <4>1, <4>2, <1>0
      <3>2. to \in Nat  BY <1>0, <1>1
      <3> DEFINE resliced == res.plan.kind # "extend"  ran == res.auditRan /\ res.plan.kind # "full"
      <3>3. resliced \in BOOLEAN  OBVIOUS
      <3>4. led'.D = Floor(AuditMark(a, resliced, to, res.b), DurableMark(a, resliced, to, res.b, ran))
        BY <1>2
      <3> HIDE DEF to, a, resliced, ran
      <3>5. Floor(AuditMark(a, resliced, to, [byteStable |-> n, durable |-> n]),
                  DurableMark(a, resliced, to, [byteStable |-> n, durable |-> n], ran)) <= n
        BY <1>0, <1>1, <3>1, <3>2, <3>3, MarksStayFinal
      <3>. QED  BY <1>1, <3>4, <3>5
    <2>5. CASE Reveals(a, in, resynced)
      <3>1. res.plan.kind = "reveal" /\ to = Greatest(0, len - in.height) /\ ~res.plan.clear
        BY <2>0, <2>2, <2>5 DEF PlanCommit
      <3>2. to <= a.C /\ (to < len \/ to = 0) /\ (to = 0 \/ resynced)
        <4>0. ~in.geometry  BY <2>0
        <4>1. len <= a.C \/ (resynced /\ len - a.C < in.height)  BY ONLY <4>0, <2>5, Zenon DEF Reveals
        <4>2. led.C < len \/ led.C = 0  BY <2>0 DEF Recorded
        <4> HIDE DEF len, to, a
        <4>. QED  BY <4>1, <4>2, <3>1, <2>1, <2>3, <1>0 DEF Greatest
      <3>3. \A i \in 1..to : f[i] = led.prefix[i]
        <4>1. CASE to = 0  BY <4>1
        <4>2. CASE resynced
          <5>1. \A i \in 1..a.C : f[i] = led.prefix[i]  BY <2>2, <4>2 DEF Shows
          <5>2. \A i \in 1..to : i \in 1..a.C  BY <1>0, <1>1, <2>1, <2>3, <3>2
          <5>. QED  BY <5>1, <5>2
        <4>. QED  BY <4>1, <4>2, <3>2
      <3>4. /\ SubSeq(f, 1, to) \in Seq(R) /\ Len(SubSeq(f, 1, to)) = to
            /\ \A i \in 1..to : SubSeq(f, 1, to)[i] = f[i]
        BY <1>0, <1>1, SubSeqOfFrame
      <3>5. to \in 0..Len(led.prefix)  BY <1>0, <1>1, <2>1, <2>3, <3>2
      <3>6. /\ SubSeq(led.prefix, 1, to) \in Seq(R) /\ Len(SubSeq(led.prefix, 1, to)) = to
            /\ \A i \in 1..to : SubSeq(led.prefix, 1, to)[i] = led.prefix[i]
        BY <2>1, <3>5, SubSeqOfFrame
      <3>7. SubSeq(f, 1, to) = SubSeq(led.prefix, 1, to)
        <4> DEFINE p == SubSeq(f, 1, to)  q == SubSeq(led.prefix, 1, to)
        <4>1. \A i \in 1..to : p[i] = q[i]  BY <3>3, <3>4, <3>6
        <4>2. p \in Seq(R) /\ q \in Seq(R) /\ Len(p) = to /\ Len(q) = to  BY <3>4, <3>6
        <4> HIDE DEF p, q, to
        <4>3. p = q  BY <4>1, <4>2, SeqEqual
        <4>. QED  BY <4>3 DEF p, q
      <3>8. res.led.prefix = SubSeq(f, 1, to) /\ res.led.C = to
        <4>1. res.led = [a EXCEPT !.C = to, !.prefix = SubSeq(f, 1, to)]
          BY <1>1, <3>1, Zenon DEF ApplyPrefixMutation
        <4>. QED  BY <4>1, <1>1 DEF LedgerType
      <3>9. led'.prefix = SubSeq(f, 1, to)
        <4> DEFINE p == SubSeq(f, 1, to)
        <4>1. SubSeq(p, 1, to) = p
          <5>1. p \in Seq(R) /\ Len(p) = to  BY <3>4
          <5> HIDE DEF p, to
          <5>. QED  BY <5>1
        <4>2. ExtendPrefix(p, f, to) = SubSeq(p, 1, to)
          <5>1. to <= Len(p)  BY <3>4, <1>0, <1>1
          <5>. QED  BY <5>1 DEF ExtendPrefix
        <4>. QED  BY <4>1, <4>2, <1>2, <2>0, <3>8
      <3>10. hist' = hist
        <4>1. chunk = SubSeq(f, to + 1, to)  BY <2>0, <3>8 DEF Chunk
        <4>2. chunk = <<>>  BY <4>1, <1>0, <1>1
        <4>. QED  BY <4>2, <3>1, <1>0, <1>2
      <3>11. Embeds(led'.prefix, hist')
        <4>1. Embeds(led.prefix, hist)  BY <2>0 DEF Recorded
        <4>2. Embeds(SubSeq(led.prefix, 1, to), hist)  BY <4>1, <2>1, <3>5, EmbedsPart
        <4>. QED  BY <4>2, <3>7, <3>9, <3>10
      <3>12. \A i \in 1..Least(led'.C, n) : f[i] = led'.prefix[i]
        <4>1. \A i \in 1..Least(to, n) : i \in 1..to  BY <1>0, <1>1 DEF Least
        <4>. QED  BY <4>1, <1>2, <3>4, <3>9
      <3>. QED  BY <2>4, <3>2, <3>11, <3>12, <1>2
    <2>6. CASE ~Reveals(a, in, resynced)
      <3>1. res.plan.kind = "extend" /\ ~res.plan.clear
        BY <2>0, <2>2, <2>6 DEF PlanCommit
      <3>2. to \in {a.C, OrdinaryTop(a, len, in.height)}
        BY <2>0, <2>2, <2>6 DEF PlanCommit
      <3>3. a.C < len /\ a.C <= to /\ to < len
        <4>1. ~(len <= a.C)  BY <2>6 DEF Reveals
        <4> HIDE DEF len, to, a
        <4>. QED  BY <4>1, <3>2, <2>1, <2>3, <1>0 DEF OrdinaryTop, Greatest
      <3>4. res.led = a  BY <1>1, <3>1 DEF ApplyPrefixMutation
      <3>5. chunk = SubSeq(f, a.C + 1, to)  BY <3>1, <3>4 DEF Chunk
      <3>6. /\ chunk \in Seq(R) /\ Len(chunk) = to - a.C
            /\ \A i \in 1..to - a.C : chunk[i] = f[a.C + i]
        <4> DEFINE from == a.C + 1
        <4>0. a.C \in Nat /\ to \in Nat  BY <1>0, <1>1, <2>1, <2>3
        <4>1. from \in Int /\ to \in Int /\ from <= to + 1  BY <4>0, <3>3
        <4>2. \A i \in from..to : f[i] \in R
          <5>1. \A i \in from..to : i \in 1..len  BY <4>0, <1>0, <3>3
          <5>. QED  BY <5>1, <1>0
        <4> HIDE DEF from, to, a
        <4>3. /\ SubSeq(f, from, to) \in Seq(R)
              /\ Len(SubSeq(f, from, to)) = IF from <= to THEN to - from + 1 ELSE 0
              /\ \A i \in 1..to - from + 1 : SubSeq(f, from, to)[i] = f[from + i - 1]
          BY <4>1, <4>2, SubSeqProperties
        <4>4. chunk = SubSeq(f, from, to)  BY <3>5 DEF from, to, a
        <4> HIDE DEF chunk
        <4>5. Len(chunk) = to - a.C  BY <4>0, <4>3, <4>4, <3>3 DEF from
        <4>6. \A i \in 1..to - a.C : chunk[i] = f[a.C + i]
          <5> TAKE i \in 1..to - a.C
          <5>1. i \in 1..to - from + 1 /\ from + i - 1 = a.C + i  BY <4>0 DEF from
          <5>. QED  BY <5>1, <4>3, <4>4
        <4>. QED  BY <4>3, <4>4, <4>5, <4>6
      <3> HIDE DEF chunk
      <3>7. led'.prefix = a.prefix \o chunk
        <4>1. CASE to <= a.C
          <5>1. to = a.C  BY <4>1, <3>3, <1>0, <1>1, <2>1, <2>3
          <5>2. led'.prefix = ExtendPrefix(a.prefix, f, a.C)  BY <5>1, <1>2, <2>0, <3>4
          <5>3. a.C <= Len(a.prefix)  BY <2>1, <2>3
          <5>4. led'.prefix = SubSeq(a.prefix, 1, a.C)  BY <5>2, <5>3 DEF ExtendPrefix
          <5>5. SubSeq(a.prefix, 1, a.C) = a.prefix  BY <2>3
          <5>6. chunk = <<>>  BY <5>1, <3>6, <2>1, <2>3
          <5>. QED  BY <5>4, <5>5, <5>6, <2>3
        <4>2. CASE ~(to <= a.C)
          BY <4>2, <1>2, <2>0, <2>3, <3>4, <3>5 DEF ExtendPrefix
        <4>. QED  BY <4>1, <4>2
      <3>8. hist' = hist \o chunk  BY <1>2, <3>1
      <3>9. Embeds(led'.prefix, hist')
        <4>1. Embeds(led.prefix, hist)  BY <2>0 DEF Recorded
        <4>2. Embeds(a.prefix, hist)  BY <4>1, <2>1, <2>3, EmbedsPart
        <4>3. Embeds(a.prefix \o chunk, hist \o chunk)  BY <4>2, <1>0, <2>3, <3>6, EmbedsJoin
        <4>. QED  BY <4>3, <3>7, <3>8
      <3>10. \A i \in 1..Least(led'.C, n) : f[i] = led'.prefix[i]
        <4> TAKE i \in 1..Least(led'.C, n)
        <4>0. a.C \in Nat /\ to \in Nat /\ i \in 1..to /\ i <= n  BY <1>0, <1>1, <1>2, <2>1, <2>3 DEF Least
        <4>1. (a.prefix \o chunk)[i] = IF i <= a.C THEN a.prefix[i] ELSE chunk[i - a.C]
          <5> DEFINE p == a.prefix
          <5>1. i \in 1..Len(p) + Len(chunk)  BY <4>0, <2>3, <3>3, <3>6
          <5>2. p \in Seq(R) /\ Len(p) = a.C /\ chunk \in Seq(R)  BY <2>3, <3>6
          <5> HIDE DEF p
          <5>3. \A k \in 1..Len(p) + Len(chunk) :
                  (p \o chunk)[k] = IF k <= Len(p) THEN p[k] ELSE chunk[k - Len(p)]
            BY <5>2, ConcatProperties
          <5>4. (p \o chunk)[i] = IF i <= Len(p) THEN p[i] ELSE chunk[i - Len(p)]  BY <5>1, <5>3
          <5>. QED  BY <5>2, <5>4 DEF p
        <4>2. CASE i <= a.C
          <5>1. i \in 1..Least(a.C, n) /\ i \in 1..a.C  BY <4>0, <4>2 DEF Least
          <5>2. f[i] = led.prefix[i]  BY <5>1, <2>2 DEF Shows
          <5>3. a.prefix[i] = led.prefix[i]  BY <5>1, <2>3
          <5>. QED  BY <5>2, <5>3, <4>1, <4>2, <3>7
        <4>3. CASE ~(i <= a.C)
          <5>1. i - a.C \in 1..to - a.C /\ a.C + (i - a.C) = i  BY <4>0, <4>3
          <5>2. chunk[i - a.C] = f[i]  BY <5>1, <3>6
          <5>. QED  BY <5>2, <4>1, <4>3, <3>7
        <4>. QED  BY <4>2, <4>3
      <3>. QED  BY <2>4, <3>3, <3>9, <3>10, <1>2
    <2>. QED  BY <2>5, <2>6
  <1>. QED  BY <1>4, <1>5

-----------------------------------------------------------------------------
(* A frame that is painted. *)
LEMMA PaintKeeps ==
  ASSUME NEW R, Kept(R), NEW in \in InputType(R), NEW res, res = Step(led, in), NEW newFinal \in Nat,
         Paint(in, res, newFinal)
  PROVE  Kept(R)'
  <1>0. /\ led \in LedgerType(R) /\ hist \in Seq(R) /\ calm \in BOOLEAN
        /\ in.frame \in Seq(R) /\ Len(in.frame) \in Nat /\ in.height \in Nat
    BY DEF Kept, Typed, InputType
  <1>1. led' \in LedgerType(R) /\ led'.C <= led'.W
    BY <1>0, FinishOrders DEF Paint, Emitted, Cleared
  <1>2. Chunk(in, res) \in Seq(R)  BY ChunkIsRows DEF Kept
  <1>3. hist' \in Seq(R)
    BY <1>0, <1>2, ConcatProperties DEF Paint, Emitted, Cleared
  <1>4. calm' \in BOOLEAN  BY <1>0 DEF Paint, Emitted, Cleared
  <1>5. Typed(R)'
    BY <1>0, <1>1, <1>3, <1>4 DEF Typed, Paint
  <1> DEFINE to == res.plan.chunkTo
  <1>6. to \in 0..Len(in.frame) /\ (res.plan.clear => res.plan.kind = "full")
    <2>1. to \in 0..Len(in.frame)  BY <1>0, StepFits
    <2>2. res.plan.clear => res.plan.kind = "full"
      BY DEF Step, PlanCommit
    <2>. QED  BY <2>1, <2>2
  <1>7. led'.C = to
    BY DEF Paint, Emitted, Cleared, Finish
  <1>8. CASE calm' /\ res.plan.kind = "full"
    <2>1. Chunk(in, res) = SubSeq(in.frame, 1, to)  BY <1>8 DEF Chunk
    <2>2. hist' = SubSeq(in.frame, 1, to)
      <3>1. CASE res.plan.clear  BY <3>1, <2>1, <1>2 DEF Paint, Emitted, Cleared
      <3>2. CASE ~res.plan.clear
        <4>1. hist = <<>>  BY <3>2, <1>8 DEF Paint, Emitted, Cleared
        <4>. QED  BY <4>1, <3>2, <2>1, <1>2 DEF Paint, Emitted, Cleared
      <3>. QED  BY <3>1, <3>2
    <2>3. led'.prefix = SubSeq(in.frame, 1, to)  BY <1>8 DEF Paint, Emitted, Cleared, Finish
    <2>. QED  BY <1>5, <1>7, <2>2, <2>3 DEF Kept, OnceInOrder, Paint
  <1>9. CASE calm' /\ res.plan.kind # "full"
    <2>1. calm /\ res.plan.kind = "extend" /\ IsPrefix(led.prefix, in.frame) /\ ~res.plan.clear
      BY <1>6, <1>9 DEF Paint, Emitted, Cleared
    <2>2. hist = led.prefix  BY <2>1 DEF Kept, OnceInOrder
    <2>3. res.led = led
      <3>1. res.audited = led  BY <1>0, <2>1, AlignedFrameIsLeftAlone
      <3>2. res.led = ApplyPrefixMutation(res.audited, in.frame, res.plan)  BY DEF Step
      <3>. QED  BY <3>1, <3>2, <2>1 DEF ApplyPrefixMutation
    <2>4. led.prefix \in Seq(R) /\ led.C = Len(led.prefix) /\ to \in Len(led.prefix)..Len(in.frame)
      <3>1. led.prefix \in Seq(R) /\ led.C = Len(led.prefix)  BY <1>0 DEF LedgerType
      <3>2. Len(led.prefix) <= to  BY <1>0, <2>1, <2>3, StepFits
      <3>. QED  BY <3>1, <3>2, <1>6, <1>0
    <2>5. Chunk(in, res) = SubSeq(in.frame, Len(led.prefix) + 1, to)
      BY <2>1, <2>3, <2>4 DEF Chunk
    <2>6. hist' = SubSeq(in.frame, 1, to)
      <3>1. hist' = led.prefix \o SubSeq(in.frame, Len(led.prefix) + 1, to)
        BY <2>1, <2>2, <2>5 DEF Paint, Emitted, Cleared
      <3> HIDE DEF to
      <3>2. led.prefix \o SubSeq(in.frame, Len(led.prefix) + 1, to) = SubSeq(in.frame, 1, to)
        <4>1. led.prefix \in Seq(R) /\ in.frame \in Seq(R) /\ IsPrefix(led.prefix, in.frame)
          BY <1>0, <2>1, <2>4
        <4>. QED  BY <4>1, <2>4, ExtendedPrefix, Zenon
      <3>. QED  BY <3>1, <3>2
    <2>7. led'.prefix = SubSeq(in.frame, 1, to)
      <3>1. led'.prefix = ExtendPrefix(led.prefix, in.frame, to)
        BY <2>1, <2>3 DEF Paint, Emitted, Cleared, Finish
      <3>. QED  BY <3>1, <1>0, <2>1, <2>4, ExtendedPrefix
    <2>. QED  BY <1>5, <1>7, <2>6, <2>7 DEF Kept, OnceInOrder, Paint
  <1>10. CASE ~calm'
    BY <1>5, <1>10 DEF Kept, OnceInOrder
  <1>. QED  BY <1>8, <1>9, <1>10

(* A scrollback that a write which broke off can leave. *)
LEMMA BrokenIsRows ==
  ASSUME NEW R, Typed(R), NEW in \in InputType(R), NEW res, res = Step(led, in), NEW left \in Broken(in, res)
  PROVE  left \in Seq(R)
  <1>1. Chunk(in, res) \in Seq(R)
    BY ChunkIsRows
  <1>2. Cleared(res) \in Seq(R) /\ hist \in Seq(R)
    BY DEF Cleared, Typed
  <1>3. CASE left = hist  BY <1>3, <1>2
  <1>4. ASSUME NEW k \in 0..Len(Chunk(in, res)), left = Cleared(res) \o SubSeq(Chunk(in, res), 1, k)
        PROVE  left \in Seq(R)
    <2>1. SubSeq(Chunk(in, res), 1, k) \in Seq(R)  BY <1>1, SubSeqOfFrame
    <2>. QED  BY <2>1, <1>4, <1>2, ConcatProperties
  <1>. QED  BY <1>3, <1>4 DEF Broken

(* A frame whose write breaks off. *)
LEMMA EmitFailsKeeps ==
  ASSUME NEW R, Kept(R), NEW in \in InputType(R), NEW res, NEW newFinal \in Nat,
         NEW left \in Seq(R), EmitFails(in, res, newFinal, left)
  PROVE  Kept(R)'
  <1>1. in.frame \in Seq(R)  BY DEF InputType
  <1>. QED  BY <1>1 DEF EmitFails, Kept, Typed, OnceInOrder

(* Either of them. *)
LEMMA DrawKeeps ==
  ASSUME IInv, NEW in \in InputType(Rows), NEW newFinal \in Nat, Draw(in, newFinal)
  PROVE  IInv'
  <1> DEFINE res == Step(led, in)
  <1>1. CASE Paint(in, res, newFinal)
    BY <1>1, PaintKeeps DEF IInv
  <1>2. ASSUME NEW left \in Broken(in, res), EmitFails(in, res, newFinal, left)
        PROVE  IInv'
    <2>1. Typed(Rows)  BY DEF IInv, Kept
    <2>2. left \in Seq(Rows)  BY <2>1, <1>2, BrokenIsRows
    <2>. QED  BY <2>2, <1>2, EmitFailsKeeps DEF IInv
  <1>. QED  BY <1>1, <1>2, Zenon DEF Draw

(* Every step keeps the invariant. *)
LEMMA NextKeeps ==
  ASSUME IInv, Next
  PROVE  IInv'
  <1>1. PICK replace \in May("replace"), n \in 0..MaxRows : \E new \in Frames[n], newFinal \in 0..n :
          /\ Composes(new, newFinal, replace)
          /\ \E h \in Heights, overlay \in May("overlay"), resized \in May("resize"),
                hint \in MayNot("nohint"), retreat \in May("retreat"), snapshot \in May("snapshot") :
               /\ h # height => resized
               /\ Draw(Input(new, newFinal, h, replace, overlay, resized, hint, retreat, snapshot), newFinal)
    BY Zenon DEF Next
  <1>1a. PICK new \in Frames[n], newFinal \in 0..n :
          \E h \in Heights, overlay \in May("overlay"), resized \in May("resize"),
             hint \in MayNot("nohint"), retreat \in May("retreat"), snapshot \in May("snapshot") :
            Draw(Input(new, newFinal, h, replace, overlay, resized, hint, retreat, snapshot), newFinal)
    BY <1>1, ZenonT(40)
  <1>2. PICK h \in Heights, overlay \in May("overlay"), resized \in May("resize"),
             hint \in MayNot("nohint"), retreat \in May("retreat"), snapshot \in May("snapshot") :
          Draw(Input(new, newFinal, h, replace, overlay, resized, hint, retreat, snapshot), newFinal)
    BY <1>1a, Zenon
  <1>3. n \in Nat /\ newFinal \in Nat /\ h \in Nat
    BY LedgerAssumption DEF LedgerAssumption
  <1>4. \A e : \A b : b \in May(e) \/ b \in MayNot(e) => b \in BOOLEAN
    BY Zenon DEF May, MayNot
  <1>5. /\ replace \in BOOLEAN /\ overlay \in BOOLEAN /\ resized \in BOOLEAN
        /\ hint \in BOOLEAN /\ retreat \in BOOLEAN /\ snapshot \in BOOLEAN
    BY <1>4, Zenon
  <1>6. Typed(Rows)  BY DEF IInv, Kept
  <1>7. Input(new, newFinal, h, replace, overlay, resized, hint, retreat, snapshot) \in InputType(Rows)
    <2>1. new \in Seq(Rows) /\ Len(new) \in Int  BY <1>3, FramesAreSequences
    <2>2. (IF hint THEN Common(new, frame) ELSE 0) \in Int
      BY <2>1, <1>6, CommonIsANumber DEF Typed
    <2>3. InPlace \in BOOLEAN /\ Mux \in BOOLEAN  BY LedgerAssumption DEF LedgerAssumption
    <2>4. {Len(new)} \in SUBSET Int  BY <2>1
    <2>5. fresh \in BOOLEAN  BY <1>6 DEF Typed
    <2>6. (IF retreat THEN 0 ELSE newFinal) \in Int /\ (IF snapshot THEN Len(new) ELSE Unset) \in Int
      BY <1>3, <2>1 DEF Unset
    <2>. QED  BY <1>3, <1>5, <2>1, <2>2, <2>3, <2>4, <2>5, <2>6 DEF Input, InputType
  <1>. QED  BY IInv, <1>2, <1>3, <1>7, DrawKeeps, Zenon

(* The empty ledger. *)
LEMMA InitHolds == Init => IInv
  <1> SUFFICES ASSUME Init PROVE IInv  OBVIOUS
  <1>1. led \in LedgerType(Rows) /\ led.C <= led.W /\ led.C = 0 /\ led.prefix = <<>>
    BY DEF Init, EmptyLedger, LedgerType
  <1>2. height \in Nat  BY LedgerAssumption DEF Init, LedgerAssumption
  <1>3. frame = <<>> /\ hist = <<>>  BY DEF Init
  <1>. QED  BY <1>1, <1>2, <1>3 DEF Init, IInv, Kept, Typed, OnceInOrder

(* The inductive invariant: typed, marks ordered, and a calm history is    *)
(* exactly the committed prefix.                                           *)
THEOREM LedgerInvariant == Spec => []IInv
  <1>1. IInv /\ UNCHANGED vars => IInv'
    BY DEF vars, IInv, Kept, Typed, OnceInOrder
  <1>. QED  BY <1>1, InitHolds, NextKeeps, PTL DEF Spec

(* State's marks (ledger.go 5-9): the audited rows are durable, durable    *)
(* rows are committed, a committed row is never in the window, and the     *)
(* stored prefix is as long as the counter says, for every component,      *)
(* viewport and sequence of resizes, replacements and failed emits.        *)
THEOREM MarksStayOrdered == Spec => []MarksOrdered
  <1>1. IInv => MarksOrdered
    BY DEF IInv, Kept, Typed, LedgerType, MarksOrdered
  <1>. QED  BY <1>1, LedgerInvariant, PTL

(* ledger/doc.go's first invariant, for every frame: in a calm history the *)
(* scrollback is the committed part of the frame, each row exactly once.   *)
THEOREM HistoryIsTheFrame == Spec => []OnceInOrder
  <1>1. IInv => OnceInOrder
    BY DEF IInv, Kept
  <1>. QED  BY <1>1, LedgerInvariant, PTL


-----------------------------------------------------------------------------
(* The engine. *)

-----------------------------------------------------------------------------
(* Least and greatest rows, and the range between them. *)
LEMMA FirstRow ==
  ASSUME NEW S \in SUBSET Nat, S # {}
  PROVE  Min(S) \in S /\ \A y \in S : Min(S) <= y
  <1>1. PICK x \in S : \A y \in S : <<y, x>> \notin OpToRel(<, Nat)
    BY NatLessThanWellFounded, WFMin
  <1>2. \A a, b \in Nat : a < b => <<a, b>> \in OpToRel(<, Nat)  BY DEF OpToRel
  <1>3. x \in Nat /\ \A y \in S : y \in Nat /\ ~(y < x)  BY <1>1, <1>2
  <1>4. \A y \in S : x <= y  BY <1>3
  <1>. QED  BY <1>4 DEF Min

(* A non-empty set of rows has a last one. *)
LEMMA LastRow ==
  ASSUME NEW n \in Nat, NEW S \in SUBSET (1..n), S # {}
  PROVE  Max(S) \in S /\ \A y \in S : y <= Max(S)
  <1> DEFINE T == {n - y : y \in S}
  <1>0. \A y \in S : y \in 1..n /\ n - y \in Nat  OBVIOUS
  <1>1. T \in SUBSET Nat /\ T # {}  BY <1>0
  <1>2. PICK x \in S : Min(T) = n - x  BY <1>1, FirstRow
  <1>3. \A y \in S : n - x <= n - y
    <2>1. \A z1 \in T : Min(T) <= z1  BY <1>1, FirstRow
    <2>. QED  BY <2>1, <1>2
  <1>4. \A y \in S : x >= y  BY <1>3, <1>0
  <1>5. Max(S) \in S /\ \A y \in S : Max(S) >= y  BY <1>4 DEF Max
  <1>. QED  BY <1>5, <1>0

(* The span of changed rows runs from the first to the last of them and holds
   the window's rows. *)
LEMMA SpanRows ==
  ASSUME NEW R, NEW window \in Seq(R), NEW S \in SUBSET (1..Len(window)), S # {}
  PROVE  /\ Min(S) \in 1..Len(window) /\ Max(S) \in Min(S)..Len(window)
         /\ \A r \in S : Min(S) <= r /\ r <= Max(S)
         /\ Span(window, S) \in Seq(R) /\ Len(Span(window, S)) = Max(S) - Min(S) + 1
         /\ \A i \in 1..Len(Span(window, S)) : Span(window, S)[i] = window[Min(S) + i - 1]
  <1> DEFINE a == Min(S)  b == Max(S)  n == Len(window)
  <1>0. n \in Nat /\ S \in SUBSET Nat /\ \A i \in 1..n : window[i] \in R  OBVIOUS
  <1>1. a \in S /\ \A y \in S : a <= y  BY <1>0, FirstRow
  <1>2. b \in S /\ \A y \in S : y <= b  BY <1>0, LastRow
  <1> HIDE DEF a, b, n
  <1>3. a \in 1..n /\ b \in a..n
    <2>1. a \in 1..n /\ b \in 1..n /\ a <= b  BY <1>1, <1>2 DEF n
    <2>. QED  BY <2>1, <1>0
  <1>4. Span(window, S) = SubSeq(window, a, b)  BY DEF Span, a, b
  <1>5. /\ SubSeq(window, a, b) \in Seq(R) /\ Len(SubSeq(window, a, b)) = b - a + 1
        /\ \A i \in 1..b - a + 1 : SubSeq(window, a, b)[i] = window[a + i - 1]
    <2>1. a \in Int /\ b \in Int /\ a <= b /\ \A i \in a..b : window[i] \in R  BY <1>0, <1>3
    <2>. QED  BY <2>1, SubSeqProperties
  <1>. QED  BY <1>1, <1>2, <1>3, <1>4, <1>5 DEF a, b, n

-----------------------------------------------------------------------------
(* Terminals whose rows come from R, the cursor on the screen. *)
TerminalType(R) ==
  {t \in [screen : Seq(R), row : Nat, scroll : Seq(R)] : t.row < Len(t.screen)}

(* Row i of the screen and of the lines written over it from row "at" on.  *)
CanvasRow(t, at, rows, i) ==
  IF i <= at THEN t.screen[i] ELSE IF i <= at + Len(rows) THEN rows[i - at] ELSE t.screen[i]
Over(t, at, rows) == Greatest(0, at + Len(rows) - Len(t.screen))

(* What it means to be a terminal, field by field. *)
LEMMA TerminalFacts ==
  ASSUME NEW R, NEW t \in TerminalType(R)
  PROVE  /\ t.screen \in Seq(R) /\ t.scroll \in Seq(R) /\ t.row \in Nat
         /\ Len(t.screen) \in Nat \ {0} /\ t.row < Len(t.screen)
         /\ t = [screen |-> t.screen, row |-> t.row, scroll |-> t.scroll]
         /\ \A i \in 1..Len(t.screen) : t.screen[i] \in R
  BY DEF TerminalType

(* A cursor move stays on the screen and changes no row; within the screen it
   is exact. *)
LEMMA MoveFits ==
  ASSUME NEW R, NEW t \in TerminalType(R), NEW d \in Int
  PROVE  /\ Move(t, d) \in TerminalType(R)
         /\ Move(t, d).screen = t.screen /\ Move(t, d).scroll = t.scroll
         /\ t.row + d \in 0..Len(t.screen) - 1 => Move(t, d).row = t.row + d
  <1> DEFINE r == Clamp(t.row + d, 0, Len(t.screen) - 1)
  <1>1. t.screen \in Seq(R) /\ t.scroll \in Seq(R) /\ t.row \in Nat /\ Len(t.screen) \in Nat \ {0}
    BY TerminalFacts
  <1>2. r \in Nat /\ r < Len(t.screen) /\ (t.row + d \in 0..Len(t.screen) - 1 => r = t.row + d)
    BY <1>1 DEF Clamp
  <1>3. Move(t, d) = [screen |-> t.screen, row |-> r, scroll |-> t.scroll]
    BY DEF Move, TerminalType
  <1> HIDE DEF r
  <1>. QED  BY <1>1, <1>2, <1>3 DEF TerminalType

(* What writing rows does to a terminal. *)
Written(R, t, at, rows, p) ==
  LET over == Over(t, at, rows)
  IN  /\ p \in TerminalType(R) /\ Len(p.screen) = Len(t.screen)
      /\ p.row = Least(Len(t.screen) - 1, at + Len(rows) - 1)
      /\ \A r \in 1..Len(t.screen) : p.screen[r] = CanvasRow(t, at, rows, over + r)
      /\ \E q \in Seq(R) : /\ p.scroll = t.scroll \o q /\ Len(q) = over
                           /\ \A i \in 1..over : q[i] = CanvasRow(t, at, rows, i)

(* Writing rows from a position: what the screen, the cursor and the
   scrollback are afterwards. *)
LEMMA PutFits ==
  ASSUME NEW R, NEW t \in TerminalType(R), NEW at \in 0..Len(t.screen), NEW rows \in Seq(R), rows # <<>>
  PROVE  Written(R, t, at, rows, Put(t, at, rows))
  <1> DEFINE h      == Len(t.screen)
             n      == Len(rows)
             left   == SubSeq(t.screen, 1, at)
             right  == SubSeq(t.screen, at + n + 1, h)
             canvas == left \o rows \o right
             over   == Over(t, at, rows)
             total  == h + over
  <1>0. /\ t.screen \in Seq(R) /\ t.scroll \in Seq(R) /\ h \in Nat \ {0} /\ at \in Nat /\ at <= h
        /\ \A i \in 1..h : t.screen[i] \in R
    BY TerminalFacts
  <1>1. n \in Nat \ {0}  BY EmptySeq
  <1>h. h = Len(t.screen) /\ n = Len(rows)  OBVIOUS
  <1> HIDE DEF h, n
  <1>2. over \in Nat /\ over = (IF at + n > h THEN at + n - h ELSE 0)
    <2>1. over = Greatest(0, at + n - h)  BY <1>h DEF Over
    <2>2. at + n - h \in Int  BY <1>0, <1>1
    <2> HIDE DEF over
    <2>. QED  BY <2>1, <2>2, <1>0, <1>1 DEF Greatest
  <1>3. left \in Seq(R) /\ Len(left) = at /\ \A i \in 1..at : left[i] = t.screen[i]
    BY <1>0, <1>h, SubSeqOfFrame
  <1>4. /\ right \in Seq(R) /\ Len(right) = (IF at + n + 1 <= h THEN h - (at + n) ELSE 0)
        /\ \A i \in 1..h - (at + n) : right[i] = t.screen[at + n + i]
    <2>1. at + n + 1 \in Int /\ h \in Int /\ \A i \in at + n + 1..h : t.screen[i] \in R  BY <1>0, <1>1
    <2>2. /\ right \in Seq(R) /\ Len(right) = IF at + n + 1 <= h THEN h - (at + n + 1) + 1 ELSE 0
          /\ \A i \in 1..h - (at + n + 1) + 1 : right[i] = t.screen[(at + n + 1) + i - 1]
      BY <2>1, SubSeqProperties
    <2>. QED  BY SMTT(40), <2>2, <1>0, <1>1
  <1> HIDE DEF left, right, over
  <1>5. /\ left \o rows \in Seq(R) /\ Len(left \o rows) = at + n
        /\ \A i \in 1..at + n : (left \o rows)[i] = IF i <= at THEN t.screen[i] ELSE rows[i - at]
    <2>1. /\ left \o rows \in Seq(R) /\ Len(left \o rows) = Len(left) + Len(rows)
          /\ \A i \in 1..Len(left) + Len(rows) :
               (left \o rows)[i] = IF i <= Len(left) THEN left[i] ELSE rows[i - Len(left)]
      BY <1>3, ConcatProperties
    <2>2. \A i \in 1..at + n : (left \o rows)[i] = IF i <= at THEN t.screen[i] ELSE rows[i - at]
      <3> TAKE i \in 1..at + n
      <3>1. i <= at => i \in 1..at  BY <1>0, <1>1
      <3>. QED  BY <3>1, <2>1, <1>3, <1>h
    <2>. QED  BY <2>1, <2>2, <1>3, <1>h
  <1>6. /\ canvas \in Seq(R) /\ Len(canvas) = total
        /\ \A i \in 1..total : canvas[i] = CanvasRow(t, at, rows, i)
    <2> DEFINE m == left \o rows
    <2> HIDE DEF m
    <2>1. /\ m \o right \in Seq(R) /\ Len(m \o right) = Len(m) + Len(right)
          /\ \A i \in 1..Len(m) + Len(right) : (m \o right)[i] = IF i <= Len(m) THEN m[i] ELSE right[i - Len(m)]
      BY <1>4, <1>5, ConcatProperties DEF m
    <2>2. Len(m) = at + n /\ Len(m) + Len(right) = total  BY <1>0, <1>1, <1>2, <1>4, <1>5 DEF m
    <2>3. \A i \in 1..total : (m \o right)[i] = CanvasRow(t, at, rows, i)
      <3> TAKE i \in 1..total
      <3>1. CASE i <= at + n
        BY <3>1, <2>1, <2>2, <1>0, <1>1, <1>5, <1>h DEF m, CanvasRow
      <3>2. CASE ~(i <= at + n)
        <4>1. i - (at + n) \in 1..h - (at + n) /\ ~(i <= at)  BY <3>2, <1>0, <1>1, <1>2
        <4>2. (m \o right)[i] = right[i - (at + n)]  BY <3>2, <2>1, <2>2
        <4>3. right[i - (at + n)] = t.screen[at + n + (i - (at + n))]  BY <4>1, <1>4
        <4>4. at + n + (i - (at + n)) = i  BY <1>0, <1>1, <4>1
        <4>. QED  BY <4>1, <4>2, <4>3, <4>4, <3>2, <1>h DEF CanvasRow
      <3>. QED  BY <3>1, <3>2
    <2>. QED  BY <2>1, <2>2, <2>3 DEF m
  <1> HIDE DEF canvas
  <1>7. Len(canvas) - h = over  BY <1>0, <1>2, <1>6
  <1>8. Put(t, at, rows) = [screen |-> SubSeq(canvas, over + 1, over + h),
                            row    |-> Least(h - 1, at + n - 1),
                            scroll |-> t.scroll \o SubSeq(canvas, 1, over)]
    BY <1>7, <1>h DEF Put, canvas, left, right, n, h
  <1>9. /\ SubSeq(canvas, over + 1, over + h) \in Seq(R) /\ Len(SubSeq(canvas, over + 1, over + h)) = h
        /\ \A r \in 1..h : SubSeq(canvas, over + 1, over + h)[r] = CanvasRow(t, at, rows, over + r)
    <2>1. over + 1 \in Int /\ over + h \in Int /\ \A i \in over + 1..over + h : canvas[i] \in R
      BY <1>0, <1>2, <1>6
    <2> DEFINE a == over + 1  b == over + h
    <2>0. over \in Nat /\ h \in Nat \ {0}  BY <1>0, <1>2
    <2>2. /\ a \in Int /\ b \in Int /\ a <= b /\ b - a + 1 = h
          /\ \A r \in 1..h : a + r - 1 = over + r /\ over + r \in 1..total
      BY <2>0
    <2>3. \A i \in a..b : canvas[i] \in R  BY <2>1
    <2> HIDE DEF a, b
    <2>4. /\ SubSeq(canvas, a, b) \in Seq(R) /\ Len(SubSeq(canvas, a, b)) = IF a <= b THEN b - a + 1 ELSE 0
          /\ \A r \in 1..b - a + 1 : SubSeq(canvas, a, b)[r] = canvas[a + r - 1]
      BY <2>2, <2>3, SubSeqProperties
    <2>5. /\ SubSeq(canvas, a, b) \in Seq(R) /\ Len(SubSeq(canvas, a, b)) = h
          /\ \A r \in 1..h : SubSeq(canvas, a, b)[r] = CanvasRow(t, at, rows, over + r)
      BY <2>2, <2>4, <1>6
    <2>. QED  BY <2>5 DEF a, b
  <1>10. /\ SubSeq(canvas, 1, over) \in Seq(R) /\ Len(SubSeq(canvas, 1, over)) = over
         /\ \A i \in 1..over : SubSeq(canvas, 1, over)[i] = CanvasRow(t, at, rows, i)
    <2>1. over \in 0..Len(canvas)  BY <1>0, <1>2, <1>6
    <2>2. /\ SubSeq(canvas, 1, over) \in Seq(R) /\ Len(SubSeq(canvas, 1, over)) = over
          /\ \A i \in 1..over : SubSeq(canvas, 1, over)[i] = canvas[i]
      BY <2>1, <1>6, SubSeqOfFrame
    <2>3. \A i \in 1..over : i \in 1..total  BY <1>0, <1>2
    <2>. QED  BY <2>2, <2>3, <1>6
  <1>11. Least(h - 1, at + n - 1) \in Nat /\ Least(h - 1, at + n - 1) < h  BY <1>0, <1>1 DEF Least
  <1>12. t.scroll \o SubSeq(canvas, 1, over) \in Seq(R)  BY <1>0, <1>10, ConcatProperties
  <1> DEFINE screen == SubSeq(canvas, over + 1, over + h)
             pushed == SubSeq(canvas, 1, over)
             down   == Least(h - 1, at + n - 1)
             p      == Put(t, at, rows)
  <1> HIDE DEF screen, pushed, down, p
  <1>13. p = [screen |-> screen, row |-> down, scroll |-> t.scroll \o pushed]
    BY <1>8 DEF screen, pushed, down, p
  <1>14. p.screen = screen /\ p.row = down /\ p.scroll = t.scroll \o pushed  BY <1>13
  <1>15. p \in TerminalType(R)
    BY <1>9, <1>11, <1>12, <1>13, <1>h DEF TerminalType, screen, pushed, down
  <1>. QED  BY <1>9, <1>10, <1>14, <1>15, <1>h DEF Written, over, screen, pushed, down, p

(* Rows that fill the screen from its top: the last of them stay, the      *)
(* others scroll out.                                                      *)
Flowed(R, t, chunk, window, p) ==
  /\ p \in TerminalType(R) /\ p.screen = window /\ p.scroll = t.scroll \o chunk
  /\ p.row = Len(window) - 1

(* A chunk and a window written from the top row: the chunk goes to the
   scrollback, the window stays. *)
LEMMA FlowsFromTop ==
  ASSUME NEW R, NEW t \in TerminalType(R), NEW chunk \in Seq(R), NEW window \in Seq(R),
         Len(window) = Len(t.screen)
  PROVE  Flowed(R, t, chunk, window, Put(t, 0, chunk \o window))
  <1> DEFINE h == Len(t.screen)  n == Len(chunk)  rows == chunk \o window  p == Put(t, 0, rows)
             over == Over(t, 0, rows)
  <1>0. h \in Nat \ {0} /\ n \in Nat /\ t.screen \in Seq(R)  BY TerminalFacts
  <1>h. h = Len(t.screen) /\ h = Len(window) /\ n = Len(chunk)  OBVIOUS
  <1> HIDE DEF h, n
  <1>1. /\ rows \in Seq(R) /\ Len(rows) = n + h
        /\ \A i \in 1..n + h : rows[i] = IF i <= n THEN chunk[i] ELSE window[i - n]
    <2>1. /\ chunk \o window \in Seq(R) /\ Len(chunk \o window) = Len(chunk) + Len(window)
          /\ \A i \in 1..Len(chunk) + Len(window) :
               (chunk \o window)[i] = IF i <= Len(chunk) THEN chunk[i] ELSE window[i - Len(chunk)]
      BY ConcatProperties
    <2>. QED  BY <2>1, <1>h
  <1> HIDE DEF rows
  <1>2. rows # <<>>
    <2>1. Len(rows) # 0  BY <1>0, <1>1
    <2>. QED  BY <2>1, EmptySeq
  <1>3. over = n
    <2>1. over = Greatest(0, 0 + (n + h) - h)  BY <1>1, <1>h DEF Over
    <2>. QED  BY <2>1, <1>0 DEF Greatest
  <1> HIDE DEF over
  <1>4. 0 \in 0..Len(t.screen)  BY <1>0, <1>h
  <1>5. /\ p \in TerminalType(R) /\ Len(p.screen) = h
        /\ p.row = Least(h - 1, 0 + Len(rows) - 1)
        /\ \A r \in 1..h : p.screen[r] = CanvasRow(t, 0, rows, over + r)
        /\ \E q \in Seq(R) : /\ p.scroll = t.scroll \o q /\ Len(q) = over
                             /\ \A i \in 1..over : q[i] = CanvasRow(t, 0, rows, i)
    <2>1. Written(R, t, 0, rows, p)  BY <1>1, <1>2, <1>4, PutFits
    <2> HIDE DEF p
    <2>. QED  BY <2>1, <1>h DEF Written, over
  <1> HIDE DEF p
  <1>6. \A i \in 1..n + h : CanvasRow(t, 0, rows, i) = rows[i]
    <2> TAKE i \in 1..n + h
    <2>1. ~(i <= 0) /\ i <= 0 + Len(rows) /\ i - 0 = i  BY <1>0, <1>1
    <2>. QED  BY <2>1 DEF CanvasRow
  <1>7. p.screen = window
    <2>1. p.screen \in Seq(R)  BY <1>5 DEF TerminalType
    <2>2. \A r \in 1..h : p.screen[r] = window[r]
      <3> TAKE r \in 1..h
      <3>1. n + r \in 1..n + h /\ ~(n + r <= n) /\ n + r - n = r  BY <1>0
      <3>. QED  BY SMTT(40), <3>1, <1>1, <1>3, <1>5, <1>6
    <2>. QED  BY <2>1, <2>2, <1>5, <1>h, SeqEqual
  <1>8. p.scroll = t.scroll \o chunk
    <2>1. PICK q \in Seq(R) : /\ p.scroll = t.scroll \o q /\ Len(q) = over
                              /\ \A i \in 1..over : q[i] = CanvasRow(t, 0, rows, i)
      BY <1>5
    <2>2. \A i \in 1..n : q[i] = chunk[i]
      <3> TAKE i \in 1..n
      <3>1. i \in 1..n + h /\ i <= n  BY <1>0
      <3>. QED  BY <3>1, <2>1, <1>1, <1>3, <1>6
    <2>3. q = chunk  BY <2>1, <2>2, <1>3, <1>h, SeqEqual
    <2>. QED  BY <2>1, <2>3
  <1>9. p.row = h - 1  BY <1>0, <1>1, <1>5 DEF Least
  <1>. QED  BY <1>5, <1>7, <1>8, <1>9, <1>h DEF p, rows, Flowed

-----------------------------------------------------------------------------
(* Emissions for a screen of h rows. *)
EmissionType(R, h) ==
  {e \in [from : TerminalType(R), at : Nat, lines : Seq(R), back : Int, fix : Seq(R), park : Int, ends : Int] :
     Len(e.from.screen) = h /\ e.at <= h}

(* A write that breaks off anywhere leaves a terminal of the same height. *)
LEMMA CutOffFits ==
  ASSUME NEW R, NEW h \in Nat, NEW e \in EmissionType(R, h), NEW k \in 0..Len(e.lines)
  PROVE  CutOff(e, k) \in TerminalType(R) /\ Len(CutOff(e, k).screen) = h
  <1> DEFINE rows == SubSeq(e.lines, 1, k)
  <1>1. /\ e.from \in TerminalType(R) /\ Len(e.from.screen) = h /\ e.at \in 0..Len(e.from.screen)
        /\ e.lines \in Seq(R)
    BY DEF EmissionType
  <1>2. rows \in Seq(R)  BY <1>1, SubSeqOfFrame
  <1>3. CutOff(e, k) = Put(e.from, e.at, rows)  BY DEF CutOff
  <1> HIDE DEF rows
  <1>4. CASE rows = <<>>  BY <1>1, <1>3, <1>4 DEF Put
  <1>5. CASE rows # <<>>  BY <1>1, <1>2, <1>3, <1>5, PutFits DEF Written
  <1>. QED  BY <1>4, <1>5

(* A write that arrives whole leaves a terminal of the same height. *)
LEMMA ArrivedFits ==
  ASSUME NEW R, NEW h \in Nat, NEW e \in EmissionType(R, h), NEW target \in Int
  PROVE  Arrived(e, target) \in TerminalType(R) /\ Len(Arrived(e, target).screen) = h
  <1> DEFINE lines  == CutOff(e, Len(e.lines))
             fixing == Move(lines, e.back)
             fixed  == IF e.fix = <<>> THEN lines ELSE Put(fixing, fixing.row, e.fix)
             parked == Move(fixed, e.park)
  <1>1. /\ e.lines \in Seq(R) /\ e.back \in Int /\ e.fix \in Seq(R) /\ e.park \in Int /\ e.ends \in Int
        /\ Len(e.lines) \in 0..Len(e.lines)
    BY DEF EmissionType
  <1>2. lines \in TerminalType(R) /\ Len(lines.screen) = h  BY <1>1, CutOffFits
  <1> HIDE DEF lines
  <1>3. fixing \in TerminalType(R) /\ Len(fixing.screen) = h  BY <1>1, <1>2, MoveFits
  <1>4. fixing.row \in 0..Len(fixing.screen)  BY <1>3, TerminalFacts
  <1> HIDE DEF fixing
  <1>5. fixed \in TerminalType(R) /\ Len(fixed.screen) = h
    <2>1. CASE e.fix = <<>>  BY <2>1, <1>2
    <2>2. CASE e.fix # <<>>  BY SMTT(40), <2>2, <1>1, <1>3, <1>4, PutFits DEF Written
    <2>. QED  BY <2>1, <2>2
  <1> HIDE DEF fixed
  <1>6. parked \in TerminalType(R) /\ Len(parked.screen) = h  BY <1>1, <1>5, MoveFits
  <1>7. Arrived(e, target) = IF target = NoCursor THEN parked ELSE Move(parked, target - e.ends)
    BY DEF Arrived, parked, fixed, fixing, lines
  <1> HIDE DEF parked
  <1>8. target - e.ends \in Int  BY <1>1
  <1>. QED  BY <1>6, <1>7, <1>8, MoveFits

(* The screen shows the window, the chunk is in the scrollback, and the    *)
(* engine is right about the cursor.                                       *)
Lands(e, window, scroll, top) ==
  LET p == Arrived(e, NoCursor)
  IN  p.screen = window /\ p.scroll = scroll /\ e.ends = top + p.row

(* With the cursor put on its target, if that is a row of the window.      *)
LEMMA TargetLands ==
  ASSUME NEW R, NEW h \in Nat, NEW e \in EmissionType(R, h), NEW window, NEW scroll, NEW top \in Nat,
         NEW target \in Int, target # NoCursor => target \in top..top + h - 1,
         Lands(e, window, scroll, top)
  PROVE  LET a == Arrived(e, target)
         IN  /\ a.screen = window /\ a.scroll = scroll
             /\ (IF target = NoCursor THEN e.ends ELSE target) = top + a.row
  <1> DEFINE p == Arrived(e, NoCursor)
  <1>1. p \in TerminalType(R) /\ Len(p.screen) = h  BY ArrivedFits DEF NoCursor
  <1>2. p.screen = window /\ p.scroll = scroll /\ e.ends = top + p.row  BY DEF Lands
  <1>3. CASE target = NoCursor  BY <1>2, <1>3
  <1>4. CASE target # NoCursor
    <2>1. Arrived(e, target) = Move(p, target - e.ends)  BY <1>4 DEF Arrived, NoCursor
    <2> HIDE DEF p
    <2>2. p.row \in Nat  BY <1>1, TerminalFacts
    <2>3. target - e.ends \in Int /\ p.row + (target - e.ends) = target - top  BY <2>2, <1>2
    <2>4. p.row + (target - e.ends) \in 0..Len(p.screen) - 1  BY <2>3, <1>1, <1>4
    <2>5. /\ Move(p, target - e.ends).screen = p.screen /\ Move(p, target - e.ends).scroll = p.scroll
          /\ Move(p, target - e.ends).row = p.row + (target - e.ends)
      BY <1>1, <2>3, <2>4, MoveFits
    <2>6. target = top + (target - top)  OBVIOUS
    <2>. QED  BY <1>2, <1>4, <2>1, <2>3, <2>5, <2>6
  <1>. QED  BY <1>3, <1>4

-----------------------------------------------------------------------------
(* A Draw about to write: its input, its plan and the window to be shown.  *)
Given(R, in, res, window) ==
  /\ Blank \in R /\ term \in TerminalType(R) /\ shown \in Seq(R) /\ hw \in Int /\ led.W \in Nat
  /\ in.height \in Nat \ {0} /\ in.frame \in Seq(R)
  /\ res.plan.top \in Nat /\ Chunk(in, res) \in Seq(R)
  /\ window \in Seq(R) /\ Len(window) = in.height

(* The engine knows the screen. *)
Known(in) == in.height = Len(term.screen) /\ term.screen = shown /\ hw = led.W + term.row

(* The number of content rows is between one and the height. *)
LEMMA ContentFits ==
  ASSUME NEW len \in Int, NEW top \in Int, NEW h \in Nat \ {0}
  PROVE  ContentRows(len, top, h) \in 1..h
  BY DEF ContentRows, Clamp

(* An erased screen is a sequence of blank rows of the right height. *)
LEMMA BlankScreen ==
  ASSUME NEW R, Blank \in R, NEW h \in Nat
  PROVE  BlankRows(h) \in Seq(R) /\ Len(BlankRows(h)) = h
  <1>1. BlankRows(h) \in [1..h -> R]  BY DEF BlankRows
  <1>2. BlankRows(h) \in Seq(R)  BY <1>1
  <1>3. Len(BlankRows(h)) = h  BY <1>2 DEF BlankRows
  <1>. QED  BY <1>2, <1>3

(* Everything a Draw writes, in whatever state the terminal is. *)
LEMMA FullPaintFits ==
  ASSUME NEW R, NEW in, NEW res, NEW window, Given(R, in, res, window)
  PROVE  FullPaint(in, res, window) \in EmissionType(R, Len(term.screen))
  <1> DEFINE e == FullPaint(in, res, window)  h == Len(term.screen)
             content == ContentRows(Len(in.frame), res.plan.top, in.height)
             from == [screen |-> BlankRows(h), row |-> 0, scroll |-> IF res.plan.clear THEN <<>> ELSE term.scroll]
             lines == Chunk(in, res) \o window
  <1>1. term.scroll \in Seq(R) /\ h \in Nat \ {0} /\ Blank \in R  BY TerminalFacts DEF Given
  <1>2. content \in 1..in.height /\ in.height \in Nat /\ res.plan.top \in Nat
    <2>1. Len(in.frame) \in Int /\ res.plan.top \in Nat /\ in.height \in Nat \ {0}  BY DEF Given
    <2>2. res.plan.top \in Int  BY <2>1
    <2>3. content \in 1..in.height  BY <2>1, <2>2, ContentFits
    <2>. QED  BY <2>1, <2>3
  <1>3. BlankRows(h) \in Seq(R) /\ Len(BlankRows(h)) = h  BY <1>1, BlankScreen
  <1>4. lines \in Seq(R)  BY ConcatProperties DEF Given
  <1>5. <<>> \in Seq(R)  BY EmptySeq
  <1>6. e = [from |-> from, at |-> 0, lines |-> lines, back |-> 0, fix |-> <<>>,
             park |-> content - in.height, ends |-> res.plan.top + content - 1]
    BY DEF FullPaint
  <1> HIDE DEF content, lines, h, e
  <1>7. from \in TerminalType(R) /\ Len(from.screen) = h
    BY <1>1, <1>3, <1>5 DEF TerminalType
  <1> HIDE DEF from
  <1>8. content - in.height \in Int /\ res.plan.top + content - 1 \in Int  BY <1>2
  <1>9. e \in EmissionType(R, h)  BY <1>1, <1>4, <1>5, <1>6, <1>7, <1>8 DEF EmissionType
  <1>. QED  BY <1>9 DEF e, h

(* The remembered hardware row, clamped, is a row of the screen. *)
LEMMA ScreenRowFits ==
  ASSUME NEW R, NEW in, NEW res, NEW window, Given(R, in, res, window)
  PROVE  ScreenRow(in) \in 0..in.height - 1
  <1>1. hw \in Int /\ led.W \in Nat /\ in.height \in Nat \ {0}  BY DEF Given
  <1>2. Least(hw, led.W + in.height - 1) - led.W \in Int  BY <1>1 DEF Least
  <1>. QED  BY <1>1, <1>2 DEF ScreenRow, Clamp

(* The engine's cursor row, when it knows the screen. *)
LEMMA ScreenRowKnown ==
  ASSUME NEW R, NEW in, NEW res, NEW window, Given(R, in, res, window), Known(in)
  PROVE  ScreenRow(in) = term.row
  <1>1. led.W \in Nat /\ in.height \in Nat \ {0} /\ term.row \in 0..in.height - 1 /\ hw = led.W + term.row
    BY TerminalFacts DEF Given, Known
  <1>2. Least(hw, led.W + in.height - 1) - led.W = term.row  BY <1>1 DEF Least
  <1>. QED  BY <1>1, <1>2 DEF ScreenRow, Clamp

(* What the seam rewrite writes is an emission. *)
LEMMA SeamRewriteFits ==
  ASSUME NEW R, NEW in, NEW res, NEW window, Given(R, in, res, window)
  PROVE  SeamRewrite(in, res, window) \in EmissionType(R, Len(term.screen))
  <1> DEFINE e == SeamRewrite(in, res, window)  h == Len(term.screen)
             content == ContentRows(Len(in.frame), res.plan.top, in.height)
             from == Move(term, -ScreenRow(in))
             lines == Chunk(in, res) \o window
  <1>1. term \in TerminalType(R) /\ h \in Nat \ {0}  BY TerminalFacts DEF Given
  <1>2. content \in 1..in.height /\ in.height \in Nat /\ res.plan.top \in Nat
    <2>1. Len(in.frame) \in Int /\ res.plan.top \in Nat /\ in.height \in Nat \ {0}  BY DEF Given
    <2>2. res.plan.top \in Int  BY <2>1
    <2>3. content \in 1..in.height  BY <2>1, <2>2, ContentFits
    <2>. QED  BY <2>1, <2>3
  <1>3. from \in TerminalType(R) /\ Len(from.screen) = h
    <2>1. -ScreenRow(in) \in Int  BY <1>2, ScreenRowFits
    <2>. QED  BY <2>1, <1>1, MoveFits
  <1>4. lines \in Seq(R) /\ <<>> \in Seq(R)  BY ConcatProperties, EmptySeq DEF Given
  <1>5. from.row \in Nat /\ from.row <= h  BY <1>3, TerminalFacts
  <1>6. e = [from |-> from, at |-> from.row, lines |-> lines, back |-> 0, fix |-> <<>>,
             park |-> content - in.height, ends |-> res.plan.top + content - 1]
    BY DEF SeamRewrite
  <1> HIDE DEF content, lines, from, h, e
  <1>7. content - in.height \in Int /\ res.plan.top + content - 1 \in Int  BY <1>2
  <1>8. e \in EmissionType(R, h)  BY <1>3, <1>4, <1>5, <1>6, <1>7 DEF EmissionType
  <1>. QED  BY <1>8 DEF e, h

(* What the scrolling append writes is an emission. *)
LEMMA ScrollAppendFits ==
  ASSUME NEW R, NEW in, NEW res, NEW window, NEW forced, Given(R, in, res, window),
         ScrollAppends(in, res, forced)
  PROVE  ScrollAppend(in, res, window) \in EmissionType(R, Len(term.screen))
  <1> DEFINE e == ScrollAppend(in, res, window)  h == in.height  n == Len(Chunk(in, res))
             changed == {r \in 1..h - n : window[r] # shown[r + n]}
             from == Move(term, h - 1 - ScreenRow(in))
             lines == SubSeq(window, h - n + 1, h)
             back == IF changed = {} THEN 0 ELSE Min(changed) - h
             fix == Span(window, changed)
             ends == res.plan.top + (IF changed = {} THEN h ELSE Max(changed)) - 1
  <1>1. /\ term \in TerminalType(R) /\ Len(term.screen) \in Nat \ {0} /\ window \in Seq(R) /\ Len(window) = h
        /\ h \in Nat \ {0} /\ res.plan.top \in Nat /\ n \in Nat /\ n < h
    BY TerminalFacts DEF Given, ScrollAppends
  <1>2. from \in TerminalType(R) /\ Len(from.screen) = Len(term.screen)
    <2>1. h - 1 - ScreenRow(in) \in Int  BY <1>1, ScreenRowFits
    <2>. QED  BY <2>1, <1>1, MoveFits
  <1>3. from.row + 1 \in Nat /\ from.row + 1 <= Len(term.screen)  BY <1>2, TerminalFacts
  <1>4. lines \in Seq(R)
    <2>1. \A i \in h - n + 1..h : window[i] \in R  BY <1>1
    <2>2. h - n + 1 \in Int /\ h \in Int  BY <1>1
    <2>. QED  BY <2>1, <2>2, SubSeqProperties
  <1>5. changed \in SUBSET (1..Len(window))  BY <1>1
  <1>6. /\ back \in Int /\ fix \in Seq(R) /\ ends \in Int
    <2>1. CASE changed = {}  BY <2>1, <1>1, EmptySeq DEF Span
    <2>2. CASE changed # {}
      <3>1. Min(changed) \in 1..Len(window) /\ Max(changed) \in Min(changed)..Len(window) /\ Span(window, changed) \in Seq(R)
        BY <1>1, <1>5, <2>2, SpanRows
      <3> HIDE DEF changed
      <3>. QED  BY <3>1, <2>2, <1>1
    <2>. QED  BY <2>1, <2>2
  <1>7. e = [from |-> from, at |-> from.row + 1, lines |-> lines, back |-> back, fix |-> fix, park |-> 0, ends |-> ends]
    BY DEF ScrollAppend
  <1> HIDE DEF e, from, lines, back, fix, ends, changed
  <1>. QED  BY <1>2, <1>3, <1>4, <1>6, <1>7 DEF EmissionType, e

(* What the window diff writes is an emission. *)
LEMMA WindowDiffFits ==
  ASSUME NEW R, NEW in, NEW res, NEW window, NEW forced, Given(R, in, res, window)
  PROVE  WindowDiff(in, res, window, forced) \in EmissionType(R, Len(term.screen))
  <1> DEFINE e == WindowDiff(in, res, window, forced)  h == in.height
             changed == {r \in 1..h : forced \/ Len(shown) # h \/ window[r] # shown[r]}
             content == ContentRows(Len(in.frame), res.plan.top, h)
             from == Move(term, Min(changed) - 1 - ScreenRow(in))
             lines == Span(window, changed)
             park == Least(0, content - Max(changed))
             ends == res.plan.top + Least(Max(changed), content) - 1
  <1>1. /\ term \in TerminalType(R) /\ Len(term.screen) \in Nat \ {0} /\ window \in Seq(R) /\ Len(window) = h
        /\ h \in Nat \ {0} /\ res.plan.top \in Nat /\ hw \in Int
    BY TerminalFacts DEF Given
  <1>2. <<>> \in Seq(R)  BY EmptySeq
  <1>3. CASE changed = {}
    <2>1. e = [from |-> term, at |-> 0, lines |-> <<>>, back |-> 0, fix |-> <<>>, park |-> 0, ends |-> hw]
      BY <1>3 DEF WindowDiff
    <2> HIDE DEF e, changed, content, from, lines, park, ends
    <2>2. e \in EmissionType(R, Len(term.screen))  BY <2>1, <1>1, <1>2 DEF EmissionType
    <2>. QED  BY <2>2 DEF e
  <1>4. CASE changed # {}
    <2>1. e = [from |-> from, at |-> from.row, lines |-> lines, back |-> 0, fix |-> <<>>, park |-> park, ends |-> ends]
      BY <1>4 DEF WindowDiff
    <2>2. changed \in SUBSET (1..Len(window))  BY <1>1
    <2>3. Min(changed) \in 1..h /\ Max(changed) \in 1..h /\ lines \in Seq(R)
      <3>1. Min(changed) \in 1..Len(window) /\ Max(changed) \in Min(changed)..Len(window) /\ Span(window, changed) \in Seq(R)
        BY <1>1, <1>4, <2>2, SpanRows
      <3> HIDE DEF changed
      <3>. QED  BY <3>1, <1>1
    <2> HIDE DEF changed
    <2>4. from \in TerminalType(R) /\ Len(from.screen) = Len(term.screen)
      <3>1. Min(changed) - 1 - ScreenRow(in) \in Int  BY <1>1, <2>3, ScreenRowFits
      <3>. QED  BY <3>1, <1>1, MoveFits
    <2>5. from.row \in Nat /\ from.row <= Len(term.screen)  BY <2>4, TerminalFacts
    <2>6. content \in 1..h
      <3>1. Len(in.frame) \in Int /\ res.plan.top \in Int  BY DEF Given
      <3>. QED  BY <3>1, <1>1, ContentFits
    <2> HIDE DEF content
    <2>7. park \in Int /\ ends \in Int  BY <1>1, <2>3, <2>6 DEF Least
    <2> HIDE DEF e, from, lines, park, ends
    <2>8. e \in EmissionType(R, Len(term.screen))  BY <2>1, <2>3, <2>4, <2>5, <2>7, <1>2 DEF EmissionType
    <2>. QED  BY <2>8 DEF e
  <1>. QED  BY <1>3, <1>4

(* Whichever emitter the engine chooses, what it writes is an emission. *)
LEMMA EmissionFits ==
  ASSUME NEW R, NEW in, NEW res, NEW window, NEW forced, Given(R, in, res, window)
  PROVE  Emission(in, res, window, forced) \in EmissionType(R, Len(term.screen))
  BY FullPaintFits, ScrollAppendFits, WindowDiffFits, SeamRewriteFits, Zenon DEF Emission

-----------------------------------------------------------------------------
(* What each kind of emission achieves.  Erasing needs no knowledge of the *)
(* screen but its height.                                                  *)
LEMMA FullPaintLands ==
  ASSUME NEW R, NEW in, NEW res, NEW window, Given(R, in, res, window), in.height = Len(term.screen)
  PROVE  Lands(FullPaint(in, res, window), window,
               (IF res.plan.clear THEN <<>> ELSE term.scroll) \o Chunk(in, res), res.plan.top)
  <1> DEFINE e == FullPaint(in, res, window)  h == in.height
             content == ContentRows(Len(in.frame), res.plan.top, h)
             p == Put(e.from, 0, Chunk(in, res) \o window)
  <1>1. e \in EmissionType(R, h)  BY FullPaintFits
  <1>2. /\ e.from.scroll = (IF res.plan.clear THEN <<>> ELSE term.scroll)
        /\ e.at = 0 /\ e.lines = Chunk(in, res) \o window /\ e.fix = <<>>
        /\ e.park = content - h /\ e.ends = res.plan.top + content - 1
    BY DEF FullPaint
  <1>3. content \in 1..h /\ h \in Nat \ {0} /\ res.plan.top \in Nat
    <2>1. Len(in.frame) \in Int /\ res.plan.top \in Nat /\ h \in Nat \ {0}  BY DEF Given
    <2>2. res.plan.top \in Int  BY <2>1
    <2>3. content \in 1..h  BY <2>1, <2>2, ContentFits
    <2>. QED  BY <2>1, <2>3
  <1> HIDE DEF e, content
  <1>4. e.from \in TerminalType(R) /\ Len(e.from.screen) = h  BY <1>1 DEF EmissionType
  <1>5. Chunk(in, res) \in Seq(R) /\ window \in Seq(R) /\ Len(window) = h  BY DEF Given
  <1>6. /\ p \in TerminalType(R) /\ p.screen = window /\ p.scroll = e.from.scroll \o Chunk(in, res)
        /\ p.row = h - 1
    <2>1. Len(window) = Len(e.from.screen)  BY <1>4, <1>5
    <2>2. Flowed(R, e.from, Chunk(in, res), window, p)  BY <1>4, <1>5, <2>1, FlowsFromTop
    <2> HIDE DEF p
    <2>. QED  BY <2>2, <1>5 DEF Flowed
  <1>7. CutOff(e, Len(e.lines)) = p
    <2>1. e.lines \in Seq(R)  BY <1>1 DEF EmissionType
    <2>2. SubSeq(e.lines, 1, Len(e.lines)) = e.lines  BY <2>1, SubSeqFull
    <2>. QED  BY <2>2, <1>2 DEF CutOff
  <1> HIDE DEF p
  <1>8. Arrived(e, NoCursor) = Move(p, content - h)  BY <1>2, <1>7 DEF Arrived
  <1>9. content - h \in Int /\ p.row + (content - h) = content - 1 /\ content - 1 \in 0..Len(p.screen) - 1
    BY <1>3, <1>5, <1>6
  <1>10. /\ Move(p, content - h).screen = window /\ Move(p, content - h).scroll = p.scroll
         /\ Move(p, content - h).row = content - 1
    BY <1>6, <1>9, MoveFits
  <1>11. res.plan.top + content - 1 = res.plan.top + (content - 1)  BY <1>3
  <1>12. Lands(e, window, e.from.scroll \o Chunk(in, res), res.plan.top)
    BY <1>2, <1>6, <1>8, <1>10, <1>11 DEF Lands
  <1>. QED  BY <1>2, <1>12 DEF e

(* Rewriting from the top, from a cursor the engine knows. *)
LEMMA SeamRewriteLands ==
  ASSUME NEW R, NEW in, NEW res, NEW window, Given(R, in, res, window), Known(in)
  PROVE  Lands(SeamRewrite(in, res, window), window, term.scroll \o Chunk(in, res), res.plan.top)
  <1> DEFINE e == SeamRewrite(in, res, window)  h == in.height
             content == ContentRows(Len(in.frame), res.plan.top, h)
             from == Move(term, -ScreenRow(in))
             p == Put(e.from, 0, Chunk(in, res) \o window)
  <1>1. e \in EmissionType(R, h)  BY SeamRewriteFits DEF Known
  <1>2. from.row = 0 /\ from.scroll = term.scroll
    <2>1. ScreenRow(in) = term.row  BY ScreenRowKnown
    <2>2. term \in TerminalType(R) /\ term.row \in Nat /\ Len(term.screen) \in Nat \ {0}
      BY TerminalFacts DEF Given
    <2>3. -term.row \in Int /\ term.row + (-term.row) = 0 /\ 0 \in 0..Len(term.screen) - 1  BY <2>2
    <2>. QED  BY <2>1, <2>2, <2>3, MoveFits
  <1>3. /\ e.from = from /\ e.at = from.row /\ e.lines = Chunk(in, res) \o window /\ e.fix = <<>>
        /\ e.park = content - h /\ e.ends = res.plan.top + content - 1
    BY DEF SeamRewrite
  <1>4. content \in 1..h /\ h \in Nat \ {0} /\ res.plan.top \in Nat
    <2>1. Len(in.frame) \in Int /\ res.plan.top \in Nat /\ h \in Nat \ {0}  BY DEF Given
    <2>2. res.plan.top \in Int  BY <2>1
    <2>3. content \in 1..h  BY <2>1, <2>2, ContentFits
    <2>. QED  BY <2>1, <2>3
  <1> HIDE DEF e, content, from
  <1>5. e.from \in TerminalType(R) /\ Len(e.from.screen) = h  BY <1>1 DEF EmissionType
  <1>6. Chunk(in, res) \in Seq(R) /\ window \in Seq(R) /\ Len(window) = h  BY DEF Given
  <1>7. /\ p \in TerminalType(R) /\ p.screen = window /\ p.scroll = e.from.scroll \o Chunk(in, res)
        /\ p.row = h - 1
    <2>1. Len(window) = Len(e.from.screen)  BY <1>5, <1>6
    <2>2. Flowed(R, e.from, Chunk(in, res), window, p)  BY <1>5, <1>6, <2>1, FlowsFromTop
    <2> HIDE DEF p
    <2>. QED  BY <2>2, <1>6 DEF Flowed
  <1>8. CutOff(e, Len(e.lines)) = p
    <2>1. e.lines \in Seq(R)  BY <1>1 DEF EmissionType
    <2>2. SubSeq(e.lines, 1, Len(e.lines)) = e.lines  BY <2>1, SubSeqFull
    <2>. QED  BY <2>2, <1>2, <1>3 DEF CutOff
  <1> HIDE DEF p
  <1>9. Arrived(e, NoCursor) = Move(p, content - h)  BY <1>3, <1>8 DEF Arrived
  <1>10. content - h \in Int /\ p.row + (content - h) = content - 1 /\ content - 1 \in 0..Len(p.screen) - 1
    BY <1>4, <1>6, <1>7
  <1>11. /\ Move(p, content - h).screen = window /\ Move(p, content - h).scroll = p.scroll
         /\ Move(p, content - h).row = content - 1
    BY <1>7, <1>10, MoveFits
  <1>12. res.plan.top + content - 1 = res.plan.top + (content - 1)  BY <1>4
  <1>13. Lands(e, window, term.scroll \o Chunk(in, res), res.plan.top)
    BY <1>2, <1>3, <1>7, <1>9, <1>11, <1>12 DEF Lands
  <1>. QED  BY <1>13 DEF e

(* Rows that change in place, on a screen that holds the others already.   *)
Settles(R, t, window, row, p) ==
  p \in TerminalType(R) /\ p.screen = window /\ p.scroll = t.scroll \o <<>> /\ p.row = row

(* Rewriting the span of the rows that differ makes the screen the window. *)
LEMMA Rewritten ==
  ASSUME NEW R, NEW t \in TerminalType(R), NEW window \in Seq(R), Len(window) = Len(t.screen),
         NEW S \in SUBSET (1..Len(window)), S # {}, t.row = Min(S) - 1,
         \A r \in 1..Len(window) : r \in S \/ t.screen[r] = window[r]
  PROVE  Settles(R, t, window, Max(S) - 1, Put(t, t.row, Span(window, S)))
  <1> DEFINE a == Min(S)  b == Max(S)  h == Len(t.screen)  rows == Span(window, S)  p == Put(t, t.row, rows)
  <1>0. h \in Nat \ {0} /\ h = Len(window) /\ h = Len(t.screen)  BY TerminalFacts
  <1>1. /\ a \in 1..h /\ b \in a..h /\ \A r \in S : a <= r /\ r <= b
        /\ rows \in Seq(R) /\ Len(rows) = b - a + 1
        /\ \A i \in 1..Len(rows) : rows[i] = window[a + i - 1]
    BY SpanRows
  <1>2. t.row = a - 1  OBVIOUS
  <1> HIDE DEF a, b, h, rows
  <1>3. rows # <<>> /\ t.row \in 0..Len(t.screen)
    <2>1. Len(rows) # 0 /\ a - 1 \in 0..h  BY <1>0, <1>1
    <2>. QED  BY <2>1, <1>0, <1>2, EmptySeq
  <1>4. Written(R, t, t.row, rows, p)  BY <1>1, <1>3, PutFits
  <1>5. Over(t, t.row, rows) = 0
    <2>1. t.row + Len(rows) - Len(t.screen) = b - h  BY <1>0, <1>1, <1>2
    <2>2. b - h \in Int /\ b - h <= 0  BY <1>0, <1>1
    <2>3. Over(t, t.row, rows) = Greatest(0, b - h)  BY <2>1 DEF Over
    <2>. QED  BY <2>2, <2>3 DEF Greatest
  <1> HIDE DEF p
  <1>6. p \in TerminalType(R) /\ Len(p.screen) = h /\ p.row = b - 1
    <2>1. p.row = Least(h - 1, a - 1 + Len(rows) - 1)  BY <1>0, <1>2, <1>4 DEF Written
    <2>2. a - 1 + Len(rows) - 1 = b - 1  BY <1>0, <1>1
    <2>3. Least(h - 1, b - 1) = b - 1  BY <1>0, <1>1 DEF Least
    <2>. QED  BY <2>1, <2>2, <2>3, <1>0, <1>4 DEF Written
  <1>7. \A r \in 1..h : p.screen[r] = window[r]
    <2> TAKE r \in 1..h
    <2>1. p.screen[r] = CanvasRow(t, t.row, rows, 0 + r)  BY <1>0, <1>4, <1>5 DEF Written
    <2>2. p.screen[r] = IF r <= a - 1 THEN t.screen[r]
                        ELSE IF r <= b THEN rows[r - (a - 1)] ELSE t.screen[r]
      <3>1. 0 + r = r /\ a - 1 + Len(rows) = b  BY <1>0, <1>1
      <3>. QED  BY <2>1, <3>1, <1>2 DEF CanvasRow
    <2>3. CASE r <= a - 1
      <3>1. r \notin S  BY <2>3, <1>0, <1>1
      <3>. QED  BY <3>1, <2>2, <2>3, <1>0
    <2>4. CASE ~(r <= a - 1) /\ r <= b
      <3>1. r - (a - 1) \in 1..Len(rows) /\ a + (r - (a - 1)) - 1 = r  BY <2>4, <1>0, <1>1
      <3>. QED  BY <3>1, <2>2, <2>4, <1>1
    <2>5. CASE ~(r <= a - 1) /\ ~(r <= b)
      <3>1. r \notin S  BY <2>5, <1>0, <1>1
      <3>. QED  BY <3>1, <2>2, <2>5, <1>0
    <2>. QED  BY <2>3, <2>4, <2>5
  <1>8. p.screen = window
    <2>1. p.screen \in Seq(R)  BY <1>6, TerminalFacts
    <2>. QED  BY <2>1, <1>0, <1>6, <1>7, SeqEqual
  <1>9. p.scroll = t.scroll \o <<>>
    <2>1. PICK q \in Seq(R) : p.scroll = t.scroll \o q /\ Len(q) = Over(t, t.row, rows)
      BY <1>4 DEF Written
    <2>2. q = <<>>  BY <2>1, <1>5, EmptySeq
    <2>. QED  BY <2>1, <2>2
  <1>. QED  BY <1>6, <1>8, <1>9 DEF p, rows, b, Settles

(* An empty emission, and moving the cursor by nothing. *)
LEMMA NothingWritten ==
  ASSUME NEW R, NEW t \in TerminalType(R), NEW e, e.from = t, e.lines = <<>>
  PROVE  CutOff(e, Len(e.lines)) = t
  <1>1. SubSeq(<<>>, 1, 0) = <<>>  BY SubSeqEmpty
  <1>2. Len(<<>>) = 0  OBVIOUS
  <1>. QED  BY <1>1, <1>2 DEF CutOff, Put

(* A move by nothing is no move. *)
LEMMA NotMoved ==
  ASSUME NEW R, NEW t \in TerminalType(R)
  PROVE  Move(t, 0) = t
  <1>1. t.row \in Nat /\ Len(t.screen) \in Nat /\ t.row < Len(t.screen)  BY TerminalFacts
  <1>2. Clamp(t.row + 0, 0, Len(t.screen) - 1) = t.row  BY <1>1 DEF Clamp
  <1>. QED  BY <1>2, TerminalFacts DEF Move, TerminalType

(* Rewriting only what changed, on a screen the engine knows. *)
LEMMA WindowDiffLands ==
  ASSUME NEW R, NEW in, NEW res, NEW window, NEW forced, Given(R, in, res, window), Known(in),
         res.plan.top = led.W
  PROVE  Lands(WindowDiff(in, res, window, forced), window, term.scroll \o <<>>, res.plan.top)
  <1> DEFINE e == WindowDiff(in, res, window, forced)  h == in.height
             changed == {r \in 1..h : forced \/ Len(shown) # h \/ window[r] # shown[r]}
             content == ContentRows(Len(in.frame), res.plan.top, h)
             from == Move(term, Min(changed) - 1 - ScreenRow(in))
             park == Least(0, content - Max(changed))
             ends == res.plan.top + Least(Max(changed), content) - 1
  <1>0. e \in EmissionType(R, h)  BY WindowDiffFits DEF Known
  <1>1. /\ term \in TerminalType(R) /\ Len(term.screen) = h /\ window \in Seq(R) /\ Len(window) = h
        /\ term.screen = shown /\ hw = led.W + term.row
        /\ h \in Nat \ {0} /\ res.plan.top \in Nat /\ term.screen \in Seq(R) /\ term.scroll \in Seq(R)
        /\ term.row \in Nat
    BY TerminalFacts DEF Given, Known
  <1>2. \A r \in 1..h : r \in changed \/ term.screen[r] = window[r]  BY <1>1
  <1>3. CASE changed = {}
    <2>1. e = [from |-> term, at |-> 0, lines |-> <<>>, back |-> 0, fix |-> <<>>, park |-> 0, ends |-> hw]
      BY <1>3 DEF WindowDiff
    <2>2. term.screen = window  BY <1>1, <1>2, <1>3, SeqEqual
    <2> HIDE DEF e
    <2>3. CutOff(e, Len(e.lines)) = term  BY <2>1, <1>1, NothingWritten
    <2>4. Arrived(e, NoCursor) = term  BY <2>1, <2>3, <1>1, NotMoved DEF Arrived
    <2>5. term.scroll = term.scroll \o <<>>  BY <1>1, ConcatEmptySeq
    <2>6. Lands(e, window, term.scroll \o <<>>, res.plan.top)
      BY <2>1, <2>2, <2>4, <2>5, <1>1 DEF Lands
    <2>. QED  BY <2>6 DEF e
  <1>4. CASE changed # {}
    <2>1. e = [from |-> from, at |-> from.row, lines |-> Span(window, changed), back |-> 0, fix |-> <<>>,
               park |-> park, ends |-> ends]
      BY <1>4 DEF WindowDiff
    <2>2. changed \in SUBSET (1..Len(window))  BY <1>1
    <2>3. Min(changed) \in 1..h /\ Max(changed) \in 1..h
      <3>1. Min(changed) \in 1..Len(window) /\ Max(changed) \in Min(changed)..Len(window)
        BY <1>1, <1>4, <2>2, SpanRows
      <3> HIDE DEF changed
      <3>. QED  BY <3>1, <1>1
    <2> DEFINE S == changed
    <2>a. S \in SUBSET (1..Len(window)) /\ S # {} /\ \A r \in 1..Len(window) : r \in S \/ term.screen[r] = window[r]
      BY <2>2, <1>1, <1>2, <1>4
    <2> HIDE DEF changed, S
    <2>4. from \in TerminalType(R) /\ from.screen = term.screen /\ from.scroll = term.scroll /\ from.row = Min(S) - 1
      <3>1. ScreenRow(in) = term.row  BY ScreenRowKnown
      <3>2. Min(S) \in 1..h  BY <2>3 DEF S
      <3>3. Min(S) - 1 - term.row \in Int /\ term.row + (Min(S) - 1 - term.row) = Min(S) - 1
            /\ Min(S) - 1 \in 0..Len(term.screen) - 1
        BY <1>1, <3>2
      <3>. QED  BY ZenonT(40), <3>1, <3>3, <1>1, MoveFits DEF S
    <2> DEFINE p == Put(from, from.row, Span(window, S))
    <2>5. Settles(R, from, window, Max(S) - 1, p)
      <3>1. Len(window) = Len(from.screen)  BY <1>1, <2>4
      <3>. QED  BY <3>1, <1>1, <2>a, <2>4, Rewritten
    <2>6. content \in 1..h
      <3>1. Len(in.frame) \in Int /\ res.plan.top \in Int  BY DEF Given
      <3>. QED  BY <3>1, <1>1, ContentFits
    <2>7. CutOff(e, Len(e.lines)) = p
      <3>1. e.lines \in Seq(R)  BY <1>0 DEF EmissionType
      <3>2. SubSeq(e.lines, 1, Len(e.lines)) = e.lines  BY <3>1, SubSeqFull
      <3>3. e.lines = Span(window, S) /\ e.from = from /\ e.at = from.row  BY <2>1 DEF S
      <3> HIDE DEF e, from
      <3>. QED  BY <3>2, <3>3 DEF CutOff
    <2> HIDE DEF content, from, p
    <2>8. Arrived(e, NoCursor) = Move(p, park)
      <3>1. e.fix = <<>> /\ e.park = park  BY <2>1
      <3> HIDE DEF e, park
      <3>. QED  BY <3>1, <2>7 DEF Arrived
    <2>9. /\ park \in Int /\ p.row + park = Least(Max(S), content) - 1
          /\ p.row + park \in 0..Len(p.screen) - 1
      <3>1. p.row = Max(S) - 1 /\ Len(p.screen) = h  BY <2>5, <1>1 DEF Settles
      <3>2. Max(S) \in 1..h /\ park = Least(0, content - Max(S))  BY <2>3 DEF S
      <3> HIDE DEF park
      <3>3. park \in Int /\ park = (IF 0 < content - Max(S) THEN 0 ELSE content - Max(S))
        BY <3>2, <2>6 DEF Least
      <3>. QED  BY <3>1, <3>2, <3>3, <2>6 DEF Least
    <2> HIDE DEF park
    <2>10. /\ Move(p, park).screen = p.screen /\ Move(p, park).scroll = p.scroll
           /\ Move(p, park).row = p.row + park
      BY <2>5, <2>9, MoveFits DEF Settles
    <2>11. e.ends = res.plan.top + (p.row + park)
      <3>1. e.ends = res.plan.top + Least(Max(S), content) - 1  BY <2>1 DEF S
      <3>2. Least(Max(S), content) \in Int  BY <2>3, <2>6 DEF Least, S
      <3>3. res.plan.top + Least(Max(S), content) - 1 = res.plan.top + (Least(Max(S), content) - 1)  BY <3>2, <1>1
      <3>. QED  BY <3>1, <3>3, <2>9
    <2>12. Lands(e, window, term.scroll \o <<>>, res.plan.top)
      BY <2>4, <2>5, <2>8, <2>10, <2>11 DEF Lands, Settles
    <2>. QED  BY <2>12
  <1>. QED  BY <1>3, <1>4

(* Line feeds at the bottom push the chunk out, if it is what stands at    *)
(* the top of the screen.                                                  *)
Fed(R, t, lines, p) ==
  LET h == Len(t.screen)  n == Len(lines)
  IN  /\ p \in TerminalType(R) /\ Len(p.screen) = h /\ p.row = h - 1
      /\ p.scroll = t.scroll \o SubSeq(t.screen, 1, n)
      /\ \A r \in 1..h : p.screen[r] = IF n + r <= h THEN t.screen[n + r] ELSE lines[(n + r) - h]

(* Lines written at the bottom push as many rows into the scrollback. *)
LEMMA FedAtTheBottom ==
  ASSUME NEW R, NEW t \in TerminalType(R), NEW n \in 1..Len(t.screen), NEW lines \in Seq(R), Len(lines) = n
  PROVE  Fed(R, t, lines, Put(t, Len(t.screen), lines))
  <1> DEFINE h == Len(t.screen)  p == Put(t, h, lines)
  <1>0. h \in Nat \ {0} /\ h = Len(t.screen) /\ t.screen \in Seq(R) /\ n \in 1..h  BY TerminalFacts
  <1> HIDE DEF h
  <1>1. lines # <<>> /\ h \in 0..Len(t.screen)
    <2>1. Len(lines) # 0  BY <1>0
    <2>. QED  BY <2>1, <1>0, EmptySeq
  <1>2. Written(R, t, h, lines, p)  BY <1>1, PutFits
  <1> HIDE DEF p
  <1>3. Over(t, h, lines) = n
    <2>1. h + Len(lines) - Len(t.screen) = n  BY <1>0
    <2>. QED  BY <2>1, <1>0 DEF Over, Greatest
  <1>4. p \in TerminalType(R) /\ Len(p.screen) = h /\ p.row = h - 1
    <2>1. Least(h - 1, h + n - 1) = h - 1  BY <1>0 DEF Least
    <2>. QED  BY <2>1, <1>0, <1>2 DEF Written
  <1>5. p.scroll = t.scroll \o SubSeq(t.screen, 1, n)
    <2>1. PICK q \in Seq(R) : /\ p.scroll = t.scroll \o q /\ Len(q) = n
                              /\ \A i \in 1..n : q[i] = CanvasRow(t, h, lines, i)
      BY <1>2, <1>3 DEF Written
    <2>2. /\ SubSeq(t.screen, 1, n) \in Seq(R) /\ Len(SubSeq(t.screen, 1, n)) = n
          /\ \A i \in 1..n : SubSeq(t.screen, 1, n)[i] = t.screen[i]
      BY <1>0, SubSeqOfFrame
    <2>3. \A i \in 1..n : CanvasRow(t, h, lines, i) = t.screen[i]  BY <1>0 DEF CanvasRow
    <2>4. q = SubSeq(t.screen, 1, n)  BY <2>1, <2>2, <2>3, SeqEqual
    <2>. QED  BY <2>1, <2>4
  <1>6. \A r \in 1..h : p.screen[r] = IF n + r <= h THEN t.screen[n + r] ELSE lines[(n + r) - h]
    <2> TAKE r \in 1..h
    <2>1. p.screen[r] = CanvasRow(t, h, lines, n + r)  BY <1>0, <1>2, <1>3 DEF Written
    <2>2. n + r <= h + Len(lines)  BY <1>0
    <2>3. CanvasRow(t, h, lines, n + r) = IF n + r <= h THEN t.screen[n + r] ELSE lines[(n + r) - h]
      BY <2>2 DEF CanvasRow
    <2>. QED  BY <2>1, <2>3
  <1>. QED  BY <1>4, <1>5, <1>6 DEF p, h, Fed

(* A scrolling append ends with the window on the screen and the chunk in the
   scrollback. *)
LEMMA ScrollAppendLands ==
  ASSUME NEW R, NEW in, NEW res, NEW window, NEW forced, Given(R, in, res, window), Known(in),
         ScrollAppends(in, res, forced)
  PROVE  Lands(ScrollAppend(in, res, window), window, term.scroll \o Chunk(in, res), res.plan.top)
  <1> DEFINE e == ScrollAppend(in, res, window)  h == in.height  n == Len(Chunk(in, res))
             changed == {r \in 1..h - n : window[r] # shown[r + n]}
             from == Move(term, h - 1 - ScreenRow(in))
             lines == SubSeq(window, h - n + 1, h)
             back == IF changed = {} THEN 0 ELSE Min(changed) - h
             fix == Span(window, changed)
             ends == res.plan.top + (IF changed = {} THEN h ELSE Max(changed)) - 1
             fed == Put(from, h, lines)
  <1>0. e \in EmissionType(R, h)  BY ScrollAppendFits DEF Known
  <1>1. /\ term \in TerminalType(R) /\ Len(term.screen) = h /\ window \in Seq(R) /\ Len(window) = h
        /\ term.screen = shown /\ hw = led.W + term.row
        /\ h \in Nat \ {0} /\ res.plan.top \in Nat /\ term.screen \in Seq(R) /\ term.scroll \in Seq(R)
        /\ term.row \in Nat /\ term.row < h
    BY TerminalFacts DEF Given, Known
  <1>2. n \in 1..h - 1 /\ SubSeq(shown, 1, n) = Chunk(in, res)
    <2>1. Chunk(in, res) \in Seq(R) /\ Chunk(in, res) # <<>> /\ n < h  BY DEF ScrollAppends, Given
    <2>2. n \in Nat \ {0}  BY <2>1, EmptySeq
    <2>. QED  BY <2>1, <2>2, <1>1 DEF ScrollAppends
  <1>3. e = [from |-> from, at |-> from.row + 1, lines |-> lines, back |-> back, fix |-> fix, park |-> 0, ends |-> ends]
    BY DEF ScrollAppend
  <1> HIDE DEF e, n
  <1>4. from \in TerminalType(R) /\ from.screen = term.screen /\ from.scroll = term.scroll /\ from.row = h - 1
    <2>1. ScreenRow(in) = term.row  BY ScreenRowKnown
    <2>2. h - 1 - term.row \in Int /\ term.row + (h - 1 - term.row) = h - 1 /\ h - 1 \in 0..Len(term.screen) - 1
      BY <1>1
    <2>. QED  BY ZenonT(40), <2>1, <2>2, <1>1, MoveFits
  <1> HIDE DEF from
  <1>5. /\ lines \in Seq(R) /\ Len(lines) = n /\ \A i \in 1..n : lines[i] = window[h - n + i]
    <2> DEFINE a == h - n + 1
    <2>0. h \in Int /\ n \in Int /\ n >= 1 /\ n < h  BY <1>1, <1>2
    <2>1. a \in Int /\ h \in Int /\ a <= h /\ h - a + 1 = n /\ \A i \in 1..n : a + i - 1 = h - n + i
      BY <2>0
    <2>2. \A i \in a..h : window[i] \in R  BY <1>1, <1>2
    <2> HIDE DEF a
    <2>3. /\ SubSeq(window, a, h) \in Seq(R) /\ Len(SubSeq(window, a, h)) = IF a <= h THEN h - a + 1 ELSE 0
          /\ \A i \in 1..h - a + 1 : SubSeq(window, a, h)[i] = window[a + i - 1]
      BY <2>1, <2>2, SubSeqProperties
    <2>4. lines = SubSeq(window, a, h)  BY DEF a
    <2> HIDE DEF lines
    <2>. QED  BY <2>1, <2>3, <2>4
  <1> HIDE DEF lines
  <1>6. /\ fed \in TerminalType(R) /\ Len(fed.screen) = h /\ fed.row = h - 1
        /\ fed.scroll = term.scroll \o Chunk(in, res)
        /\ \A r \in 1..h : fed.screen[r] = IF n + r <= h THEN shown[n + r] ELSE lines[(n + r) - h]
    <2>1. n \in 1..Len(from.screen) /\ Len(from.screen) = h  BY <1>1, <1>2, <1>4
    <2>2. fed = Put(from, Len(from.screen), lines)  BY <2>1
    <2>3. Fed(R, from, lines, fed)  BY <2>1, <2>2, <1>4, <1>5, FedAtTheBottom
    <2> HIDE DEF fed
    <2>. QED  BY <2>1, <2>3, <1>1, <1>2, <1>4, <1>5 DEF Fed
  <1>7. CutOff(e, Len(e.lines)) = fed
    <2>1. e.lines \in Seq(R)  BY <1>0 DEF EmissionType
    <2>2. SubSeq(e.lines, 1, Len(e.lines)) = e.lines  BY <2>1, SubSeqFull
    <2>3. e.lines = lines /\ e.from = from /\ e.at = h
      <3>1. h - 1 + 1 = h  BY <1>1
      <3>. QED  BY <3>1, <1>3, <1>4
    <2>. QED  BY <2>2, <2>3 DEF CutOff
  <1> HIDE DEF fed
  <1>8. \A r \in 1..h : r \in changed \/ fed.screen[r] = window[r]
    <2> TAKE r \in 1..h
    <2>1. CASE n + r <= h
      <3>1. r \in 1..h - n /\ n + r = r + n  BY <2>1, <1>1, <1>2
      <3>. QED  BY <3>1, <2>1, <1>6
    <2>2. CASE ~(n + r <= h)
      <3>1. (n + r) - h \in 1..n /\ h - n + ((n + r) - h) = r  BY SMTT(40), <2>2, <1>1, <1>2
      <3>. QED  BY <3>1, <2>2, <1>5, <1>6
    <2>. QED  BY <2>1, <2>2
  <1>9. e.fix = fix /\ e.back = back /\ e.park = 0 /\ e.ends = ends  BY <1>3
  <1>10. CASE changed = {}
    <2>1. e.fix = <<>> /\ e.ends = res.plan.top + h - 1  BY <1>9, <1>10 DEF Span
    <2>2. fed.screen = window
      <3>1. fed.screen \in Seq(R)  BY <1>6, TerminalFacts
      <3>. QED  BY ZenonT(40), <3>1, <1>1, <1>6, <1>8, <1>10, SeqEqual
    <2>3. Arrived(e, NoCursor) = fed  BY <2>1, <1>6, <1>7, <1>9, NotMoved DEF Arrived
    <2>4. res.plan.top + h - 1 = res.plan.top + (h - 1)  BY <1>1
    <2>. QED  BY <2>1, <2>2, <2>3, <2>4, <1>6 DEF Lands, e
  <1>11. CASE changed # {}
    <2>1. changed \in SUBSET (1..Len(window))  BY <1>1, <1>2
    <2> DEFINE S == changed
    <2>2. S \in SUBSET (1..Len(window)) /\ S # {} /\ \A r \in 1..Len(window) : r \in S \/ fed.screen[r] = window[r]
      BY <2>1, <1>1, <1>8, <1>11
    <2>3. e.fix = Span(window, S) /\ e.back = Min(S) - h /\ e.ends = res.plan.top + Max(S) - 1
      BY <1>9, <1>11
    <2> HIDE DEF changed, S
    <2>4. /\ Min(S) \in 1..h /\ Max(S) \in 1..h /\ Span(window, S) # <<>>
      <3>1. /\ Min(S) \in 1..Len(window) /\ Max(S) \in Min(S)..Len(window)
            /\ Len(Span(window, S)) = Max(S) - Min(S) + 1
        BY <1>1, <2>2, SpanRows
      <3>2. Min(S) \in 1..h /\ Max(S) \in Min(S)..h /\ h \in Nat  BY <3>1, <1>1
      <3>3. Max(S) - Min(S) + 1 # 0  BY <3>2
      <3>4. Span(window, S) # <<>>  BY <3>1, <3>3, EmptySeq
      <3>. QED  BY <3>2, <3>4
    <2> DEFINE fixing == Move(fed, e.back)  p == Put(fixing, fixing.row, Span(window, S))
    <2>5. fixing \in TerminalType(R) /\ fixing.screen = fed.screen /\ fixing.scroll = fed.scroll /\ fixing.row = Min(S) - 1
      <3>1. e.back \in Int /\ fed.row + e.back = Min(S) - 1 /\ Min(S) - 1 \in 0..Len(fed.screen) - 1
        BY SMTT(40), <1>1, <1>6, <2>3, <2>4
      <3>. QED  BY <3>1, <1>6, MoveFits
    <2>6. Settles(R, fixing, window, Max(S) - 1, p)
      <3>1. Len(window) = Len(fixing.screen)  BY <1>1, <1>6, <2>5
      <3> HIDE DEF fixing
      <3>. QED  BY <3>1, <1>1, <2>2, <2>5, Rewritten
    <2>7. Arrived(e, NoCursor) = Move(p, 0)
      BY <1>7, <1>9, <2>3, <2>4 DEF Arrived
    <2> HIDE DEF p, fixing
    <2>8. Arrived(e, NoCursor) = p  BY <2>6, <2>7, NotMoved DEF Settles
    <2>9. p.scroll = term.scroll \o Chunk(in, res)
      <3>1. fed.scroll \in Seq(R)  BY <1>6, TerminalFacts
      <3>2. fed.scroll \o <<>> = fed.scroll  BY <3>1, ConcatEmptySeq
      <3>. QED  BY <3>2, <1>6, <2>5, <2>6 DEF Settles
    <2>10. res.plan.top + Max(S) - 1 = res.plan.top + (Max(S) - 1)  BY <1>1, <2>4
    <2>. QED  BY <2>3, <2>6, <2>8, <2>9, <2>10 DEF Lands, Settles, e
  <1>. QED  BY <1>10, <1>11

(* Whatever the plan is, a write that arrives shows the window and pushes  *)
(* the chunk.                                                              *)
LEMMA EmissionLands ==
  ASSUME NEW R, NEW in, NEW res, NEW window, NEW forced, Given(R, in, res, window),
         in.height = Len(term.screen), res.plan.kind # "full" => Known(in) /\ ~res.plan.clear
  PROVE  Lands(Emission(in, res, window, forced), window,
               (IF res.plan.clear THEN <<>> ELSE term.scroll) \o Chunk(in, res), res.plan.top)
  <1> DEFINE e == Emission(in, res, window, forced)
  <1>1. CASE res.plan.kind = "full"  BY <1>1, FullPaintLands DEF Emission
  <1>2. CASE res.plan.kind # "full" /\ ScrollAppends(in, res, forced)
    <2>1. e = ScrollAppend(in, res, window)  BY <1>2 DEF Emission
    <2>. QED  BY <2>1, <1>2, ScrollAppendLands
  <1>3. CASE res.plan.kind # "full" /\ ~ScrollAppends(in, res, forced) /\ Chunk(in, res) = <<>> /\ res.plan.top = led.W
    <2>1. e = WindowDiff(in, res, window, forced)  BY <1>3 DEF Emission
    <2>. QED  BY <2>1, <1>3, WindowDiffLands
  <1>4. CASE res.plan.kind # "full" /\ ~ScrollAppends(in, res, forced) /\ ~(Chunk(in, res) = <<>> /\ res.plan.top = led.W)
    <2>1. e = SeamRewrite(in, res, window)  BY <1>4 DEF Emission
    <2>. QED  BY <2>1, <1>4, SeamRewriteLands
  <1>. QED  BY <1>1, <1>2, <1>3, <1>4

-----------------------------------------------------------------------------
(* The rows a screen may hold. *)
EngineRows == Rows \cup {Box} \cup (Nat \X {Still})

EngineTypeOK ==
  /\ Typed(EngineRows)
  /\ term \in TerminalType(EngineRows) /\ shown \in Seq(EngineRows)
  /\ hw \in Int /\ force \in BOOLEAN /\ alt \in Nat /\ size \in Nat \ {0}
  /\ winch \in {"none", "event", "reason"} /\ stale \in BOOLEAN

(* What the engine knows of the terminal it cannot ask: the scrollback and *)
(* the height unless something reflowed them, the screen and the cursor    *)
(* once it has painted; and a calm screen goes on where the history ends.  *)
Tracks ==
  /\ ~stale => term.scroll = hist /\ size = Len(term.screen)
  /\ ~stale /\ ~fresh => term.screen = shown /\ hw = led.W + term.row
  /\ ~fresh => Len(shown) = height
  /\ ~fresh /\ alt = 0 => \A r \in 1..Len(shown) : shown[r] \in {Box, Window(frame, led.W, height, 0)[r]}
  /\ ~fresh /\ calm /\ (\A r \in 1..Len(shown) : shown[r] # Box)
       => led.C = led.W /\ Len(frame) - led.W \in 0..height

EngineInv == EngineTypeOK /\ OnceInOrder /\ Tracks

(* A frame the application composes is a sequence of rows. *)
LEMMA ComposedAreRows ==
  ASSUME NEW n \in 0..MaxRows, NEW replace, NEW new \in Compositions(n, replace)
  PROVE  new \in Seq(EngineRows)
  <1>1. CASE new \in Frames[n]
    <2>1. new \in Seq(Rows)  BY <1>1, FramesAreSequences
    <2>. QED  BY <2>1 DEF EngineRows
  <1>2. CASE new \in StillFrames[n]
    <2>0. n \in Nat  BY LedgerAssumption DEF LedgerAssumption
    <2>1. new = [i \in 1..n |-> Row(i, Still)]  BY <1>2 DEF StillFrames
    <2>2. \A i \in 1..n : Row(i, Still) \in EngineRows  BY <2>0 DEF Row, EngineRows, Rows
    <2>3. new \in [1..n -> EngineRows]  BY <2>1, <2>2
    <2>. QED  BY <2>0, <2>3
  <1>. QED  BY <1>1, <1>2, Zenon DEF Compositions

(* The window cut from a frame has the height of the screen. *)
LEMMA WindowFits ==
  ASSUME NEW R, Blank \in R, Box \in R, NEW f \in Seq(R), NEW top \in Nat, NEW h \in Nat, NEW box
  PROVE  Window(f, top, h, box) \in Seq(R) /\ Len(Window(f, top, h, box)) = h
  <1> DEFINE w == Window(f, top, h, box)
  <1>1. \A r \in 1..h : top + r <= Len(f) => f[top + r] \in R
    <2> TAKE r \in 1..h
    <2>1. top + r <= Len(f) => top + r \in 1..Len(f)  OBVIOUS
    <2>. QED  BY <2>1
  <1>2. w \in [1..h -> R]  BY <1>1 DEF Window
  <1>3. w \in Seq(R)  BY <1>2
  <1>4. Len(w) = h  BY <1>3 DEF Window
  <1>. QED  BY <1>3, <1>4

(* Where a plan puts the window: within the frame, and as low as it can be. *)
LEMMA TopShape ==
  ASSUME NEW R, NEW s \in LedgerType(R), NEW in \in InputType(R), in.height > 0
  PROVE  LET plan == Step(s, in).plan
         IN  /\ plan.top \in 0..Len(in.frame) /\ Len(in.frame) - in.height <= plan.top
             /\ Len(in.frame) > 0 => plan.top < Len(in.frame)
             /\ plan.kind = "full" => plan.chunkTo = plan.top
             /\ plan.kind = "extend" /\ ~in.overlay => plan.chunkTo = plan.top
             /\ plan.clear => plan.kind = "full"
             /\ in.first => plan.kind = "full"
  <1> DEFINE len == Len(in.frame)
             a == Step(s, in).audited
             tail == Greatest(0, len - in.height)
             top == OrdinaryTop(a, len, in.height)
  <1>0. len \in Nat /\ in.height \in Nat \ {0}  BY DEF InputType
  <1>1. a \in LedgerType(R)  BY StepFits
  <1>2. a.C \in Nat  BY <1>1 DEF LedgerType
  <1> HIDE DEF a
  <1>3. PICK resynced : Step(s, in).plan = PlanCommit(a, in, resynced)  BY DEF Step, a
  <1> DEFINE plan == PlanCommit(a, in, resynced)
  <1>4. tail \in 0..len /\ len - in.height <= tail /\ (len > 0 => tail < len)
    <2>1. tail = IF 0 > len - in.height THEN 0 ELSE len - in.height  BY DEF Greatest
    <2> HIDE DEF tail
    <2>. QED  BY <2>1, <1>0
  <1>5. ~Reveals(a, in, resynced) => top \in 0..len /\ len - in.height <= top /\ top < len
    <2>1. ~Reveals(a, in, resynced) => a.C < len  BY <1>0, <1>2 DEF Reveals
    <2>2. top = IF a.C > tail THEN a.C ELSE tail  BY DEF OrdinaryTop, Greatest
    <2> HIDE DEF top, tail
    <2>. QED  BY <2>1, <2>2, <1>0, <1>2, <1>4
  <1> HIDE DEF top, tail
  <1>6. CASE in.first \/ in.replace \/ (in.geometry /\ ~in.inPlace)
    <2>1. plan.kind = "full" /\ plan.top = tail /\ plan.chunkTo = tail  BY <1>6 DEF PlanCommit, tail
    <2>. QED  BY <2>1, <1>3, <1>4
  <1>7. CASE ~(in.first \/ in.replace \/ (in.geometry /\ ~in.inPlace)) /\ Reveals(a, in, resynced)
    <2>1. plan.kind = "reveal" /\ plan.top = tail /\ ~plan.clear  BY <1>7 DEF PlanCommit, tail
    <2>. QED  BY <2>1, <1>3, <1>4, <1>7
  <1>8. CASE ~(in.first \/ in.replace \/ (in.geometry /\ ~in.inPlace)) /\ ~Reveals(a, in, resynced)
    <2>1. /\ plan.kind = IF in.geometry THEN "rebase" ELSE "extend"
          /\ plan.top = top /\ ~plan.clear
          /\ plan.chunkTo = IF in.overlay \/ in.geometry THEN a.C ELSE top
      BY <1>8 DEF PlanCommit, top
    <2>2. plan.kind # "full" /\ (plan.kind = "extend" => ~in.geometry)  BY <2>1
    <2>. QED  BY <2>1, <2>2, <1>3, <1>5, <1>8
  <1>. QED  BY <1>6, <1>7, <1>8

(* The cursor's target is a row of the window. *)
LEMMA TargetInWindow ==
  ASSUME NEW len \in Nat, NEW h \in Nat \ {0}, NEW top \in 0..len, len - h <= top, len > 0 => top < len,
         NEW box \in 0..h, NEW focus \in BOOLEAN
  PROVE  LET cursor == IF box # 0 THEN top + box - 1 ELSE IF focus /\ len > top THEN len - 1 ELSE NoCursor
             target == Target(cursor, len)
         IN  target \in Int /\ (target # NoCursor => target \in top..top + h - 1)
  <1> DEFINE cursor == IF box # 0 THEN top + box - 1 ELSE IF focus /\ len > top THEN len - 1 ELSE NoCursor
  <1>1. CASE len = 0 \/ cursor = NoCursor  BY <1>1 DEF Target, NoCursor
  <1>2. CASE len > 0 /\ cursor # NoCursor
    <2>1. cursor \in top..top + h - 1
      <3>1. CASE box # 0  BY <3>1, <1>2
      <3>2. CASE box = 0
        <4>1. cursor = len - 1 /\ len > top  BY <3>2, <1>2 DEF NoCursor
        <4> HIDE DEF cursor
        <4>. QED  BY <4>1
      <3>. QED  BY <3>1, <3>2
    <2> HIDE DEF cursor
    <2>2. Target(cursor, len) = Clamp(cursor, 0, len - 1)  BY <1>2 DEF Target
    <2>3. Clamp(cursor, 0, len - 1) \in top..top + h - 1  BY <2>1, <1>2 DEF Clamp
    <2>. QED  BY <2>2, <2>3 DEF cursor
  <1>3. cursor \in Int  BY DEF NoCursor
  <1>. QED  BY <1>1, <1>2, <1>3

(* Every Draw of the normal screen is one the lemmas speak about. *)
LEMMA DrawIsGiven ==
  ASSUME EngineTypeOK, NEW in \in InputType(EngineRows), in.height = size, NEW box
  PROVE  LET res == Step(led, in)
         IN  Given(EngineRows, in, res, Window(in.frame, res.plan.top, in.height, box))
  <1> DEFINE res == Step(led, in)  window == Window(in.frame, res.plan.top, in.height, box)
  <1>1. Typed(EngineRows) /\ led \in LedgerType(EngineRows)  BY DEF EngineTypeOK, Typed
  <1>2. res.plan.top \in Nat  BY <1>1, StepFits
  <1>3. Chunk(in, res) \in Seq(EngineRows)  BY <1>1, ChunkIsRows
  <1>4. in.frame \in Seq(EngineRows) /\ in.height \in Nat \ {0}  BY DEF InputType, EngineTypeOK
  <1>5. Blank \in EngineRows /\ Box \in EngineRows  BY DEF EngineRows, Rows
  <1> HIDE DEF res
  <1>6. window \in Seq(EngineRows) /\ Len(window) = in.height  BY <1>2, <1>4, <1>5, WindowFits
  <1> HIDE DEF window
  <1>7. led.W \in Nat  BY <1>1 DEF LedgerType
  <1>8. Given(EngineRows, in, res, window)
    BY <1>2, <1>3, <1>4, <1>5, <1>6, <1>7 DEF Given, EngineTypeOK
  <1>. QED  BY <1>8 DEF res, window

(* A frame that arrives. *)
LEMMA PaintedKeeps ==
  ASSUME EngineInv, NEW in \in InputType(EngineRows), in.height = size, in.first = fresh,
         NEW newFinal \in Nat, NEW replaced \in BOOLEAN, NEW box \in 0..size, NEW focus \in BOOLEAN,
         in.overlay = (box # 0), NEW forced,
         NEW res, res = Step(led, in), NEW window, window = Window(in.frame, res.plan.top, in.height, box),
         NEW e, e = Emission(in, res, window, forced),
         NEW target, target = Target(IF box # 0 THEN res.plan.top + box - 1
                                     ELSE IF focus /\ Len(in.frame) > res.plan.top THEN Len(in.frame) - 1
                                     ELSE NoCursor, Len(in.frame)),
         Paint(in, res, newFinal),
         term' = Arrived(e, target), hw' = (IF target = NoCursor THEN e.ends ELSE target),
         shown' = window, force' = FALSE,
         stale' = ((stale \/ replaced) /\ ~(res.plan.clear /\ in.height = Len(term.screen))),
         alt' = 0, size' = size, winch' \in {"none", "event", "reason"}
  PROVE  EngineInv' /\ Len(term'.screen) = Len(term.screen)
  <1> DEFINE R == EngineRows  h == in.height  top == res.plan.top  old == Len(term.screen)
  <1>0. EngineTypeOK /\ OnceInOrder /\ Tracks /\ Kept(R)
    BY DEF EngineInv, EngineTypeOK, Kept
  <1>1. Kept(R)'  BY <1>0, PaintKeeps
  <1>2. Given(R, in, res, window)  BY <1>0, DrawIsGiven
  <1>3. led \in LedgerType(R) /\ h \in Nat \ {0} /\ top \in Nat /\ old \in Nat /\ Len(in.frame) \in Nat
    <2>1. led \in LedgerType(R)  BY <1>0 DEF EngineTypeOK, Typed
    <2>2. term \in TerminalType(R)  BY <1>0 DEF EngineTypeOK
    <2>3. old \in Nat  BY <2>2, TerminalFacts
    <2>4. h \in Nat \ {0} /\ top \in Nat /\ Len(in.frame) \in Nat  BY <1>2 DEF Given
    <2>. QED  BY <2>1, <2>3, <2>4
  <1>4. /\ top \in 0..Len(in.frame) /\ Len(in.frame) - h <= top
        /\ Len(in.frame) > 0 => top < Len(in.frame)
        /\ res.plan.kind = "full" => res.plan.chunkTo = top
        /\ res.plan.kind = "extend" /\ ~in.overlay => res.plan.chunkTo = top
        /\ res.plan.clear => res.plan.kind = "full"
        /\ in.first => res.plan.kind = "full"
    BY <1>3, TopShape
  <1>5. e \in EmissionType(R, old)  BY <1>2, EmissionFits
  <1>6. target \in Int /\ (target # NoCursor => target \in top..top + h - 1)
    BY ZenonT(40), <1>3, <1>4, TargetInWindow
  <1>7. term' \in TerminalType(R) /\ Len(term'.screen) = old  BY <1>3, <1>5, <1>6, ArrivedFits
  <1>8. e.ends \in Int /\ window \in Seq(R) /\ Len(window) = h
    BY <1>2, <1>5 DEF EmissionType, Given
  <1>9. EngineTypeOK'
    <2>1. Typed(R)'  BY <1>1 DEF Kept
    <2>2. hw' \in Int  BY <1>6, <1>8
    <2>3. shown' \in Seq(R)  BY <1>8
    <2>4. stale' \in BOOLEAN /\ force' \in BOOLEAN /\ alt' \in Nat /\ size' \in Nat \ {0}
      BY <1>0 DEF EngineTypeOK
    <2>. QED  BY <2>1, <2>2, <2>3, <2>4, <1>7 DEF EngineTypeOK
  <1>10. led'.W = top /\ led'.C = res.plan.chunkTo /\ frame' = in.frame /\ height' = h /\ fresh' = FALSE
    BY DEF Paint, Finish
  <1>11. ASSUME ~stale'
         PROVE  /\ h = old
                /\ term'.scroll = hist' /\ term'.screen = window /\ hw' = top + term'.row
    <2>1. h = old /\ (res.plan.clear \/ ~stale)  BY <1>11, <1>0 DEF Tracks
    <2>2. res.plan.kind # "full" => Known(in) /\ ~res.plan.clear
      <3>1. res.plan.kind # "full" => ~fresh /\ ~res.plan.clear  BY <1>4
      <3>. QED  BY <3>1, <2>1, <1>0 DEF Tracks, Known
    <2> DEFINE scroll == (IF res.plan.clear THEN <<>> ELSE term.scroll) \o Chunk(in, res)
    <2>3. Lands(e, window, scroll, top)  BY <1>2, <2>1, <2>2, EmissionLands
    <2>4. hist' = scroll
      <3>1. ~res.plan.clear => term.scroll = hist  BY <2>1, <1>0 DEF Tracks
      <3>. QED  BY <3>1 DEF Paint, Emitted, Cleared
    <2> HIDE DEF scroll
    <2>5. /\ term'.screen = window /\ term'.scroll = scroll
          /\ (IF target = NoCursor THEN e.ends ELSE target) = top + term'.row
      BY <2>1, <2>3, <1>3, <1>5, <1>6, TargetLands
    <2>. QED  BY <2>1, <2>4, <2>5
  <1>12. \A r \in 1..h : window[r] \in {Box, Window(in.frame, top, h, 0)[r]}
    <2>1. \A r \in 1..h : r # 0  BY <1>3
    <2>. QED  BY <2>1 DEF Window
  <1>13. calm' /\ (\A r \in 1..h : window[r] # Box) => led'.C = top /\ Len(in.frame) - top \in 0..h
    <2> SUFFICES ASSUME calm', \A r \in 1..h : window[r] # Box
                 PROVE  led'.C = top /\ Len(in.frame) - top \in 0..h
      OBVIOUS
    <2>1. box = 0
      <3>1. box # 0 => box \in 1..h /\ window[box] = Box  BY <1>3 DEF Window
      <3>. QED  BY <3>1
    <2>2. res.plan.kind = "full" \/ res.plan.kind = "extend"  BY <1>4 DEF Paint
    <2>3. led'.C = top  BY <2>1, <2>2, <1>4, <1>10
    <2>4. Len(in.frame) - top \in 0..h  BY <1>3, <1>4
    <2>. QED  BY <2>3, <2>4
  <1>14. Tracks'
    <2>1. ~stale' => term'.scroll = hist' /\ size' = Len(term'.screen)  BY <1>7, <1>11
    <2>2. ~stale' => term'.screen = shown' /\ hw' = led'.W + term'.row  BY <1>10, <1>11
    <2>3. Len(shown') = height'  BY <1>8, <1>10
    <2>4. \A r \in 1..Len(shown') : shown'[r] \in {Box, Window(frame', led'.W, height', 0)[r]}
      BY <1>8, <1>10, <1>12
    <2>5. calm' /\ (\A r \in 1..Len(shown') : shown'[r] # Box) => led'.C = led'.W /\ Len(frame') - led'.W \in 0..height'
      BY <1>8, <1>10, <1>13
    <2>. QED  BY <2>1, <2>2, <2>3, <2>4, <2>5 DEF Tracks
  <1>. QED  BY <1>1, <1>7, <1>9, <1>14 DEF EngineInv, Kept

(* A frame whose write breaks off, wherever it does. *)
BreaksOff(in, res, newFinal, e, target, replaced) ==
  /\ term' \in {term, Arrived(e, target)} \cup {CutOff(e, k) : k \in 0..Len(e.lines)}
  /\ EmitFails(in, res, newFinal, term'.scroll)
  /\ stale' = (stale \/ replaced)
  /\ UNCHANGED <<hw, shown>>

(* A draw whose write breaks off keeps the invariant: the engine knows that it
   knows nothing. *)
LEMMA BrokenKeeps ==
  ASSUME EngineInv, NEW in \in InputType(EngineRows), in.height = size,
         NEW newFinal \in Nat, NEW replaced \in BOOLEAN, NEW box \in 0..size, NEW forced,
         NEW res, res = Step(led, in), NEW window, window = Window(in.frame, res.plan.top, in.height, box),
         NEW e, e = Emission(in, res, window, forced), NEW target \in Int,
         BreaksOff(in, res, newFinal, e, target, replaced), force' \in BOOLEAN,
         alt' = 0, size' = size, winch' \in {"none", "event", "reason"}
  PROVE  EngineInv' /\ Len(term'.screen) = Len(term.screen)
  <1> DEFINE R == EngineRows  old == Len(term.screen)
  <1>0. EngineTypeOK /\ OnceInOrder /\ Tracks /\ Kept(R) /\ term \in TerminalType(R)
    BY DEF EngineInv, EngineTypeOK, Kept
  <1>1. Given(R, in, res, window)  BY <1>0, DrawIsGiven
  <1>2. old \in Nat  BY <1>0, TerminalFacts
  <1>3. e \in EmissionType(R, old)  BY <1>1, EmissionFits
  <1>b. /\ term' \in {term, Arrived(e, target)} \cup {CutOff(e, k) : k \in 0..Len(e.lines)}
        /\ EmitFails(in, res, newFinal, term'.scroll) /\ UNCHANGED <<hw, shown>>
    BY DEF BreaksOff
  <1>4. term' \in TerminalType(R) /\ Len(term'.screen) = old
    <2>1. CASE term' = term  BY <2>1, <1>0
    <2>2. CASE term' = Arrived(e, target)  BY <2>2, <1>2, <1>3, ArrivedFits
    <2>3. CASE term' \in {CutOff(e, k) : k \in 0..Len(e.lines)}
      <3>1. PICK k \in 0..Len(e.lines) : term' = CutOff(e, k)  BY <2>3
      <3>. QED  BY <3>1, <1>2, <1>3, CutOffFits
    <2>. QED  BY <1>b, <2>1, <2>2, <2>3
  <1>5. term'.scroll \in Seq(R)  BY <1>4 DEF TerminalType
  <1>6. Kept(R)'  BY <1>0, <1>5, <1>b, EmitFailsKeeps
  <1>7. hist' = term'.scroll /\ fresh' = TRUE  BY <1>b DEF EmitFails
  <1>8. EngineTypeOK'
    BY <1>0, <1>4, <1>6, <1>b DEF EngineTypeOK, Kept, BreaksOff
  <1>9. Tracks'
    <2>1. ~stale' => ~stale  BY Zenon DEF BreaksOff
    <2>. QED  BY <2>1, <1>0, <1>4, <1>7 DEF Tracks
  <1>. QED  BY <1>4, <1>6, <1>8, <1>9 DEF EngineInv, Kept

-----------------------------------------------------------------------------
(* What a draw of the normal screen hands to the ledger. *)
Drawn(new, newFinal, reason, box, focus, hint, retreat, snapshot) ==
  [Input(new, newFinal, size, reason = "replace", box # 0,
         reason = "resize" \/ size # height, hint, retreat, snapshot)
   EXCEPT !.cursors = IF focus THEN {Len(new)} ELSE {}]

LEMMA DrawnFits ==
  ASSUME EngineTypeOK, NEW new \in Seq(EngineRows), NEW newFinal \in Nat, NEW reason,
         NEW box \in 0..size, NEW focus \in BOOLEAN, NEW hint \in BOOLEAN, NEW retreat \in BOOLEAN,
         NEW snapshot \in BOOLEAN
  PROVE  LET in == Drawn(new, newFinal, reason, box, focus, hint, retreat, snapshot)
         IN  /\ in \in InputType(EngineRows)
             /\ in.frame = new /\ in.height = size /\ in.first = fresh /\ in.overlay = (box # 0)
             /\ in.replace = (reason = "replace") /\ in.geometry = (reason = "resize" \/ size # height)
             /\ in.inPlace = InPlace /\ in.mux = Mux
  <1> DEFINE base == Input(new, newFinal, size, reason = "replace", box # 0,
                           reason = "resize" \/ size # height, hint, retreat, snapshot)
  <1>1. base \in InputType(EngineRows)
    <2>1. Typed(EngineRows) /\ size \in Nat  BY DEF EngineTypeOK
    <2>2. frame \in Seq(EngineRows) /\ fresh \in BOOLEAN  BY <2>1 DEF Typed
    <2>3. (IF hint THEN Common(new, frame) ELSE 0) \in Int  BY <2>2, CommonIsANumber
    <2>4. InPlace \in BOOLEAN /\ Mux \in BOOLEAN  BY LedgerAssumption DEF LedgerAssumption
    <2>5. {Len(new)} \in SUBSET Int  OBVIOUS
    <2>6. (IF retreat THEN 0 ELSE newFinal) \in Int /\ (IF snapshot THEN Len(new) ELSE Unset) \in Int
      BY DEF Unset
    <2>. QED  BY <2>1, <2>2, <2>3, <2>4, <2>5, <2>6 DEF Input, InputType
  <1>2. /\ base.frame = new /\ base.height = size /\ base.first = fresh /\ base.overlay = (box # 0)
        /\ base.replace = (reason = "replace") /\ base.geometry = (reason = "resize" \/ size # height)
        /\ base.inPlace = InPlace /\ base.mux = Mux
    BY DEF Input
  <1>3. (IF focus THEN {Len(new)} ELSE {}) \in SUBSET Int  OBVIOUS
  <1>4. Drawn(new, newFinal, reason, box, focus, hint, retreat, snapshot)
          = [base EXCEPT !.cursors = IF focus THEN {Len(new)} ELSE {}]
    BY DEF Drawn
  <1> HIDE DEF base
  <1>. QED  BY <1>1, <1>2, <1>3, <1>4 DEF InputType

(* Draw on the normal screen. *)
LEMMA DrawNormalKeeps ==
  ASSUME EngineInv, NEW new \in Seq(EngineRows), NEW newFinal \in Nat, NEW asked,
         NEW box \in 0..size, NEW focus \in BOOLEAN, NEW hint \in BOOLEAN, NEW retreat \in BOOLEAN,
         NEW snapshot \in BOOLEAN, DrawNormal(new, newFinal, asked, box, focus, hint, retreat, snapshot)
  PROVE  EngineInv' /\ Len(term'.screen) = Len(term.screen)
  <1> DEFINE reason == Reason(asked)
             in  == Drawn(new, newFinal, reason, box, focus, hint, retreat, snapshot)
             res == Step(led, in)
             top == res.plan.top
             window == Window(in.frame, top, in.height, box)
             forced == force \/ reason # "update" \/ (in.geometry /\ in.inPlace)
             e      == Emission(in, res, window, forced)
             cursor == IF box # 0 THEN top + box - 1
                       ELSE IF focus /\ Len(in.frame) > top THEN Len(in.frame) - 1 ELSE NoCursor
             target == Target(cursor, Len(in.frame))
             replaced == asked = "replace"
  <1>0. EngineTypeOK  BY DEF EngineInv
  <1>3. in \in InputType(EngineRows)  BY <1>0, DrawnFits
  <1>4. in.frame = new /\ in.height = size /\ in.first = fresh /\ in.overlay = (box # 0)
    BY <1>0, DrawnFits
  <1>5. DrawFrame(in, newFinal, reason, replaced, box, focus) /\ alt' = 0 /\ UNCHANGED <<world, size>>
        /\ winch' = IF winch = "reason" THEN "none" ELSE winch
    BY Zenon DEF DrawNormal, Drawn
  <1> HIDE DEF in, reason
  <1>6. \/ /\ Paint(in, res, newFinal)
           /\ term' = Arrived(e, target)
           /\ hw' = IF target = NoCursor THEN e.ends ELSE target
           /\ shown' = window /\ force' = FALSE
           /\ stale' = ((stale \/ replaced) /\ ~(res.plan.clear /\ in.height = Len(term.screen)))
        \/ /\ BreaksOff(in, res, newFinal, e, target, replaced)
           /\ force' = (force \/ fresh \/ reason = "force")
    BY <1>5, Zenon DEF DrawFrame, BreaksOff
  <1>7. replaced \in BOOLEAN /\ winch' \in {"none", "event", "reason"} /\ size' = size
    BY <1>0, <1>5 DEF EngineTypeOK
  <1>8. target \in Int
    <2>1. in.height > 0 /\ led \in LedgerType(EngineRows)
      BY <1>0, <1>4 DEF EngineTypeOK, Typed
    <2>2. /\ top \in 0..Len(in.frame) /\ Len(in.frame) - in.height <= top
          /\ Len(in.frame) > 0 => top < Len(in.frame)
      BY <1>3, <2>1, TopShape
    <2>3. Len(in.frame) \in Nat /\ in.height \in Nat \ {0} /\ box \in 0..in.height
      BY <1>0, <1>3, <1>4 DEF InputType, EngineTypeOK
    <2> HIDE DEF res
    <2>. QED  BY <2>2, <2>3, TargetInWindow
  <1> HIDE DEF forced, replaced
  <1>9. ASSUME Paint(in, res, newFinal), term' = Arrived(e, target),
               hw' = (IF target = NoCursor THEN e.ends ELSE target), shown' = window, force' = FALSE,
               stale' = ((stale \/ replaced) /\ ~(res.plan.clear /\ in.height = Len(term.screen)))
        PROVE  EngineInv' /\ Len(term'.screen) = Len(term.screen)
    BY ZenonT(40), <1>3, <1>4, <1>5, <1>7, <1>9, PaintedKeeps
  <1>10. ASSUME BreaksOff(in, res, newFinal, e, target, replaced),
                force' = (force \/ fresh \/ reason = "force")
         PROVE  EngineInv' /\ Len(term'.screen) = Len(term.screen)
    <2>1. force' \in BOOLEAN  BY <1>0, <1>10 DEF EngineTypeOK, Typed
    <2>2. /\ res = Step(led, in) /\ e = Emission(in, res, window, forced)
          /\ window = Window(in.frame, res.plan.top, in.height, box)
      OBVIOUS
    <2>3. in.height = size /\ alt' = 0  BY <1>4, <1>5
    <2> HIDE DEF target, res, window, e
    <2>. QED  BY <2>1, <2>2, <2>3, <1>3, <1>7, <1>8, <1>10, BrokenKeeps
  <1>. QED  BY <1>6, <1>9, <1>10

(* Draw under a fullscreen overlay: neither screen nor ledger is touched.  *)
LEMMA DrawAltKeeps ==
  ASSUME EngineInv, NEW new \in Seq(EngineRows), NEW newFinal \in Nat, NEW asked, DrawAlt(new, newFinal, asked)
  PROVE  EngineInv'
  <1>1. EngineTypeOK'
    <2>1. Typed(EngineRows)'
      <3>1. fresh' \in BOOLEAN  BY DEF DrawAlt, EngineInv, EngineTypeOK, Typed
      <3>. QED  BY <3>1 DEF DrawAlt, EngineInv, EngineTypeOK, Typed
    <2>2. stale' \in BOOLEAN /\ alt' \in Nat /\ winch' \in {"none", "event", "reason"}
      BY DEF DrawAlt, EngineInv, EngineTypeOK
    <2>. QED  BY <2>1, <2>2 DEF DrawAlt, EngineInv, EngineTypeOK
  <1>2. alt' # 0  BY DEF DrawAlt, EngineInv, EngineTypeOK
  <1>3. (~fresh' => ~fresh) /\ (~stale' => ~stale) /\ ~calm'
    <2>1. fresh' \in {fresh, TRUE}
      <3>1. fresh' \in {fresh} \cup {TRUE : e \in {"fail"} \cap world}  BY DEF DrawAlt
      <3>. QED  BY <3>1
    <2>2. stale' = (stale \/ asked = "replace") /\ calm' = FALSE  BY DEF DrawAlt
    <2>3. ~fresh' => ~fresh  BY <2>1
    <2>4. ~stale' => ~stale  BY <2>2, Zenon
    <2>. QED  BY <2>2, <2>3, <2>4, Zenon
  <1>4. Tracks'
    BY <1>2, <1>3 DEF DrawAlt, EngineInv, Tracks
  <1>. QED  BY <1>1, <1>3, <1>4 DEF EngineInv, OnceInOrder

(* What a resize makes of a screen. *)
LEMMA ReflowFits ==
  ASSUME NEW R, Blank \in R, NEW t \in TerminalType(R), NEW h \in Nat \ {0}, NEW u \in Reflowed(t, h)
  PROVE  u \in TerminalType(R) /\ Len(u.screen) = h
  <1> DEFINE old == Len(t.screen)
  <1>0. /\ t.screen \in Seq(R) /\ t.scroll \in Seq(R) /\ old \in Nat \ {0} /\ t.row \in Nat /\ t.row < old
        /\ \A i \in 1..old : t.screen[i] \in R
    BY TerminalFacts
  <1>1. CASE h >= old
    <2>1. u = [t EXCEPT !.screen = t.screen \o BlankRows(h - old)]  BY <1>1 DEF Reflowed
    <2>2. h - old \in Nat  BY <1>0, <1>1
    <2>3. BlankRows(h - old) \in Seq(R) /\ Len(BlankRows(h - old)) = h - old  BY <2>2, BlankScreen
    <2> DEFINE screen == t.screen \o BlankRows(h - old)
    <2>4. screen \in Seq(R) /\ Len(screen) = old + (h - old)  BY ZenonT(40), <1>0, <2>3, ConcatProperties
    <2> HIDE DEF screen
    <2>5. Len(screen) = h  BY <1>0, <2>4
    <2>6. u = [screen |-> screen, row |-> t.row, scroll |-> t.scroll]
      BY <2>1 DEF TerminalType, screen
    <2>. QED  BY <2>4, <2>5, <2>6, <1>0, <1>1 DEF TerminalType
  <1>2. CASE ~(h >= old) /\ u = [t EXCEPT !.screen = SubSeq(t.screen, 1, h), !.row = Least(t.row, h - 1)]
    <2> DEFINE screen == SubSeq(t.screen, 1, h)  row == Least(t.row, h - 1)
    <2>1. h \in 0..old  BY <1>0, <1>2
    <2>2. screen \in Seq(R) /\ Len(screen) = h  BY <1>0, <2>1, SubSeqOfFrame
    <2>3. row \in Nat /\ row < h  BY <1>0 DEF Least
    <2> HIDE DEF screen, row
    <2>4. u = [screen |-> screen, row |-> row, scroll |-> t.scroll]
      BY <1>2 DEF TerminalType, screen, row
    <2>. QED  BY <2>2, <2>3, <2>4, <1>0 DEF TerminalType
  <1>3. CASE ~(h >= old) /\ u = [screen |-> SubSeq(t.screen, old - h + 1, old), row |-> Greatest(0, t.row - (old - h)),
                                 scroll |-> t.scroll \o SubSeq(t.screen, 1, old - h)]
    <2> DEFINE screen == SubSeq(t.screen, old - h + 1, old)  row == Greatest(0, t.row - (old - h))
               scroll == t.scroll \o SubSeq(t.screen, 1, old - h)
    <2>1. screen \in Seq(R) /\ Len(screen) = h
      <3> DEFINE a == old - h + 1
      <3>1. a \in Int /\ old \in Int /\ a <= old /\ old - a + 1 = h  BY <1>0, <1>3
      <3>2. \A i \in a..old : t.screen[i] \in R  BY <1>0, <1>3
      <3> HIDE DEF a
      <3>3. SubSeq(t.screen, a, old) \in Seq(R) /\ Len(SubSeq(t.screen, a, old)) = IF a <= old THEN old - a + 1 ELSE 0
        BY <3>1, <3>2, SubSeqProperties
      <3>. QED  BY <3>1, <3>3 DEF a
    <2>2. row \in Nat /\ row < h
      <3>1. row = IF 0 > t.row - (old - h) THEN 0 ELSE t.row - (old - h)  BY DEF Greatest
      <3> HIDE DEF row
      <3>. QED  BY SMTT(40), <3>1, <1>0, <1>3
    <2>3. scroll \in Seq(R)
      <3>1. old - h \in 0..old  BY <1>0, <1>3
      <3>2. SubSeq(t.screen, 1, old - h) \in Seq(R)  BY <3>1, <1>0, SubSeqOfFrame
      <3>. QED  BY <3>2, <1>0, ConcatProperties
    <2> HIDE DEF screen, row, scroll
    <2>4. u = [screen |-> screen, row |-> row, scroll |-> scroll]  BY <1>3 DEF screen, row, scroll
    <2>. QED  BY <2>1, <2>2, <2>3, <2>4 DEF TerminalType
  <1>. QED  BY <1>1, <1>2, <1>3 DEF Reflowed

(* A resize by the terminal keeps the invariant. *)
LEMMA ResizeKeeps ==
  ASSUME EngineInv, TerminalResizes
  PROVE  EngineInv'
  <1>1. PICK h \in Heights \ {Len(term.screen)} : term' \in Reflowed(term, h)
    BY DEF TerminalResizes
  <1>2. h \in Nat \ {0} /\ Blank \in EngineRows
    BY LedgerAssumption DEF LedgerAssumption, EngineRows, Rows
  <1>3. term' \in TerminalType(EngineRows)
    BY <1>1, <1>2, ReflowFits DEF EngineInv, EngineTypeOK
  <1>4. Typed(EngineRows)' /\ OnceInOrder'
    BY DEF TerminalResizes, vars, EngineInv, EngineTypeOK, Typed, OnceInOrder
  <1>5. EngineTypeOK'
    BY <1>3, <1>4 DEF TerminalResizes, EngineInv, EngineTypeOK
  <1>6. Tracks'
    BY DEF TerminalResizes, vars, EngineInv, Tracks
  <1>. QED  BY <1>4, <1>5, <1>6 DEF EngineInv

(* The application learning of the resize keeps the invariant. *)
LEMMA LearnsKeeps ==
  ASSUME EngineInv, AppLearns
  PROVE  EngineInv'
  <1>1. Typed(EngineRows)' /\ OnceInOrder'
    BY DEF AppLearns, vars, EngineInv, EngineTypeOK, Typed, OnceInOrder
  <1>2. Len(term.screen) \in Nat \ {0}  BY TerminalFacts DEF EngineInv, EngineTypeOK
  <1>3. EngineTypeOK'
    BY <1>1, <1>2 DEF AppLearns, EngineInv, EngineTypeOK
  <1>4. Tracks'
    BY DEF AppLearns, vars, EngineInv, Tracks
  <1>. QED  BY <1>1, <1>3, <1>4 DEF EngineInv

(* Forcing the next rewrite keeps the invariant. *)
LEMMA ForceKeeps ==
  ASSUME EngineInv, ForceNextWindowRewrite
  PROVE  EngineInv'
  BY DEF ForceNextWindowRewrite, vars, EngineInv, EngineTypeOK, Typed, OnceInOrder, Tracks

(* Every step of the engine keeps the invariant. *)
LEMMA EngineNextKeeps ==
  ASSUME EngineInv, EngineNext
  PROVE  EngineInv'
  <1>1. ASSUME NEW n \in 0..(IF "tall" \in world THEN MaxRows ELSE MaxRows - 1), NEW asked \in Reasons,
               NEW new \in Compositions(n, asked = "replace"), NEW newFinal \in 0..n,
               NEW box \in {0} \cup {b \in 1..size : "overlay" \in world},
               NEW focus \in Choice("nocursor", TRUE), NEW hint \in Choice("nohint", TRUE),
               NEW retreat \in Choice("retreat", FALSE), NEW snapshot \in Choice("snapshot", FALSE),
               DrawNormal(new, newFinal, asked, box, focus, hint, retreat, snapshot)
        PROVE  EngineInv'
    <2>1. MaxRows \in Nat /\ size \in Nat
      BY LedgerAssumption DEF LedgerAssumption, EngineInv, EngineTypeOK
    <2>2. n \in 0..MaxRows  BY <2>1
    <2>3. new \in Seq(EngineRows)  BY <2>2, ComposedAreRows
    <2>4. newFinal \in Nat /\ box \in 0..size  BY <2>1
    <2>5. focus \in BOOLEAN /\ hint \in BOOLEAN /\ retreat \in BOOLEAN /\ snapshot \in BOOLEAN
      BY DEF Choice
    <2>. QED  BY <1>1, <2>3, <2>4, <2>5, DrawNormalKeeps
  <1>2. ASSUME NEW n \in 0..(IF "tall" \in world THEN MaxRows ELSE MaxRows - 1), NEW asked \in Reasons,
               NEW new \in Compositions(n, asked = "replace"), NEW newFinal \in 0..n,
               DrawAlt(new, newFinal, asked)
        PROVE  EngineInv'
    <2>1. MaxRows \in Nat  BY LedgerAssumption DEF LedgerAssumption
    <2>2. n \in 0..MaxRows  BY <2>1
    <2>3. new \in Seq(EngineRows)  BY <2>2, ComposedAreRows
    <2>. QED  BY <1>2, <2>3, DrawAltKeeps
  <1>3. CASE \E n \in 0..(IF "tall" \in world THEN MaxRows ELSE MaxRows - 1), asked \in Reasons :
             \E new \in Compositions(n, asked = "replace"), newFinal \in 0..n :
               \/ \E box \in {0} \cup {b \in 1..size : "overlay" \in world},
                     focus \in Choice("nocursor", TRUE), hint \in Choice("nohint", TRUE),
                     retreat \in Choice("retreat", FALSE), snapshot \in Choice("snapshot", FALSE) :
                    DrawNormal(new, newFinal, asked, box, focus, hint, retreat, snapshot)
               \/ DrawAlt(new, newFinal, asked)
    <2>1. PICK n \in 0..(IF "tall" \in world THEN MaxRows ELSE MaxRows - 1), asked \in Reasons :
            \E new \in Compositions(n, asked = "replace"), newFinal \in 0..n :
               \/ \E box \in {0} \cup {b \in 1..size : "overlay" \in world},
                     focus \in Choice("nocursor", TRUE), hint \in Choice("nohint", TRUE),
                     retreat \in Choice("retreat", FALSE), snapshot \in Choice("snapshot", FALSE) :
                    DrawNormal(new, newFinal, asked, box, focus, hint, retreat, snapshot)
               \/ DrawAlt(new, newFinal, asked)
      BY <1>3, Zenon
    <2>2. PICK new \in Compositions(n, asked = "replace"), newFinal \in 0..n :
               \/ \E box \in {0} \cup {b \in 1..size : "overlay" \in world},
                     focus \in Choice("nocursor", TRUE), hint \in Choice("nohint", TRUE),
                     retreat \in Choice("retreat", FALSE), snapshot \in Choice("snapshot", FALSE) :
                    DrawNormal(new, newFinal, asked, box, focus, hint, retreat, snapshot)
               \/ DrawAlt(new, newFinal, asked)
      BY <2>1, Zenon
    <2>3. CASE DrawAlt(new, newFinal, asked)  BY <2>3, <1>2, Zenon
    <2>4. CASE \E box \in {0} \cup {b \in 1..size : "overlay" \in world},
                  focus \in Choice("nocursor", TRUE), hint \in Choice("nohint", TRUE),
                  retreat \in Choice("retreat", FALSE), snapshot \in Choice("snapshot", FALSE) :
                 DrawNormal(new, newFinal, asked, box, focus, hint, retreat, snapshot)
      BY <2>4, <1>1, Zenon
    <2>. QED  BY <2>2, <2>3, <2>4
  <1>. QED  BY <1>3, ForceKeeps, ResizeKeeps, LearnsKeeps, ZenonT(30) DEF EngineNext

(* A new engine before its first draw satisfies the invariant. *)
LEMMA EngineInitHolds == EngineInit => EngineInv
  <1> SUFFICES ASSUME EngineInit PROVE EngineInv  OBVIOUS
  <1>0. height \in Nat \ {0}  BY LedgerAssumption DEF EngineInit, Init, LedgerAssumption
  <1>1. /\ led \in LedgerType(EngineRows) /\ led.C <= led.W /\ led.prefix = <<>> /\ led.C = 0
    BY DEF EngineInit, Init, EmptyLedger, LedgerType
  <1>2. Typed(EngineRows)  BY <1>0, <1>1 DEF EngineInit, Init, Typed
  <1>3. BlankRows(height) \in Seq(EngineRows) /\ Len(BlankRows(height)) = height
    <2>1. Blank \in EngineRows  BY DEF EngineRows, Rows
    <2>. QED  BY <2>1, <1>0, BlankScreen
  <1>4. term = [screen |-> BlankRows(height), row |-> 0, scroll |-> <<>>]  BY DEF EngineInit
  <1>5. term \in TerminalType(EngineRows) /\ Len(term.screen) = height /\ term.scroll = <<>>
    BY <1>0, <1>3, <1>4 DEF TerminalType
  <1>6. EngineTypeOK
    <2>1. shown \in Seq(EngineRows)  BY EmptySeq DEF EngineInit
    <2>2. hw \in Int /\ alt \in Nat /\ size \in Nat \ {0}  BY <1>0 DEF EngineInit
    <2>3. force \in BOOLEAN /\ stale \in BOOLEAN /\ winch \in {"none", "event", "reason"}
      BY DEF EngineInit
    <2>. QED  BY <1>2, <1>5, <2>1, <2>2, <2>3 DEF EngineTypeOK
  <1>7. Tracks  BY <1>5 DEF EngineInit, Init, Tracks
  <1>8. OnceInOrder
    <2>1. SubSeq(<<>>, 1, 0) = <<>>  BY SubSeqEmpty
    <2>. QED  BY <1>1, <2>1 DEF EngineInit, Init, OnceInOrder
  <1>. QED  BY <1>6, <1>7, <1>8 DEF EngineInv

(* The inductive invariant of the engine and its ledger. *)
THEOREM EngineCorrect == EngineSpec => []EngineInv
  <1>1. EngineInv /\ [EngineNext]_<<vars, engineVars>> => EngineInv'
    <2>1. ASSUME EngineInv, UNCHANGED <<vars, engineVars>> PROVE EngineInv'
      BY <2>1 DEF vars, engineVars, EngineInv, EngineTypeOK, Typed, OnceInOrder, Tracks
    <2>. QED  BY <2>1, EngineNextKeeps
  <1>. QED  BY <1>1, EngineInitHolds, PTL DEF EngineSpec

(* renderer/doc.go: "scrollback == frame[0:CommittedRows], each row once,  *)
(* in order", as the ledger plans it, with everything an engine adds:      *)
(* forced repaints, fullscreen overlays, resizes and failed writes.        *)
THEOREM EngineHistory == EngineSpec => []OnceInOrder
  <1>1. EngineInv => OnceInOrder  BY DEF EngineInv
  <1>. QED  BY <1>1, EngineCorrect, PTL

(* MarksOrdered: committed, audited and durable rows never overtake one
   another while the engine draws (ledger.go State). *)
THEOREM EngineMarks == EngineSpec => []MarksOrdered
  <1>1. EngineInv => MarksOrdered
    BY DEF EngineInv, EngineTypeOK, Typed, LedgerType, MarksOrdered
  <1>. QED  BY <1>1, EngineCorrect, PTL

(* The scrollback of the terminal is the ledger's, although the engine     *)
(* only feeds lines and never asks (emit.go).                              *)
THEOREM HistoryIsPhysical == EngineSpec => []PhysicalHistory
  <1>1. EngineInv => PhysicalHistory  BY DEF EngineInv, Tracks, PhysicalHistory
  <1>. QED  BY <1>1, EngineCorrect, PTL

(* The screen is the window of the last frame, scrollback and screen       *)
(* together are the frame, each row once, and the relative moves of the    *)
(* next paint start where the cursor really is.                            *)
THEOREM FrameStaysOnScreen == EngineSpec => []FrameOnScreen
  <1>1. EngineInv => ScreenIsTheWindow  BY DEF EngineInv, Tracks, ScreenIsTheWindow
  <1>2. EngineInv => CursorTracked  BY DEF EngineInv, Tracks, CursorTracked
  <1>3. EngineInv => FrameIsVisible
    <2> SUFFICES ASSUME EngineInv, calm, ~fresh, ~stale, alt = 0, \A r \in 1..Len(shown) : shown[r] # Box
                 PROVE  term.scroll \o SubSeq(term.screen, 1, Len(frame) - led.W) = frame
      BY DEF FrameIsVisible
    <2> DEFINE R == EngineRows  C == led.C  k == Len(frame) - led.W
    <2>1. /\ frame \in Seq(R) /\ Len(frame) \in Nat /\ led.W \in Nat /\ height \in Nat /\ C \in Nat
      BY DEF EngineInv, EngineTypeOK, Typed, LedgerType
    <2>2. term.scroll = SubSeq(frame, 1, C) /\ C = led.W /\ k \in 0..height
      BY DEF EngineInv, Tracks, OnceInOrder
    <2>3. term.screen = shown /\ Len(shown) = height /\ term.screen \in Seq(R)
      BY DEF EngineInv, Tracks, EngineTypeOK
    <2>4. \A r \in 1..height : shown[r] = Window(frame, led.W, height, 0)[r]
      BY <2>3 DEF EngineInv, Tracks
    <2> HIDE DEF k, R, C
    <2>5. \A r \in 1..k : term.screen[r] = frame[C + r]
      <3> TAKE r \in 1..k
      <3>1. r \in 1..height /\ led.W + r <= Len(frame) /\ r # 0  BY <2>1, <2>2 DEF k
      <3>2. Window(frame, led.W, height, 0)[r] = frame[led.W + r]  BY <3>1 DEF Window
      <3>. QED  BY <3>1, <3>2, <2>2, <2>3, <2>4
    <2>6. /\ SubSeq(term.screen, 1, k) \in Seq(R) /\ Len(SubSeq(term.screen, 1, k)) = k
          /\ \A r \in 1..k : SubSeq(term.screen, 1, k)[r] = term.screen[r]
      BY <2>2, <2>3, SubSeqOfFrame
    <2>7. /\ SubSeq(frame, C + 1, Len(frame)) \in Seq(R) /\ Len(SubSeq(frame, C + 1, Len(frame))) = k
          /\ \A r \in 1..k : SubSeq(frame, C + 1, Len(frame))[r] = frame[C + r]
      <3> DEFINE a == C + 1  n == Len(frame)
      <3>0. C \in Nat /\ n \in Nat /\ C <= n /\ k = n - C /\ a = C + 1
        <4>1. k \in Nat /\ k = n - led.W  BY <2>2, <2>1 DEF k
        <4>. QED  BY <4>1, <2>1, <2>2
      <3>1. a \in Int /\ n \in Int /\ n - a + 1 = k /\ (IF a <= n THEN n - a + 1 ELSE 0) = k
            /\ \A r \in 1..k : a + r - 1 = C + r
        <4> HIDE DEF a, n
        <4>. QED  BY <3>0
      <3>2. \A i \in a..n : frame[i] \in R  BY <2>1
      <3> HIDE DEF a, n
      <3>3. /\ SubSeq(frame, a, n) \in Seq(R) /\ Len(SubSeq(frame, a, n)) = IF a <= n THEN n - a + 1 ELSE 0
            /\ \A r \in 1..n - a + 1 : SubSeq(frame, a, n)[r] = frame[a + r - 1]
        BY <3>1, <3>2, SubSeqProperties
      <3>. QED  BY <3>1, <3>3 DEF a, n
    <2>8. SubSeq(term.screen, 1, k) = SubSeq(frame, C + 1, Len(frame))
      BY SMTT(40), <2>5, <2>6, <2>7, SeqEqual
    <2>9. SubSeq(frame, 1, C) \o SubSeq(frame, C + 1, Len(frame)) = SubSeq(frame, 1, Len(frame))
      <3>1. 1 \in 1..Len(frame) + 1 /\ C \in 1 - 1..Len(frame) /\ Len(frame) \in C..Len(frame)
        BY <2>1, <2>2 DEF k
      <3>. QED  BY <3>1, <2>1, ConcatAdjacentSubSeq
    <2>10. SubSeq(frame, 1, Len(frame)) = frame  BY <2>1, SubSeqFull
    <2>. QED  BY <2>2, <2>8, <2>9, <2>10 DEF k
  <1>4. EngineInv => FrameOnScreen  BY <1>1, <1>2, <1>3 DEF FrameOnScreen
  <1>. QED  BY <1>4, EngineCorrect, PTL

-----------------------------------------------------------------------------
(* What is stale is owed a rebuild, unless its reason is lost: a repaint   *)
(* whose write failed forgets that it was one, and a draw under a          *)
(* fullscreen overlay drops the reason it was asked for (engine.go, Draw). *)
(* Nothing that makes rows stale meets either of them.                     *)
Rebuildable ==
  \A w \in Worlds : w \cap {"winch", "replace"} = {} \/ w \cap {"fail", "fullscreen"} = {}

(* The size the application knows is the terminal's unless it is about to  *)
(* learn another.                                                          *)
Owed ==
  /\ world \in Worlds
  /\ world \cap {"winch", "replace"} = {} => ~stale
  /\ world \cap {"fail", "fullscreen"} = {} => alt = 0 /\ (fresh => ~stale /\ shown = <<>>)
  /\ winch # "event" => size = Len(term.screen)
  /\ StaleIsOwed

(* A repaint after a resize or a replacement clears the scrollback. *)
LEMMA RebuildClears ==
  ASSUME NEW s, NEW in, ~in.mux, in.replace \/ (in.geometry /\ ~in.inPlace)
  PROVE  Step(s, in).plan.clear
  <1> DEFINE a == Step(s, in).audited
  <1>1. PICK resynced : Step(s, in).plan = PlanCommit(a, in, resynced)  BY DEF Step
  <1> HIDE DEF a
  <1>2. PlanCommit(a, in, resynced).clear = Clears(in, in.geometry /\ ~in.inPlace)
    BY DEF PlanCommit
  <1>. QED  BY <1>1, <1>2 DEF Clears

(* A draw of the normal screen pays what is owed. *)
LEMMA DrawNormalPays ==
  ASSUME EngineInv, Owed, ~InPlace, ~Mux, Rebuildable,
         NEW new \in Seq(EngineRows), NEW newFinal \in Nat, NEW asked \in Reasons,
         NEW box \in 0..size, NEW focus \in BOOLEAN, NEW hint \in BOOLEAN, NEW retreat \in BOOLEAN,
         NEW snapshot \in BOOLEAN, DrawNormal(new, newFinal, asked, box, focus, hint, retreat, snapshot)
  PROVE  Owed'
  <1> DEFINE reason == Reason(asked)
             in  == Drawn(new, newFinal, reason, box, focus, hint, retreat, snapshot)
             replaced == asked = "replace"
             clear == Step(led, in).plan.clear
  <1>1. Len(term'.screen) = Len(term.screen)  BY DrawNormalKeeps
  <1>2. DrawFrame(in, newFinal, reason, replaced, box, focus) /\ alt' = 0 /\ UNCHANGED <<world, size>>
        /\ winch' = IF winch = "reason" THEN "none" ELSE winch
    BY Zenon DEF DrawNormal, Drawn
  <1>3. /\ in.height = size /\ ~in.mux /\ ~in.inPlace /\ in.replace = (reason = "replace")
        /\ in.geometry = (reason = "resize" \/ size # height)
    BY DrawnFits DEF EngineInv
  <1> HIDE DEF in
  <1>4. \/ /\ stale' = ((stale \/ replaced) /\ ~(clear /\ in.height = Len(term.screen)))
           /\ height' = in.height /\ fresh' = FALSE
        \/ "fail" \in world /\ stale' = (stale \/ replaced) /\ fresh' = TRUE
    BY <1>2 DEF DrawFrame, Paint, EmitFails
  <1>5. replaced => "replace" \in world  BY DEF Reasons
  <1>6. CASE world \cap {"fail", "fullscreen"} # {}
    <2>1. world \cap {"winch", "replace"} = {}  BY <1>6 DEF Owed, Rebuildable
    <2>2. ~stale /\ ~replaced  BY <2>1, <1>5 DEF Owed
    <2>3. ~stale'  BY <2>2, <1>4
    <2>. QED  BY <2>1, <2>3, <1>1, <1>2, <1>6 DEF Owed, StaleIsOwed
  <1>7. CASE world \cap {"fail", "fullscreen"} = {}
    <2>1. alt = 0 /\ reason = asked  BY <1>7 DEF Owed, Reason
    <2>2. /\ stale' = ((stale \/ replaced) /\ ~(clear /\ in.height = Len(term.screen)))
          /\ height' = in.height /\ fresh' = FALSE
      BY <1>4, <1>7
    <2>3. replaced => clear  BY <2>1, <1>3, RebuildClears
    <2>4. in.geometry => clear  BY <1>3, RebuildClears
    <2>5. ASSUME winch # "event" PROVE ~stale'
      <3>1. in.height = Len(term.screen)  BY <2>5, <1>3 DEF Owed
      <3>2. CASE replaced  BY <3>1, <3>2, <2>2, <2>3
      <3>3. CASE ~replaced /\ ~stale  BY <3>3, <2>2
      <3>4. CASE ~replaced /\ stale
        <4>1. winch \in {"none", "reason"}  BY <2>5 DEF EngineInv, EngineTypeOK
        <4>2. ~fresh  BY <3>4, <1>7 DEF Owed
        <4>3. winch = "reason" \/ size # height  BY <4>1, <4>2, <3>4, <2>1 DEF Owed, StaleIsOwed
        <4>4. winch = "reason" => asked = "resize"  BY <3>4 DEF Reasons
        <4>5. in.geometry  BY <4>3, <4>4, <2>1, <1>3
        <4>. QED  BY <4>5, <3>1, <2>2, <2>4
      <3>. QED  BY <3>2, <3>3, <3>4
    <2>6. winch = "event" => winch' = "event"  BY <1>2
    <2>7. StaleIsOwed'  BY <2>5, <2>6 DEF StaleIsOwed
    <2>8. world \cap {"winch", "replace"} = {} => ~stale'
      BY <2>2, <1>5 DEF Owed
    <2>9. winch' # "event" => size' = Len(term'.screen)  BY <1>1, <1>2 DEF Owed
    <2>. QED  BY <2>2, <2>7, <2>8, <2>9, <1>2 DEF Owed
  <1>. QED  BY <1>6, <1>7

(* A draw under a fullscreen overlay happens only where nothing gets stale. *)
LEMMA DrawAltPays ==
  ASSUME EngineInv, Owed, Rebuildable, NEW new, NEW newFinal, NEW asked \in Reasons, DrawAlt(new, newFinal, asked)
  PROVE  Owed'
  <1>1. "fullscreen" \in world  BY DEF DrawAlt
  <1>2. world \cap {"winch", "replace"} = {}  BY <1>1 DEF Owed, Rebuildable
  <1>3. asked # "replace"  BY <1>2 DEF Reasons
  <1>4. ~stale'  BY <1>2, <1>3 DEF DrawAlt, Owed
  <1>5. world' = world /\ size' = size /\ term' = term /\ (winch' # "event" => winch # "event")
    BY DEF DrawAlt
  <1>. QED  BY <1>1, <1>4, <1>5 DEF Owed, StaleIsOwed

(* Every step keeps the debt of stale rows known. *)
LEMMA OwedKept ==
  ASSUME EngineInv, Owed, ~InPlace, ~Mux, Rebuildable, EngineNext
  PROVE  Owed'
  <1> DEFINE DrawsOne(n, asked, new, newFinal) ==
               \/ \E box \in {0} \cup {b \in 1..size : "overlay" \in world},
                     focus \in Choice("nocursor", TRUE), hint \in Choice("nohint", TRUE),
                     retreat \in Choice("retreat", FALSE), snapshot \in Choice("snapshot", FALSE) :
                    DrawNormal(new, newFinal, asked, box, focus, hint, retreat, snapshot)
               \/ DrawAlt(new, newFinal, asked)
  <1>1. ASSUME NEW n \in 0..(IF "tall" \in world THEN MaxRows ELSE MaxRows - 1), NEW asked \in Reasons,
               NEW new \in Compositions(n, asked = "replace"), NEW newFinal \in 0..n,
               NEW box \in {0} \cup {b \in 1..size : "overlay" \in world},
               NEW focus \in Choice("nocursor", TRUE), NEW hint \in Choice("nohint", TRUE),
               NEW retreat \in Choice("retreat", FALSE), NEW snapshot \in Choice("snapshot", FALSE),
               DrawNormal(new, newFinal, asked, box, focus, hint, retreat, snapshot)
        PROVE  Owed'
    <2>1. MaxRows \in Nat /\ size \in Nat
      BY LedgerAssumption DEF LedgerAssumption, EngineInv, EngineTypeOK
    <2>2. n \in 0..MaxRows  BY <2>1
    <2>3. new \in Seq(EngineRows)  BY <2>2, ComposedAreRows
    <2>4. newFinal \in Nat /\ box \in 0..size  BY <2>1
    <2>5. focus \in BOOLEAN /\ hint \in BOOLEAN /\ retreat \in BOOLEAN /\ snapshot \in BOOLEAN
      BY DEF Choice
    <2>. QED  BY <1>1, <2>3, <2>4, <2>5, DrawNormalPays
  <1>2. ASSUME NEW n, NEW asked \in Reasons, NEW new, NEW newFinal, DrawAlt(new, newFinal, asked)
        PROVE  Owed'
    BY <1>2, DrawAltPays
  <1>3. CASE ForceNextWindowRewrite
    BY <1>3 DEF ForceNextWindowRewrite, vars, Owed, StaleIsOwed
  <1>4. CASE TerminalResizes
    <2>1. "winch" \in world /\ world \cap {"fail", "fullscreen"} = {}
      BY <1>4 DEF TerminalResizes, Owed, Rebuildable
    <2>2. /\ ~fresh /\ alt = 0 /\ fresh' = fresh /\ alt' = alt /\ world' = world
          /\ stale' = TRUE /\ winch' = "event"
      BY <1>4, <2>1 DEF TerminalResizes, Owed, vars
    <2>. QED  BY <2>1, <2>2 DEF Owed, StaleIsOwed
  <1>5. CASE AppLearns
    BY <1>5 DEF AppLearns, vars, Owed, StaleIsOwed
  <1>6. CASE \E n \in 0..(IF "tall" \in world THEN MaxRows ELSE MaxRows - 1), asked \in Reasons :
             \E new \in Compositions(n, asked = "replace"), newFinal \in 0..n :
               DrawsOne(n, asked, new, newFinal)
    <2>1. PICK n \in 0..(IF "tall" \in world THEN MaxRows ELSE MaxRows - 1), asked \in Reasons :
            \E new \in Compositions(n, asked = "replace"), newFinal \in 0..n : DrawsOne(n, asked, new, newFinal)
      BY <1>6, Zenon
    <2>2. PICK new \in Compositions(n, asked = "replace"), newFinal \in 0..n : DrawsOne(n, asked, new, newFinal)
      BY <2>1, Zenon
    <2>. QED  BY <2>2, <1>1, <1>2, Zenon
  <1>. QED  BY <1>3, <1>4, <1>5, <1>6, ZenonT(30) DEF EngineNext

(* request.go: a resize, "including net-zero dimension events", and a      *)
(* replaced session rebuild the scrollback: once the normal screen is      *)
(* drawn, rows that are stale there are owed a rebuild by a resize on its  *)
(* way.  Where ED3 is used (no in-place terminal, no multiplexer), and     *)
(* where what gets stale meets no failing write and no fullscreen overlay. *)
THEOREM StaleStaysOwed ==
  ASSUME ~InPlace, ~Mux, Rebuildable
  PROVE  EngineSpec => []StaleIsOwed
  <1>1. EngineInit => Owed
    <2> SUFFICES ASSUME EngineInit PROVE Owed  OBVIOUS
    <2>1. height \in Nat  BY LedgerAssumption DEF EngineInit, Init, LedgerAssumption
    <2>2. Len(BlankRows(height)) = height  BY <2>1 DEF BlankRows
    <2>. QED  BY <2>2 DEF EngineInit, Init, Owed, StaleIsOwed
  <1>2. EngineInv /\ Owed /\ [EngineNext]_<<vars, engineVars>> => Owed'
    <2>1. ASSUME Owed, UNCHANGED <<vars, engineVars>> PROVE Owed'
      BY <2>1 DEF vars, engineVars, Owed, StaleIsOwed
    <2>. QED  BY <2>1, OwedKept
  <1>3. Owed => StaleIsOwed  BY DEF Owed
  <1>. QED  BY <1>1, <1>2, <1>3, EngineCorrect, PTL DEF EngineSpec

-----------------------------------------------------------------------------
(* Without a resize the application and the last paint agree on the size,  *)
(* and an alternate screen has been entered at it.                         *)
Steady == "winch" \notin world => size = height /\ alt \in {0, size} /\ winch = "none"

(* A frame that differs from the committed prefix only where rows are      *)
(* exempt.                                                                 *)
Drifts(s, f) ==
  Len(f) > s.C /\ \A i \in 1..s.C : f[i] = s.prefix[i] \/ i \in s.A + 1 .. s.D

(* Such a frame is never re-anchored: no audited row speaks against it. *)
LEMMA DriftIsNoResync ==
  ASSUME NEW R, NEW s \in LedgerType(R), NEW f \in Seq(R), Drifts(s, f), NEW permanentEnd
  PROVE  Resync(s, f, permanentEnd) = NoResync
  <1> DEFINE kept == {i \in 1..Least(s.C, Len(f)) : \A k \in Audited(s) \cap 1..i : f[k] = s.prefix[k]}
  <1>1. s.C \in Nat /\ s.A \in Nat /\ s.D \in Nat /\ Len(f) \in Nat /\ s.C < Len(f)
    BY DEF LedgerType, Drifts
  <1>2. Least(s.C, Len(f)) = s.C  BY <1>1 DEF Least
  <1>3. \A k \in Audited(s) : f[k] = s.prefix[k]
    <2> TAKE k \in Audited(s)
    <2>1. k \in 1..s.C /\ k \notin s.A + 1 .. s.D  BY <1>1 DEF Audited
    <2>. QED  BY <2>1 DEF Drifts
  <1>4. kept = 1..s.C  BY <1>2, <1>3
  <1>. QED  BY <1>4 DEF Resync

(* Painting it pushes the newly committed rows into the scrollback and no  *)
(* others.                                                                 *)
LEMMA DriftExtends ==
  ASSUME NEW R, NEW s \in LedgerType(R), NEW in \in InputType(R), in.height > 0,
         ~in.first, ~in.replace, ~in.geometry, Drifts(s, in.frame)
  PROVE  LET res == Step(s, in)
         IN  ~res.plan.clear /\ Len(Chunk(in, res)) = res.plan.chunkTo - s.C /\ res.plan.chunkTo \in Nat
  <1> DEFINE res == Step(s, in)
             b == ResolveBoundaries(Len(in.frame), in.live, in.commit, in.snapshot)
             to == IF ShouldAudit(s, in.first \/ in.geometry \/ in.replace, in.stable, b)
                   THEN Resync(s, in.frame, b.durable) ELSE NoResync
             top == OrdinaryTop(s, Len(in.frame), in.height)
  <1>1. /\ s.C \in Nat /\ in.frame \in Seq(R) /\ Len(in.frame) \in Nat /\ in.height \in Nat
        /\ Len(in.frame) > s.C
    BY DEF LedgerType, InputType, Drifts
  <1>2. to = NoResync  BY <1>1, DriftIsNoResync
  <1> HIDE DEF to
  <1>3. AuditPrefix(s, to) = s  BY <1>2 DEF AuditPrefix
  <1>4. res.plan = PlanCommit(s, in, FALSE)
    <2>1. res.plan = PlanCommit(AuditPrefix(s, to), in, to # NoResync)  BY DEF Step, to
    <2>. QED  BY <2>1, <1>2, <1>3
  <1>5. ~Reveals(s, in, FALSE)  BY <1>1 DEF Reveals
  <1>6. /\ res.plan.kind = "extend" /\ ~res.plan.clear
        /\ res.plan.chunkTo = IF in.overlay THEN s.C ELSE top
    BY <1>4, <1>5 DEF PlanCommit
  <1>7. res.led = s
    <2>1. res.led = ApplyPrefixMutation(AuditPrefix(s, to), in.frame, res.plan)  BY DEF Step, to
    <2>2. ApplyPrefixMutation(s, in.frame, res.plan) = s  BY <1>6 DEF ApplyPrefixMutation
    <2>. QED  BY <2>1, <2>2, <1>3
  <1>8. res.plan.chunkTo \in s.C..Len(in.frame)
    <2>1. top \in s.C..Len(in.frame)  BY <1>1 DEF OrdinaryTop, Greatest
    <2> HIDE DEF top
    <2>. QED  BY <2>1, <1>1, <1>6
  <1>9. Chunk(in, res) = SubSeq(in.frame, s.C + 1, res.plan.chunkTo)  BY <1>6, <1>7 DEF Chunk
  <1>10. Len(SubSeq(in.frame, s.C + 1, res.plan.chunkTo)) = res.plan.chunkTo - s.C
    <2> DEFINE n == res.plan.chunkTo  a == s.C + 1
    <2>1. a \in Int /\ n \in Int /\ (IF a <= n THEN n - a + 1 ELSE 0) = n - s.C
      <3> HIDE DEF n
      <3>. QED  BY <1>1, <1>8 DEF n
    <2>2. \A i \in a..n : in.frame[i] \in R  BY <1>1, <1>8
    <2> HIDE DEF n, a
    <2>3. Len(SubSeq(in.frame, a, n)) = IF a <= n THEN n - a + 1 ELSE 0
      BY <2>1, <2>2, SubSeqProperties
    <2>. QED  BY <2>1, <2>3 DEF n, a
  <1> HIDE DEF res
  <1>11. res.plan.chunkTo \in Nat  BY <1>1, <1>8
  <1>. QED  BY <1>6, <1>9, <1>10, <1>11 DEF res

(* A draw of the normal screen, as a step of the application. *)
LEMMA DrawNormalDrifts ==
  ASSUME EngineInv, Steady,
         NEW new \in Seq(EngineRows), NEW newFinal \in Nat, NEW asked \in Reasons,
         NEW box \in 0..size, NEW focus \in BOOLEAN, NEW hint \in BOOLEAN, NEW retreat \in BOOLEAN,
         NEW snapshot \in BOOLEAN, DrawNormal(new, newFinal, asked, box, focus, hint, retreat, snapshot)
  PROVE  /\ Steady'
         /\ world \cap {"replace", "winch"} = {} /\ ~fresh /\ ~fresh' /\ Drifts(led, frame')
              => Len(hist') - Len(hist) = led'.C - led.C
  <1> DEFINE reason == Reason(asked)
             in  == Drawn(new, newFinal, reason, box, focus, hint, retreat, snapshot)
             replaced == asked = "replace"
             res == Step(led, in)
  <1>0. EngineTypeOK /\ led \in LedgerType(EngineRows) /\ size > 0 /\ hist \in Seq(EngineRows)
    BY DEF EngineInv, EngineTypeOK, Typed
  <1>1. DrawFrame(in, newFinal, reason, replaced, box, focus) /\ alt' = 0 /\ UNCHANGED <<world, size>>
        /\ winch' = IF winch = "reason" THEN "none" ELSE winch
    BY Zenon DEF DrawNormal, Drawn
  <1>2. /\ in \in InputType(EngineRows)
        /\ in.frame = new /\ in.height = size /\ in.first = fresh
        /\ in.replace = (reason = "replace") /\ in.geometry = (reason = "resize" \/ size # height)
    BY <1>0, DrawnFits
  <1> HIDE DEF in
  <1>3. \/ Paint(in, res, newFinal)
        \/ fresh' = TRUE /\ height' = height
    BY <1>1 DEF DrawFrame, EmitFails
  <1>4. Steady'
    <2>1. height' \in {size, height}  BY <1>2, <1>3 DEF Paint
    <2>. QED  BY <2>1, <1>1 DEF Steady
  <1>5. ASSUME world \cap {"replace", "winch"} = {}, ~fresh, ~fresh', Drifts(led, frame')
        PROVE  Len(hist') - Len(hist) = led'.C - led.C
    <2>1. Paint(in, res, newFinal)  BY <1>3, <1>5
    <2>2. size = height /\ alt \in {0, size} /\ winch = "none"  BY <1>5 DEF Steady
    <2>3. reason = asked /\ asked \notin {"resize", "replace"}  BY <2>2, <1>5 DEF Reason, Reasons
    <2>4. ~in.first /\ ~in.replace /\ ~in.geometry  BY <2>2, <2>3, <1>2, <1>5
    <2>5. Drifts(led, in.frame)  BY <2>1, <1>5 DEF Paint
    <2>6. /\ ~res.plan.clear /\ Len(Chunk(in, res)) = res.plan.chunkTo - led.C
          /\ res.plan.chunkTo \in Nat
      BY <2>4, <2>5, <1>0, <1>2, DriftExtends
    <2>7. Chunk(in, res) \in Seq(EngineRows)  BY <1>0, <1>2, ChunkIsRows DEF EngineTypeOK
    <2>8. led'.C = res.plan.chunkTo  BY <2>1 DEF Paint, Finish
    <2> HIDE DEF res
    <2>9. hist' = hist \o Chunk(in, res)  BY <2>1, <2>6 DEF Paint, Emitted, Cleared
    <2>10. Len(hist') = Len(hist) + Len(Chunk(in, res))  BY <2>7, <2>9, <1>0, ConcatProperties
    <2>11. led.C \in Nat /\ Len(hist) \in Nat  BY <1>0 DEF LedgerType
    <2>. QED  BY <2>6, <2>8, <2>10, <2>11
  <1>. QED  BY <1>4, <1>5 DEF Drifts

(* What one step does, whatever it is. *)
LEMMA StepDrifts ==
  ASSUME EngineInv, Steady, EngineNext
  PROVE  /\ Steady'
         /\ world \cap {"replace", "winch"} = {} /\ ~fresh /\ ~fresh' /\ Drifts(led, frame')
              => Len(hist') - Len(hist) = led'.C - led.C
  <1> DEFINE DrawsOne(n, asked, new, newFinal) ==
               \/ \E box \in {0} \cup {b \in 1..size : "overlay" \in world},
                     focus \in Choice("nocursor", TRUE), hint \in Choice("nohint", TRUE),
                     retreat \in Choice("retreat", FALSE), snapshot \in Choice("snapshot", FALSE) :
                    DrawNormal(new, newFinal, asked, box, focus, hint, retreat, snapshot)
               \/ DrawAlt(new, newFinal, asked)
             Quiet == /\ world \cap {"replace", "winch"} = {} /\ ~fresh /\ ~fresh' /\ Drifts(led, frame')
                           => Len(hist') - Len(hist) = led'.C - led.C
                      /\ Steady'
  <1> SUFFICES Quiet  OBVIOUS
  <1>0. led.C \in Nat /\ Len(hist) \in Nat
    BY DEF EngineInv, EngineTypeOK, Typed, LedgerType
  <1>1. ASSUME NEW n \in 0..(IF "tall" \in world THEN MaxRows ELSE MaxRows - 1), NEW asked \in Reasons,
               NEW new \in Compositions(n, asked = "replace"), NEW newFinal \in 0..n,
               NEW box \in {0} \cup {b \in 1..size : "overlay" \in world},
               NEW focus \in Choice("nocursor", TRUE), NEW hint \in Choice("nohint", TRUE),
               NEW retreat \in Choice("retreat", FALSE), NEW snapshot \in Choice("snapshot", FALSE),
               DrawNormal(new, newFinal, asked, box, focus, hint, retreat, snapshot)
        PROVE  Quiet
    <2>1. MaxRows \in Nat /\ size \in Nat
      BY LedgerAssumption DEF LedgerAssumption, EngineInv, EngineTypeOK
    <2>2. n \in 0..MaxRows  BY <2>1
    <2>3. new \in Seq(EngineRows)  BY <2>2, ComposedAreRows
    <2>4. newFinal \in Nat /\ box \in 0..size  BY <2>1
    <2>5. focus \in BOOLEAN /\ hint \in BOOLEAN /\ retreat \in BOOLEAN /\ snapshot \in BOOLEAN
      BY DEF Choice
    <2>. QED  BY <1>1, <2>3, <2>4, <2>5, DrawNormalDrifts
  <1>2. ASSUME NEW n, NEW asked, NEW new, NEW newFinal, DrawAlt(new, newFinal, asked)
        PROVE  Quiet
    <2>1. UNCHANGED <<led, hist, world, size, height>>  BY <1>2 DEF DrawAlt
    <2>2. alt' = (IF alt = 0 THEN size ELSE alt) /\ winch' = (IF winch = "reason" THEN "none" ELSE winch)
      BY <1>2 DEF DrawAlt
    <2>. QED  BY <2>1, <2>2, <1>0 DEF Steady
  <1>3. CASE ForceNextWindowRewrite \/ AppLearns \/ TerminalResizes
    <2>1. UNCHANGED <<led, hist, world, height>>
      BY <1>3 DEF ForceNextWindowRewrite, AppLearns, TerminalResizes, vars
    <2>2. "winch" \in world \/ UNCHANGED <<size, alt, winch>>
      BY <1>3 DEF ForceNextWindowRewrite, AppLearns, TerminalResizes, Steady
    <2>. QED  BY <2>1, <2>2, <1>0 DEF Steady
  <1>4. CASE \E n \in 0..(IF "tall" \in world THEN MaxRows ELSE MaxRows - 1), asked \in Reasons :
             \E new \in Compositions(n, asked = "replace"), newFinal \in 0..n :
               DrawsOne(n, asked, new, newFinal)
    <2>1. PICK n \in 0..(IF "tall" \in world THEN MaxRows ELSE MaxRows - 1), asked \in Reasons :
            \E new \in Compositions(n, asked = "replace"), newFinal \in 0..n : DrawsOne(n, asked, new, newFinal)
      BY <1>4, Zenon
    <2>2. PICK new \in Compositions(n, asked = "replace"), newFinal \in 0..n : DrawsOne(n, asked, new, newFinal)
      BY <2>1, Zenon
    <2> HIDE DEF Quiet
    <2>. QED  BY <2>2, <1>1, <1>2, Zenon
  <1> HIDE DEF Quiet
  <1>. QED  BY <1>3, <1>4, ZenonT(30) DEF EngineNext

(* ledger/doc.go: "durable snapshot - audit-exempt (in-place drift OK)":   *)
(* drift of exempt rows never makes the ledger send a committed row again, *)
(* with overlays, failed writes and forced repaints around it.             *)
THEOREM DriftStaysQuiet == EngineSpec => SnapshotsDriftQuietly
  <1>1. EngineInit => Steady  BY DEF EngineInit, Steady
  <1>2. EngineInv /\ Steady /\ [EngineNext]_<<vars, engineVars>> => Steady'
    <2>1. ASSUME Steady, UNCHANGED <<vars, engineVars>> PROVE Steady'
      BY <2>1 DEF vars, engineVars, Steady
    <2>. QED  BY <2>1, StepDrifts
  <1>3. EngineInv /\ Steady /\ [EngineNext]_<<vars, engineVars>>
          => [/\ world \cap {"replace", "winch"} = {}
              /\ ~fresh /\ ~fresh' /\ Len(frame') > led.C
              /\ \A i \in 1..led.C : frame'[i] = led.prefix[i] \/ i \in led.A + 1 .. led.D
              => Len(hist') - Len(hist) = led'.C - led.C]_vars
    <2>1. UNCHANGED <<vars, engineVars>> => UNCHANGED vars  OBVIOUS
    <2>. QED  BY <2>1, StepDrifts DEF Drifts
  <1>. QED  BY <1>1, <1>2, <1>3, EngineCorrect, PTL DEF EngineSpec, SnapshotsDriftQuietly

-----------------------------------------------------------------------------
(* What is committed can be read off the scrollback, durable rows are      *)
(* final and the frame's, and so are, once it is on the screen, the final  *)
(* rows that are committed.                                                *)
Intact ==
  LosesNothing(world) /\ ~fresh =>
    /\ Embeds(led.prefix, hist)
    /\ led.C < Len(frame) \/ led.C = 0
    /\ led.D <= final /\ final <= Len(frame)
    /\ \A i \in 1..led.D : frame[i] = led.prefix[i]
    /\ alt = 0 => \A i \in 1..Least(led.C, final) : frame[i] = led.prefix[i]

(* A frame that goes on where the last one ended. *)
Continues(new, newFinal) ==
  /\ Len(new) >= Len(frame) /\ newFinal >= final
  /\ \A i \in 1..final : new[i] = frame[i]

(* What one of them knows is recorded the next one starts from. *)
LEMMA IntactIsRecorded ==
  ASSUME EngineInv, Intact, LosesNothing(world), ~fresh, NEW new \in Seq(EngineRows), NEW newFinal \in Nat,
         Continues(new, newFinal)
  PROVE  Recorded(new, newFinal)
  <1>0. /\ led.C \in Nat /\ led.D \in Nat /\ final \in Nat /\ Len(frame) \in Nat /\ Len(new) \in Nat
    BY DEF EngineInv, EngineTypeOK, Typed, LedgerType
  <1>1. /\ Embeds(led.prefix, hist)
        /\ led.C < Len(frame) \/ led.C = 0
        /\ led.D <= final
        /\ \A i \in 1..led.D : frame[i] = led.prefix[i]
    BY DEF Intact
  <1>2. Len(new) >= Len(frame) /\ newFinal >= final /\ \A i \in 1..final : new[i] = frame[i]
    BY DEF Continues
  <1>3. led.C < Len(new) \/ led.C = 0  BY <1>0, <1>1, <1>2
  <1>4. led.D <= newFinal  BY <1>0, <1>1, <1>2
  <1>5. \A i \in 1..led.D : new[i] = led.prefix[i]
    <2>1. \A i \in 1..led.D : i \in 1..final  BY <1>0, <1>1
    <2>. QED  BY <2>1, <1>1, <1>2
  <1>. QED  BY <1>1, <1>3, <1>4, <1>5 DEF Recorded

(* The seams a draw hands over: the rows that are final. *)
LEMMA DrawnSeams ==
  ASSUME NEW new, NEW newFinal, NEW reason, NEW box, NEW focus, NEW hint,
         NEW retreat \in BOOLEAN, NEW snapshot \in BOOLEAN, ~retreat, ~snapshot
  PROVE  LET in == Drawn(new, newFinal, reason, box, focus, hint, retreat, snapshot)
         IN  in.live = newFinal /\ in.commit = newFinal /\ in.snapshot = Unset
  <1> DEFINE base == Input(new, newFinal, size, reason = "replace", box # 0,
                           reason = "resize" \/ size # height, hint, retreat, snapshot)
  <1>1. base.live = newFinal /\ base.commit = newFinal /\ base.snapshot = Unset  BY DEF Input
  <1>2. Drawn(new, newFinal, reason, box, focus, hint, retreat, snapshot)
          = [base EXCEPT !.cursors = IF focus THEN {Len(new)} ELSE {}]
    BY DEF Drawn
  <1>3. base = [frame |-> base.frame, height |-> base.height, live |-> base.live, commit |-> base.commit,
                snapshot |-> base.snapshot, first |-> base.first, replace |-> base.replace,
                geometry |-> base.geometry, inPlace |-> base.inPlace, mux |-> base.mux,
                overlay |-> base.overlay, stable |-> base.stable, cursors |-> base.cursors]
    BY DEF Input
  <1> HIDE DEF base
  <1>. QED  BY <1>1, <1>2, <1>3

(* A draw of the normal screen loses no final row. *)
LEMMA DrawNormalLosesNothing ==
  ASSUME EngineInv, Intact, ~InPlace, LosesNothing(world),
         NEW new \in Seq(EngineRows), NEW newFinal \in 0..Len(new), NEW asked \in Reasons,
         asked # "replace" => Continues(new, newFinal),
         NEW box \in 0..size, NEW focus \in BOOLEAN, NEW hint \in BOOLEAN,
         NEW retreat \in BOOLEAN, NEW snapshot \in BOOLEAN, ~retreat, ~snapshot,
         DrawNormal(new, newFinal, asked, box, focus, hint, retreat, snapshot)
  PROVE  Intact'
  <1> DEFINE reason == Reason(asked)
             in  == Drawn(new, newFinal, reason, box, focus, hint, retreat, snapshot)
             replaced == asked = "replace"
             res == Step(led, in)
  <1>0. EngineTypeOK /\ Typed(EngineRows) /\ size \in Nat \ {0} /\ newFinal \in Nat /\ Len(new) \in Nat
    BY DEF EngineInv, EngineTypeOK
  <1>1. DrawFrame(in, newFinal, reason, replaced, box, focus) /\ alt' = 0 /\ UNCHANGED <<world, size>>
    BY Zenon DEF DrawNormal, Drawn
  <1>2. /\ in \in InputType(EngineRows)
        /\ in.frame = new /\ in.height = size /\ in.first = fresh
        /\ in.replace = (reason = "replace") /\ in.geometry = (reason = "resize" \/ size # height)
        /\ in.inPlace = InPlace
    BY <1>0, DrawnFits
  <1>3. in.live = newFinal /\ in.commit = newFinal /\ in.snapshot = Unset  BY DrawnSeams
  <1>4. reason = asked \/ reason = "resize"  BY DEF Reason
  <1> HIDE DEF in, reason
  <1>5. Paint(in, res, newFinal) \/ fresh' = TRUE  BY <1>1 DEF DrawFrame, EmitFails
  <1>6. CASE Paint(in, res, newFinal)
    <2>1. ~in.first /\ ~in.replace /\ ~in.geometry => Recorded(in.frame, newFinal)
      <3> SUFFICES ASSUME ~in.first, ~in.replace, ~in.geometry PROVE Recorded(in.frame, newFinal)  OBVIOUS
      <3>1. ~fresh /\ asked # "replace"  BY <1>2, <1>4
      <3>2. Continues(new, newFinal)  BY <3>1
      <3>. QED  BY <3>1, <3>2, <1>0, <1>2, IntactIsRecorded
    <2>2. newFinal \in 0..Len(in.frame) /\ in.height # 0 /\ ~in.inPlace  BY <1>0, <1>2
    <2>3. /\ Embeds(led'.prefix, hist') /\ (led'.C < Len(in.frame) \/ led'.C = 0)
          /\ led'.D <= newFinal
          /\ \A i \in 1..Least(led'.C, newFinal) : in.frame[i] = led'.prefix[i]
      BY <2>1, <2>2, <1>0, <1>2, <1>3, <1>6, PaintRecords
    <2>4. frame' = new /\ final' = newFinal  BY <1>2, <1>6 DEF Paint
    <2>5. led' \in LedgerType(EngineRows)
      BY <1>0, <1>2, <1>6, FinishOrders DEF Paint, Typed
    <2>6. led'.D \in Nat /\ led'.C \in Nat /\ led'.D <= led'.C  BY <2>5 DEF LedgerType
    <2>7. \A i \in 1..led'.D : frame'[i] = led'.prefix[i]
      <3>1. \A i \in 1..led'.D : i \in 1..Least(led'.C, newFinal)  BY <2>3, <2>6, <1>0 DEF Least
      <3>. QED  BY <3>1, <2>3, <2>4, <1>2
    <2>8. final' <= Len(frame')  BY <2>4, <1>0
    <2>. QED  BY <2>3, <2>4, <2>7, <2>8, <1>2 DEF Intact
  <1>7. CASE fresh' = TRUE  BY <1>7 DEF Intact
  <1>. QED  BY <1>5, <1>6, <1>7

(* Nor does one under a fullscreen overlay, while no session is replaced.  *)
LEMMA DrawAltLosesNothing ==
  ASSUME EngineInv, Intact, LosesNothing(world), NEW new \in Seq(EngineRows), NEW newFinal \in 0..Len(new),
         NEW asked \in Reasons, asked # "replace" => Continues(new, newFinal), DrawAlt(new, newFinal, asked)
  PROVE  Intact'
  <1>1. /\ "fullscreen" \in world /\ frame' = new /\ final' = newFinal /\ UNCHANGED <<led, hist, world>>
        /\ alt' = (IF alt = 0 THEN size ELSE alt) /\ fresh' \in {fresh} \cup {TRUE : e \in {"fail"} \cap world}
    BY DEF DrawAlt
  <1>2. "replace" \notin world  BY <1>1 DEF LosesNothing
  <1>3. asked # "replace"  BY <1>2 DEF Reasons
  <1>4. Continues(new, newFinal) /\ newFinal \in Nat  BY <1>3
  <1>5. alt' # 0  BY <1>1 DEF EngineInv, EngineTypeOK
  <1>6. CASE fresh' = TRUE  BY <1>6 DEF Intact
  <1>7. CASE fresh' # TRUE
    <2>1. ~fresh  BY <1>1, <1>7
    <2>2. Recorded(new, newFinal)  BY <2>1, <1>4, IntactIsRecorded
    <2>3. newFinal <= Len(new)  OBVIOUS
    <2>. QED  BY <2>2, <2>3, <1>1, <1>5 DEF Recorded, Intact
  <1>. QED  BY <1>6, <1>7

(* What a component composes goes on where the last frame ended. *)
LEMMA ComposedContinues ==
  ASSUME EngineInv, "shrink" \notin world, NEW n \in 0..MaxRows, NEW replace \in BOOLEAN,
         NEW new \in Compositions(n, replace), NEW newFinal \in 0..n, Composes(new, newFinal, replace)
  PROVE  newFinal \in 0..Len(new) /\ (~replace => Continues(new, newFinal))
  <1>0. MaxRows \in Nat /\ n \in Nat /\ Len(frame) \in Nat /\ final \in Nat
    BY LedgerAssumption DEF LedgerAssumption, EngineInv, EngineTypeOK, Typed
  <1>1. new \in Seq(EngineRows) /\ Len(new) \in Nat  BY ComposedAreRows
  <1>2. newFinal <= Len(new)  BY DEF Composes
  <1>3. ASSUME ~replace PROVE Continues(new, newFinal)
    <2>1. n >= Len(frame) /\ \A i \in 1..final : new[i] = frame[i]  BY <1>3 DEF Compositions
    <2>2. Len(new) = n
      <3>1. new \in Frames[n] \/ new \in StillFrames[n]  BY Zenon DEF Compositions
      <3>2. CASE new \in Frames[n]
        <4>1. PICK v \in [1..n -> Versions] : new = [i \in 1..n |-> Row(i, v[i])]  BY <3>2 DEF Frames
        <4>. QED  BY <4>1, <1>0
      <3>3. CASE new \in StillFrames[n]
        <4>1. new = [i \in 1..n |-> Row(i, Still)]  BY <3>3 DEF StillFrames
        <4>. QED  BY <4>1, <1>0
      <3>. QED  BY <3>1, <3>2, <3>3
    <2>3. newFinal >= final  BY <1>3 DEF Composes
    <2>. QED  BY <2>1, <2>2, <2>3 DEF Continues
  <1>4. newFinal \in 0..Len(new)  BY <1>0, <1>1, <1>2
  <1>. QED  BY <1>3, <1>4

(* Every step leaves the final rows where they can be read. *)
LEMMA IntactKept ==
  ASSUME EngineInv, Intact, ~InPlace, EngineNext
  PROVE  Intact'
  <1> DEFINE DrawsOne(n, asked, new, newFinal) ==
               \/ \E box \in {0} \cup {b \in 1..size : "overlay" \in world},
                     focus \in Choice("nocursor", TRUE), hint \in Choice("nohint", TRUE),
                     retreat \in Choice("retreat", FALSE), snapshot \in Choice("snapshot", FALSE) :
                    DrawNormal(new, newFinal, asked, box, focus, hint, retreat, snapshot)
               \/ DrawAlt(new, newFinal, asked)
  <1>0. MaxRows \in Nat /\ size \in Nat
    BY LedgerAssumption DEF LedgerAssumption, EngineInv, EngineTypeOK
  <1>2. ASSUME ~LosesNothing(world), world' = world PROVE Intact'  BY <1>2 DEF Intact
  <1>3. ASSUME LosesNothing(world),
               NEW n \in 0..(IF "tall" \in world THEN MaxRows ELSE MaxRows - 1), NEW asked \in Reasons,
               NEW new \in Compositions(n, asked = "replace"), NEW newFinal \in 0..n,
               Composes(new, newFinal, asked = "replace")
        PROVE  /\ new \in Seq(EngineRows) /\ newFinal \in 0..Len(new)
               /\ asked # "replace" => Continues(new, newFinal)
    <2>1. n \in 0..MaxRows  BY <1>0
    <2>2. "shrink" \notin world  BY <1>3 DEF LosesNothing
    <2> DEFINE replace == asked = "replace"
    <2>3. replace \in BOOLEAN  OBVIOUS
    <2> HIDE DEF replace
    <2>4. new \in Compositions(n, replace) /\ Composes(new, newFinal, replace)  BY <1>3 DEF replace
    <2>5. new \in Seq(EngineRows)  BY <2>1, <2>4, ComposedAreRows
    <2>6. newFinal \in 0..Len(new) /\ (~replace => Continues(new, newFinal))
      BY <2>1, <2>2, <2>3, <2>4, ComposedContinues
    <2>. QED  BY <2>5, <2>6 DEF replace
  <1>4. ASSUME NEW n \in 0..(IF "tall" \in world THEN MaxRows ELSE MaxRows - 1), NEW asked \in Reasons,
               NEW new \in Compositions(n, asked = "replace"), NEW newFinal \in 0..n,
               Composes(new, newFinal, asked = "replace"),
               NEW box \in {0} \cup {b \in 1..size : "overlay" \in world},
               NEW focus \in Choice("nocursor", TRUE), NEW hint \in Choice("nohint", TRUE),
               NEW retreat \in Choice("retreat", FALSE), NEW snapshot \in Choice("snapshot", FALSE),
               DrawNormal(new, newFinal, asked, box, focus, hint, retreat, snapshot)
        PROVE  Intact'
    <2>0. CASE ~LosesNothing(world)
      <3>1. world' = world  BY <1>4, Zenon DEF DrawNormal
      <3>. QED  BY <2>0, <3>1, <1>2
    <2> SUFFICES ASSUME LosesNothing(world) PROVE Intact'  BY <2>0
    <2>1. /\ retreat \in BOOLEAN /\ snapshot \in BOOLEAN /\ ~retreat /\ ~snapshot
      BY <1>4 DEF LosesNothing, Choice
    <2>2. box \in 0..size  BY <1>0
    <2>3. focus \in BOOLEAN /\ hint \in BOOLEAN  BY DEF Choice
    <2>5. /\ new \in Seq(EngineRows) /\ newFinal \in 0..Len(new)
          /\ asked # "replace" => Continues(new, newFinal)
      BY <1>3, <1>4
    <2>. QED  BY <1>4, <2>1, <2>2, <2>3, <2>5, DrawNormalLosesNothing
  <1>5. ASSUME NEW n \in 0..(IF "tall" \in world THEN MaxRows ELSE MaxRows - 1), NEW asked \in Reasons,
               NEW new \in Compositions(n, asked = "replace"), NEW newFinal \in 0..n,
               Composes(new, newFinal, asked = "replace"), DrawAlt(new, newFinal, asked)
        PROVE  Intact'
    <2>0. CASE ~LosesNothing(world)
      <3>1. world' = world  BY <1>5, Zenon DEF DrawAlt
      <3>. QED  BY <2>0, <3>1, <1>2
    <2>. QED  BY <2>0, <1>3, <1>5, DrawAltLosesNothing
  <1>6. CASE ForceNextWindowRewrite \/ AppLearns \/ TerminalResizes
    <2>1. UNCHANGED <<led, frame, final, fresh, hist, world, alt>>
      BY <1>6 DEF ForceNextWindowRewrite, AppLearns, TerminalResizes, vars
    <2>. QED  BY <2>1 DEF Intact
  <1>7. ASSUME \E n \in 0..(IF "tall" \in world THEN MaxRows ELSE MaxRows - 1), asked \in Reasons :
               \E new \in Compositions(n, asked = "replace"), newFinal \in 0..n :
                 Composes(new, newFinal, asked = "replace") /\ DrawsOne(n, asked, new, newFinal)
        PROVE  Intact'
    <2>1. PICK n \in 0..(IF "tall" \in world THEN MaxRows ELSE MaxRows - 1), asked \in Reasons :
            \E new \in Compositions(n, asked = "replace"), newFinal \in 0..n :
              Composes(new, newFinal, asked = "replace") /\ DrawsOne(n, asked, new, newFinal)
      BY <1>7, Zenon
    <2>2. PICK new \in Compositions(n, asked = "replace"), newFinal \in 0..n :
            Composes(new, newFinal, asked = "replace") /\ DrawsOne(n, asked, new, newFinal)
      BY <2>1, Zenon
    <2>. QED  BY <2>2, <1>4, <1>5, <1>7, Zenon
  <1>. QED  BY <1>6, <1>7, ZenonT(30) DEF EngineNext

(* "Never loses content: audit prefers duplication" (ledger/step.go):      *)
(* every final row above the window is in the scrollback, in order,        *)
(* whatever was hidden by an overlay and however often writes failed.      *)
(* Where resizes rebuild the scrollback (no in-place terminal).            *)
THEOREM FinalRowsAreKept ==
  ASSUME ~InPlace
  PROVE  EngineSpec => []NothingIsLost
  <1>1. EngineInit => Intact  BY DEF EngineInit, Init, Intact
  <1>2. EngineInv /\ Intact /\ [EngineNext]_<<vars, engineVars>> => Intact'
    <2>1. ASSUME Intact, UNCHANGED <<vars, engineVars>> PROVE Intact'
      BY <2>1 DEF vars, engineVars, Intact
    <2>. QED  BY <2>1, IntactKept
  <1>3. EngineInv /\ Intact => NothingIsLost
    <2> SUFFICES ASSUME EngineInv, Intact, alt = 0, LosesNothing(world), ~fresh
                 PROVE  Embeds(SubSeq(frame, 1, Least(led.C, final)), hist)
      BY DEF NothingIsLost, FinalRowsSurvive
    <2> DEFINE k == Least(led.C, final)  p == SubSeq(frame, 1, k)  q == SubSeq(led.prefix, 1, k)
    <2>1. /\ led.C \in Nat /\ final \in Nat /\ led.C = Len(led.prefix) /\ led.prefix \in Seq(EngineRows)
          /\ frame \in Seq(EngineRows) /\ Len(frame) \in Nat
      BY DEF EngineInv, EngineTypeOK, Typed, LedgerType
    <2>2. /\ Embeds(led.prefix, hist) /\ final <= Len(frame)
          /\ \A i \in 1..k : frame[i] = led.prefix[i]
      BY DEF Intact
    <2>3. k \in 0..Len(frame) /\ k \in 0..Len(led.prefix)  BY <2>1, <2>2 DEF Least
    <2> HIDE DEF k
    <2>4. p \in Seq(EngineRows) /\ Len(p) = k /\ \A i \in 1..k : p[i] = frame[i]
      BY <2>1, <2>3, SubSeqOfFrame
    <2>5. q \in Seq(EngineRows) /\ Len(q) = k /\ \A i \in 1..k : q[i] = led.prefix[i]
      BY <2>1, <2>3, SubSeqOfFrame
    <2>6. Embeds(q, hist)  BY <2>1, <2>2, <2>3, EmbedsPart
    <2> HIDE DEF p, q
    <2>7. \A i \in 1..k : p[i] = q[i]  BY <2>2, <2>4, <2>5
    <2>8. p = q  BY <2>4, <2>5, <2>7, SeqEqual
    <2>. QED  BY <2>6, <2>8 DEF p, k
  <1>. QED  BY <1>1, <1>2, <1>3, EngineCorrect, PTL DEF EngineSpec
=============================================================================
