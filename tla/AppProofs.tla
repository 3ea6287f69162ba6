------------------------------ MODULE AppProofs ------------------------------
(***************************************************************************)
(* Proofs about the application, for every set of worlds and every         *)
(* capacity of its queues.                                                 *)
(*                                                                         *)
(* ImagesInOnePlace speaks of a sequence of holders.  It is proved from    *)
(* three facts about the sets of images on their way: together they are    *)
(* all that was attached (Conserved); no two of them share an image that   *)
(* is not unsure (Apart, within a queue Separate); and a call that takes   *)
(* the queued messages back carries nothing yet (EmptyHanded).             *)
(*                                                                         *)
(* The overlay stack is treated by itself first: each of its operations    *)
(* keeps the focus on a visible entry (Heeds) and one entry per dialog     *)
(* (Tidy).  What the application hosts is Sound when moreover the dialogs  *)
(* on the stack are those registered (Boxes), and Answered when every      *)
(* request is either registered or answered once; both hold until the loop *)
(* ends (HostCorrect).  The rows of remotes need one more fact: the newest *)
(* request is the last of its component's counter, was made for the width  *)
(* of the last paint, and is on its way or shown (Newest).                 *)
(***************************************************************************)
EXTENDS App, FiniteSetTheorems, SequenceTheorems, WellFoundedInduction, TLAPS

Kinds    == {"none", "prompt", "state", "set", "abort", "models", "dequeue"}
Outcomes == {"none", "ok", "refused", "error"}
JobType  == [kind : Kinds, images : SUBSET Nat, text : BOOLEAN]
CmdType  == [kind : {"tick", "signal", "done"}, job : JobType, outcome : Outcomes]

JobsTypeOK ==
  /\ world \in Worlds
  /\ jobs \in Seq(JobType) /\ cmds \in Seq(CmdType)
  /\ owed \in Seq(JobType) /\ Len(owed) <= 1
  /\ worker \in [at : {"idle", "calling", "posting"}, job : JobType, outcome : Outcomes]
  /\ pending \in SUBSET Nat /\ peer \in SUBSET Nat /\ lost \in SUBSET Nat /\ unsure \in SUBSET Nat
  /\ draft \in BOOLEAN /\ pasted \in Nat

-----------------------------------------------------------------------------
(* Sequences of sets: what they hold together, and that no two of them     *)
(* share an element outside of `but`.                                      *)
All(sets) == UNION {sets[i] : i \in DOMAIN sets}
Separate(sets, but) == \A i, j \in DOMAIN sets : i # j => sets[i] \cap sets[j] \subseteq but

(* The first of several separate sets, taken off, is separate from the union
   of the rest. *)
LEMMA SplitHead ==
  ASSUME NEW sets \in Seq(SUBSET Nat), sets # <<>>, NEW but, Separate(sets, but)
  PROVE  /\ All(sets) = Head(sets) \cup All(Tail(sets))
         /\ Head(sets) \cap All(Tail(sets)) \subseteq but
         /\ Separate(Tail(sets), but)
  <1>1. /\ Len(sets) \in Nat \ {0} /\ DOMAIN sets = 1..Len(sets) /\ Head(sets) = sets[1]
        /\ Len(Tail(sets)) = Len(sets) - 1 /\ DOMAIN Tail(sets) = 1..(Len(sets) - 1)
        /\ \A i \in 1..(Len(sets) - 1) : Tail(sets)[i] = sets[i + 1]
    OBVIOUS
  <1>2. All(sets) \subseteq Head(sets) \cup All(Tail(sets))
    <2> SUFFICES ASSUME NEW i \in DOMAIN sets, i # 1 PROVE sets[i] \subseteq All(Tail(sets))
      BY <1>1 DEF All
    <2>1. i - 1 \in DOMAIN Tail(sets) /\ Tail(sets)[i - 1] = sets[i]  BY <1>1
    <2>. QED  BY <2>1 DEF All
  <1>3. \A i \in DOMAIN Tail(sets) : i + 1 \in DOMAIN sets /\ Tail(sets)[i] = sets[i + 1] /\ i + 1 # 1
    BY <1>1
  <1>4. 1 \in DOMAIN sets  BY <1>1
  <1>5. All(Tail(sets)) \subseteq All(sets) /\ Head(sets) \cap All(Tail(sets)) \subseteq but
    BY <1>1, <1>3, <1>4 DEF All, Separate
  <1>6. \A i, j \in DOMAIN Tail(sets) : i # j => i + 1 # j + 1  BY <1>1
  <1>7. Separate(Tail(sets), but)  BY <1>3, <1>6 DEF Separate
  <1>8. Head(sets) \subseteq All(sets)  BY <1>1, <1>4 DEF All
  <1>. QED  BY <1>2, <1>5, <1>7, <1>8

(* Two lists of separate sets that do not meet make one. *)
LEMMA Joined ==
  ASSUME NEW s \in Seq(SUBSET Nat), NEW t \in Seq(SUBSET Nat), NEW but,
         Separate(s, but), Separate(t, but), All(s) \cap All(t) \subseteq but
  PROVE  Separate(s \o t, but) /\ All(s \o t) = All(s) \cup All(t) /\ s \o t \in Seq(SUBSET Nat)
  <1> DEFINE n == Len(s)
             r == s \o t
  <1>1. /\ n \in Nat /\ DOMAIN s = 1..n /\ DOMAIN t = 1..Len(t) /\ Len(t) \in Nat
        /\ r \in Seq(SUBSET Nat) /\ DOMAIN r = 1..(n + Len(t))
        /\ \A i \in 1..(n + Len(t)) : r[i] = IF i <= n THEN s[i] ELSE t[i - n]
    OBVIOUS
  <1>2. \A i \in DOMAIN r : (i \in DOMAIN s /\ r[i] = s[i]) \/ (i \notin DOMAIN s /\ i - n \in DOMAIN t /\ r[i] = t[i - n])
    BY <1>1
  <1>3. \A i \in DOMAIN s : i \in DOMAIN r /\ r[i] = s[i]  BY <1>1
  <1>4. \A i \in DOMAIN t : i + n \in DOMAIN r /\ r[i + n] = t[i]  BY <1>1
  <1>5. All(r) = All(s) \cup All(t)  BY ZenonT(40), <1>2, <1>3, <1>4 DEF All
  <1>6. Separate(r, but)
    <2> SUFFICES ASSUME NEW i \in DOMAIN r, NEW j \in DOMAIN r, i # j
                 PROVE  r[i] \cap r[j] \subseteq but
      BY DEF Separate
    <2>1. i - n # j - n  BY <1>1
    <2>. QED  BY <1>2, <2>1 DEF All, Separate
  <1>. QED  BY <1>1, <1>5, <1>6

(* One set alone is separate. *)
LEMMA Single ==
  ASSUME NEW x \in SUBSET Nat, NEW but
  PROVE  <<x>> \in Seq(SUBSET Nat) /\ Separate(<<x>>, but) /\ All(<<x>>) = x
  BY DEF Separate, All

(* A set that meets no earlier one may be appended. *)
LEMMA AppendJoins ==
  ASSUME NEW s \in Seq(SUBSET Nat), NEW x \in SUBSET Nat, NEW but,
         Separate(s, but), All(s) \cap x \subseteq but
  PROVE  Separate(Append(s, x), but) /\ All(Append(s, x)) = All(s) \cup x
  <1>1. Append(s, x) = s \o <<x>>  OBVIOUS
  <1>. QED  BY ZenonT(40), <1>1, Joined, Single

(* Allowing more in common allows what was allowed. *)
LEMMA SeparateGrows ==
  ASSUME NEW s, NEW a, NEW b, a \subseteq b, Separate(s, a)
  PROVE  Separate(s, b)
  BY DEF Separate

-----------------------------------------------------------------------------
(* The images on their way, place by place.                                *)
JobLoads(q) == [i \in DOMAIN q |-> q[i].images]
CmdLoads(q) == [i \in DOMAIN q |-> Carried(q[i].job, q[i].outcome)]
Queued(q)   == All(JobLoads(q))
Returning   == All(CmdLoads(cmds))
InHand(w)   == IF w.at = "idle" THEN {}
               ELSE IF w.at = "calling" THEN w.job.images ELSE Carried(w.job, w.outcome)

Conserved ==
  1..pasted = pending \cup InHand(worker) \cup Queued(jobs) \cup Queued(owed) \cup Returning \cup peer \cup lost

Apart ==
  /\ Separate(JobLoads(jobs), unsure) /\ Separate(CmdLoads(cmds), unsure)
  /\ pending \cap (InHand(worker) \cup Queued(jobs) \cup Queued(owed) \cup Returning \cup peer) \subseteq unsure
  /\ InHand(worker) \cap (Queued(jobs) \cup Queued(owed) \cup Returning \cup peer) \subseteq unsure
  /\ Queued(jobs) \cap (Queued(owed) \cup Returning \cup peer) \subseteq unsure
  /\ Queued(owed) \cap (Returning \cup peer) \subseteq unsure
  /\ Returning \cap peer \subseteq unsure

EmptyHanded ==
  /\ \A i \in DOMAIN jobs : jobs[i].kind = "dequeue" => jobs[i].images = {}
  /\ \A i \in DOMAIN owed : owed[i].kind = "dequeue" => owed[i].images = {}
  /\ worker.at = "calling" /\ worker.job.kind = "dequeue" => worker.job.images = {}
  /\ \A i \in DOMAIN cmds : cmds[i].kind # "done" => Carried(cmds[i].job, cmds[i].outcome) = {}

ImagesAccounted == Conserved /\ Apart /\ EmptyHanded

-----------------------------------------------------------------------------
(* What an outcome carries back is a set of images. *)
LEMMA CarriedType ==
  \A job \in JobType : \A o : Carried(job, o) \in SUBSET Nat
  BY DEF Carried, JobType

(* The loads of the job queue follow its appends and its heads. *)
LEMMA JobLoadsOf ==
  ASSUME NEW q \in Seq(JobType)
  PROVE  /\ JobLoads(q) \in Seq(SUBSET Nat)
         /\ \A e \in JobType : JobLoads(Append(q, e)) = Append(JobLoads(q), e.images)
         /\ q # <<>> => /\ JobLoads(q) # <<>> /\ Head(JobLoads(q)) = Head(q).images
                        /\ JobLoads(Tail(q)) = Tail(JobLoads(q))
  <1>0. \A e \in JobType : e.images \in SUBSET Nat  BY DEF JobType
  <1>1. JobLoads(q) \in Seq(SUBSET Nat) /\ Len(JobLoads(q)) = Len(q)
    BY <1>0 DEF JobLoads
  <1>2. ASSUME NEW e \in JobType PROVE JobLoads(Append(q, e)) = Append(JobLoads(q), e.images)
    <2>1. e.images \in SUBSET Nat  BY DEF JobType
    <2>. QED  BY <1>1, <2>1 DEF JobLoads
  <1>3. ASSUME q # <<>> PROVE JobLoads(q) # <<>> /\ Head(JobLoads(q)) = Head(q).images
    BY <1>1, <1>3 DEF JobLoads
  <1>4. ASSUME q # <<>> PROVE JobLoads(Tail(q)) = Tail(JobLoads(q))
    BY <1>1, <1>4 DEF JobLoads
  <1>. QED  BY <1>1, <1>2, <1>3, <1>4

(* The loads of the command queue follow its appends and its heads. *)
LEMMA CmdLoadsOf ==
  ASSUME NEW q \in Seq(CmdType)
  PROVE  /\ CmdLoads(q) \in Seq(SUBSET Nat)
         /\ \A e \in CmdType : CmdLoads(Append(q, e)) = Append(CmdLoads(q), Carried(e.job, e.outcome))
         /\ q # <<>> => /\ CmdLoads(q) # <<>> /\ Head(CmdLoads(q)) = Carried(Head(q).job, Head(q).outcome)
                        /\ CmdLoads(Tail(q)) = Tail(CmdLoads(q))
  <1>0. \A e \in CmdType : Carried(e.job, e.outcome) \in SUBSET Nat  BY CarriedType DEF CmdType
  <1>1. CmdLoads(q) \in Seq(SUBSET Nat) /\ Len(CmdLoads(q)) = Len(q)
    BY <1>0 DEF CmdLoads
  <1>2. ASSUME NEW e \in CmdType PROVE CmdLoads(Append(q, e)) = Append(CmdLoads(q), Carried(e.job, e.outcome))
    BY <1>0, <1>1 DEF CmdLoads
  <1>3. ASSUME q # <<>> PROVE CmdLoads(q) # <<>> /\ Head(CmdLoads(q)) = Carried(Head(q).job, Head(q).outcome)
    BY <1>1, <1>3 DEF CmdLoads
  <1>4. ASSUME q # <<>> PROVE CmdLoads(Tail(q)) = Tail(CmdLoads(q))
    BY <1>1, <1>4 DEF CmdLoads
  <1>. QED  BY <1>1, <1>2, <1>3, <1>4

(* Ticks, signals and the jobs other than prompts carry no image. *)
LEMMA NothingCarried ==
  /\ Nothing \in JobType /\ Nothing.images = {} /\ Tick \in CmdType /\ Signal \in CmdType
  /\ Carried(Tick.job, Tick.outcome) = {} /\ Carried(Signal.job, Signal.outcome) = {}
  /\ Tick.kind # "done" /\ Signal.kind # "done"
  /\ \A k \in Kinds : Job(k) \in JobType /\ Job(k).images = {} /\ Job(k).kind = k
  BY DEF Nothing, Tick, Signal, Carried, JobType, CmdType, Job, Kinds, Outcomes

(* Ticked adds a command that carries nothing, or none.                    *)
LEMMA TickedKeeps ==
  ASSUME NEW q \in Seq(CmdType), NEW but, Separate(CmdLoads(q), but),
         \A i \in DOMAIN q : q[i].kind # "done" => Carried(q[i].job, q[i].outcome) = {}
  PROVE  /\ Ticked(q) \in Seq(CmdType) /\ Separate(CmdLoads(Ticked(q)), but)
         /\ All(CmdLoads(Ticked(q))) = All(CmdLoads(q))
         /\ \A i \in DOMAIN Ticked(q) :
              Ticked(q)[i].kind # "done" => Carried(Ticked(q)[i].job, Ticked(q)[i].outcome) = {}
  <1>1. CASE Len(q) < CmdCap
    <2>1. Ticked(q) = Append(q, Tick)  BY <1>1 DEF Ticked
    <2>2. CmdLoads(Ticked(q)) = Append(CmdLoads(q), {})  BY <2>1, CmdLoadsOf, NothingCarried
    <2>3. {} \in SUBSET Nat /\ All(CmdLoads(q)) \cap {} \subseteq but  OBVIOUS
    <2>4. Separate(CmdLoads(Ticked(q)), but) /\ All(CmdLoads(Ticked(q))) = All(CmdLoads(q))
      <3>1. CmdLoads(q) \in Seq(SUBSET Nat)  BY CmdLoadsOf
      <3>2. /\ Separate(Append(CmdLoads(q), {}), but)
            /\ All(Append(CmdLoads(q), {})) = All(CmdLoads(q)) \cup {}
        BY <2>3, <3>1, AppendJoins
      <3>. QED  BY <2>2, <3>2
    <2>5. /\ Ticked(q) \in Seq(CmdType) /\ DOMAIN Ticked(q) = 1..(Len(q) + 1)
          /\ \A i \in 1..(Len(q) + 1) : Ticked(q)[i] = IF i <= Len(q) THEN q[i] ELSE Tick
      BY <2>1, NothingCarried
    <2>6. DOMAIN q = 1..Len(q) /\ Len(q) \in Nat  OBVIOUS
    <2>7. ASSUME NEW i \in DOMAIN Ticked(q), Ticked(q)[i].kind # "done"
          PROVE  Carried(Ticked(q)[i].job, Ticked(q)[i].outcome) = {}
      <3>1. CASE i <= Len(q)
        <4>1. i \in DOMAIN q /\ Ticked(q)[i] = q[i]  BY <2>5, <2>6, <3>1
        <4>. QED  BY <2>7, <4>1
      <3>2. CASE ~(i <= Len(q))
        <4>1. Ticked(q)[i] = Tick  BY <2>5, <3>2
        <4>. QED  BY <4>1, NothingCarried
      <3>. QED  BY <3>1, <3>2
    <2>. QED  BY <2>4, <2>5, <2>7
  <1>2. CASE ~(Len(q) < CmdCap)  BY <1>2 DEF Ticked
  <1>. QED  BY <1>1, <1>2

(* The hosting handlers touch no queue and no image. *)
LEMMA HostKeepsWorld == Hosting => UNCHANGED <<world, jobVars>>
  BY DEF Hosting, HostNext, Paint, ModelEvent, ComponentOpen, ComponentResult, ComponentInvalidate,
         ComponentDispose, ComponentFocus, OverlayMount, OverlayUnmount, OverlayUpdate, ExtensionAsks,
         ExtensionCancels, Resize, KeyToOverlay, Handles

(* A handler owes the worker at most one job, and its images are that job's.
   *)
LEMMA OneOwed ==
  /\ Queued(<<>>) = {} /\ <<>> \in Seq(JobType) /\ Len(<<>>) = 0
  /\ \A job \in JobType : Queued(<<job>>) = job.images /\ <<job>> \in Seq(JobType) /\ Len(<<job>>) = 1
  /\ \A q \in Seq(JobType) : Len(q) <= 1 /\ q # <<>> => Tail(q) = <<>> /\ q = <<Head(q)>> /\ Head(q) \in JobType
  <1>1. \A job \in JobType : DOMAIN <<job>> = {1} /\ <<job>>[1] = job  OBVIOUS
  <1>2. \A job \in JobType : Queued(<<job>>) = job.images
    BY <1>1 DEF Queued, All, JobLoads
  <1>3. Queued(<<>>) = {}  BY DEF Queued, All, JobLoads
  <1>4. \A q \in Seq(JobType) : Len(q) <= 1 /\ q # <<>> => Len(q) = 1 /\ q[1] \in JobType
    BY EmptySeq
  <1>5. ASSUME NEW q \in Seq(JobType), Len(q) = 1
        PROVE  Tail(q) = <<>> /\ q = <<Head(q)>> /\ Head(q) = q[1]
    <2>1. Tail(q) \in Seq(JobType) /\ Len(Tail(q)) = 0 /\ Head(q) = q[1] /\ q[1] \in JobType  BY <1>5
    <2>2. <<q[1]>> \in Seq(JobType) /\ Len(<<q[1]>>) = 1 /\ <<q[1]>>[1] = q[1]  BY <2>1
    <2>3. Tail(q) = <<>>  BY <2>1, EmptySeq
    <2>4. q = <<q[1]>>  BY <1>5, <2>2, SeqEqual
    <2>. QED  BY <2>1, <2>3, <2>4
  <1>6. \A job \in JobType : <<job>> \in Seq(JobType) /\ Len(<<job>>) = 1  OBVIOUS
  <1>. QED  BY <1>2, <1>3, <1>4, <1>5, <1>6

(* None or one owed job is a list of at most one. *)
LEMMA AtMostOne ==
  ASSUME NEW job \in JobType, NEW q, q = <<>> \/ q = <<job>>
  PROVE  q \in Seq(JobType) /\ Len(q) <= 1
  <1>1. CASE q = <<>>  BY <1>1
  <1>2. CASE q = <<job>>  BY <1>2
  <1>. QED  BY <1>1, <1>2

-----------------------------------------------------------------------------
(* The queues start typed. *)
LEMMA JobsTypeInit == Init => JobsTypeOK
  <1> SUFFICES ASSUME Init PROVE JobsTypeOK  OBVIOUS
  <1>1. world \in Worlds /\ jobs = <<>> /\ cmds = <<>> /\ owed = <<>>
        /\ worker = [at |-> "idle", job |-> Nothing, outcome |-> "none"]
        /\ pending = {} /\ draft = FALSE /\ peer = {} /\ lost = {} /\ unsure = {} /\ pasted = 0
    BY DEF Init, JobsInit
  <1>2. worker \in [at : {"idle", "calling", "posting"}, job : JobType, outcome : Outcomes]
    BY <1>1, NothingCarried DEF Outcomes
  <1>3. <<>> \in Seq(JobType) /\ <<>> \in Seq(CmdType) /\ Len(<<>>) <= 1  OBVIOUS
  <1>4. jobs \in Seq(JobType) /\ cmds \in Seq(CmdType) /\ owed \in Seq(JobType) /\ Len(owed) <= 1
    BY <1>1, <1>3
  <1>5. /\ pending \in SUBSET Nat /\ peer \in SUBSET Nat /\ lost \in SUBSET Nat /\ unsure \in SUBSET Nat
        /\ draft \in BOOLEAN /\ pasted \in Nat
    BY <1>1
  <1>. QED  BY <1>1, <1>2, <1>4, <1>5 DEF JobsTypeOK

(* The prompt made from the draft carries the pending images. *)
LEMMA PromptType == JobsTypeOK => Prompt \in JobType /\ Prompt.images = pending /\ Prompt.kind = "prompt"
  BY DEF JobsTypeOK, Prompt, JobType, Kinds

(* Every step keeps the queues typed. *)
LEMMA JobsTypeKept == JobsTypeOK /\ [Next]_appVars => JobsTypeOK'
  <1> SUFFICES ASSUME JobsTypeOK, [Next]_appVars PROVE JobsTypeOK'  OBVIOUS
  <1> USE DEF JobsTypeOK
  <1>0. \A q \in Seq(CmdType) : Ticked(q) \in Seq(CmdType)  BY NothingCarried DEF Ticked
  <1>1. CASE UNCHANGED appVars  BY <1>1 DEF appVars, hostVars, jobVars, queueVars, draftVars
  <1>2. CASE Hosting
    BY <1>2, HostKeepsWorld DEF jobVars, queueVars, draftVars
  <1>3. CASE Paste  BY <1>3 DEF Paste, queueVars
  <1>4. CASE Type  BY <1>0, <1>4 DEF Type
  <1>5. CASE Submit
    <2>1. owed' = <<Prompt>>  BY <1>5 DEF Submit, Ask
    <2>2. Prompt \in JobType  BY PromptType
    <2>3. owed' \in Seq(JobType) /\ Len(owed') <= 1  BY <2>1, <2>2, OneOwed
    <2>. QED  BY <1>0, <1>5, <2>3 DEF Submit, TakeDraft
  <1>6. CASE AskFor
    <2>1. PICK kind \in world.asks : owed' = <<Job(kind)>>  BY <1>6 DEF AskFor, Ask
    <2>2. Job(kind) \in JobType  BY <2>1, NothingCarried, WorldAssumption DEF Kinds
    <2>. QED  BY <1>6, <2>1, <2>2, OneOwed DEF AskFor, draftVars
  <1>7. CASE Choose
    <2>1. owed' = <<Job("set")>> /\ Job("set") \in JobType  BY <1>7, NothingCarried DEF Choose, Ask, Kinds
    <2>. QED  BY <1>7, <2>1, OneOwed DEF Choose, draftVars, Handles
  <1>8. CASE TakeCommand
    <2>1. /\ Tail(cmds) \in Seq(CmdType) /\ Head(cmds) \in CmdType
          /\ UNCHANGED <<world, jobs, worker, peer, lost, unsure, pasted>>
      BY <1>8 DEF TakeCommand
    <2>2. CASE Head(cmds).kind = "tick" /\ cmds' = Tail(cmds) /\ UNCHANGED <<pending, draft, owed>>
      BY <2>1, <2>2
    <2>3. CASE CtrlCOverlay(Tail(cmds))  BY <2>1, <2>3, OneOwed DEF CtrlCOverlay
    <2>4. CASE CtrlC(Tail(cmds))
      <3>1. /\ owed' = <<>> \/ owed' = <<Job("abort")>>
            /\ Job("abort") \in JobType
         BY NothingCarried, <2>4 DEF Kinds, CtrlC
      <3>2. owed' \in Seq(JobType) /\ Len(owed') <= 1  BY <3>1, AtMostOne
      <3>. QED  BY <1>0, <2>1, <2>4, <3>2 DEF CtrlC
    <2>5. CASE HandleOutcome(Head(cmds))
      <3> DEFINE job == Head(cmds).job
                 outcome == Head(cmds).outcome
      <3>1. job \in JobType  BY <2>1 DEF CmdType
      <3>2. HandleDone(job, outcome)  BY <2>5 DEF HandleOutcome
      <3>3. /\ owed' = <<>> \/ owed' = <<Job("state")>>
            /\ Job("state") \in JobType
         BY NothingCarried, <3>2 DEF Kinds, HandleDone, FollowUp
      <3>4. owed' \in Seq(JobType) /\ Len(owed') <= 1  BY <3>3, AtMostOne
      <3>5. PICK back \in JobType : Restored(back)
        <4>1. [job EXCEPT !.text = job.images # {}] \in JobType  BY <3>1 DEF JobType
        <4>. QED  BY <3>1, <3>2, <4>1, NothingCarried DEF HandleDone
      <3>6. pending' \in SUBSET Nat /\ draft' \in BOOLEAN  BY <3>5 DEF Restored, JobType
      <3>. QED  BY <1>0, <2>1, <3>2, <3>4, <3>6 DEF HandleDone
    <2>. QED  BY <1>8, <2>2, <2>3, <2>4, <2>5 DEF TakeCommand
  <1>9. CASE CtrlCKey
    <2>1. /\ owed' = <<>> \/ owed' = <<Job("abort")>>
          /\ Job("abort") \in JobType
       BY NothingCarried, <1>9 DEF Kinds, CtrlCKey, CtrlC
    <2>2. owed' \in Seq(JobType) /\ Len(owed') <= 1  BY <2>1, AtMostOne
    <2>. QED  BY <1>0, <1>9, <2>2 DEF CtrlCKey, CtrlC
  <1>10. CASE Interrupted
    BY <1>10, NothingCarried DEF Interrupted, SignalArrives, draftVars, hostVars
  <1>11. CASE Quit  BY <1>11 DEF Quit, ContextEnds, queueVars, draftVars, hostVars
  <1>12. CASE End  BY <1>12 DEF End, queueVars, draftVars
  <1>13. CASE Enqueue /\ UNCHANGED hostVars
    BY <1>13, OneOwed DEF Enqueue, draftVars, hostVars
  <1>14. CASE Unqueued /\ UNCHANGED hostVars
    <2>1. Head(owed) \in JobType  BY <1>14, OneOwed DEF Unqueued
    <2>2. pending' \in SUBSET Nat /\ draft' \in BOOLEAN  BY <1>14, <2>1 DEF Unqueued, Restored, JobType
    <2>. QED  BY <1>0, <1>14, <2>2, OneOwed DEF Unqueued, hostVars
  <1>15. CASE TakeJob /\ UNCHANGED hostVars
    <2>1. jobs # <<>> /\ Head(jobs) \in JobType /\ Tail(jobs) \in Seq(JobType)  BY <1>15 DEF TakeJob
    <2>. QED  BY <1>15, <2>1 DEF TakeJob, draftVars, hostVars
  <1>16. CASE CallEnds /\ UNCHANGED hostVars
    <2>1. [worker.job EXCEPT !.images = peer] \in JobType /\ worker.job.images \in SUBSET Nat
      BY DEF JobType
    <2>2. PICK outcome \in {"ok", "refused", "error"}, taken \in BOOLEAN, job \in JobType :
            /\ worker' = [at |-> "posting", outcome |-> outcome, job |-> job]
            /\ peer' \in SUBSET Nat /\ lost' \in SUBSET Nat /\ unsure' \in SUBSET Nat
      <3>1. PICK outcome \in {"ok", "refused", "error"}, taken \in BOOLEAN :
              LET job  == worker.job
                  give == job.kind = "dequeue"
              IN  /\ worker' = [at |-> "posting", outcome |-> outcome,
                                job |-> IF give /\ outcome = "ok" THEN [job EXCEPT !.images = peer] ELSE job]
                  /\ peer' = IF ~taken THEN peer ELSE IF give THEN {} ELSE peer \cup job.images
                  /\ lost' = IF give /\ taken /\ outcome = "error" THEN lost \cup peer ELSE lost
                  /\ unsure' = IF ~give /\ taken /\ outcome = "error" THEN unsure \cup job.images ELSE unsure
        BY <1>16 DEF CallEnds
      <3>2. peer' \in SUBSET Nat /\ lost' \in SUBSET Nat /\ unsure' \in SUBSET Nat  BY <2>1, <3>1
      <3>. QED  BY <2>1, <3>1, <3>2
    <2>. QED  BY <1>16, <2>2 DEF CallEnds, hostVars, Outcomes
  <1>17. CASE PostDone /\ UNCHANGED hostVars
    <2>1. Done(worker.job, worker.outcome) \in CmdType  BY DEF Done, CmdType
    <2>. QED  BY <1>17, <2>1, NothingCarried DEF PostDone, draftVars, hostVars, Outcomes
  <1>18. CASE DropDone /\ UNCHANGED hostVars
    <2>1. Carried(worker.job, worker.outcome) \in SUBSET Nat  BY CarriedType
    <2>. QED  BY <1>18, <2>1, NothingCarried DEF DropDone, hostVars, Outcomes
  <1>. QED  BY <1>1, <1>2, <1>3, <1>4, <1>5, <1>6, <1>7, <1>8, <1>9, <1>10, <1>11, <1>12, <1>13,
              <1>14, <1>15, <1>16, <1>17, <1>18 DEF Next, Queueing, Working

-----------------------------------------------------------------------------
(* What moves the images.                                                  *)
carriers == <<jobs, cmds, owed, worker, pending, peer, lost, unsure, pasted>>

(* The loads of typed queues are sets of images. *)
LEMMA LoadsTyped ==
  ASSUME JobsTypeOK
  PROVE  /\ JobLoads(jobs) \in Seq(SUBSET Nat) /\ CmdLoads(cmds) \in Seq(SUBSET Nat)
         /\ InHand(worker) \in SUBSET Nat /\ worker.job.images \in SUBSET Nat
         /\ Carried(worker.job, worker.outcome) \in SUBSET Nat
  <1>1. worker.job \in JobType  BY DEF JobsTypeOK
  <1>2. worker.job.images \in SUBSET Nat /\ Carried(worker.job, worker.outcome) \in SUBSET Nat
    BY <1>1, CarriedType DEF JobType
  <1>. QED  BY <1>2, JobLoadsOf, CmdLoadsOf DEF JobsTypeOK, InHand

(* No image is anywhere at the start. *)
LEMMA AccountedInit == Init => ImagesAccounted
  <1> SUFFICES ASSUME Init PROVE ImagesAccounted  OBVIOUS
  <1>1. /\ jobs = <<>> /\ cmds = <<>> /\ owed = <<>> /\ worker.at = "idle"
        /\ pending = {} /\ peer = {} /\ lost = {} /\ pasted = 0
    BY DEF Init, JobsInit
  <1>2. Queued(jobs) = {} /\ Queued(owed) = {} /\ Returning = {} /\ InHand(worker) = {}
    BY <1>1 DEF Queued, Returning, All, JobLoads, CmdLoads, InHand
  <1>3. Conserved  BY <1>1, <1>2 DEF Conserved
  <1>4. Apart  BY <1>1, <1>2 DEF Apart, Separate, JobLoads, CmdLoads
  <1>. QED  BY <1>1, <1>3, <1>4 DEF ImagesAccounted, EmptyHanded

(* A pasted image is in one place. *)
LEMMA PasteAccounted == JobsTypeOK /\ ImagesAccounted /\ Paste => ImagesAccounted'
  <1> SUFFICES ASSUME JobsTypeOK, ImagesAccounted, Paste PROVE ImagesAccounted'  OBVIOUS
  <1>1. /\ UNCHANGED <<jobs, cmds, owed, worker, peer, lost, unsure>>
        /\ pasted' = pasted + 1 /\ pending' = pending \cup {pasted + 1} /\ pasted \in Nat
    BY DEF Paste, queueVars, JobsTypeOK
  <1>2. 1..(pasted + 1) = 1..pasted \cup {pasted + 1} /\ pasted + 1 \notin 1..pasted  BY <1>1
  <1>3. UNCHANGED <<InHand(worker), Queued(jobs), Queued(owed), Returning>>
    BY <1>1 DEF InHand, Queued, Returning
  <1>4. Conserved'  BY <1>1, <1>2, <1>3 DEF ImagesAccounted, Conserved
  <1>5. pasted + 1 \notin InHand(worker) \cup Queued(jobs) \cup Queued(owed) \cup Returning \cup peer
    BY <1>2 DEF ImagesAccounted, Conserved
  <1>6. Apart'  BY <1>1, <1>3, <1>5 DEF ImagesAccounted, Apart
  <1>7. EmptyHanded'  BY <1>1 DEF ImagesAccounted, EmptyHanded
  <1>. QED  BY <1>4, <1>6, <1>7 DEF ImagesAccounted

(* Submitting moves the pending images into one prompt. *)
LEMMA SubmitAccounted == JobsTypeOK /\ ImagesAccounted /\ Submit => ImagesAccounted'
  <1> SUFFICES ASSUME JobsTypeOK, ImagesAccounted, Submit PROVE ImagesAccounted'  OBVIOUS
  <1>1. /\ UNCHANGED <<jobs, worker, peer, lost, unsure, pasted>> /\ cmds' = Ticked(cmds)
        /\ owed = <<>> /\ owed' = <<Prompt>> /\ pending' = {}
    BY DEF Submit, Ask, TakeDraft, EditorHasKeys, Free, Running
  <1>2. Queued(owed) = {} /\ Queued(owed)' = pending  BY <1>1, OneOwed, PromptType
  <1>3. /\ Returning' = Returning /\ Separate(CmdLoads(cmds'), unsure)
        /\ \A i \in DOMAIN cmds' : cmds'[i].kind # "done" => Carried(cmds'[i].job, cmds'[i].outcome) = {}
    BY <1>1, TickedKeeps DEF JobsTypeOK, ImagesAccounted, Apart, EmptyHanded, Returning
  <1>4. UNCHANGED <<InHand(worker), Queued(jobs), JobLoads(jobs)>>
    BY <1>1 DEF InHand, Queued
  <1>5. Conserved'  BY <1>1, <1>2, <1>3, <1>4 DEF ImagesAccounted, Conserved
  <1>6. Apart'  BY <1>1, <1>2, <1>3, <1>4 DEF ImagesAccounted, Apart
  <1>7. owed'[1].kind # "dequeue" /\ DOMAIN owed' = {1}  BY <1>1, PromptType
  <1>8. EmptyHanded'  BY <1>1, <1>3, <1>7 DEF ImagesAccounted, EmptyHanded
  <1>. QED  BY <1>5, <1>6, <1>8 DEF ImagesAccounted

(* A step that moves no images: what it queues, calls or commands, is      *)
(* empty.                                                                  *)
LEMMA NothingMoves ==
  ASSUME JobsTypeOK, ImagesAccounted,
         UNCHANGED <<jobs, worker, pending, peer, lost, unsure, pasted>>,
         owed = <<>>, NEW job \in JobType, job.images = {}, owed' = <<>> \/ owed' = <<job>>,
         Returning' = Returning, Separate(CmdLoads(cmds'), unsure),
         \A i \in DOMAIN cmds' : cmds'[i].kind # "done" => Carried(cmds'[i].job, cmds'[i].outcome) = {}
  PROVE  ImagesAccounted'
  <1>1. Queued(owed) = {} /\ Queued(owed)' = {}  BY OneOwed
  <1>2. UNCHANGED <<InHand(worker), Queued(jobs), JobLoads(jobs)>>  BY DEF InHand, Queued
  <1>3. Conserved'  BY <1>1, <1>2 DEF ImagesAccounted, Conserved
  <1>4. Apart'  BY <1>1, <1>2 DEF ImagesAccounted, Apart
  <1>5. \A i \in DOMAIN owed' : owed'[i].images = {}  OBVIOUS
  <1>6. EmptyHanded'  BY <1>5 DEF ImagesAccounted, EmptyHanded
  <1>. QED  BY <1>3, <1>4, <1>6 DEF ImagesAccounted

(* Taking the first command separates its load from those of the rest. *)
LEMMA RestOfCommands ==
  ASSUME JobsTypeOK, ImagesAccounted, cmds # <<>>
  PROVE  LET c == Head(cmds)
             rest == Tail(cmds)
         IN  /\ c \in CmdType /\ rest \in Seq(CmdType)
             /\ Separate(CmdLoads(rest), unsure)
             /\ Returning = Carried(c.job, c.outcome) \cup All(CmdLoads(rest))
             /\ Carried(c.job, c.outcome) \cap All(CmdLoads(rest)) \subseteq unsure
             /\ c.kind # "done" => Carried(c.job, c.outcome) = {}
             /\ \A i \in DOMAIN rest : rest[i].kind # "done" => Carried(rest[i].job, rest[i].outcome) = {}
  <1>1. cmds \in Seq(CmdType) /\ Head(cmds) \in CmdType /\ Tail(cmds) \in Seq(CmdType)  BY DEF JobsTypeOK
  <1>2. /\ CmdLoads(cmds) \in Seq(SUBSET Nat) /\ CmdLoads(cmds) # <<>>
        /\ Head(CmdLoads(cmds)) = Carried(Head(cmds).job, Head(cmds).outcome)
        /\ CmdLoads(Tail(cmds)) = Tail(CmdLoads(cmds))
    BY <1>1, CmdLoadsOf
  <1>3. Separate(CmdLoads(cmds), unsure)  BY DEF ImagesAccounted, Apart
  <1>4. /\ Returning = Head(CmdLoads(cmds)) \cup All(Tail(CmdLoads(cmds)))
        /\ Head(CmdLoads(cmds)) \cap All(Tail(CmdLoads(cmds))) \subseteq unsure
        /\ Separate(Tail(CmdLoads(cmds)), unsure)
    BY <1>2, <1>3, SplitHead DEF Returning
  <1>5. /\ Head(cmds) = cmds[1] /\ 1 \in DOMAIN cmds
        /\ \A i \in DOMAIN Tail(cmds) : i + 1 \in DOMAIN cmds /\ Tail(cmds)[i] = cmds[i + 1]
    BY <1>1
  <1>. QED  BY <1>1, <1>2, <1>4, <1>5 DEF ImagesAccounted, EmptyHanded

(* Typing moves no image. *)
LEMMA TypeAccounted == JobsTypeOK /\ ImagesAccounted /\ Type => ImagesAccounted'
  <1> SUFFICES ASSUME JobsTypeOK, ImagesAccounted, Type PROVE ImagesAccounted'  OBVIOUS
  <1>1. /\ UNCHANGED <<jobs, worker, pending, peer, lost, unsure, pasted>> /\ cmds' = Ticked(cmds)
        /\ owed = <<>> /\ owed' = <<>>
    BY DEF Type, EditorHasKeys, Free, Running
  <1>2. /\ Returning' = Returning /\ Separate(CmdLoads(cmds'), unsure)
        /\ \A i \in DOMAIN cmds' : cmds'[i].kind # "done" => Carried(cmds'[i].job, cmds'[i].outcome) = {}
    BY <1>1, TickedKeeps DEF JobsTypeOK, ImagesAccounted, Apart, EmptyHanded, Returning
  <1>. QED  BY <1>1, <1>2, NothingMoves, NothingCarried

(* Asking for a list and choosing from it move no image. *)
LEMMA AskAccounted == JobsTypeOK /\ ImagesAccounted /\ (AskFor \/ Choose) => ImagesAccounted'
  <1> SUFFICES ASSUME JobsTypeOK, ImagesAccounted, AskFor \/ Choose PROVE ImagesAccounted'  OBVIOUS
  <1>1. PICK kind \in Kinds : owed' = <<Job(kind)>>
    <2>1. CASE AskFor
      <3>1. world.asks \subseteq Kinds  BY WorldAssumption DEF JobsTypeOK, Kinds
      <3>. QED  BY <2>1, <3>1 DEF AskFor, Ask
    <2>2. CASE Choose  BY <2>2 DEF Choose, Ask, Kinds
    <2>. QED  BY <2>1, <2>2
  <1>2. /\ UNCHANGED <<cmds, jobs, worker, pending, peer, lost, unsure, pasted>> /\ owed = <<>>
    BY DEF AskFor, Choose, EditorHasKeys, Free, Running, draftVars
  <1>3. /\ Returning' = Returning /\ Separate(CmdLoads(cmds'), unsure)
        /\ \A i \in DOMAIN cmds' : cmds'[i].kind # "done" => Carried(cmds'[i].job, cmds'[i].outcome) = {}
    BY <1>2 DEF ImagesAccounted, Apart, EmptyHanded, Returning
  <1>. QED  BY <1>1, <1>2, <1>3, NothingMoves, NothingCarried

(* Ctrl+C, with the commands in rest left.                                 *)
LEMMA InterruptAccounted ==
  ASSUME JobsTypeOK, ImagesAccounted, NEW rest \in Seq(CmdType), owed = <<>>,
         CtrlCOverlay(rest) \/ CtrlC(rest), UNCHANGED <<jobs, worker, peer, lost, unsure, pasted>>,
         All(CmdLoads(rest)) = Returning, Separate(CmdLoads(rest), unsure),
         \A i \in DOMAIN rest : rest[i].kind # "done" => Carried(rest[i].job, rest[i].outcome) = {}
  PROVE  ImagesAccounted'
  <1>1. (owed' = <<>> \/ owed' = <<Job("abort")>>) /\ (cmds' = rest \/ cmds' = Ticked(rest)) /\ pending' = pending
    BY DEF CtrlCOverlay, CtrlC
  <1>2. Job("abort") \in JobType /\ Job("abort").images = {}  BY NothingCarried DEF Kinds
  <1>3. /\ Returning' = Returning /\ Separate(CmdLoads(cmds'), unsure)
        /\ \A i \in DOMAIN cmds' : cmds'[i].kind # "done" => Carried(cmds'[i].job, cmds'[i].outcome) = {}
    BY <1>1, TickedKeeps DEF Returning
  <1>. QED  BY <1>1, <1>2, <1>3, NothingMoves

(* The outcome of a call: what comes back is what was on its way back.     *)
LEMMA OutcomeAccounted ==
  ASSUME JobsTypeOK, ImagesAccounted, cmds # <<>>, owed = <<>>, HandleOutcome(Head(cmds)),
         UNCHANGED <<jobs, worker, peer, lost, unsure, pasted>>
  PROVE  ImagesAccounted'
  <1> DEFINE head == Head(cmds)
             rest == Tail(cmds)
             done == HandleDone(head.job, head.outcome)
  <1>0. /\ head \in CmdType /\ rest \in Seq(CmdType) /\ Separate(CmdLoads(rest), unsure)
        /\ Returning = Carried(head.job, head.outcome) \cup All(CmdLoads(rest))
        /\ Carried(head.job, head.outcome) \cap All(CmdLoads(rest)) \subseteq unsure
        /\ \A i \in DOMAIN rest : rest[i].kind # "done" => Carried(rest[i].job, rest[i].outcome) = {}
    BY RestOfCommands
  <1>1. head.job \in JobType /\ done  BY <1>0 DEF CmdType, HandleOutcome
  <1>2. /\ pending' = Carried(head.job, head.outcome) \cup pending
        /\ cmds' = rest \/ cmds' = Ticked(rest)
    <2>1. [head.job EXCEPT !.text = head.job.images # {}].images = head.job.images  BY <1>1 DEF JobType
    <2>. QED  BY <1>1, <2>1, NothingCarried DEF HandleDone, Restored, Carried
  <1>3. /\ owed' = <<>> \/ owed' = <<Job("state")>>
        /\ Job("state") \in JobType /\ Job("state").images = {}
    BY <1>1, NothingCarried DEF HandleDone, FollowUp, Kinds
  <1>4. /\ Returning' = All(CmdLoads(rest)) /\ Separate(CmdLoads(cmds'), unsure)
        /\ \A i \in DOMAIN cmds' : cmds'[i].kind # "done" => Carried(cmds'[i].job, cmds'[i].outcome) = {}
    BY <1>0, <1>2, TickedKeeps DEF Returning
  <1>5. Queued(owed) = {} /\ Queued(owed)' = {}  BY <1>3, OneOwed
  <1>6. UNCHANGED <<InHand(worker), Queued(jobs), JobLoads(jobs)>>  BY DEF InHand, Queued
  <1> HIDE DEF head, rest, done
  <1>7. Conserved'  BY <1>0, <1>2, <1>4, <1>5, <1>6 DEF ImagesAccounted, Conserved
  <1>8. Apart'  BY <1>0, <1>2, <1>4, <1>5, <1>6 DEF ImagesAccounted, Apart
  <1>9. \A i \in DOMAIN owed' : owed'[i].images = {}  BY <1>3
  <1>10. EmptyHanded'  BY <1>4, <1>9 DEF ImagesAccounted, EmptyHanded
  <1>. QED  BY <1>7, <1>8, <1>10 DEF ImagesAccounted

(* A command that brings a failed prompt back brings its images back once. *)
LEMMA CommandAccounted == JobsTypeOK /\ ImagesAccounted /\ TakeCommand => ImagesAccounted'
  <1> SUFFICES ASSUME JobsTypeOK, ImagesAccounted, TakeCommand PROVE ImagesAccounted'  OBVIOUS
  <1>1. cmds # <<>> /\ owed = <<>> /\ UNCHANGED <<jobs, worker, peer, lost, unsure, pasted>>
    BY DEF TakeCommand, Free, Running
  <1>2. CASE HandleOutcome(Head(cmds))  BY <1>1, <1>2, OutcomeAccounted
  <1>3. CASE Head(cmds).kind # "done"
    <2>1. /\ Tail(cmds) \in Seq(CmdType) /\ Separate(CmdLoads(Tail(cmds)), unsure)
          /\ All(CmdLoads(Tail(cmds))) = Returning
          /\ \A i \in DOMAIN Tail(cmds) : Tail(cmds)[i].kind # "done" =>
               Carried(Tail(cmds)[i].job, Tail(cmds)[i].outcome) = {}
      BY <1>1, <1>3, RestOfCommands
    <2>2. CASE CtrlCOverlay(Tail(cmds)) \/ CtrlC(Tail(cmds))
      BY <1>1, <2>1, <2>2, InterruptAccounted
    <2>3. CASE cmds' = Tail(cmds) /\ UNCHANGED <<pending, owed>>
      <3>1. Returning' = Returning  BY <2>1, <2>3 DEF Returning
      <3>. QED  BY <1>1, <2>1, <2>3, <3>1, NothingMoves, NothingCarried
    <2>. QED  BY <1>3, <2>2, <2>3 DEF TakeCommand
  <1>. QED  BY <1>2, <1>3 DEF TakeCommand

(* Ctrl+C in the editor drops the pending images, and only those. *)
LEMMA KeyAccounted == JobsTypeOK /\ ImagesAccounted /\ CtrlCKey => ImagesAccounted'
  <1> SUFFICES ASSUME JobsTypeOK, ImagesAccounted, CtrlCKey PROVE ImagesAccounted'  OBVIOUS
  <1>1. owed = <<>> /\ UNCHANGED <<jobs, worker, peer, lost, unsure, pasted>> /\ CtrlC(cmds)
    BY DEF CtrlCKey, EditorHasKeys, Free, Running
  <1>2. /\ cmds \in Seq(CmdType) /\ All(CmdLoads(cmds)) = Returning /\ Separate(CmdLoads(cmds), unsure)
        /\ \A i \in DOMAIN cmds : cmds[i].kind # "done" => Carried(cmds[i].job, cmds[i].outcome) = {}
    BY DEF JobsTypeOK, Returning, ImagesAccounted, Apart, EmptyHanded
  <1>. QED  BY <1>1, <1>2, InterruptAccounted

(* A command is put behind the others.                                     *)
LEMMA CommandAppended ==
  ASSUME JobsTypeOK, ImagesAccounted, NEW c \in CmdType, cmds' = Append(cmds, c),
         Carried(c.job, c.outcome) \cap Returning \subseteq unsure,
         c.kind # "done" => Carried(c.job, c.outcome) = {}
  PROVE  /\ Returning' = Returning \cup Carried(c.job, c.outcome)
         /\ Separate(CmdLoads(cmds'), unsure)
         /\ \A i \in DOMAIN cmds' : cmds'[i].kind # "done" => Carried(cmds'[i].job, cmds'[i].outcome) = {}
  <1>1. CmdLoads(cmds') = Append(CmdLoads(cmds), Carried(c.job, c.outcome)) /\ CmdLoads(cmds) \in Seq(SUBSET Nat)
    BY CmdLoadsOf DEF JobsTypeOK
  <1>2. Carried(c.job, c.outcome) \in SUBSET Nat  BY CarriedType DEF CmdType
  <1>3. Separate(CmdLoads(cmds), unsure)  BY DEF ImagesAccounted, Apart
  <1>4. Separate(CmdLoads(cmds'), unsure) /\ Returning' = Returning \cup Carried(c.job, c.outcome)
    BY <1>1, <1>2, <1>3, AppendJoins DEF Returning
  <1>5. /\ cmds \in Seq(CmdType) /\ DOMAIN cmds = 1..Len(cmds) /\ DOMAIN cmds' = 1..(Len(cmds) + 1)
        /\ \A i \in DOMAIN cmds' : IF i \in DOMAIN cmds THEN cmds'[i] = cmds[i] ELSE cmds'[i] = c
    BY DEF JobsTypeOK
  <1>. QED  BY <1>4, <1>5 DEF ImagesAccounted, EmptyHanded

(* A signal carries no image. *)
LEMMA SignalAccounted == JobsTypeOK /\ ImagesAccounted /\ SignalArrives => ImagesAccounted'
  <1> SUFFICES ASSUME JobsTypeOK, ImagesAccounted, SignalArrives PROVE ImagesAccounted'  OBVIOUS
  <1>1. UNCHANGED <<jobs, worker, owed, pending, peer, lost, unsure, pasted>> /\ cmds' = Append(cmds, Signal)
    BY DEF SignalArrives, draftVars
  <1>2. /\ Returning' = Returning /\ Separate(CmdLoads(cmds'), unsure)
        /\ \A i \in DOMAIN cmds' : cmds'[i].kind # "done" => Carried(cmds'[i].job, cmds'[i].outcome) = {}
    <2>1. /\ Signal \in CmdType /\ Carried(Signal.job, Signal.outcome) = {}
          /\ Carried(Signal.job, Signal.outcome) \cap Returning \subseteq unsure
      BY NothingCarried
    <2>. QED  BY <1>1, <2>1, CommandAppended
  <1>3. UNCHANGED <<InHand(worker), Queued(jobs), JobLoads(jobs), Queued(owed)>>  BY <1>1 DEF InHand, Queued
  <1>. QED  BY <1>1, <1>2, <1>3 DEF ImagesAccounted, Conserved, Apart, EmptyHanded

(* Queueing an owed job moves its images to the queue. *)
LEMMA EnqueueAccounted == JobsTypeOK /\ ImagesAccounted /\ Enqueue => ImagesAccounted'
  <1> SUFFICES ASSUME JobsTypeOK, ImagesAccounted, Enqueue PROVE ImagesAccounted'  OBVIOUS
  <1> DEFINE job == Head(owed)
  <1>1. /\ UNCHANGED <<cmds, worker, pending, peer, lost, unsure, pasted>> /\ owed # <<>>
        /\ jobs' = Append(jobs, job) /\ owed' = Tail(owed)
    BY DEF Enqueue, draftVars
  <1>2. job \in JobType /\ owed = <<job>> /\ owed' = <<>>  BY <1>1, OneOwed DEF JobsTypeOK
  <1>3. Queued(owed) = job.images /\ Queued(owed)' = {} /\ job.images \in SUBSET Nat
    BY <1>2, OneOwed DEF JobType
  <1>4. JobLoads(jobs') = Append(JobLoads(jobs), job.images) /\ JobLoads(jobs) \in Seq(SUBSET Nat)
    BY <1>1, <1>2, JobLoadsOf DEF JobsTypeOK
  <1>5. Queued(jobs) \cap job.images \subseteq unsure /\ Separate(JobLoads(jobs), unsure)
    BY <1>3 DEF ImagesAccounted, Apart
  <1>6. Separate(JobLoads(jobs'), unsure) /\ Queued(jobs)' = Queued(jobs) \cup job.images
    BY <1>3, <1>4, <1>5, AppendJoins DEF Queued
  <1>7. UNCHANGED <<InHand(worker), Returning>>  BY <1>1 DEF InHand, Returning
  <1>8. /\ jobs \in Seq(JobType) /\ DOMAIN jobs' = 1..(Len(jobs) + 1) /\ DOMAIN jobs = 1..Len(jobs)
        /\ \A i \in DOMAIN jobs' : IF i \in DOMAIN jobs THEN jobs'[i] = jobs[i] ELSE jobs'[i] = job
        /\ 1 \in DOMAIN owed /\ job = owed[1]
    BY <1>1, <1>2 DEF JobsTypeOK
  <1> HIDE DEF job
  <1>9. Conserved'  BY <1>1, <1>3, <1>6, <1>7 DEF ImagesAccounted, Conserved
  <1>10. Apart'  BY <1>1, <1>3, <1>6, <1>7 DEF ImagesAccounted, Apart
  <1>11. job.kind = "dequeue" => job.images = {}  BY <1>8 DEF ImagesAccounted, EmptyHanded
  <1>12. \A i \in DOMAIN jobs' : jobs'[i].kind = "dequeue" => jobs'[i].images = {}
    <2> SUFFICES ASSUME NEW i \in DOMAIN jobs', jobs'[i].kind = "dequeue" PROVE jobs'[i].images = {}
      OBVIOUS
    <2>1. CASE i \in DOMAIN jobs
      <3>1. jobs'[i] = jobs[i]  BY <1>8, <2>1
      <3>. QED  BY <2>1, <3>1 DEF ImagesAccounted, EmptyHanded
    <2>2. CASE i \notin DOMAIN jobs  BY <1>8, <1>11, <2>2
    <2>. QED  BY <2>1, <2>2
  <1>13. DOMAIN owed' = {}  BY <1>2
  <1>14. /\ UNCHANGED <<worker, cmds>>
         /\ worker.at = "calling" /\ worker.job.kind = "dequeue" => worker.job.images = {}
         /\ \A i \in DOMAIN cmds : cmds[i].kind # "done" => Carried(cmds[i].job, cmds[i].outcome) = {}
    BY <1>1 DEF ImagesAccounted, EmptyHanded
  <1>15. EmptyHanded'  BY <1>12, <1>13, <1>14 DEF EmptyHanded
  <1>. QED  BY <1>9, <1>10, <1>15 DEF ImagesAccounted

(* A job that cannot be queued gives its images back. *)
LEMMA UnqueuedAccounted == JobsTypeOK /\ ImagesAccounted /\ Unqueued => ImagesAccounted'
  <1> SUFFICES ASSUME JobsTypeOK, ImagesAccounted, Unqueued PROVE ImagesAccounted'  OBVIOUS
  <1> DEFINE job == Head(owed)
  <1>1. /\ UNCHANGED <<jobs, worker, peer, lost, unsure, pasted>> /\ owed # <<>> /\ owed' = <<>>
        /\ pending' = job.images \cup pending /\ (cmds' = cmds \/ cmds' = Ticked(cmds))
    BY DEF Unqueued, Restored
  <1>2. Queued(owed) = job.images /\ Queued(owed)' = {}  BY <1>1, OneOwed DEF JobsTypeOK
  <1>3. /\ Returning' = Returning /\ Separate(CmdLoads(cmds'), unsure)
        /\ \A i \in DOMAIN cmds' : cmds'[i].kind # "done" => Carried(cmds'[i].job, cmds'[i].outcome) = {}
    BY <1>1, TickedKeeps DEF JobsTypeOK, ImagesAccounted, Apart, EmptyHanded, Returning
  <1>4. UNCHANGED <<InHand(worker), Queued(jobs), JobLoads(jobs)>>  BY <1>1 DEF InHand, Queued
  <1> HIDE DEF job
  <1>5. Conserved'  BY <1>1, <1>2, <1>3, <1>4 DEF ImagesAccounted, Conserved
  <1>6. Apart'  BY <1>1, <1>2, <1>3, <1>4 DEF ImagesAccounted, Apart
  <1>7. EmptyHanded'  BY <1>1, <1>3 DEF ImagesAccounted, EmptyHanded
  <1>. QED  BY <1>5, <1>6, <1>7 DEF ImagesAccounted

(* The worker that takes a job takes its images. *)
LEMMA TakeAccounted == JobsTypeOK /\ ImagesAccounted /\ TakeJob => ImagesAccounted'
  <1> SUFFICES ASSUME JobsTypeOK, ImagesAccounted, TakeJob PROVE ImagesAccounted'  OBVIOUS
  <1>1. /\ UNCHANGED <<cmds, owed, pending, peer, lost, unsure, pasted>> /\ jobs # <<>> /\ jobs' = Tail(jobs)
        /\ worker.at = "idle" /\ worker'.at = "calling" /\ worker'.job = Head(jobs)
    BY DEF TakeJob, draftVars, JobsTypeOK
  <1>2. InHand(worker) = {} /\ InHand(worker)' = Head(jobs).images  BY <1>1 DEF InHand
  <1>3. /\ JobLoads(jobs) \in Seq(SUBSET Nat) /\ JobLoads(jobs) # <<>>
        /\ Head(JobLoads(jobs)) = Head(jobs).images /\ JobLoads(jobs') = Tail(JobLoads(jobs))
    BY <1>1, JobLoadsOf DEF JobsTypeOK
  <1>4. Separate(JobLoads(jobs), unsure)  BY DEF ImagesAccounted, Apart
  <1>5. /\ Queued(jobs) = Head(jobs).images \cup Queued(jobs)' /\ Separate(JobLoads(jobs'), unsure)
        /\ Head(jobs).images \cap Queued(jobs)' \subseteq unsure
    BY <1>3, <1>4, SplitHead DEF Queued
  <1>6. UNCHANGED <<Queued(owed), Returning>>  BY <1>1 DEF Returning
  <1>7. Conserved'  BY <1>1, <1>2, <1>5, <1>6 DEF ImagesAccounted, Conserved
  <1>8. Apart'  BY <1>1, <1>2, <1>5, <1>6 DEF ImagesAccounted, Apart
  <1>9. /\ Head(jobs) = jobs[1] /\ 1 \in DOMAIN jobs
        /\ \A i \in DOMAIN jobs' : i + 1 \in DOMAIN jobs /\ jobs'[i] = jobs[i + 1]
    BY <1>1 DEF JobsTypeOK
  <1>10. EmptyHanded'  BY <1>1, <1>9 DEF ImagesAccounted, EmptyHanded
  <1>. QED  BY <1>7, <1>8, <1>10 DEF ImagesAccounted

(* A call that ends leaves its images with its outcome. *)
LEMMA CallAccounted == JobsTypeOK /\ ImagesAccounted /\ CallEnds => ImagesAccounted'
  <1> SUFFICES ASSUME JobsTypeOK, ImagesAccounted, CallEnds PROVE ImagesAccounted'  OBVIOUS
  <1> DEFINE job == worker.job
             load == job.images
  <1>1. /\ UNCHANGED <<jobs, cmds, owed, pending, pasted>> /\ worker.at = "calling" /\ worker'.at = "posting"
        /\ job \in JobType
    BY DEF CallEnds, JobsTypeOK
  <1>2. InHand(worker) = load  BY <1>1 DEF InHand
  <1>3. PICK outcome \in {"ok", "refused", "error"}, taken \in BOOLEAN :
          LET give == job.kind = "dequeue"
          IN  /\ (outcome = "ok" => taken) /\ (outcome = "refused" => ~taken)
              /\ worker'.outcome = outcome
              /\ worker'.job = IF give /\ outcome = "ok" THEN [job EXCEPT !.images = peer] ELSE job
              /\ peer' = IF ~taken THEN peer ELSE IF give THEN {} ELSE peer \cup load
              /\ lost' = IF give /\ taken /\ outcome = "error" THEN lost \cup peer ELSE lost
              /\ unsure' = IF ~give /\ taken /\ outcome = "error" THEN unsure \cup load ELSE unsure
    BY DEF CallEnds
  <1>4. unsure \subseteq unsure'  BY <1>3
  <1>5. UNCHANGED <<Queued(jobs), JobLoads(jobs), Queued(owed), Returning, CmdLoads(cmds)>>
    BY <1>1 DEF Queued, Returning
  <1>6. Separate(JobLoads(jobs'), unsure') /\ Separate(CmdLoads(cmds'), unsure')
    BY <1>4, <1>5, SeparateGrows DEF ImagesAccounted, Apart
  <1>7. EmptyHanded'  BY <1>1 DEF ImagesAccounted, EmptyHanded
  <1>8. CASE job.kind = "dequeue"
    <2>1. load = {} /\ unsure' = unsure  BY <1>1, <1>3, <1>8 DEF ImagesAccounted, EmptyHanded
    <2>2. CASE outcome = "ok"
      <3>1. worker'.job.images = peer /\ worker'.job.kind = "dequeue"  BY <1>1, <1>3, <1>8, <2>2 DEF JobType
      <3>2. InHand(worker)' = peer /\ peer' = {} /\ lost' = lost
        BY <1>1, <1>3, <1>8, <2>2, <3>1 DEF InHand, Carried
      <3>. HIDE DEF job, load
      <3>3. Conserved'  BY <1>1, <1>2, <1>5, <2>1, <3>2 DEF ImagesAccounted, Conserved
      <3>4. Apart'  BY <1>1, <1>2, <1>5, <1>6, <2>1, <3>2 DEF ImagesAccounted, Apart
      <3>. QED  BY <1>7, <3>3, <3>4 DEF ImagesAccounted
    <2>3. CASE outcome # "ok"
      <3>1. InHand(worker)' = {} /\ peer' \subseteq peer /\ lost \subseteq lost' /\ peer \cup lost = peer' \cup lost'
        BY <1>1, <1>3, <1>8, <2>1, <2>3 DEF InHand, Carried
      <3>. HIDE DEF job, load
      <3>2. Conserved'  BY <1>1, <1>2, <1>5, <2>1, <3>1 DEF ImagesAccounted, Conserved
      <3>3. Apart'  BY <1>1, <1>2, <1>5, <1>6, <2>1, <3>1 DEF ImagesAccounted, Apart
      <3>. QED  BY <1>7, <3>2, <3>3 DEF ImagesAccounted
    <2>. QED  BY <2>2, <2>3
  <1>9. CASE job.kind # "dequeue"
    <2>1. /\ InHand(worker)' = (IF outcome = "ok" THEN {} ELSE load) /\ lost' = lost
          /\ \/ outcome = "ok" /\ peer' = peer \cup load /\ unsure' = unsure
             \/ outcome # "ok" /\ peer' = peer /\ unsure' = unsure
             \/ outcome = "error" /\ peer' = peer \cup load /\ unsure' = unsure \cup load
      BY <1>1, <1>3, <1>9 DEF InHand, Carried
    <2>. HIDE DEF job, load
    <2>2. Conserved'  BY <1>1, <1>2, <1>5, <2>1 DEF ImagesAccounted, Conserved
    <2>3. Apart'  BY <1>1, <1>2, <1>5, <1>6, <2>1 DEF ImagesAccounted, Apart
    <2>. QED  BY <1>7, <2>2, <2>3 DEF ImagesAccounted
  <1>. QED  BY <1>8, <1>9

(* Posting the outcome moves the images to the command queue. *)
LEMMA PostAccounted == JobsTypeOK /\ ImagesAccounted /\ PostDone => ImagesAccounted'
  <1> SUFFICES ASSUME JobsTypeOK, ImagesAccounted, PostDone PROVE ImagesAccounted'  OBVIOUS
  <1> DEFINE c == Done(worker.job, worker.outcome)
             back == Carried(worker.job, worker.outcome)
  <1>1. /\ UNCHANGED <<jobs, owed, pending, peer, lost, unsure, pasted>> /\ cmds' = Append(cmds, c)
        /\ worker.at = "posting" /\ worker'.at = "idle"
    BY DEF PostDone, draftVars
  <1>2. c \in CmdType /\ c.kind = "done" /\ Carried(c.job, c.outcome) = back
    BY DEF Done, CmdType, JobsTypeOK
  <1>3. InHand(worker) = back /\ InHand(worker)' = {}  BY <1>1 DEF InHand
  <1>4. back \cap Returning \subseteq unsure  BY <1>3 DEF ImagesAccounted, Apart
  <1> HIDE DEF c, back
  <1>5. /\ Returning' = Returning \cup back /\ Separate(CmdLoads(cmds'), unsure)
        /\ \A i \in DOMAIN cmds' : cmds'[i].kind # "done" => Carried(cmds'[i].job, cmds'[i].outcome) = {}
    BY <1>1, <1>2, <1>4, CommandAppended
  <1>6. UNCHANGED <<Queued(jobs), JobLoads(jobs), Queued(owed)>>  BY <1>1 DEF Queued
  <1>7. Conserved'  BY <1>1, <1>3, <1>5, <1>6 DEF ImagesAccounted, Conserved
  <1>8. Apart'  BY <1>1, <1>3, <1>5, <1>6 DEF ImagesAccounted, Apart
  <1>9. EmptyHanded'  BY <1>1, <1>5 DEF ImagesAccounted, EmptyHanded
  <1>. QED  BY <1>7, <1>8, <1>9 DEF ImagesAccounted

(* An outcome dropped because the loop is over takes its images with it. *)
LEMMA DropAccounted == JobsTypeOK /\ ImagesAccounted /\ DropDone => ImagesAccounted'
  <1> SUFFICES ASSUME JobsTypeOK, ImagesAccounted, DropDone PROVE ImagesAccounted'  OBVIOUS
  <1>1. /\ UNCHANGED <<jobs, cmds, owed, pending, peer, unsure, pasted>>
        /\ lost' = lost \cup Carried(worker.job, worker.outcome)
        /\ worker.at = "posting" /\ worker'.at = "idle"
    BY DEF DropDone
  <1>2. InHand(worker) = Carried(worker.job, worker.outcome) /\ InHand(worker)' = {}  BY <1>1 DEF InHand
  <1>3. UNCHANGED <<Queued(jobs), JobLoads(jobs), Queued(owed), Returning, CmdLoads(cmds)>>
    BY <1>1 DEF Queued, Returning
  <1>4. Conserved'  BY <1>1, <1>2, <1>3 DEF ImagesAccounted, Conserved
  <1>5. Apart'  BY <1>1, <1>2, <1>3 DEF ImagesAccounted, Apart
  <1>6. EmptyHanded'  BY <1>1 DEF ImagesAccounted, EmptyHanded
  <1>. QED  BY <1>4, <1>5, <1>6 DEF ImagesAccounted

(* A step that touches no carrier of images keeps the account. *)
LEMMA StillAccounted == ImagesAccounted /\ UNCHANGED carriers => ImagesAccounted'
  <1> SUFFICES ASSUME ImagesAccounted, UNCHANGED carriers PROVE ImagesAccounted'  OBVIOUS
  <1>1. UNCHANGED <<jobs, cmds, owed, worker, pending, peer, lost, unsure, pasted>>  BY DEF carriers
  <1>2. UNCHANGED <<Queued(jobs), Queued(owed), Returning, InHand(worker)>>  BY <1>1 DEF Queued, Returning, InHand
  <1>. QED  BY <1>1, <1>2 DEF ImagesAccounted, Conserved, Apart, EmptyHanded

(* Every step of the program keeps the account of images. *)
LEMMA AccountedKept == JobsTypeOK /\ ImagesAccounted /\ [Next]_appVars => ImagesAccounted'
  <1> SUFFICES ASSUME JobsTypeOK, ImagesAccounted, [Next]_appVars PROVE ImagesAccounted'  OBVIOUS
  <1>1. CASE Hosting \/ Quit \/ End \/ UNCHANGED appVars
    <2>1. UNCHANGED carriers
      BY <1>1, HostKeepsWorld DEF Quit, ContextEnds, End, appVars, jobVars, queueVars, draftVars, carriers
    <2>. QED  BY <2>1, StillAccounted
  <1>2. CASE Paste  BY <1>2, PasteAccounted
  <1>3. CASE Type  BY <1>3, TypeAccounted
  <1>4. CASE Submit  BY <1>4, SubmitAccounted
  <1>5. CASE AskFor \/ Choose  BY <1>5, AskAccounted
  <1>6. CASE TakeCommand  BY <1>6, CommandAccounted
  <1>7. CASE CtrlCKey  BY <1>7, KeyAccounted
  <1>8. CASE Interrupted  BY <1>8, SignalAccounted DEF Interrupted
  <1>9. CASE Queueing  BY <1>9, EnqueueAccounted, UnqueuedAccounted DEF Queueing
  <1>10. CASE Working  BY <1>10, TakeAccounted, CallAccounted, PostAccounted, DropAccounted DEF Working
  <1>. QED  BY <1>1, <1>2, <1>3, <1>4, <1>5, <1>6, <1>7, <1>8, <1>9, <1>10 DEF Next

(* The queues of calls and commands, the worker, and the handler's one     *)
(* outstanding call keep their types: a handler never waits with two.      *)
THEOREM AppTypeCorrect == Spec => []JobsTypeOK
  BY JobsTypeInit, JobsTypeKept, PTL DEF Spec

(* The holders of ImagesInOnePlace, put together queue by queue.           *)
LEMMA HoldersAreSeparate == JobsTypeOK /\ ImagesAccounted => ImagesInOnePlace
  <1> SUFFICES ASSUME JobsTypeOK, ImagesAccounted PROVE ImagesInOnePlace  OBVIOUS
  <1> DEFINE h0 == <<pending, InHand(worker)>>
             h1 == h0 \o JobLoads(jobs)
             h2 == h1 \o JobLoads(owed)
             h3 == h2 \o CmdLoads(cmds)
  <1>1. /\ pending \in SUBSET Nat /\ InHand(worker) \in SUBSET Nat /\ JobLoads(jobs) \in Seq(SUBSET Nat)
        /\ CmdLoads(cmds) \in Seq(SUBSET Nat) /\ JobLoads(owed) \in Seq(SUBSET Nat)
    BY LoadsTyped, JobLoadsOf DEF JobsTypeOK
  <1>2. Separate(JobLoads(owed), unsure)
    <2>1. DOMAIN JobLoads(owed) = 1..Len(owed) /\ Len(owed) \in Nat /\ Len(owed) <= 1  BY DEF JobLoads, JobsTypeOK
    <2>2. \A i, j \in DOMAIN JobLoads(owed) : i = j  BY <2>1
    <2>. QED  BY <2>2 DEF Separate
  <1>3. h0 \in Seq(SUBSET Nat) /\ Separate(h0, unsure) /\ All(h0) = pending \cup InHand(worker)
    <2>1. DOMAIN h0 = {1, 2} /\ h0[1] = pending /\ h0[2] = InHand(worker)  OBVIOUS
    <2>2. pending \cap InHand(worker) \subseteq unsure  BY DEF ImagesAccounted, Apart
    <2>3. Separate(h0, unsure)
      <3> SUFFICES ASSUME NEW i \in {1, 2}, NEW j \in {1, 2}, i # j PROVE h0[i] \cap h0[j] \subseteq unsure
        BY <2>1 DEF Separate
      <3>. QED  BY <2>1, <2>2
    <2>4. All(h0) = pending \cup InHand(worker)  BY <2>1 DEF All
    <2>5. h0 \in Seq(SUBSET Nat)  BY <1>1
    <2>. QED  BY <2>3, <2>4, <2>5
  <1>4. h1 \in Seq(SUBSET Nat) /\ Separate(h1, unsure) /\ All(h1) = All(h0) \cup Queued(jobs)
    <2>1. All(h0) \cap Queued(jobs) \subseteq unsure /\ Separate(JobLoads(jobs), unsure)
      BY <1>3 DEF ImagesAccounted, Apart
    <2>. QED  BY <1>1, <1>3, <2>1, Joined DEF Queued
  <1>5. h2 \in Seq(SUBSET Nat) /\ Separate(h2, unsure) /\ All(h2) = All(h1) \cup Queued(owed)
    <2>1. All(h1) \cap Queued(owed) \subseteq unsure
      BY <1>3, <1>4 DEF ImagesAccounted, Apart
    <2>. QED  BY <1>1, <1>2, <1>4, <2>1, Joined DEF Queued
  <1>6. h3 \in Seq(SUBSET Nat) /\ Separate(h3, unsure) /\ All(h3) = All(h2) \cup Returning
    <2>1. All(h2) \cap Returning \subseteq unsure /\ Separate(CmdLoads(cmds), unsure)
      BY <1>3, <1>4, <1>5 DEF ImagesAccounted, Apart
    <2>. QED  BY <1>1, <1>5, <2>1, Joined DEF Returning
  <1>7. 1..pasted = All(h3) \cup peer \cup lost
    BY <1>3, <1>4, <1>5, <1>6 DEF ImagesAccounted, Conserved
  <1> DEFINE hand == IF worker.at = "idle" THEN {}
                     ELSE IF worker.at = "calling" THEN worker.job.images
                     ELSE Carried(worker.job, worker.outcome)
             held == <<pending, hand>>
                       \o [i \in DOMAIN jobs |-> jobs[i].images] \o [i \in DOMAIN owed |-> owed[i].images]
                       \o [i \in DOMAIN cmds |-> Carried(cmds[i].job, cmds[i].outcome)]
  <1>8. held = h3  BY DEF InHand, JobLoads, CmdLoads
  <1>9. /\ \A i, j \in DOMAIN held : i # j => held[i] \cap held[j] \subseteq unsure
        /\ 1..pasted = (UNION {held[i] : i \in DOMAIN held}) \cup peer \cup lost
    <2> HIDE DEF held, h3
    <2>1. Separate(held, unsure) /\ 1..pasted = All(held) \cup peer \cup lost  BY <1>6, <1>7, <1>8
    <2>2. \A i, j \in DOMAIN held : i # j => held[i] \cap held[j] \subseteq unsure  BY <2>1 DEF Separate
    <2>3. All(held) = UNION {held[i] : i \in DOMAIN held}  BY DEF All
    <2>4. 1..pasted = (UNION {held[i] : i \in DOMAIN held}) \cup peer \cup lost  BY <2>1, <2>3, Zenon
    <2>. QED  BY <2>2, <2>4
  <1>. QED  BY <1>9 DEF ImagesInOnePlace

(* An attached image is with the editor, with one prompt on its way out or *)
(* back, with the core, or given up: whatever fails, is refused or answers *)
(* late, and however full the queues are, none is held twice and none gets *)
(* lost unnoticed.                                                         *)
THEOREM ImagesAreConserved == Spec => []ImagesInOnePlace
  <1>1. Init => JobsTypeOK /\ ImagesAccounted  BY JobsTypeInit, AccountedInit
  <1>2. JobsTypeOK /\ ImagesAccounted /\ [Next]_appVars => (JobsTypeOK /\ ImagesAccounted)'
    BY JobsTypeKept, AccountedKept
  <1>. QED  BY <1>1, <1>2, HoldersAreSeparate, PTL DEF Spec

-----------------------------------------------------------------------------
(* Smallest and largest positions.                                         *)
LEMMA Smallest ==
  ASSUME NEW S \in SUBSET Nat, S # {}
  PROVE  Min(S) \in S /\ \A y \in S : Min(S) <= y
  <1>1. PICK x \in S : \A y \in S : <<y, x>> \notin OpToRel(<, Nat)
    BY NatLessThanWellFounded, WFMin
  <1>2. \A a, b \in Nat : a < b => <<a, b>> \in OpToRel(<, Nat)  BY DEF OpToRel
  <1>3. x \in Nat /\ \A y \in S : y \in Nat /\ ~(y < x)  BY <1>1, <1>2
  <1>4. \A y \in S : x <= y  BY <1>3
  <1>. QED  BY <1>4 DEF Min

(* A non-empty bounded set of positions has a greatest one. *)
LEMMA Largest ==
  ASSUME NEW n \in Nat, NEW S \in SUBSET (0..n), S # {}
  PROVE  Max(S) \in S /\ \A y \in S : Max(S) >= y
  <1> DEFINE T == {n - y : y \in S}
  <1>1. T \in SUBSET Nat /\ T # {}
    <2>1. \A y \in S : n - y \in Nat  OBVIOUS
    <2>. QED  BY <2>1
  <1>2. PICK x \in S : Min(T) = n - x  BY <1>1, Smallest
  <1>3. \A y \in S : n - x <= n - y  BY <1>1, <1>2, Smallest
  <1>4. \A y \in S : x >= y
    <2>1. n \in Nat /\ x \in 0..n /\ \A y \in S : y \in 0..n  OBVIOUS
    <2>. QED  BY <1>3, <2>1
  <1>. QED  BY <1>4 DEF Max

-----------------------------------------------------------------------------
(* The overlay stack.  Component names, and what a stack is made of.       *)
Ids    == {None} \cup UNION {w.comps \cup w.dialogs \cup w.mounts : w \in Worlds}
Comps  == {"ed", "dialog", "mount", "picker", "remote"} \X Ids \X Nat
Layer  == [owner : Comps, comp : Comps, pre : Comps, hidden : BOOLEAN, width : Int]
Stacks == [entries : Seq(Layer), focused : Comps, base : Comps]

(* The keys go to a visible overlay, if there is one.                      *)
Heeds(s) == HasVisible(s) => \E i \in Visible(s) : s.entries[i].comp = s.focused

(* A dialog has one entry at most, and its own component is in that one.   *)
Tidy(s) ==
  /\ \A i, j \in DOMAIN s.entries :
       s.entries[i].owner = s.entries[j].owner /\ s.entries[i].owner[1] = "dialog" => i = j
  /\ \A i \in DOMAIN s.entries : s.entries[i].comp[1] = "dialog" => s.entries[i].owner = s.entries[i].comp

(* The topmost visible overlay is an entry of the stack. *)
LEMMA VisibleTop ==
  ASSUME NEW s \in Stacks, HasVisible(s)
  PROVE  Max(Visible(s)) \in Visible(s) /\ Top(s) = s.entries[Max(Visible(s))] /\ Top(s) \in Layer
  <1>1. s.entries \in Seq(Layer) /\ Len(s.entries) \in Nat /\ DOMAIN s.entries = 1..Len(s.entries)
    BY DEF Stacks
  <1>2. Visible(s) \in SUBSET (0..Len(s.entries)) /\ Visible(s) # {}  BY <1>1 DEF Visible, HasVisible
  <1>3. Max(Visible(s)) \in Visible(s)  BY <1>1, <1>2, Largest
  <1>4. Max(Visible(s)) \in DOMAIN s.entries  BY <1>3 DEF Visible
  <1>5. s.entries[Max(Visible(s))] \in Layer  BY <1>1, <1>4
  <1>. QED  BY <1>3, <1>5 DEF Top

(* Applying a focus changes the focused component and nothing else. *)
LEMMA FocusMoves ==
  ASSUME NEW s \in Stacks, NEW comp \in Comps
  PROVE  LET t == ApplyFocus(s, comp)
         IN  /\ t \in Stacks /\ t.entries = s.entries /\ t.focused = comp /\ t.base = s.base
             /\ Visible(t) = Visible(s) /\ (HasVisible(t) <=> HasVisible(s))
  BY DEF ApplyFocus, Stacks, Visible, HasVisible

(* Whoever takes the focus, a visible overlay keeps it.                    *)
LEMMA TopHeeds ==
  ASSUME NEW s \in Stacks, NEW other \in Comps
  PROVE  LET t == ApplyFocus(s, IF HasVisible(s) THEN Top(s).comp ELSE other)
         IN  t \in Stacks /\ t.entries = s.entries /\ t.base = s.base /\ Heeds(t)
  <1>1. CASE HasVisible(s)
    <2>1. Top(s) = s.entries[Max(Visible(s))] /\ Max(Visible(s)) \in Visible(s) /\ Top(s).comp \in Comps
      BY <1>1, VisibleTop DEF Layer
    <2>. QED  BY <1>1, <2>1, FocusMoves DEF Heeds
  <1>2. CASE ~HasVisible(s)  BY <1>2, FocusMoves DEF Heeds
  <1>. QED  BY <1>1, <1>2

(* SetFocus leaves the keys with a visible overlay. *)
LEMMA SetFocusHeeds ==
  ASSUME NEW s \in Stacks, NEW comp \in Comps
  PROVE  LET t == SetFocus(s, comp)
         IN  t \in Stacks /\ t.entries = s.entries /\ Heeds(t)
  BY TopHeeds DEF SetFocus

(* Changing the base focus leaves the keys with a visible overlay. *)
LEMMA SetBaseHeeds ==
  ASSUME NEW s \in Stacks, NEW comp \in Comps, Heeds(s)
  PROVE  LET t == SetBaseFocus(s, comp)
         IN  t \in Stacks /\ t.entries = s.entries /\ Heeds(t)
  <1> DEFINE b == [s EXCEPT !.base = comp]
  <1>1. b \in Stacks /\ b.entries = s.entries /\ b.focused = s.focused  BY DEF Stacks
  <1>2. Heeds(b)  BY <1>1 DEF Heeds, HasVisible, Visible
  <1>3. CASE s.entries = <<>>
    <2>1. Visible(s) = {}  BY <1>3 DEF Visible
    <2>2. SetBaseFocus(s, comp) = ApplyFocus(b, comp)  BY <1>3 DEF SetBaseFocus
    <2>3. Visible(b) = {}  BY <1>1, <2>1 DEF Visible
    <2>4. /\ SetBaseFocus(s, comp) \in Stacks /\ SetBaseFocus(s, comp).entries = b.entries
          /\ ~HasVisible(SetBaseFocus(s, comp))
      <3>1. ~HasVisible(b)  BY <2>3 DEF HasVisible
      <3> HIDE DEF b
      <3>. QED  BY <1>1, <2>2, <3>1, FocusMoves
    <2>. QED  BY <1>1, <2>4 DEF Heeds
  <1>4. CASE s.entries # <<>>  BY <1>1, <1>2, <1>4 DEF SetBaseFocus
  <1>. QED  BY <1>3, <1>4

(* Showing an overlay gives it the keys and adds one owner. *)
LEMMA ShowHeeds ==
  ASSUME NEW s \in Stacks, NEW owner \in Comps, NEW comp \in Comps, NEW width \in Int
  PROVE  LET t == Show(s, owner, comp, width)
         IN  /\ t \in Stacks /\ Heeds(t) /\ Owners(t) = Owners(s) \cup {owner}
             /\ Tidy(s) /\ (owner[1] = "dialog" => owner \notin Owners(s))
                  /\ (comp[1] = "dialog" => owner = comp) => Tidy(t)
  <1> DEFINE e == Entry(owner, comp, s.focused, width)
             n == Len(s.entries)
             t == Show(s, owner, comp, width)
  <1>1. e \in Layer /\ e.owner = owner /\ e.comp = comp /\ ~e.hidden  BY DEF Entry, Layer, Stacks
  <1>2. /\ s.entries \in Seq(Layer) /\ n \in Nat /\ DOMAIN s.entries = 1..n
        /\ t \in Stacks /\ t.entries = Append(s.entries, e) /\ t.focused = comp
    <2> DEFINE grown == [s EXCEPT !.entries = Append(s.entries, e)]
    <2>1. s.entries \in Seq(Layer) /\ n \in Nat /\ DOMAIN s.entries = 1..n  BY DEF Stacks
    <2>2. Append(s.entries, e) \in Seq(Layer)  BY <1>1, <2>1
    <2>3. grown \in Stacks /\ grown.entries = Append(s.entries, e)  BY <2>2 DEF Stacks
    <2>4. t = ApplyFocus(grown, comp)  BY DEF Show
    <2> HIDE DEF grown, t, e
    <2>. QED  BY <2>1, <2>3, <2>4, FocusMoves
  <1> HIDE DEF e, t
  <1>3. /\ DOMAIN t.entries = 1..(n + 1) /\ t.entries[n + 1] = e /\ n + 1 \notin DOMAIN s.entries
        /\ \A i \in DOMAIN s.entries : i \in DOMAIN t.entries /\ t.entries[i] = s.entries[i]
        /\ \A i \in DOMAIN t.entries : i \in DOMAIN s.entries \/ i = n + 1
        /\ n + 1 \in DOMAIN t.entries
    BY <1>1, <1>2
  <1>4. Heeds(t)  BY <1>1, <1>2, <1>3 DEF Heeds, Visible
  <1>5. Owners(t) = Owners(s) \cup {owner}
    <2>1. Owners(t) \subseteq Owners(s) \cup {owner}  BY <1>1, <1>3 DEF Owners
    <2>2. Owners(s) \subseteq Owners(t)  BY <1>3 DEF Owners
    <2>3. owner \in Owners(t)  BY <1>1, <1>3 DEF Owners
    <2>. QED  BY <2>1, <2>2, <2>3
  <1>6. ASSUME Tidy(s), owner[1] = "dialog" => owner \notin Owners(s), comp[1] = "dialog" => owner = comp
        PROVE  Tidy(t)
    <2>1. \A i, j \in DOMAIN t.entries :
            t.entries[i].owner = t.entries[j].owner /\ t.entries[i].owner[1] = "dialog" => i = j
      <3> SUFFICES ASSUME NEW i \in DOMAIN t.entries, NEW j \in DOMAIN t.entries,
                          t.entries[i].owner = t.entries[j].owner, t.entries[i].owner[1] = "dialog"
                   PROVE  i = j
        OBVIOUS
      <3>1. CASE i \in DOMAIN s.entries /\ j \in DOMAIN s.entries  BY <1>3, <1>6, <3>1 DEF Tidy
      <3>2. CASE i = n + 1 /\ j \in DOMAIN s.entries  BY <1>1, <1>3, <1>6, <3>2 DEF Owners
      <3>3. CASE j = n + 1 /\ i \in DOMAIN s.entries  BY <1>1, <1>3, <1>6, <3>3 DEF Owners
      <3>. QED  BY <1>3, <3>1, <3>2, <3>3
    <2>2. \A i \in DOMAIN t.entries : t.entries[i].comp[1] = "dialog" => t.entries[i].owner = t.entries[i].comp
      BY <1>1, <1>3, <1>6 DEF Tidy
    <2>. QED  BY <2>1, <2>2 DEF Tidy
  <1>. QED  BY <1>2, <1>4, <1>5, <1>6 DEF t

(* An entry leaves: the others keep their order, what was visible of them  *)
(* stays visible.                                                          *)
LEMMA EntryLeaves ==
  ASSUME NEW s \in Stacks, NEW k \in DOMAIN s.entries, NEW t \in Stacks,
         t.entries = RemoveAt(s.entries, k)
  PROVE  /\ DOMAIN t.entries = 1..(Len(s.entries) - 1)
         /\ \A i \in DOMAIN t.entries :
              LET j == IF i < k THEN i ELSE i + 1
              IN  j \in DOMAIN s.entries /\ j # k /\ t.entries[i] = s.entries[j]
         /\ \A j \in DOMAIN s.entries \ {k} :
              LET i == IF j < k THEN j ELSE j - 1
              IN  i \in DOMAIN t.entries /\ t.entries[i] = s.entries[j]
  <1> DEFINE n == Len(s.entries)
             a == SubSeq(s.entries, 1, k - 1)
             b == SubSeq(s.entries, k + 1, n)
  <1>1. s.entries \in Seq(Layer) /\ n \in Nat /\ DOMAIN s.entries = 1..n /\ k \in 1..n  BY DEF Stacks
  <1>2. a \in Seq(Layer) /\ Len(a) = k - 1 /\ \A i \in 1..(k - 1) : a[i] = s.entries[i]
    BY <1>1
  <1>3. b \in Seq(Layer) /\ Len(b) = n - k /\ \A i \in 1..(n - k) : b[i] = s.entries[k + i]
    BY <1>1
  <1>4. t.entries = a \o b  BY DEF RemoveAt
  <1> HIDE DEF a, b
  <1>5. /\ DOMAIN t.entries = 1..(n - 1)
        /\ \A i \in 1..(n - 1) : t.entries[i] = IF i <= k - 1 THEN a[i] ELSE b[i - (k - 1)]
    <2>1. Len(a \o b) = Len(a) + Len(b) /\ Len(a) + Len(b) = n - 1
      <3>1. (k - 1) + (n - k) = n - 1  BY <1>1
      <3>. QED  BY <1>2, <1>3, <3>1, ConcatProperties
    <2>2. Len(t.entries) = n - 1 /\ DOMAIN t.entries = 1..(n - 1)  BY <1>2, <1>3, <1>4, <2>1 DEF Stacks
    <2>3. \A i \in 1..(Len(a) + Len(b)) : (a \o b)[i] = IF i <= Len(a) THEN a[i] ELSE b[i - Len(a)]
      BY <1>2, <1>3, ConcatProperties
    <2>. QED  BY <1>2, <1>3, <1>4, <2>1, <2>2, <2>3
  <1>6. \A i \in 1..(n - 1) : t.entries[i] = s.entries[IF i < k THEN i ELSE i + 1]
    <2> SUFFICES ASSUME NEW i \in 1..(n - 1) PROVE t.entries[i] = s.entries[IF i < k THEN i ELSE i + 1]
      OBVIOUS
    <2>1. CASE i < k  BY <1>1, <1>2, <1>5, <2>1
    <2>2. CASE ~(i < k)
      <3>1. i - (k - 1) \in 1..(n - k) /\ k + (i - (k - 1)) = i + 1  BY <1>1, <2>2
      <3>2. t.entries[i] = b[i - (k - 1)]  BY <1>1, <1>5, <2>2
      <3>. QED  BY <1>3, <2>2, <3>1, <3>2
    <2>. QED  BY <2>1, <2>2
  <1>7. \A j \in DOMAIN s.entries \ {k} :
          LET i == IF j < k THEN j ELSE j - 1
          IN  i \in 1..(n - 1) /\ (IF i < k THEN i ELSE i + 1) = j
    BY <1>1
  <1>8. \A i \in 1..(n - 1) :
          LET j == IF i < k THEN i ELSE i + 1
          IN  j \in 1..n /\ j # k
    BY <1>1
  <1>. QED  BY <1>1, <1>5, <1>6, <1>7, <1>8

(* The entry found for an owner is the owner's, and removing it removes the
   owner. *)
LEMMA OwnerFound ==
  ASSUME NEW s \in Stacks, NEW owner
  PROVE  LET k == At(s, owner)
         IN  /\ owner \in Owners(s) => /\ k \in DOMAIN s.entries /\ s.entries[k].owner = owner
                                       /\ Without(s, owner) = [s EXCEPT !.entries = RemoveAt(s.entries, k)]
             /\ owner \notin Owners(s) => k = 0 /\ Without(s, owner) = s
  <1> DEFINE n == Len(s.entries)
             I == {i \in 1..n : s.entries[i].owner = owner}
  <1>1. s.entries \in Seq(Layer) /\ n \in Nat /\ DOMAIN s.entries = 1..n  BY DEF Stacks
  <1>2. At(s, owner) = IF I # {} THEN Min(I) ELSE 0  BY DEF At, SelectInSeq
  <1>3. owner \in Owners(s) <=> I # {}  BY <1>1 DEF Owners
  <1>4. I # {} => Min(I) \in I
    <2>1. I \in SUBSET Nat  BY <1>1
    <2> HIDE DEF I
    <2>. QED  BY <2>1, Smallest
  <1>5. Without(s, owner) = [s EXCEPT !.entries =
                              IF \E i \in 1..n : s.entries[i].owner = owner
                              THEN RemoveAt(s.entries, At(s, owner))
                              ELSE s.entries]
    BY DEF At, Without, RemoveFirstMatch
  <1>6. [s EXCEPT !.entries = s.entries] = s  BY DEF Stacks
  <1>. QED  BY <1>1, <1>2, <1>3, <1>4, <1>5, <1>6

(* An owner's only entry leaves the stack.                                 *)
LEMMA RemovalKeeps ==
  ASSUME NEW s \in Stacks, NEW k \in DOMAIN s.entries
  PROVE  LET t == [s EXCEPT !.entries = RemoveAt(s.entries, k)]
         IN  /\ t \in Stacks /\ t.focused = s.focused /\ t.base = s.base
             /\ Heeds(s) /\ s.focused # s.entries[k].comp => Heeds(t)
             /\ Owners(t) \subseteq Owners(s) /\ Owners(s) \subseteq Owners(t) \cup {s.entries[k].owner}
             /\ Tidy(s) => /\ Tidy(t)
                           /\ s.entries[k].owner[1] = "dialog" => s.entries[k].owner \notin Owners(t)
  <1> DEFINE t == [s EXCEPT !.entries = RemoveAt(s.entries, k)]
  <1>1. s.entries \in Seq(Layer) /\ k \in 1..Len(s.entries) /\ Len(s.entries) \in Nat  BY DEF Stacks
  <1>2. RemoveAt(s.entries, k) \in Seq(Layer)
    <2>1. SubSeq(s.entries, 1, k - 1) \in Seq(Layer) /\ SubSeq(s.entries, k + 1, Len(s.entries)) \in Seq(Layer)
      BY <1>1
    <2>. QED  BY <2>1, ConcatProperties DEF RemoveAt
  <1>3. t \in Stacks /\ t.entries = RemoveAt(s.entries, k) /\ t.focused = s.focused /\ t.base = s.base
    BY <1>2 DEF Stacks
  <1> HIDE DEF t
  <1>4. \A i \in DOMAIN t.entries : \E j \in DOMAIN s.entries :
          j = (IF i < k THEN i ELSE i + 1) /\ j # k /\ t.entries[i] = s.entries[j]
    BY <1>3, EntryLeaves
  <1>5. \A j \in DOMAIN s.entries \ {k} : \E i \in DOMAIN t.entries :
          i = (IF j < k THEN j ELSE j - 1) /\ t.entries[i] = s.entries[j]
    BY <1>3, EntryLeaves
  <1>6. ASSUME Heeds(s), s.focused # s.entries[k].comp PROVE Heeds(t)
    <2> SUFFICES ASSUME HasVisible(t) PROVE \E i \in Visible(t) : t.entries[i].comp = t.focused
      BY DEF Heeds
    <2>1. HasVisible(s)  BY <1>4 DEF HasVisible, Visible
    <2>2. PICK j \in Visible(s) : s.entries[j].comp = s.focused  BY <1>6, <2>1 DEF Heeds
    <2>3. j # k /\ j \in DOMAIN s.entries /\ ~s.entries[j].hidden  BY <1>6, <2>2 DEF Visible
    <2>4. PICK i \in DOMAIN t.entries : t.entries[i] = s.entries[j]  BY <1>5, <2>3
    <2>. QED  BY <1>3, <2>2, <2>3, <2>4 DEF Visible
  <1>7. Owners(t) \subseteq Owners(s) /\ Owners(s) \subseteq Owners(t) \cup {s.entries[k].owner}
    <2>1. Owners(t) \subseteq Owners(s)  BY <1>4 DEF Owners
    <2>2. \A j \in DOMAIN s.entries : s.entries[j].owner \in Owners(t) \cup {s.entries[k].owner}
      BY <1>5 DEF Owners
    <2>. QED  BY <2>1, <2>2 DEF Owners
  <1>8. ASSUME Tidy(s) PROVE Tidy(t)
    <2>1. \A i, j \in DOMAIN t.entries :
            t.entries[i].owner = t.entries[j].owner /\ t.entries[i].owner[1] = "dialog" => i = j
      <3> SUFFICES ASSUME NEW i \in DOMAIN t.entries, NEW j \in DOMAIN t.entries,
                          t.entries[i].owner = t.entries[j].owner, t.entries[i].owner[1] = "dialog"
                   PROVE  i = j
        OBVIOUS
      <3>1. PICK p \in DOMAIN s.entries : p = (IF i < k THEN i ELSE i + 1) /\ t.entries[i] = s.entries[p]
        BY <1>4
      <3>2. PICK q \in DOMAIN s.entries : q = (IF j < k THEN j ELSE j + 1) /\ t.entries[j] = s.entries[q]
        BY <1>4
      <3>3. p = q  BY <1>8, <3>1, <3>2 DEF Tidy
      <3>4. i \in Nat /\ j \in Nat /\ k \in Nat  BY <1>1, <1>3 DEF Stacks
      <3>. QED  BY <3>1, <3>2, <3>3, <3>4
    <2>2. \A i \in DOMAIN t.entries : t.entries[i].comp[1] = "dialog" => t.entries[i].owner = t.entries[i].comp
      BY <1>4, <1>8 DEF Tidy
    <2>. QED  BY <2>1, <2>2 DEF Tidy
  <1>9. ASSUME Tidy(s), s.entries[k].owner[1] = "dialog" PROVE s.entries[k].owner \notin Owners(t)
    <2>1. \A j \in DOMAIN s.entries : s.entries[j].owner = s.entries[k].owner => j = k  BY <1>9 DEF Tidy
    <2>. QED  BY <1>4, <2>1 DEF Owners
  <1>. QED  BY <1>3, <1>6, <1>7, <1>8, <1>9 DEF t

(* Giving the focus back after a removal leaves it with a visible overlay. *)
LEMMA RefocusHeeds ==
  ASSUME NEW s \in Stacks, NEW e \in Layer
  PROVE  LET t == Refocus(s, e)
         IN  /\ t \in Stacks /\ t.entries = s.entries /\ t.base = s.base /\ Heeds(t)
             /\ Owners(t) = Owners(s) /\ (Tidy(t) <=> Tidy(s))
  <1>1. e.pre \in Comps  BY DEF Layer
  <1>. QED  BY <1>1, TopHeeds DEF Refocus, Owners, Tidy

(* Hiding an overlay removes its owner alone and gives the focus back. *)
LEMMA HideKeeps ==
  ASSUME NEW s \in Stacks, NEW owner, Heeds(s)
  PROVE  LET t == Hide(s, owner)
         IN  /\ t \in Stacks /\ t.base = s.base /\ Heeds(t)
             /\ Owners(t) \subseteq Owners(s) /\ Owners(s) \subseteq Owners(t) \cup {owner}
             /\ Tidy(s) => Tidy(t) /\ (owner[1] = "dialog" => owner \notin Owners(t))
  <1> DEFINE k == At(s, owner)
             e == s.entries[k]
             w == Without(s, owner)
  <1>1. CASE owner \notin Owners(s)  BY <1>1 DEF Hide
  <1>2. CASE owner \in Owners(s)
    <2>1. k \in DOMAIN s.entries /\ e.owner = owner /\ w = [s EXCEPT !.entries = RemoveAt(s.entries, k)]
      BY <1>2, OwnerFound
    <2>2. Hide(s, owner) = IF s.focused = e.comp THEN Refocus(w, e) ELSE w  BY <1>2 DEF Hide
    <2> HIDE DEF k, w
    <2>3. /\ w \in Stacks /\ w.focused = s.focused /\ w.base = s.base
          /\ s.focused # e.comp => Heeds(w)
          /\ Owners(w) \subseteq Owners(s) /\ Owners(s) \subseteq Owners(w) \cup {owner}
          /\ Tidy(s) => Tidy(w) /\ (owner[1] = "dialog" => owner \notin Owners(w))
      BY <2>1, RemovalKeeps
    <2>4. e \in Layer  BY <2>1 DEF Stacks
    <2> HIDE DEF e
    <2>5. CASE s.focused = e.comp
      <3>1. /\ Refocus(w, e) \in Stacks /\ Refocus(w, e).base = w.base /\ Heeds(Refocus(w, e))
            /\ Owners(Refocus(w, e)) = Owners(w) /\ (Tidy(Refocus(w, e)) <=> Tidy(w))
        BY <2>3, <2>4, RefocusHeeds
      <3>. QED  BY <2>2, <2>3, <2>5, <3>1
    <2>6. CASE s.focused # e.comp  BY <2>2, <2>3, <2>6
    <2>. QED  BY <2>5, <2>6
  <1>. QED  BY <1>1, <1>2

(* Hiding the top overlay removes one owner and gives the focus back. *)
LEMMA HideTopKeeps ==
  ASSUME NEW s \in Stacks, Heeds(s)
  PROVE  LET t == HideTop(s)
         IN  /\ t \in Stacks /\ t.base = s.base /\ Heeds(t) /\ Owners(t) \subseteq Owners(s)
             /\ Tidy(s) => Tidy(t)
  <1> DEFINE n == Len(s.entries)
             w == [s EXCEPT !.entries = RemoveAt(s.entries, n)]
  <1>1. s.entries \in Seq(Layer) /\ n \in Nat /\ DOMAIN s.entries = 1..n  BY DEF Stacks
  <1>2. CASE s.entries = <<>>  BY <1>2 DEF HideTop
  <1>3. CASE s.entries # <<>>
    <2>1. n \in DOMAIN s.entries /\ s.entries[n] \in Layer  BY <1>1, <1>3, EmptySeq
    <2>2. Front(s.entries) = RemoveAt(s.entries, n)
      <3>1. SubSeq(s.entries, n + 1, n) = <<>>  BY <1>1
      <3>2. SubSeq(s.entries, 1, n - 1) \in Seq(Layer)  BY <1>1
      <3>3. SubSeq(s.entries, 1, n - 1) \o <<>> = SubSeq(s.entries, 1, n - 1)  BY <3>2, ConcatEmptySeq
      <3>. QED  BY <3>1, <3>3 DEF Front, RemoveAt
    <2>3. HideTop(s) = Refocus(w, s.entries[n])  BY <1>3, <2>2 DEF HideTop, Last
    <2>4. w \in Stacks /\ w.base = s.base /\ Owners(w) \subseteq Owners(s) /\ (Tidy(s) => Tidy(w))
      BY <2>1, RemovalKeeps
    <2> HIDE DEF w
    <2>5. LET t == Refocus(w, s.entries[n])
          IN  t \in Stacks /\ t.base = w.base /\ Heeds(t) /\ Owners(t) = Owners(w) /\ (Tidy(t) <=> Tidy(w))
      BY <2>1, <2>4, RefocusHeeds
    <2>. QED  BY <2>3, <2>4, <2>5
  <1>. QED  BY <1>2, <1>3

(* Hiding or showing an entry for a while keeps the owners and the focus rule.
   *)
LEMMA SetHiddenKeeps ==
  ASSUME NEW s \in Stacks, NEW owner, NEW hidden \in BOOLEAN, Heeds(s)
  PROVE  LET t == SetHidden(s, owner, hidden)
         IN  t \in Stacks /\ t.base = s.base /\ Heeds(t) /\ Owners(t) = Owners(s) /\ (Tidy(s) => Tidy(t))
  <1> DEFINE k == At(s, owner)
             e == s.entries[k]
             w == [s EXCEPT !.entries[k].hidden = hidden]
  <1>1. CASE k = 0 \/ e.hidden = hidden  BY <1>1 DEF SetHidden
  <1>2. CASE k # 0 /\ e.hidden # hidden
    <2>1. k \in DOMAIN s.entries
      <3>1. CASE owner \in Owners(s)  BY <3>1, OwnerFound
      <3>2. CASE owner \notin Owners(s)
        <4>1. k = 0  BY <3>2, OwnerFound
        <4>. QED  BY <1>2, <4>1
      <3>. QED  BY <3>1, <3>2
    <2>2. SetHidden(s, owner, hidden) = IF ~hidden THEN ApplyFocus(w, e.comp)
                                        ELSE IF s.focused = e.comp THEN Refocus(w, e) ELSE w
      BY <1>2 DEF SetHidden
    <2> HIDE DEF k
    <2>3. s.entries \in Seq(Layer) /\ e \in Layer  BY <2>1 DEF Stacks
    <2>4. [e EXCEPT !.hidden = hidden] \in Layer /\ [s.entries EXCEPT ![k] = [e EXCEPT !.hidden = hidden]] \in Seq(Layer)
      <3>1. [e EXCEPT !.hidden = hidden] \in Layer  BY <2>3 DEF Layer
      <3>. QED  BY <2>1, <2>3, <3>1, ExceptSeq
    <2>5. /\ w \in Stacks /\ w.focused = s.focused /\ w.base = s.base /\ DOMAIN w.entries = DOMAIN s.entries
          /\ \A i \in DOMAIN s.entries : /\ w.entries[i].owner = s.entries[i].owner
                                         /\ w.entries[i].comp = s.entries[i].comp
                                         /\ w.entries[i].hidden = IF i = k THEN hidden ELSE s.entries[i].hidden
      <3>1. w = [s EXCEPT !.entries = [s.entries EXCEPT ![k] = [e EXCEPT !.hidden = hidden]]]  BY DEF Stacks
      <3>2. w \in Stacks /\ w.entries = [s.entries EXCEPT ![k] = [e EXCEPT !.hidden = hidden]]
            /\ w.focused = s.focused /\ w.base = s.base
        BY <2>4, <3>1 DEF Stacks
      <3>3. /\ [e EXCEPT !.hidden = hidden].owner = e.owner /\ [e EXCEPT !.hidden = hidden].comp = e.comp
            /\ [e EXCEPT !.hidden = hidden].hidden = hidden
        BY <2>3 DEF Layer
      <3>. QED  BY <2>1, <2>3, <3>2, <3>3
    <2> HIDE DEF w, e
    <2>6. Owners(w) = Owners(s) /\ (Tidy(s) => Tidy(w))  BY <2>5 DEF Owners, Tidy
    <2>7. CASE ~hidden
      <3>1. LET t == ApplyFocus(w, e.comp)
            IN  t \in Stacks /\ t.entries = w.entries /\ t.base = w.base /\ t.focused = e.comp
        BY <2>3, <2>5, FocusMoves DEF Layer
      <3>2. Heeds(ApplyFocus(w, e.comp))
        BY <2>1, <2>5, <2>7, <3>1 DEF Heeds, Visible, e
      <3>. QED  BY <2>2, <2>5, <2>6, <2>7, <3>1, <3>2 DEF Owners, Tidy
    <2>8. CASE hidden /\ s.focused = e.comp
      <3>1. LET t == Refocus(w, e)
            IN  t \in Stacks /\ t.base = w.base /\ Heeds(t) /\ Owners(t) = Owners(w) /\ (Tidy(t) <=> Tidy(w))
        BY <2>3, <2>5, RefocusHeeds
      <3>. QED  BY <2>2, <2>5, <2>6, <2>8, <3>1
    <2>9. CASE hidden /\ s.focused # e.comp
      <3>1. Heeds(w)
        <4> SUFFICES ASSUME HasVisible(w) PROVE \E i \in Visible(w) : w.entries[i].comp = w.focused
          BY DEF Heeds
        <4>1. Visible(w) \subseteq Visible(s)  BY <2>5, <2>9 DEF Visible
        <4>2. PICK i \in Visible(s) : s.entries[i].comp = s.focused  BY <4>1 DEF Heeds, HasVisible
        <4>3. i # k  BY <2>9, <4>2 DEF e
        <4>. QED  BY <2>5, <4>2, <4>3 DEF Visible
      <3>. QED  BY <2>2, <2>5, <2>6, <2>9, <3>1
    <2>. QED  BY <2>7, <2>8, <2>9
  <1>. QED  BY <1>1, <1>2

(* Reconciling the focus keeps the entries and the focus rule. *)
LEMMA ReconcileKeeps ==
  ASSUME NEW s \in Stacks, Heeds(s)
  PROVE  LET t == ReconcileFocus(s)
         IN  t \in Stacks /\ t.entries = s.entries /\ Heeds(t)
  <1> DEFINE I == {i \in 1..Len(s.entries) : s.entries[i].comp = s.focused /\ s.entries[i].hidden}
             k == SelectInSeq(s.entries, LAMBDA x : x.comp = s.focused /\ x.hidden)
  <1>1. k = (IF I # {} THEN Min(I) ELSE 0)  BY DEF SelectInSeq
  <1>2. I \in SUBSET Nat /\ s.entries \in Seq(Layer)  BY DEF Stacks
  <1>3. I # {} => Min(I) \in I
    <2> HIDE DEF I
    <2>. QED  BY <1>2, Smallest
  <1>4. CASE k # 0
    <2>1. k \in DOMAIN s.entries  BY <1>1, <1>2, <1>3, <1>4
    <2>2. ReconcileFocus(s) = Refocus(s, s.entries[k]) /\ s.entries[k] \in Layer
      BY <1>2, <1>4, <2>1 DEF ReconcileFocus
    <2> HIDE DEF k
    <2>. QED  BY <2>2, RefocusHeeds
  <1>5. CASE k = 0
    <2>1. ReconcileFocus(s) = IF HasVisible(s) /\ Top(s).comp # s.focused
                              THEN ApplyFocus(s, Top(s).comp) ELSE s
      BY <1>5 DEF ReconcileFocus
    <2>2. CASE HasVisible(s) /\ Top(s).comp # s.focused  BY <2>1, <2>2, TopHeeds DEF Stacks
    <2>3. CASE ~(HasVisible(s) /\ Top(s).comp # s.focused)  BY <2>1, <2>3
    <2>. QED  BY <2>2, <2>3
  <1>. QED  BY <1>4, <1>5

-----------------------------------------------------------------------------
(* What the application hosts.  Each piece of a handler keeps it sound, and *)
(* says what it does to the requests of extensions.                        *)
HostFields == {"stack", "root", "dialogs", "mounts", "pickers", "slot", "made", "dead", "seen", "gen", "last",
               "shown", "header", "widgets", "editor", "asked", "answers", "wire", "reused"}

Asked == [id : world.comps, gen : Nat, width : Int]

HostTypeOK(h) ==
  /\ DOMAIN h = HostFields
  /\ h.stack \in Stacks /\ h.dialogs \subseteq world.comps \cup world.dialogs /\ h.mounts \subseteq world.mounts
  /\ h.slot \in [world.comps -> Slots \cup {None}] /\ h.made \in [world.comps -> Nat]
  /\ h.seen \in [world.comps -> Int] /\ h.gen \in [world.comps -> Nat]
  /\ h.editor \in Comps \cup {None} /\ h.pickers \in Nat /\ h.wire \subseteq Asked
  /\ h.asked \subseteq world.dialogs /\ h.answers \in [world.dialogs -> Nat]

(* A dialog is registered exactly while it is on the stack.                *)
Boxes(h) ==
  /\ \A id \in world.comps \cup world.dialogs : Dialog(id) \in Owners(h.stack) <=> id \in h.dialogs
  /\ \A o \in Owners(h.stack) : o[1] = "dialog" => \E id \in world.comps \cup world.dialogs : o = Dialog(id)
  /\ \A c \in world.comps : c \in h.dialogs => h.slot[c] \in {"overlay", "tool"}

Sound(h) == HostTypeOK(h) /\ Heeds(h.stack) /\ Tidy(h.stack) /\ Boxes(h)

(* A request that is registered waits for its answer, any other one that   *)
(* was made has had it.                                                    *)
Answered(h) ==
  /\ h.dialogs \cap world.dialogs \subseteq h.asked
  /\ \A d \in world.dialogs : h.answers[d] = IF d \in h.asked \ h.dialogs THEN 1 ELSE 0

(* g answers and registers no request that h does not.                     *)
SameRequests(h, g) ==
  /\ g.asked = h.asked /\ g.answers = h.answers
  /\ g.dialogs \cap world.dialogs = h.dialogs \cap world.dialogs

AppTypeOK == world \in Worlds /\ cols \in Nat /\ cols > 0

(* What has been asked and answered decides whether requests are answered. *)
LEMMA SameAnswered ==
  ASSUME NEW h, NEW g, Answered(h), SameRequests(h, g)
  PROVE  Answered(g)
  BY DEF Answered, SameRequests

(* Two steps that leave the requests alone leave them alone together. *)
LEMMA SameTransitive ==
  ASSUME NEW f, NEW g, NEW h, SameRequests(f, g), SameRequests(g, h)
  PROVE  SameRequests(f, h)
  BY DEF SameRequests

(* The names of the components an overlay can show are components, and apart
   from one another. *)
LEMMA Names ==
  ASSUME AppTypeOK
  PROVE  /\ Ed \in Comps /\ Ed[1] # "dialog"
         /\ \A id \in world.comps \cup world.dialogs : Dialog(id) \in Comps /\ Dialog(id)[1] = "dialog" /\ Dialog(id)[2] = id
         /\ \A o \in world.mounts : Mount(o) \in Comps /\ Mount(o)[1] # "dialog"
         /\ \A n \in Nat : Picker(n) \in Comps /\ Picker(n)[1] # "dialog"
         /\ \A h : HostTypeOK(h) => \A c \in world.comps : Object(h, c) \in Comps /\ Object(h, c)[1] # "dialog"
         /\ Whole \in Int /\ Boxed \in Int
  <1>1. {None} \cup world.comps \cup world.dialogs \cup world.mounts \subseteq Ids  BY DEF AppTypeOK, Ids
  <1>2. ASSUME NEW h, HostTypeOK(h), NEW c \in world.comps
        PROVE  Object(h, c) \in Comps /\ Object(h, c)[1] # "dialog"
    <2>1. h.made[c] \in Nat  BY <1>2 DEF HostTypeOK
    <2>. QED  BY <1>1, <2>1 DEF Object, Comps
  <1>3. Whole \in Int /\ Boxed \in Int  BY DEF AppTypeOK, Whole, Boxed
  <1>4. Ed \in Comps /\ Ed[1] # "dialog"  BY <1>1 DEF Ed, Comps
  <1>5. \A id \in world.comps \cup world.dialogs : Dialog(id) \in Comps /\ Dialog(id)[1] = "dialog" /\ Dialog(id)[2] = id
    BY <1>1 DEF Dialog, Comps
  <1>6. \A o \in world.mounts : Mount(o) \in Comps /\ Mount(o)[1] # "dialog"  BY <1>1 DEF Mount, Comps
  <1>7. \A n \in Nat : Picker(n) \in Comps /\ Picker(n)[1] # "dialog"  BY <1>1 DEF Picker, Comps
  <1>. QED  BY <1>2, <1>3, <1>4, <1>5, <1>6, <1>7

(* A handler that only moves the focus, or takes away or shows entries     *)
(* that are no dialogs.                                                    *)
LEMMA StackSound ==
  ASSUME AppTypeOK, NEW h, Sound(h), NEW t \in Stacks, Heeds(t), Tidy(t),
         \A o : o[1] = "dialog" => (o \in Owners(t) <=> o \in Owners(h.stack))
  PROVE  LET g == [h EXCEPT !.stack = t]
         IN  Sound(g) /\ SameRequests(h, g) /\ g.stack = t /\ g.dialogs = h.dialogs /\ g.slot = h.slot
             /\ g.made = h.made /\ g.mounts = h.mounts /\ g.pickers = h.pickers /\ g.wire = h.wire
  <1> DEFINE g == [h EXCEPT !.stack = t]
  <1>1. DOMAIN g = HostFields /\ g.stack = t /\ \A f \in HostFields \ {"stack"} : g[f] = h[f]
    BY DEF Sound, HostTypeOK, HostFields
  <1> HIDE DEF g
  <1>2. /\ g.dialogs = h.dialogs /\ g.mounts = h.mounts /\ g.slot = h.slot /\ g.made = h.made /\ g.seen = h.seen
        /\ g.gen = h.gen /\ g.editor = h.editor /\ g.pickers = h.pickers /\ g.wire = h.wire
        /\ g.asked = h.asked /\ g.answers = h.answers
    BY <1>1 DEF HostFields
  <1>3. HostTypeOK(g)  BY <1>1, <1>2 DEF Sound, HostTypeOK
  <1>4. Boxes(g)
    <2>1. \A id \in world.comps \cup world.dialogs : Dialog(id)[1] = "dialog"  BY Names
    <2>. QED  BY <1>1, <1>2, <2>1 DEF Sound, Boxes
  <1>. QED  BY <1>1, <1>2, <1>3, <1>4 DEF Sound, SameRequests, g

(* A handler that touches neither the stack nor the requests.              *)
LEMMA AsideSound ==
  ASSUME NEW h, Sound(h), NEW g, DOMAIN g = HostFields, g.stack = h.stack, g.dialogs = h.dialogs,
         g.slot = h.slot, g.asked = h.asked, g.answers = h.answers,
         g.made \in [world.comps -> Nat], g.seen \in [world.comps -> Int], g.gen \in [world.comps -> Nat],
         g.editor \in Comps \cup {None}, g.pickers \in Nat, g.wire \subseteq Asked, g.mounts \subseteq world.mounts
  PROVE  Sound(g) /\ SameRequests(h, g)
  BY DEF Sound, HostTypeOK, Boxes, SameRequests

(* Focusing keeps a host sound and its requests. *)
LEMMA FocusSound ==
  ASSUME AppTypeOK, NEW h, Sound(h), NEW comp \in Comps
  PROVE  LET g == Focus(h, comp)
         IN  Sound(g) /\ SameRequests(h, g) /\ g.slot = h.slot /\ g.dialogs = h.dialogs /\ g.wire = h.wire
             /\ Owners(g.stack) = Owners(h.stack)
  <1> DEFINE t == SetFocus(h.stack, comp)
  <1>1. t \in Stacks /\ t.entries = h.stack.entries /\ Heeds(t)
    BY SetFocusHeeds DEF Sound, HostTypeOK
  <1>2. Owners(t) = Owners(h.stack) /\ Tidy(t)  BY <1>1 DEF Owners, Tidy, Sound
  <1>3. Focus(h, comp) = [h EXCEPT !.stack = t]  BY DEF Focus
  <1> HIDE DEF t
  <1>. QED  BY <1>1, <1>2, <1>3, StackSound

(* Taking an overlay away keeps a host sound and its requests. *)
LEMMA UnshowSound ==
  ASSUME AppTypeOK, NEW h, Sound(h), NEW owner, owner[1] # "dialog"
  PROVE  LET g == Unshow(h, owner)
         IN  Sound(g) /\ SameRequests(h, g) /\ g.slot = h.slot /\ g.dialogs = h.dialogs /\ g.mounts = h.mounts
             /\ g.wire = h.wire
  <1> DEFINE t == Hide(h.stack, owner)
  <1>1. t \in Stacks /\ Heeds(t) /\ Tidy(t) /\ Owners(t) \subseteq Owners(h.stack)
        /\ Owners(h.stack) \subseteq Owners(t) \cup {owner}
    BY HideKeeps DEF Sound, HostTypeOK
  <1>2. \A o : o[1] = "dialog" => o # owner  OBVIOUS
  <1>3. Unshow(h, owner) = [h EXCEPT !.stack = t]  BY DEF Unshow
  <1> HIDE DEF t
  <1>. QED  BY <1>1, <1>2, <1>3, StackSound

(* Rebuilding the root keeps a host sound and its requests. *)
LEMMA RebuildSound ==
  ASSUME AppTypeOK, NEW h, Sound(h)
  PROVE  LET g == Rebuild(h)
         IN  Sound(g) /\ SameRequests(h, g) /\ g.slot = h.slot /\ g.dialogs = h.dialogs /\ g.wire = h.wire
             /\ g.pickers = h.pickers /\ g.mounts = h.mounts
  <1> DEFINE target == IF h.editor = None THEN Ed ELSE h.editor
             t == SetBaseFocus(h.stack, target)
             f == [h EXCEPT !.stack = t]
             g == [f EXCEPT !.root = target]
  <1>1. target \in Comps  BY Names DEF Sound, HostTypeOK
  <1>2. t \in Stacks /\ t.entries = h.stack.entries /\ Heeds(t)
    BY <1>1, SetBaseHeeds DEF Sound, HostTypeOK
  <1>3. Owners(t) = Owners(h.stack) /\ Tidy(t)  BY <1>2 DEF Owners, Tidy, Sound
  <1>4. Rebuild(h) = g  BY DEF Rebuild, Sound, HostTypeOK, HostFields
  <1>5. Sound(f) /\ SameRequests(h, f) /\ f.dialogs = h.dialogs /\ f.slot = h.slot /\ f.mounts = h.mounts
        /\ f.pickers = h.pickers /\ f.wire = h.wire
    <2> HIDE DEF t
    <2>. QED  BY <1>2, <1>3, StackSound
  <1> HIDE DEF f, target
  <1>6. DOMAIN g = HostFields /\ \A x \in HostFields \ {"root"} : g[x] = f[x]
    BY <1>5 DEF Sound, HostTypeOK, HostFields
  <1> HIDE DEF g
  <1>7. /\ g.stack = f.stack /\ g.dialogs = f.dialogs /\ g.slot = f.slot /\ g.asked = f.asked /\ g.answers = f.answers
        /\ g.made = f.made /\ g.seen = f.seen /\ g.gen = f.gen /\ g.editor = f.editor /\ g.pickers = f.pickers
        /\ g.wire = f.wire /\ g.mounts = f.mounts
    BY <1>6 DEF HostFields
  <1>8. Sound(g) /\ SameRequests(f, g)
    BY <1>5, <1>6, <1>7, AsideSound DEF Sound, HostTypeOK
  <1>. QED  BY <1>4, <1>5, <1>7, <1>8, SameTransitive

(* Asking a remote for its rows keeps a host sound and its dialogs. *)
LEMMA RequestSound ==
  ASSUME AppTypeOK, NEW h, Sound(h), NEW c \in world.comps
  PROVE  LET g == RequestRemote(h, c)
         IN  Sound(g) /\ SameRequests(h, g) /\ g.slot = h.slot /\ g.dialogs = h.dialogs
  <1> DEFINE width == IF h.seen[c] > 0 THEN h.seen[c] ELSE Whole
             q == [id |-> c, gen |-> h.gen[c] + 1, width |-> width]
             g == RequestRemote(h, c)
  <1>1. g = [h EXCEPT !.gen[c] = @ + 1, !.wire = @ \cup {q}]  BY DEF RequestRemote, RequestAt
  <1>2. DOMAIN h = HostFields /\ h.gen \in [world.comps -> Nat] /\ h.seen \in [world.comps -> Int]
        /\ h.wire \subseteq Asked
    BY DEF Sound, HostTypeOK
  <1>3. q \in Asked
    <2>1. h.gen[c] + 1 \in Nat /\ width \in Int  BY <1>2, Names
    <2> HIDE DEF width
    <2>. QED  BY <2>1 DEF Asked
  <1> HIDE DEF q
  <1>4. /\ DOMAIN g = HostFields /\ g.gen = [h.gen EXCEPT ![c] = @ + 1] /\ g.wire = h.wire \cup {q}
        /\ \A x \in HostFields \ {"gen", "wire"} : g[x] = h[x]
    BY <1>1, <1>2 DEF HostFields
  <1> HIDE DEF g
  <1>5. /\ g.stack = h.stack /\ g.dialogs = h.dialogs /\ g.slot = h.slot /\ g.asked = h.asked /\ g.answers = h.answers
        /\ g.made = h.made /\ g.seen = h.seen /\ g.editor = h.editor /\ g.pickers = h.pickers /\ g.mounts = h.mounts
    BY <1>4 DEF HostFields
  <1>6. g.gen \in [world.comps -> Nat] /\ g.wire \subseteq Asked  BY <1>2, <1>3, <1>4
  <1>7. Sound(g) /\ SameRequests(h, g)
    BY <1>4, <1>5, <1>6, AsideSound DEF Sound, HostTypeOK
  <1>. QED  BY <1>5, <1>7 DEF g

(* Changes to fields that nobody here relies on.                           *)
LEMMA FieldsSound ==
  ASSUME NEW h, Sound(h), NEW g, DOMAIN g = HostFields,
         \A x \in HostFields \ {"root", "dead", "last", "shown", "header", "widgets", "reused"} : g[x] = h[x]
  PROVE  Sound(g) /\ SameRequests(h, g) /\ g.slot = h.slot /\ g.dialogs = h.dialogs /\ g.made = h.made
         /\ g.wire = h.wire /\ g.stack = h.stack /\ g.mounts = h.mounts /\ g.pickers = h.pickers
         /\ g.seen = h.seen /\ g.gen = h.gen /\ g.editor = h.editor
  <1>1. /\ g.stack = h.stack /\ g.dialogs = h.dialogs /\ g.slot = h.slot /\ g.asked = h.asked /\ g.answers = h.answers
        /\ g.made = h.made /\ g.seen = h.seen /\ g.gen = h.gen /\ g.editor = h.editor /\ g.pickers = h.pickers
        /\ g.wire = h.wire /\ g.mounts = h.mounts
    BY DEF HostFields
  <1>. QED  BY <1>1, AsideSound DEF Sound, HostTypeOK

(* Opening a box for a dialog or a component keeps a host sound. *)
LEMMA BoxSound ==
  ASSUME AppTypeOK, NEW h, Sound(h), NEW id \in world.comps \cup world.dialogs, id \notin h.dialogs,
         id \in world.comps => h.slot[id] \in {"overlay", "tool"},
         NEW comp \in Comps, comp[1] = "dialog" => comp = Dialog(id)
  PROVE  LET g == Box(h, id, comp)
         IN  /\ Sound(g) /\ g.asked = h.asked /\ g.answers = h.answers /\ g.slot = h.slot
             /\ g.dialogs = h.dialogs \cup {id}
  <1> DEFINE t == Show(h.stack, Dialog(id), comp, Boxed)
             f == [h EXCEPT !.stack = t, !.dialogs = @ \cup {id}]
  <1>1. Dialog(id) \in Comps /\ Dialog(id)[1] = "dialog" /\ Boxed \in Int /\ Dialog(id) \notin Owners(h.stack)
    BY Names DEF Sound, Boxes
  <1>2. t \in Stacks /\ Heeds(t) /\ Tidy(t) /\ Owners(t) = Owners(h.stack) \cup {Dialog(id)}
    BY <1>1, ShowHeeds DEF Sound, HostTypeOK
  <1> HIDE DEF t
  <1>3. /\ DOMAIN f = HostFields /\ f.stack = t /\ f.dialogs = h.dialogs \cup {id}
        /\ \A x \in HostFields \ {"stack", "dialogs"} : f[x] = h[x]
    BY DEF Sound, HostTypeOK, HostFields
  <1>4. Box(h, id, comp) = Focus(f, comp)  BY DEF Box, t, Sound, HostTypeOK, HostFields
  <1> HIDE DEF f
  <1>5. /\ f.slot = h.slot /\ f.asked = h.asked /\ f.answers = h.answers
        /\ f.made = h.made /\ f.seen = h.seen /\ f.gen = h.gen /\ f.editor = h.editor /\ f.pickers = h.pickers
        /\ f.wire = h.wire /\ f.mounts = h.mounts
    BY <1>3 DEF HostFields
  <1>6. Boxes(f)
    <2>1. \A x, y \in world.comps \cup world.dialogs : Dialog(x) = Dialog(y) => x = y  BY Names
    <2>. QED  BY <1>2, <1>3, <1>5, <2>1 DEF Boxes, Sound
  <1>7. Sound(f)  BY <1>2, <1>3, <1>5, <1>6 DEF Sound, HostTypeOK
  <1>8. LET g == Focus(f, comp)
        IN  Sound(g) /\ SameRequests(f, g) /\ g.slot = f.slot /\ g.dialogs = f.dialogs
    BY <1>7, FocusSound
  <1>. QED  BY <1>3, <1>4, <1>5, <1>8 DEF SameRequests

(* Closing a box keeps a host sound and forgets its dialog. *)
LEMMA UnboxSound ==
  ASSUME AppTypeOK, NEW h, Sound(h), NEW id \in world.comps \cup world.dialogs
  PROVE  LET g == Unbox(h, id)
         IN  /\ Sound(g) /\ g.asked = h.asked /\ g.answers = h.answers /\ g.slot = h.slot /\ g.wire = h.wire
             /\ g.dialogs = h.dialogs \ {id} /\ g.made = h.made /\ g.editor = h.editor /\ g.mounts = h.mounts
  <1> DEFINE t == Hide(h.stack, Dialog(id))
             g == Unbox(h, id)
  <1>1. Dialog(id) \in Comps /\ Dialog(id)[1] = "dialog"  BY Names
  <1>2. /\ t \in Stacks /\ Heeds(t) /\ Tidy(t) /\ Owners(t) \subseteq Owners(h.stack)
        /\ Owners(h.stack) \subseteq Owners(t) \cup {Dialog(id)} /\ Dialog(id) \notin Owners(t)
    BY <1>1, HideKeeps DEF Sound, HostTypeOK
  <1> HIDE DEF t
  <1>3. /\ DOMAIN g = HostFields /\ g.stack = t /\ g.dialogs = h.dialogs \ {id}
        /\ \A x \in HostFields \ {"stack", "dialogs"} : g[x] = h[x]
    BY DEF Sound, HostTypeOK, HostFields, Unbox, Unshow, t
  <1> HIDE DEF g
  <1>4. /\ g.slot = h.slot /\ g.asked = h.asked /\ g.answers = h.answers
        /\ g.made = h.made /\ g.seen = h.seen /\ g.gen = h.gen /\ g.editor = h.editor /\ g.pickers = h.pickers
        /\ g.wire = h.wire /\ g.mounts = h.mounts
    BY <1>3 DEF HostFields
  <1>5. Boxes(g)
    <2>1. \A x, y \in world.comps \cup world.dialogs : Dialog(x) = Dialog(y) => x = y  BY Names
    <2>. QED  BY <1>2, <1>3, <1>4, <2>1 DEF Boxes, Sound
  <1>6. Sound(g)  BY <1>2, <1>3, <1>4, <1>5 DEF Sound, HostTypeOK
  <1>. QED  BY <1>3, <1>4, <1>6 DEF g

(* Putting a component into its slot keeps a host sound. *)
LEMMA SlottedSound ==
  ASSUME AppTypeOK, NEW h, Sound(h), NEW c \in world.comps, c \notin h.dialogs, NEW slot \in Slots, h.slot[c] = slot
  PROVE  LET g == Slotted(h, c, slot)
         IN  Sound(g) /\ SameRequests(h, g) /\ g.slot = h.slot
  <1> DEFINE r == Object(h, c)
  <1>0. r \in Comps /\ r[1] # "dialog" /\ c \notin world.dialogs
    BY Names, WorldAssumption DEF Sound, AppTypeOK
  <1> HIDE DEF r
  <1>1. CASE slot = "header"
    <2> DEFINE f == [h EXCEPT !.header = r]
    <2>1. DOMAIN f = HostFields /\ \A x \in HostFields \ {"header"} : f[x] = h[x]
      BY DEF Sound, HostTypeOK
    <2>2. Slotted(h, c, slot) = Rebuild(f)  BY <1>1 DEF Slotted, r
    <2> HIDE DEF f
    <2>3. Sound(f) /\ SameRequests(h, f) /\ f.slot = h.slot  BY <2>1, FieldsSound
    <2>. QED  BY <2>2, <2>3, RebuildSound, SameTransitive
  <1>2. CASE slot = "widget"
    <2> DEFINE f == [h EXCEPT !.widgets = @ \cup {r}]
    <2>1. DOMAIN f = HostFields /\ \A x \in HostFields \ {"widgets"} : f[x] = h[x]
      BY DEF Sound, HostTypeOK
    <2>2. Slotted(h, c, slot) = Rebuild(f)  BY <1>2 DEF Slotted, r
    <2> HIDE DEF f
    <2>3. Sound(f) /\ SameRequests(h, f) /\ f.slot = h.slot  BY <2>1, FieldsSound
    <2>. QED  BY <2>2, <2>3, RebuildSound, SameTransitive
  <1>3. CASE slot = "editor"
    <2> DEFINE f == [h EXCEPT !.editor = r]
    <2>1. DOMAIN f = HostFields /\ f.editor = r /\ \A x \in HostFields \ {"editor"} : f[x] = h[x]
      BY DEF Sound, HostTypeOK, HostFields
    <2>2. Slotted(h, c, slot) = Rebuild(f)  BY <1>3 DEF Slotted, r
    <2> HIDE DEF f
    <2>3. /\ f.stack = h.stack /\ f.dialogs = h.dialogs /\ f.slot = h.slot /\ f.asked = h.asked /\ f.answers = h.answers
          /\ f.made = h.made /\ f.seen = h.seen /\ f.gen = h.gen /\ f.pickers = h.pickers /\ f.wire = h.wire
          /\ f.mounts = h.mounts
      BY <2>1 DEF HostFields
    <2>4. Sound(f) /\ SameRequests(h, f)  BY <1>0, <2>1, <2>3, AsideSound DEF Sound, HostTypeOK
    <2>. QED  BY <2>2, <2>3, <2>4, RebuildSound, SameTransitive
  <1>4. CASE slot \notin {"header", "widget", "editor"}
    <2>1. Slotted(h, c, slot) = Box(h, c, r)  BY <1>4 DEF Slotted, r
    <2>2. h.slot[c] \in {"overlay", "tool"}  BY <1>4 DEF Slots
    <2>. QED  BY <1>0, <2>1, <2>2, BoxSound DEF SameRequests
  <1>. QED  BY <1>1, <1>2, <1>3, <1>4

(* Taking a component out of its slot keeps a host sound and closes its box.
   *)
LEMMA UnslottedSound ==
  ASSUME AppTypeOK, NEW h, Sound(h), NEW c \in world.comps
  PROVE  LET g == Unslotted(h, c)
         IN  Sound(g) /\ SameRequests(h, g) /\ g.slot = h.slot /\ c \notin g.dialogs
  <1> DEFINE r == Object(h, c)
  <1>0. c \notin world.dialogs  BY WorldAssumption DEF AppTypeOK
  <1>1. CASE h.slot[c] = "header"
    <2> DEFINE f == [h EXCEPT !.header = None]
    <2>1. DOMAIN f = HostFields /\ \A x \in HostFields \ {"header"} : f[x] = h[x]
      BY DEF Sound, HostTypeOK
    <2>2. Unslotted(h, c) = h \/ Unslotted(h, c) = Rebuild(f)  BY <1>1 DEF Unslotted
    <2> HIDE DEF f
    <2>3. Sound(f) /\ SameRequests(h, f) /\ f.slot = h.slot /\ f.dialogs = h.dialogs  BY <2>1, FieldsSound
    <2>4. c \notin h.dialogs  BY <1>1 DEF Sound, Boxes
    <2>5. LET g == Rebuild(f) IN Sound(g) /\ SameRequests(f, g) /\ g.slot = f.slot /\ g.dialogs = f.dialogs
      BY <2>3, RebuildSound
    <2>. QED  BY <2>2, <2>3, <2>4, <2>5 DEF SameRequests
  <1>2. CASE h.slot[c] = "widget"
    <2> DEFINE f == [h EXCEPT !.widgets = @ \ {r}]
    <2>1. DOMAIN f = HostFields /\ \A x \in HostFields \ {"widgets"} : f[x] = h[x]
      BY DEF Sound, HostTypeOK
    <2>2. Unslotted(h, c) = Rebuild(f)  BY <1>2 DEF Unslotted
    <2> HIDE DEF f
    <2>3. Sound(f) /\ SameRequests(h, f) /\ f.slot = h.slot /\ f.dialogs = h.dialogs  BY <2>1, FieldsSound
    <2>4. c \notin h.dialogs  BY <1>2 DEF Sound, Boxes
    <2>5. LET g == Rebuild(f) IN Sound(g) /\ SameRequests(f, g) /\ g.slot = f.slot /\ g.dialogs = f.dialogs
      BY <2>3, RebuildSound
    <2>. QED  BY <2>2, <2>3, <2>4, <2>5 DEF SameRequests
  <1>3. CASE h.slot[c] = "editor"
    <2> DEFINE f == [h EXCEPT !.editor = None]
    <2>1. DOMAIN f = HostFields /\ f.editor = None /\ \A x \in HostFields \ {"editor"} : f[x] = h[x]
      BY DEF Sound, HostTypeOK, HostFields
    <2>2. Unslotted(h, c) = h \/ Unslotted(h, c) = Rebuild(f)  BY <1>3 DEF Unslotted
    <2> HIDE DEF f
    <2>3. /\ f.stack = h.stack /\ f.dialogs = h.dialogs /\ f.slot = h.slot /\ f.asked = h.asked /\ f.answers = h.answers
          /\ f.made = h.made /\ f.seen = h.seen /\ f.gen = h.gen /\ f.pickers = h.pickers /\ f.wire = h.wire
          /\ f.mounts = h.mounts
      BY <2>1 DEF HostFields
    <2>4. Sound(f) /\ SameRequests(h, f)  BY <2>1, <2>3, AsideSound DEF Sound, HostTypeOK
    <2>5. c \notin h.dialogs  BY <1>3 DEF Sound, Boxes
    <2>6. LET g == Rebuild(f) IN Sound(g) /\ SameRequests(f, g) /\ g.slot = f.slot /\ g.dialogs = f.dialogs
      BY <2>4, RebuildSound
    <2>. QED  BY <2>2, <2>3, <2>4, <2>5, <2>6 DEF SameRequests
  <1>4. CASE h.slot[c] \notin {"header", "widget", "editor"}
    <2>1. Unslotted(h, c) = IF c \in h.dialogs THEN Unbox(h, c) ELSE h  BY <1>4 DEF Unslotted
    <2>2. CASE c \in h.dialogs  BY <1>0, <2>1, <2>2, UnboxSound DEF SameRequests
    <2>3. CASE c \notin h.dialogs  BY <2>1, <2>3 DEF SameRequests
    <2>. QED  BY <2>2, <2>3
  <1>. QED  BY <1>1, <1>2, <1>3, <1>4

(* A component that is in no dialog gets another slot.                     *)
LEMMA SlotChanges ==
  ASSUME NEW h, Sound(h), NEW c \in world.comps, c \notin h.dialogs,
         NEW g, DOMAIN g = HostFields, g.slot \in [world.comps -> Slots \cup {None}],
         \A x \in world.comps \ {c} : g.slot[x] = h.slot[x],
         g.stack = h.stack, g.dialogs = h.dialogs, g.asked = h.asked, g.answers = h.answers,
         g.made \in [world.comps -> Nat], g.seen \in [world.comps -> Int], g.gen \in [world.comps -> Nat],
         g.editor = h.editor, g.pickers = h.pickers, g.wire = h.wire, g.mounts = h.mounts
  PROVE  Sound(g) /\ SameRequests(h, g)
  <1>1. Boxes(g)  BY DEF Sound, Boxes
  <1>2. HostTypeOK(g)  BY DEF Sound, HostTypeOK
  <1>. QED  BY <1>1, <1>2 DEF Sound, SameRequests

(* Mounting a component keeps a host sound and its requests. *)
LEMMA MountedSound ==
  ASSUME AppTypeOK, NEW h, Sound(h), NEW c \in world.comps, NEW slot \in Slots
  PROVE  LET g == Mounted(h, c, slot) IN Sound(g) /\ SameRequests(h, g)
  <1>0. /\ DOMAIN h = HostFields /\ h.slot \in [world.comps -> Slots \cup {None}]
        /\ h.made \in [world.comps -> Nat] /\ h.seen \in [world.comps -> Int] /\ h.gen \in [world.comps -> Nat]
    BY DEF Sound, HostTypeOK
  <1>1. CASE h.slot[c] = None
    <2> DEFINE f == [h EXCEPT !.slot[c] = slot, !.made[c] = @ + 1, !.dead[c] = FALSE,
                              !.seen[c] = 0, !.shown[c] = Blank]
    <2>1. Mounted(h, c, slot) = RequestRemote(Slotted(f, c, slot), c)  BY <1>1 DEF Mounted
    <2>2. c \notin h.dialogs  BY <1>1, SlotAssumption DEF Slots, Sound, Boxes
    <2>3. /\ DOMAIN f = HostFields /\ f.slot = [h.slot EXCEPT ![c] = slot]
          /\ f.made = [h.made EXCEPT ![c] = @ + 1] /\ f.seen = [h.seen EXCEPT ![c] = 0] /\ f.gen = h.gen
          /\ f.stack = h.stack /\ f.dialogs = h.dialogs /\ f.asked = h.asked /\ f.answers = h.answers
          /\ f.editor = h.editor /\ f.pickers = h.pickers /\ f.wire = h.wire /\ f.mounts = h.mounts
      BY <1>0 DEF HostFields
    <2> HIDE DEF f
    <2>4. /\ f.made \in [world.comps -> Nat] /\ f.seen \in [world.comps -> Int] /\ f.gen \in [world.comps -> Nat]
          /\ f.slot \in [world.comps -> Slots \cup {None}] /\ f.slot[c] = slot
          /\ \A x \in world.comps \ {c} : f.slot[x] = h.slot[x]
      BY <1>0, <2>3
    <2>5. Sound(f) /\ SameRequests(h, f)  BY <2>2, <2>3, <2>4, SlotChanges
    <2>6. LET g == Slotted(f, c, slot) IN Sound(g) /\ SameRequests(f, g)
      BY <2>2, <2>3, <2>4, <2>5, SlottedSound
    <2>7. LET g == RequestRemote(Slotted(f, c, slot), c) IN Sound(g) /\ SameRequests(Slotted(f, c, slot), g)
      BY <2>6, RequestSound
    <2>. QED  BY <2>1, <2>5, <2>6, <2>7 DEF SameRequests
  <1>2. CASE h.slot[c] # None /\ h.slot[c] = slot  BY <1>2 DEF Mounted, SameRequests
  <1>3. CASE h.slot[c] # None /\ h.slot[c] # slot
    <2> DEFINE u == Unslotted(h, c)
               f == [u EXCEPT !.slot[c] = slot]
    <2>1. Mounted(h, c, slot) = Slotted(f, c, slot)  BY <1>3 DEF Mounted
    <2>2. Sound(u) /\ SameRequests(h, u) /\ c \notin u.dialogs  BY UnslottedSound
    <2> HIDE DEF u
    <2>3. /\ DOMAIN f = HostFields /\ f.slot = [u.slot EXCEPT ![c] = slot]
          /\ f.made = u.made /\ f.seen = u.seen /\ f.gen = u.gen
          /\ f.stack = u.stack /\ f.dialogs = u.dialogs /\ f.asked = u.asked /\ f.answers = u.answers
          /\ f.editor = u.editor /\ f.pickers = u.pickers /\ f.wire = u.wire /\ f.mounts = u.mounts
      BY <2>2 DEF Sound, HostTypeOK, HostFields
    <2> HIDE DEF f
    <2>4. /\ f.made \in [world.comps -> Nat] /\ f.seen \in [world.comps -> Int] /\ f.gen \in [world.comps -> Nat]
          /\ f.slot \in [world.comps -> Slots \cup {None}] /\ f.slot[c] = slot
          /\ \A x \in world.comps \ {c} : f.slot[x] = u.slot[x]
      BY <2>2, <2>3 DEF Sound, HostTypeOK
    <2>5. Sound(f) /\ SameRequests(u, f)  BY <2>2, <2>3, <2>4, SlotChanges
    <2>6. LET g == Slotted(f, c, slot) IN Sound(g) /\ SameRequests(f, g)
      BY <2>2, <2>3, <2>4, <2>5, SlottedSound
    <2>. QED  BY <2>1, <2>2, <2>5, <2>6 DEF SameRequests
  <1>. QED  BY <1>1, <1>2, <1>3

(* Making sure a component has a remote keeps a host sound. *)
LEMMA EnsuredSound ==
  ASSUME AppTypeOK, NEW h, Sound(h), NEW c \in world.comps
  PROVE  LET g == Ensured(h, c) IN Sound(g) /\ SameRequests(h, g)
  <1>1. "overlay" \in Slots  BY DEF Slots
  <1>. QED  BY <1>1, MountedSound DEF Ensured, SameRequests

(* Disposing of a component keeps a host sound. *)
LEMMA DisposedSound ==
  ASSUME AppTypeOK, NEW h, Sound(h), NEW c \in world.comps
  PROVE  LET g == Disposed(h, c) IN Sound(g) /\ SameRequests(h, g)
  <1> DEFINE u == Unslotted(h, c)
             reused == IF \E q \in h.wire : q.id = c THEN u.reused \cup {c} ELSE u.reused
             f == [u EXCEPT !.slot[c] = None, !.dead[c] = FALSE, !.gen[c] = 0, !.last[c] = 0, !.shown[c] = Blank,
                            !.reused = reused]
  <1>1. Sound(u) /\ SameRequests(h, u) /\ c \notin u.dialogs  BY UnslottedSound
  <1>0. DOMAIN u = HostFields  BY <1>1 DEF Sound, HostTypeOK
  <1>2. Disposed(h, c) = IF f.editor = None THEN Focus(f, Ed) ELSE f
    <2>1. f = [u EXCEPT !.slot[c] = None, !.dead[c] = FALSE, !.gen[c] = 0, !.last[c] = 0, !.shown[c] = Blank,
                        !.reused = IF \E q \in h.wire : q.id = c THEN @ \cup {c} ELSE @]
      BY <1>0 DEF HostFields
    <2> HIDE DEF f
    <2>. QED  BY <2>1 DEF Disposed
  <1> HIDE DEF u, reused
  <1>3. /\ DOMAIN f = HostFields /\ f.slot = [u.slot EXCEPT ![c] = None]
        /\ f.gen = [u.gen EXCEPT ![c] = 0] /\ f.made = u.made /\ f.seen = u.seen
        /\ f.stack = u.stack /\ f.dialogs = u.dialogs /\ f.asked = u.asked /\ f.answers = u.answers
        /\ f.editor = u.editor /\ f.pickers = u.pickers /\ f.wire = u.wire /\ f.mounts = u.mounts
    BY <1>0 DEF HostFields
  <1> HIDE DEF f
  <1>4. /\ f.gen \in [world.comps -> Nat] /\ f.made \in [world.comps -> Nat] /\ f.seen \in [world.comps -> Int]
        /\ f.slot \in [world.comps -> Slots \cup {None}] /\ \A x \in world.comps \ {c} : f.slot[x] = u.slot[x]
    BY <1>1, <1>3 DEF Sound, HostTypeOK
  <1>5. Sound(f) /\ SameRequests(u, f)  BY <1>1, <1>3, <1>4, SlotChanges
  <1>6. LET g == Focus(f, Ed) IN Sound(g) /\ SameRequests(f, g)  BY <1>5, FocusSound, Names
  <1>. QED  BY <1>1, <1>2, <1>5, <1>6 DEF SameRequests

(* Invalidating a component keeps a host sound. *)
LEMMA InvalidatedSound ==
  ASSUME AppTypeOK, NEW h, Sound(h), NEW c \in world.comps
  PROVE  LET g == Invalidated(h, c) IN Sound(g) /\ SameRequests(h, g)
  <1> DEFINE f == IF h.dead[c] THEN h ELSE [h EXCEPT !.shown[c] = Blank]
  <1>1. DOMAIN f = HostFields /\ \A x \in HostFields \ {"shown"} : f[x] = h[x]
    BY DEF Sound, HostTypeOK, HostFields
  <1>2. Invalidated(h, c) = RequestRemote(f, c)  BY DEF Invalidated
  <1> HIDE DEF f
  <1>3. Sound(f) /\ SameRequests(h, f)  BY <1>1, FieldsSound
  <1>. QED  BY <1>2, <1>3, RequestSound DEF SameRequests

(* An overlay that is no dialog is shown.                                  *)
LEMMA ShownSound ==
  ASSUME AppTypeOK, NEW h, Sound(h), NEW owner \in Comps, owner[1] # "dialog",
         NEW comp \in Comps, comp[1] # "dialog", NEW width \in Int
  PROVE  LET g == [h EXCEPT !.stack = Show(@, owner, comp, width)]
         IN  Sound(g) /\ SameRequests(h, g)
  <1> DEFINE t == Show(h.stack, owner, comp, width)
  <1>1. t \in Stacks /\ Heeds(t) /\ Tidy(t) /\ Owners(t) = Owners(h.stack) \cup {owner}
    BY ShowHeeds DEF Sound, HostTypeOK
  <1>2. \A o : o[1] = "dialog" => o # owner  OBVIOUS
  <1>3. [h EXCEPT !.stack = Show(@, owner, comp, width)] = [h EXCEPT !.stack = t]  OBVIOUS
  <1> HIDE DEF t
  <1>. QED  BY <1>1, <1>2, <1>3, StackSound

(* Opening a picker keeps a host sound. *)
LEMMA OpenedSound ==
  ASSUME AppTypeOK, NEW h, Sound(h)
  PROVE  LET g == Opened(h) IN Sound(g) /\ SameRequests(h, g)
  <1> DEFINE n == h.pickers + 1
             f == [h EXCEPT !.pickers = n]
             g == [f EXCEPT !.stack = Show(@, Picker(n), Picker(n), Boxed)]
  <1>0. n \in Nat  BY DEF Sound, HostTypeOK
  <1>1. Opened(h) = g  BY DEF Opened, Sound, HostTypeOK, HostFields
  <1>2. /\ DOMAIN f = HostFields /\ f.stack = h.stack /\ f.dialogs = h.dialogs /\ f.slot = h.slot
        /\ f.asked = h.asked /\ f.answers = h.answers /\ f.made = h.made /\ f.seen = h.seen /\ f.gen = h.gen
        /\ f.editor = h.editor /\ f.pickers = n /\ f.wire = h.wire /\ f.mounts = h.mounts
    BY DEF Sound, HostTypeOK, HostFields
  <1> HIDE DEF f, n
  <1>3. Sound(f) /\ SameRequests(h, f)  BY <1>0, <1>2, AsideSound DEF Sound, HostTypeOK
  <1>4. Picker(n) \in Comps /\ Picker(n)[1] # "dialog" /\ Boxed \in Int  BY <1>0, Names
  <1>5. Sound(g) /\ SameRequests(f, g)  BY <1>3, <1>4, ShownSound
  <1>. QED  BY <1>1, <1>3, <1>5, SameTransitive

(* What a handler does to the dialogs of requests: one is closed.          *)
Settles(h, g, id) ==
  g.asked = h.asked /\ g.answers = h.answers /\ g.dialogs = h.dialogs \ {id}

(* Closing a dialog keeps a host sound and takes it off the open dialogs. *)
LEMMA ClosedSound ==
  ASSUME AppTypeOK, NEW h, Sound(h), NEW id \in world.comps \cup world.dialogs
  PROVE  Sound(Closed(h, id)) /\ Settles(h, Closed(h, id), id)
  <1> DEFINE u == Unbox(h, id)
             dead == [c \in DOMAIN u.dead |-> u.dead[c] \/ c = id]
             shown == [c \in DOMAIN u.shown |-> IF c = id THEN Blank ELSE u.shown[c]]
             f == [u EXCEPT !.dead = dead, !.shown = shown]
  <1>1. CASE id \notin h.dialogs  BY <1>1 DEF Closed, Settles
  <1>2. CASE id \in h.dialogs
    <2>1. Closed(h, id) = Focus(f, Ed)  BY <1>2 DEF Closed
    <2>2. Sound(u) /\ u.asked = h.asked /\ u.answers = h.answers /\ u.dialogs = h.dialogs \ {id}  BY UnboxSound
    <2> HIDE DEF u, dead, shown
    <2>3. DOMAIN f = HostFields /\ \A x \in HostFields \ {"dead", "shown"} : f[x] = u[x]
      BY <2>2 DEF Sound, HostTypeOK, HostFields
    <2> HIDE DEF f
    <2>4. Sound(f) /\ SameRequests(u, f) /\ f.dialogs = u.dialogs  BY <2>2, <2>3, FieldsSound
    <2>5. LET g == Focus(f, Ed) IN Sound(g) /\ SameRequests(f, g) /\ g.dialogs = f.dialogs
      BY <2>4, FocusSound, Names
    <2>. QED  BY <2>1, <2>2, <2>4, <2>5 DEF SameRequests, Settles
  <1>. QED  BY <1>1, <1>2

(* A dialog is answered and closed.                                        *)
LEMMA AnsweredAndClosed ==
  ASSUME AppTypeOK, NEW h, Sound(h), Answered(h), NEW id \in h.dialogs
  PROVE  LET g == Closed(Answer(h, id), id) IN Sound(g) /\ Answered(g)
  <1> DEFINE a == Answer(h, id)
  <1>0. id \in world.comps \cup world.dialogs /\ DOMAIN h.answers = world.dialogs
    BY DEF Sound, HostTypeOK
  <1>1. /\ DOMAIN a = HostFields /\ a.stack = h.stack /\ a.dialogs = h.dialogs /\ a.slot = h.slot
        /\ a.asked = h.asked /\ a.made = h.made /\ a.seen = h.seen /\ a.gen = h.gen
        /\ a.editor = h.editor /\ a.pickers = h.pickers /\ a.wire = h.wire /\ a.mounts = h.mounts
        /\ a.answers = IF id \in world.dialogs THEN [h.answers EXCEPT ![id] = @ + 1] ELSE h.answers
    BY <1>0 DEF Answer, Sound, HostTypeOK, HostFields
  <1> HIDE DEF a
  <1>2. h.answers \in [world.dialogs -> Nat]  BY DEF Sound, HostTypeOK
  <1>3. a.answers \in [world.dialogs -> Nat]  BY <1>1, <1>2
  <1>4. Sound(a)  BY <1>1, <1>3 DEF Sound, HostTypeOK, Boxes
  <1>5. Sound(Closed(a, id)) /\ Settles(a, Closed(a, id), id)  BY <1>0, <1>4, ClosedSound
  <1>6. \A d \in world.dialogs : a.answers[d] = IF d \in h.asked \ (h.dialogs \ {id}) THEN 1 ELSE 0
    BY <1>1, <1>2 DEF Answered
  <1>7. LET g == Closed(a, id)
        IN  g.asked = h.asked /\ g.dialogs = h.dialogs \ {id} /\ g.answers = a.answers
    BY <1>1, <1>5 DEF Settles
  <1>8. Answered(Closed(a, id))
    <2>1. h.dialogs \cap world.dialogs \subseteq h.asked  BY DEF Answered
    <2>2. (h.dialogs \ {id}) \cap world.dialogs \subseteq h.asked  BY <2>1
    <2>. QED  BY <1>6, <1>7, <2>2 DEF Answered
  <1>. QED  BY <1>5, <1>8 DEF a

(* A dialog cancelled from outside is answered before it closes. *)
LEMMA CancelledSound ==
  ASSUME AppTypeOK, NEW h, Sound(h), Answered(h), NEW id
  PROVE  LET g == Cancelled(h, id) IN Sound(g) /\ Answered(g)
  BY AnsweredAndClosed DEF Cancelled

(* A dialog cancelled by a key is answered before it closes. *)
LEMMA CancelTopSound ==
  ASSUME AppTypeOK, NEW h, Sound(h), Answered(h), NEW id
  PROVE  LET g == CancelTop(h, id) IN Sound(g) /\ Answered(g)
  <1>1. CASE h.dialogs # {}  BY <1>1, CancelledSound DEF CancelTop
  <1>2. CASE h.dialogs = {}
    <2> DEFINE t == HideTop(h.stack)
               f == [h EXCEPT !.stack = t]
    <2>1. t \in Stacks /\ Heeds(t) /\ Tidy(t) /\ Owners(t) \subseteq Owners(h.stack)
      BY HideTopKeeps DEF Sound, HostTypeOK
    <2>2. \A o : o[1] = "dialog" => o \notin Owners(h.stack)
      BY <1>2 DEF Sound, Boxes
    <2>3. CancelTop(h, id) = Focus(f, Ed)  BY <1>2 DEF CancelTop
    <2> HIDE DEF t
    <2>4. Sound(f) /\ SameRequests(h, f)  BY <2>1, <2>2, StackSound
    <2> HIDE DEF f
    <2>5. LET g == Focus(f, Ed) IN Sound(g) /\ SameRequests(f, g)  BY <2>4, FocusSound, Names
    <2>. QED  BY <2>3, <2>4, <2>5, SameAnswered
  <1>. QED  BY <1>1, <1>2

(* The places that show a component are positions of the stack, finitely many
   of them. *)
LEMMA PlacesTyped ==
  ASSUME AppTypeOK, NEW h, Sound(h), NEW c \in world.comps
  PROVE  /\ Len(h.stack.entries) \in Nat /\ Places(h, c) \in SUBSET (0..Len(h.stack.entries))
         /\ \A i \in Places(h, c) : WidthAt(h, i) \in Int
         /\ Asking(h, c) \subseteq Places(h, c)
         /\ \A S : S \subseteq Asking(h, c) => Cardinality(S) \in Nat
  <1> DEFINE n == Len(h.stack.entries)
  <1>1. h.stack.entries \in Seq(Layer) /\ n \in Nat /\ DOMAIN h.stack.entries = 1..n
    BY DEF Sound, HostTypeOK, Stacks
  <1>2. Visible(h.stack) \subseteq 1..n  BY <1>1 DEF Visible
  <1>3. Places(h, c) \in SUBSET (0..n) /\ \A i \in Places(h, c) : i = 0 \/ i \in 1..n  BY <1>1, <1>2 DEF Places
  <1>4. \A i \in 1..n : Fit(h.stack.entries[i]) \in Int
    <2>1. \A i \in 1..n : h.stack.entries[i] \in Layer  BY <1>1
    <2>2. \A e \in Layer : Fit(e) \in Int  BY Names DEF Layer, Fit
    <2>. QED  BY <2>1, <2>2
  <1>5. \A i \in Places(h, c) : WidthAt(h, i) \in Int  BY <1>3, <1>4, Names DEF WidthAt
  <1>6. Asking(h, c) \subseteq Places(h, c)  BY DEF Asking
  <1>7. ASSUME NEW S, S \subseteq Asking(h, c) PROVE Cardinality(S) \in Nat
    <2> HIDE DEF n
    <2>1. IsFiniteSet(0..n)
      <3>1. n \in Int /\ 0 \in Int  BY <1>1
      <3>. QED  BY <3>1, FS_Interval
    <2>2. S \subseteq 0..n  BY <1>3, <1>6, <1>7
    <2>3. IsFiniteSet(S)  BY <2>1, <2>2, FS_Subset
    <2>. QED  BY <2>3, FS_CardinalityType
  <1>. QED  BY <1>1, <1>3, <1>5, <1>6, <1>7

(* A paint keeps a host sound and its requests. *)
LEMMA PaintedSound ==
  ASSUME AppTypeOK, NEW h, Sound(h)
  PROVE  Sound(Painted(h)) /\ SameRequests(h, Painted(h))
  <1> DEFINE seen == [c \in world.comps |-> IF Live(h, c) /\ Places(h, c) # {} THEN WidthAt(h, Max(Places(h, c)))
                                            ELSE h.seen[c]]
             gen == [c \in world.comps |-> h.gen[c] + Cardinality(Asking(h, c))]
             wire == h.wire \cup UNION {Requests(h, c) : c \in world.comps}
             g == [h EXCEPT !.seen = seen, !.gen = gen, !.wire = wire]
  <1>0. /\ DOMAIN h = HostFields /\ h.gen \in [world.comps -> Nat] /\ h.seen \in [world.comps -> Int]
        /\ h.wire \subseteq Asked
    BY DEF Sound, HostTypeOK
  <1>1. Painted(h) = g  BY DEF Painted
  <1>2. seen \in [world.comps -> Int]
    <2>1. ASSUME NEW c \in world.comps, Places(h, c) # {} PROVE WidthAt(h, Max(Places(h, c))) \in Int
      <3>1. Max(Places(h, c)) \in Places(h, c)  BY <2>1, PlacesTyped, Largest
      <3>. QED  BY <3>1, PlacesTyped
    <2>. QED  BY <1>0, <2>1
  <1>3. gen \in [world.comps -> Nat]
    <2>1. \A c \in world.comps : Cardinality(Asking(h, c)) \in Nat  BY PlacesTyped
    <2>. QED  BY <1>0, <2>1
  <1>4. wire \subseteq Asked
    <2>1. ASSUME NEW c \in world.comps, NEW i \in Asking(h, c)
          PROVE  [id |-> c, gen |-> h.gen[c] + Cardinality({j \in Asking(h, c) : j <= i}), width |-> WidthAt(h, i)]
                   \in Asked
      <3>1. Cardinality({j \in Asking(h, c) : j <= i}) \in Nat /\ WidthAt(h, i) \in Int  BY PlacesTyped
      <3>2. h.gen[c] + Cardinality({j \in Asking(h, c) : j <= i}) \in Nat  BY <1>0, <3>1
      <3>. QED  BY <3>1, <3>2 DEF Asked
    <2>2. \A c \in world.comps : Requests(h, c) \subseteq Asked  BY <2>1 DEF Requests
    <2>. QED  BY <1>0, <2>2
  <1> HIDE DEF seen, gen, wire
  <1>5. /\ DOMAIN g = HostFields /\ g.stack = h.stack /\ g.dialogs = h.dialogs /\ g.slot = h.slot
        /\ g.asked = h.asked /\ g.answers = h.answers /\ g.made = h.made /\ g.seen = seen /\ g.gen = gen
        /\ g.editor = h.editor /\ g.pickers = h.pickers /\ g.wire = wire /\ g.mounts = h.mounts
    BY <1>0 DEF HostFields
  <1> HIDE DEF g
  <1>. QED  BY <1>1, <1>2, <1>3, <1>4, <1>5, AsideSound DEF Sound, HostTypeOK

-----------------------------------------------------------------------------
(* The steps of the application on what it hosts.                          *)
Settled(h) ==
  /\ h.stack.entries = <<>>
  /\ \A d \in world.dialogs : h.answers[d] = IF d \in h.asked THEN 1 ELSE 0

Keeps(g) == Sound(g) /\ Answered(g)

(* Every handler of the hosts keeps them sound and their requests answered. *)
LEMMA HostingKeeps ==
  ASSUME AppTypeOK, Sound(host), Answered(host), HostNext
  PROVE  Keeps(host') /\ world' = world /\ AppTypeOK'
  <1> USE DEF Handles
  <1>1. CASE Paint  BY <1>1, PaintedSound, SameAnswered DEF Paint, Keeps, AppTypeOK
  <1>2. CASE ModelEvent  BY <1>2, RebuildSound, SameAnswered DEF ModelEvent, Keeps, AppTypeOK
  <1>3. CASE ComponentOpen
    <2>1. world.slots \subseteq Slots  BY WorldAssumption DEF AppTypeOK
    <2>2. PICK c \in world.comps, slot \in world.slots : host' = Mounted(host, c, slot)
      BY <1>3 DEF ComponentOpen
    <2>3. Sound(host') /\ SameRequests(host, host')  BY <2>1, <2>2, MountedSound
    <2>. QED  BY <1>3, <2>3, SameAnswered DEF ComponentOpen, Keeps, AppTypeOK
  <1>4. CASE ComponentResult
    <2>1. PICK q \in host.wire :
            LET got   == [host EXCEPT !.wire = @ \ {q}]
                taken == Ensured([got EXCEPT !.last[q.id] = q.gen], q.id)
            IN  host' = IF ~Current(host, q) THEN got
                        ELSE IF taken.dead[q.id] THEN taken
                        ELSE [taken EXCEPT !.shown[q.id] = [gen |-> q.gen, width |-> q.width]]
      BY <1>4, ZenonT(30) DEF ComponentResult
    <2> DEFINE got   == [host EXCEPT !.wire = @ \ {q}]
               noted == [got EXCEPT !.last[q.id] = q.gen]
               taken == Ensured(noted, q.id)
               shown == [taken EXCEPT !.shown[q.id] = [gen |-> q.gen, width |-> q.width]]
    <2>2. host' = got \/ host' = taken \/ host' = shown  BY <2>1
    <2>3. q.id \in world.comps  BY DEF Sound, HostTypeOK, Asked
    <2>4. /\ DOMAIN got = HostFields /\ got.stack = host.stack /\ got.dialogs = host.dialogs /\ got.slot = host.slot
          /\ got.asked = host.asked /\ got.answers = host.answers /\ got.made = host.made /\ got.seen = host.seen
          /\ got.gen = host.gen /\ got.editor = host.editor /\ got.pickers = host.pickers
          /\ got.wire = host.wire \ {q} /\ got.mounts = host.mounts
      BY DEF Sound, HostTypeOK, HostFields
    <2>5. Sound(got) /\ SameRequests(host, got)
      <3>1. got.wire \subseteq Asked  BY <2>4 DEF Sound, HostTypeOK
      <3> HIDE DEF got
      <3>. QED  BY <2>4, <3>1, AsideSound DEF Sound, HostTypeOK
    <2> HIDE DEF got
    <2>6. DOMAIN noted = HostFields /\ \A x \in HostFields \ {"last"} : noted[x] = got[x]
      BY <2>4 DEF HostFields
    <2> HIDE DEF noted
    <2>7. Sound(noted) /\ SameRequests(got, noted)  BY <2>5, <2>6, FieldsSound
    <2>8. Sound(taken) /\ SameRequests(noted, taken)  BY <2>3, <2>7, EnsuredSound
    <2> HIDE DEF taken
    <2>9. DOMAIN shown = HostFields /\ \A x \in HostFields \ {"shown"} : shown[x] = taken[x]
      BY <2>8 DEF Sound, HostTypeOK, HostFields
    <2> HIDE DEF shown
    <2>10. Sound(shown) /\ SameRequests(taken, shown)  BY <2>8, <2>9, FieldsSound
    <2>11. Sound(host') /\ SameRequests(host, host')
      BY <2>2, <2>5, <2>7, <2>8, <2>10 DEF SameRequests
    <2>. QED  BY <1>4, <2>11, SameAnswered DEF ComponentResult, Keeps, AppTypeOK
  <1>5. CASE ComponentInvalidate
    BY <1>5, InvalidatedSound, SameAnswered DEF ComponentInvalidate, Keeps, AppTypeOK
  <1>6. CASE ComponentDispose
    BY <1>6, DisposedSound, SameAnswered DEF ComponentDispose, Keeps, AppTypeOK
  <1>7. CASE ComponentFocus
    <2>1. PICK c \in world.comps, on \in BOOLEAN :
            host' = IF on THEN IF host.slot[c] = "overlay" THEN Focus(host, Object(host, c))
                               ELSE [host EXCEPT !.root = Object(host, c)]
                    ELSE IF host.root = Object(host, c) THEN [host EXCEPT !.root = Ed] ELSE host
      BY <1>7 DEF ComponentFocus
    <2> DEFINE f(r) == [host EXCEPT !.root = r]
    <2>2. \A r : DOMAIN f(r) = HostFields /\ \A x \in HostFields \ {"root"} : f(r)[x] = host[x]
      BY DEF Sound, HostTypeOK, HostFields
    <2> HIDE DEF f
    <2>3. \A r : Sound(f(r)) /\ SameRequests(host, f(r))  BY <2>2, FieldsSound
    <2>4. LET g == Focus(host, Object(host, c)) IN Sound(g) /\ SameRequests(host, g)
      BY Names, FocusSound DEF Sound
    <2>5. \/ host' = Focus(host, Object(host, c)) \/ \E r : host' = f(r) \/ host' = host
      BY <2>1 DEF f
    <2>6. Sound(host') /\ SameRequests(host, host')  BY <2>3, <2>4, <2>5 DEF SameRequests
    <2>. QED  BY <1>7, <2>6, SameAnswered DEF ComponentFocus, Keeps, AppTypeOK
  <1>8. CASE OverlayMount
    <2>1. PICK o \in world.mounts, c \in world.comps \cup {None} :
            LET backed == IF c = None THEN host
                          ELSE LET h == Ensured(host, c)
                               IN  IF c \in h.dialogs THEN Unbox(h, c) ELSE h
                comp   == IF c = None THEN Mount(o) ELSE Object(backed, c)
                shown  == [Unshow(backed, Mount(o)) EXCEPT !.mounts = @ \cup {o}]
            IN  host' = Focus([shown EXCEPT !.stack = Show(@, Mount(o), comp, Boxed)], comp)
      BY <1>8, ZenonT(30) DEF OverlayMount
    <2> DEFINE h == Ensured(host, c)
               backed == IF c = None THEN host ELSE IF c \in h.dialogs THEN Unbox(h, c) ELSE h
               comp == IF c = None THEN Mount(o) ELSE Object(backed, c)
               u == Unshow(backed, Mount(o))
               m == [u EXCEPT !.mounts = @ \cup {o}]
               shown == [m EXCEPT !.stack = Show(@, Mount(o), comp, Boxed)]
    <2>2. host' = Focus(shown, comp)  BY <2>1
    <2>3. Sound(backed) /\ SameRequests(host, backed)
      <3>1. CASE c = None  BY <3>1 DEF SameRequests
      <3>2. CASE c # None
        <4>1. c \in world.comps /\ c \notin world.dialogs  BY <3>2, WorldAssumption DEF AppTypeOK
        <4>2. Sound(h) /\ SameRequests(host, h)  BY <4>1, EnsuredSound
        <4>3. backed = IF c \in h.dialogs THEN Unbox(h, c) ELSE h  BY <3>2
        <4> HIDE DEF h, backed
        <4>4. LET g == Unbox(h, c) IN Sound(g) /\ g.asked = h.asked /\ g.answers = h.answers /\ g.dialogs = h.dialogs \ {c}
          BY <4>1, <4>2, UnboxSound
        <4>. QED  BY <4>1, <4>2, <4>3, <4>4 DEF SameRequests
      <3>. QED  BY <3>1, <3>2
    <2> HIDE DEF backed
    <2>4. comp \in Comps /\ comp[1] # "dialog" /\ Mount(o) \in Comps /\ Mount(o)[1] # "dialog" /\ Boxed \in Int
      BY <2>3, Names DEF Sound
    <2> HIDE DEF comp
    <2>5. Sound(u) /\ SameRequests(backed, u)  BY <2>3, <2>4, UnshowSound
    <2> HIDE DEF u
    <2>6. /\ DOMAIN m = HostFields /\ m.stack = u.stack /\ m.dialogs = u.dialogs /\ m.slot = u.slot
          /\ m.asked = u.asked /\ m.answers = u.answers /\ m.made = u.made /\ m.seen = u.seen
          /\ m.gen = u.gen /\ m.editor = u.editor /\ m.pickers = u.pickers
          /\ m.wire = u.wire /\ m.mounts = u.mounts \cup {o}
      BY <2>5 DEF Sound, HostTypeOK, HostFields
    <2> HIDE DEF m
    <2>7. Sound(m) /\ SameRequests(u, m)  BY <2>5, <2>6, AsideSound DEF Sound, HostTypeOK
    <2>8. Sound(shown) /\ SameRequests(m, shown)  BY <2>4, <2>7, ShownSound
    <2> HIDE DEF shown
    <2>9. LET g == Focus(shown, comp) IN Sound(g) /\ SameRequests(shown, g)  BY <2>4, <2>8, FocusSound
    <2>10. Sound(host') /\ SameRequests(host, host')
      BY <2>2, <2>3, <2>5, <2>7, <2>8, <2>9 DEF SameRequests
    <2>. QED  BY <1>8, <2>10, SameAnswered DEF OverlayMount, Keeps, AppTypeOK
  <1>9. CASE OverlayUnmount
    <2>1. PICK o \in host.mounts : host' = Focus([Unshow(host, Mount(o)) EXCEPT !.mounts = @ \ {o}], Ed)
      BY <1>9 DEF OverlayUnmount
    <2> DEFINE u == Unshow(host, Mount(o))
               m == [u EXCEPT !.mounts = @ \ {o}]
    <2>2. Mount(o)[1] # "dialog"  BY Names DEF Sound, HostTypeOK
    <2>3. Sound(u) /\ SameRequests(host, u)  BY <2>2, UnshowSound
    <2>4. host' = Focus(m, Ed)  BY <2>1
    <2> HIDE DEF u
    <2>5. /\ DOMAIN m = HostFields /\ m.stack = u.stack /\ m.dialogs = u.dialogs /\ m.slot = u.slot
          /\ m.asked = u.asked /\ m.answers = u.answers /\ m.made = u.made /\ m.seen = u.seen
          /\ m.gen = u.gen /\ m.editor = u.editor /\ m.pickers = u.pickers
          /\ m.wire = u.wire /\ m.mounts = u.mounts \ {o}
      BY <2>3 DEF Sound, HostTypeOK, HostFields
    <2> HIDE DEF m
    <2>6. Sound(m) /\ SameRequests(u, m)  BY <2>3, <2>5, AsideSound DEF Sound, HostTypeOK
    <2>7. Sound(host') /\ SameRequests(m, host')  BY <2>4, <2>6, Names, FocusSound
    <2>8. SameRequests(host, host')  BY <2>3, <2>6, <2>7 DEF SameRequests
    <2>. QED  BY <1>9, <2>7, <2>8, SameAnswered DEF OverlayUnmount, Keeps, AppTypeOK
  <1>10. CASE OverlayUpdate
    <2>1. PICK o \in host.mounts, hidden \in BOOLEAN :
            host' = [host EXCEPT !.stack = SetHidden(@, Mount(o), hidden)]
      BY <1>10 DEF OverlayUpdate
    <2> DEFINE t == SetHidden(host.stack, Mount(o), hidden)
    <2>2. t \in Stacks /\ Heeds(t) /\ Tidy(t) /\ Owners(t) = Owners(host.stack)
      BY SetHiddenKeeps DEF Sound, HostTypeOK
    <2>3. host' = [host EXCEPT !.stack = t]  BY <2>1
    <2> HIDE DEF t
    <2>4. Sound(host') /\ SameRequests(host, host')  BY <2>2, <2>3, StackSound
    <2>. QED  BY <1>10, <2>4, SameAnswered DEF OverlayUpdate, Keeps, AppTypeOK
  <1>11. CASE ExtensionAsks
    <2>1. PICK d \in world.dialogs \ host.asked :
            \/ host' = Box([host EXCEPT !.asked = @ \cup {d}], d, Dialog(d))
            \/ host' = Answer([host EXCEPT !.asked = @ \cup {d}], d)
      BY <1>11, ZenonT(30) DEF ExtensionAsks
    <2> DEFINE h == [host EXCEPT !.asked = @ \cup {d}]
               a == Answer(h, d)
    <2>2. /\ DOMAIN h = HostFields /\ h.stack = host.stack /\ h.dialogs = host.dialogs /\ h.slot = host.slot
          /\ h.asked = host.asked \cup {d} /\ h.answers = host.answers /\ h.made = host.made /\ h.seen = host.seen
          /\ h.gen = host.gen /\ h.editor = host.editor /\ h.pickers = host.pickers
          /\ h.wire = host.wire /\ h.mounts = host.mounts
      BY DEF Sound, HostTypeOK, HostFields
    <2> HIDE DEF h
    <2>3. Sound(h)  BY <2>2 DEF Sound, HostTypeOK, Boxes
    <2>4. d \notin h.dialogs /\ d \notin world.comps  BY <2>2, WorldAssumption DEF Answered, AppTypeOK
    <2>5. \A e \in world.dialogs : host.answers[e] = IF e \in host.asked \ host.dialogs THEN 1 ELSE 0
      BY DEF Answered
    <2>6. host.dialogs \cap world.dialogs \subseteq host.asked  BY DEF Answered
    <2>7. CASE host' = Box(h, d, Dialog(d))
      <3>1. Dialog(d) \in Comps  BY Names
      <3>2. /\ Sound(host') /\ host'.asked = h.asked /\ host'.answers = h.answers
            /\ host'.dialogs = h.dialogs \cup {d}
        BY <2>3, <2>4, <2>7, <3>1, BoxSound
      <3>3. Answered(host')  BY <2>2, <2>5, <2>6, <3>2 DEF Answered
      <3>. QED  BY <1>11, <3>2, <3>3 DEF ExtensionAsks, Keeps, AppTypeOK
    <2>8. CASE host' = a
      <3>1. /\ DOMAIN a = HostFields /\ a.stack = h.stack /\ a.dialogs = h.dialogs /\ a.slot = h.slot
            /\ a.asked = h.asked /\ a.answers = [h.answers EXCEPT ![d] = @ + 1] /\ a.made = h.made /\ a.seen = h.seen
            /\ a.gen = h.gen /\ a.editor = h.editor /\ a.pickers = h.pickers
            /\ a.wire = h.wire /\ a.mounts = h.mounts
        BY <2>3 DEF Answer, Sound, HostTypeOK, HostFields
      <3> HIDE DEF a
      <3>2. h.answers \in [world.dialogs -> Nat]  BY <2>3 DEF Sound, HostTypeOK
      <3>3. a.answers \in [world.dialogs -> Nat]  BY <3>1, <3>2
      <3>4. Sound(a)  BY <2>3, <3>1, <3>3 DEF Sound, HostTypeOK, Boxes
      <3>5. \A e \in world.dialogs : a.answers[e] = IF e \in a.asked \ a.dialogs THEN 1 ELSE 0
        BY <2>2, <2>4, <2>5, <3>1, <3>2
      <3>6. Answered(a)  BY <2>2, <2>6, <3>1, <3>5 DEF Answered
      <3>. QED  BY <1>11, <2>8, <3>4, <3>6 DEF ExtensionAsks, Keeps, AppTypeOK
    <2>. QED  BY <2>1, <2>7, <2>8 DEF h
  <1>12. CASE ExtensionCancels
    <2>1. (\E d : host' = Cancelled(host, d)) \/ (\E d : host' = CancelTop(host, d))
      BY <1>12 DEF ExtensionCancels
    <2>. QED  BY <1>12, <2>1, CancelledSound, CancelTopSound DEF ExtensionCancels, Keeps, AppTypeOK
  <1>13. CASE Resize
    <2> DEFINE remotes == {c \in world.comps : host.slot[c] # None}
               width(c) == IF host.seen[c] > 0 THEN host.seen[c] ELSE Whole'
               t == ReconcileFocus(host.stack)
               gen == [c \in world.comps |-> IF c \in remotes THEN host.gen[c] + 1 ELSE host.gen[c]]
               wire == host.wire \cup {[id |-> c, gen |-> host.gen[c] + 1, width |-> width(c)] : c \in remotes}
               s == [host EXCEPT !.stack = t]
               g == [host EXCEPT !.stack = t, !.gen = gen, !.wire = wire]
    <2>1. host' = g /\ world' = world /\ cols' = cols - 1 /\ cols > 1  BY <1>13 DEF Resize
    <2>2. t \in Stacks /\ t.entries = host.stack.entries /\ Heeds(t)  BY ReconcileKeeps DEF Sound, HostTypeOK
    <2>3. Owners(t) = Owners(host.stack) /\ Tidy(t)  BY <2>2 DEF Owners, Tidy, Sound
    <2>4. host.gen \in [world.comps -> Nat] /\ host.seen \in [world.comps -> Int] /\ host.wire \subseteq Asked
      BY DEF Sound, HostTypeOK
    <2>5. gen \in [world.comps -> Nat]  BY <2>4
    <2>6. AppTypeOK'  BY <2>1 DEF AppTypeOK
    <2>7. Whole' \in Int  BY <2>6 DEF AppTypeOK, Whole
    <2>8. \A c \in remotes : host.gen[c] + 1 \in Nat /\ width(c) \in Int  BY <2>4, <2>7
    <2> HIDE DEF width
    <2>9. wire \subseteq Asked  BY <2>4, <2>8 DEF Asked
    <2> HIDE DEF t, gen, wire
    <2>10. Sound(s) /\ SameRequests(host, s)  BY <2>2, <2>3, StackSound
    <2>11. /\ DOMAIN g = HostFields /\ g.stack = s.stack /\ g.dialogs = s.dialogs /\ g.slot = s.slot
           /\ g.asked = s.asked /\ g.answers = s.answers /\ g.made = s.made /\ g.seen = s.seen
           /\ g.gen = gen /\ g.editor = s.editor /\ g.pickers = s.pickers /\ g.wire = wire /\ g.mounts = s.mounts
      BY DEF Sound, HostTypeOK, HostFields
    <2> HIDE DEF s, g
    <2>12. Sound(g) /\ SameRequests(s, g)
      BY <2>5, <2>9, <2>10, <2>11, AsideSound DEF Sound, HostTypeOK
    <2>13. Keeps(g)  BY <2>10, <2>12, SameAnswered, SameTransitive DEF Keeps
    <2>. QED  BY <2>1, <2>6, <2>13
  <1>14. CASE KeyToOverlay
    <2> DEFINE comp == host.stack.focused
    <2>1. PICK i \in Visible(host.stack) : host.stack.entries[i].comp = comp
      BY <1>14 DEF KeyToOverlay, Sound, Heeds
    <2>2. i \in DOMAIN host.stack.entries  BY DEF Visible
    <2>3. CASE comp[1] = "dialog" /\ host' = Closed(Answer(host, comp[2]), comp[2])
      <3>1. comp \in Owners(host.stack)  BY <2>1, <2>2, <2>3 DEF Sound, Tidy, Owners
      <3>2. PICK id \in world.comps \cup world.dialogs : comp = Dialog(id)  BY <2>3, <3>1 DEF Sound, Boxes
      <3>3. id \in host.dialogs /\ comp[2] = id  BY <3>1, <3>2, Names DEF Sound, Boxes
      <3>. QED  BY <1>14, <2>3, <3>3, AnsweredAndClosed DEF KeyToOverlay, Keeps, AppTypeOK
    <2>4. CASE comp[1] = "picker" /\ host' = Unshow(host, comp)
      <3>1. Sound(host') /\ SameRequests(host, host')  BY <2>4, UnshowSound
      <3>. QED  BY <1>14, <3>1, SameAnswered DEF KeyToOverlay, Keeps, AppTypeOK
    <2>. QED  BY <1>14, <2>3, <2>4 DEF KeyToOverlay
  <1>15. CASE ~Paint /\ HostNext
    BY <1>2, <1>3, <1>4, <1>5, <1>6, <1>7, <1>8, <1>9, <1>10, <1>11, <1>12, <1>13, <1>14, <1>15 DEF HostNext
  <1>. QED  BY <1>1, <1>15

(* Shutting down hides every overlay and answers what is still asked. *)
LEMMA ShutDownSettles ==
  ASSUME AppTypeOK, NEW h, Sound(h), Answered(h)
  PROVE  Settled(ShutDown(h))
  <1> DEFINE open == h.dialogs \ {c \in world.comps : h.slot[c] \in {"overlay", "tool"}}
             answers == [d \in world.dialogs |-> IF d \in open THEN h.answers[d] + 1 ELSE h.answers[d]]
             g == ShutDown(h)
  <1>1. /\ g.stack.entries = <<>> /\ g.answers = answers /\ g.asked = h.asked
    BY DEF ShutDown, Sound, HostTypeOK, HostFields, Stacks
  <1>2. \A d \in world.dialogs : d \in open <=> d \in h.dialogs  BY WorldAssumption DEF AppTypeOK
  <1> HIDE DEF g, open
  <1>3. \A d \in world.dialogs : answers[d] = IF d \in h.asked THEN 1 ELSE 0  BY <1>2 DEF Answered
  <1>. QED  BY <1>1, <1>3 DEF Settled, g

(* While the loop runs every dialog is on the stack or answered; when it   *)
(* has ended, all are answered and the stack is empty.                     *)
HostCorrect == AppTypeOK /\ IF ended THEN Settled(host) ELSE Keeps(host)

(* The application starts with sound hosts and nothing asked. *)
LEMMA HostCorrectInit == Init => HostCorrect
  <1> SUFFICES ASSUME Init PROVE HostCorrect
    OBVIOUS
  <1>1. AppTypeOK /\ ~ended  BY DEF Init, HostInit, JobsInit, AppTypeOK
  <1>2. /\ DOMAIN host = HostFields
        /\ host.stack = [entries |-> <<>>, focused |-> Ed, base |-> Ed] /\ host.dialogs = {} /\ host.mounts = {}
        /\ host.pickers = 0 /\ host.slot = [c \in world.comps |-> None] /\ host.made = [c \in world.comps |-> 0]
        /\ host.seen = [c \in world.comps |-> 0] /\ host.gen = [c \in world.comps |-> 0] /\ host.editor = None
        /\ host.wire = {} /\ host.asked = {} /\ host.answers = [d \in world.dialogs |-> 0]
    BY DEF Init, HostInit, HostFields
  <1>3. host.stack \in Stacks  BY <1>1, <1>2, Names DEF Stacks
  <1>4. host.stack.entries = <<>> /\ DOMAIN host.stack.entries = {}  BY <1>2
  <1>5. Heeds(host.stack) /\ Tidy(host.stack) /\ Owners(host.stack) = {}
    BY <1>4 DEF Heeds, HasVisible, Visible, Tidy, Owners
  <1>6. HostTypeOK(host)  BY <1>2, <1>3 DEF HostTypeOK
  <1>7. Boxes(host)  BY <1>2, <1>5 DEF Boxes
  <1>8. Answered(host)  BY <1>2 DEF Answered
  <1>. QED  BY <1>1, <1>5, <1>6, <1>7, <1>8 DEF HostCorrect, Keeps, Sound

(* Handling an outcome keeps the hosts sound and the requests answered. *)
LEMMA OutcomeKeeps ==
  ASSUME AppTypeOK, Keeps(host), NEW c, HandleOutcome(c)
  PROVE  Keeps(host')
  <1> DEFINE r == Rebuild(host)
             o == Opened(r)
  <1>1. host' = r \/ host' = o \/ host' = host  BY DEF HandleOutcome
  <1>2. Sound(r) /\ SameRequests(host, r)  BY RebuildSound DEF Keeps
  <1> HIDE DEF r
  <1>3. Sound(o) /\ SameRequests(r, o)  BY <1>2, OpenedSound
  <1>. QED  BY <1>1, <1>2, <1>3, SameAnswered DEF Keeps

(* Ctrl+C, over an overlay or not, keeps the hosts sound and the requests
   answered. *)
LEMMA CtrlCKeeps ==
  ASSUME AppTypeOK, Keeps(host), NEW rest, CtrlCOverlay(rest) \/ CtrlC(rest)
  PROVE  Keeps(host')
  <1>1. CASE CtrlCOverlay(rest)
    <2>1. \E d : host' = CancelTop(host, d)  BY <1>1 DEF CtrlCOverlay
    <2>. QED  BY <2>1, CancelTopSound DEF Keeps
  <1>2. CASE CtrlC(rest)
    <2>1. host' = host \/ host' = Rebuild(host)  BY <1>2 DEF CtrlC
    <2>. QED  BY <2>1, RebuildSound, SameAnswered DEF Keeps
  <1>. QED  BY <1>1, <1>2

(* Every step of the program keeps the hosts correct. *)
LEMMA HostCorrectKept == HostCorrect /\ [Next]_appVars => HostCorrect'
  <1> SUFFICES ASSUME HostCorrect, [Next]_appVars PROVE HostCorrect'
    OBVIOUS
  <1>0. AppTypeOK  BY DEF HostCorrect
  <1>1. ASSUME ~ended, ~ended', world' = world, cols' = cols, Keeps(host') PROVE HostCorrect'
    BY <1>0, <1>1 DEF HostCorrect, AppTypeOK, Keeps, Sound, HostTypeOK, Heeds, Boxes, Answered, Asked
  <1>2. ASSUME UNCHANGED <<hostVars, ended>> PROVE HostCorrect'
    BY <1>2 DEF hostVars, HostCorrect, AppTypeOK, Keeps, Sound, HostTypeOK, Heeds, Boxes, Answered, Asked, Settled
  <1>3. CASE Hosting
    <2>1. ~ended /\ ended' = ended /\ HostNext  BY <1>3 DEF Hosting, Running, jobVars
    <2>2. Keeps(host)  BY <2>1 DEF HostCorrect
    <2>3. Keeps(host') /\ world' = world /\ AppTypeOK'
      <3>1. Sound(host) /\ Answered(host)  BY <2>2 DEF Keeps
      <3>. QED  BY <1>0, <2>1, <3>1, HostingKeeps
    <2>. QED  BY <2>1, <2>3 DEF HostCorrect, Keeps, Sound, HostTypeOK, Heeds, Boxes, Answered, Asked
  <1>4. CASE Paste
    <2>1. ~ended /\ ended' = ended /\ host' = Rebuild(host) /\ world' = world /\ cols' = cols
      BY <1>4 DEF Paste, EditorHasKeys, Free, Running
    <2>2. Keeps(host)  BY <2>1 DEF HostCorrect
    <2>. QED  BY <1>0, <1>1, <2>1, <2>2, RebuildSound, SameAnswered DEF Keeps
  <1>5. CASE Type \/ Submit \/ AskFor
    <2>1. ~ended /\ ended' = ended /\ host' = host /\ world' = world /\ cols' = cols
      BY <1>5 DEF Type, Submit, AskFor, EditorHasKeys, Free, Running
    <2>. QED  BY <1>1, <2>1 DEF HostCorrect
  <1>6. CASE Choose
    <2>1. /\ ~ended /\ ended' = ended /\ host' = Unshow(host, host.stack.focused)
          /\ host.stack.focused[1] = "picker" /\ world' = world /\ cols' = cols
      BY <1>6 DEF Choose, Free, Running, Handles
    <2>2. Keeps(host)  BY <2>1 DEF HostCorrect
    <2>3. Keeps(host')  BY <1>0, <2>1, <2>2, UnshowSound, SameAnswered DEF Keeps
    <2>. QED  BY <1>1, <2>1, <2>3
  <1>7. CASE TakeCommand
    <2>1. /\ ~ended /\ ended' = ended /\ world' = world /\ cols' = cols
          /\ \/ host' = host
             \/ HandleOutcome(Head(cmds))
             \/ CtrlCOverlay(Tail(cmds)) \/ CtrlC(Tail(cmds))
      BY <1>7 DEF TakeCommand, Free, Running
    <2>2. Keeps(host)  BY <2>1 DEF HostCorrect
    <2>3. Keeps(host')  BY <1>0, <2>1, <2>2, OutcomeKeeps, CtrlCKeeps
    <2>. QED  BY <1>1, <2>1, <2>3
  <1>8. CASE CtrlCKey
    <2>1. ~ended /\ ended' = ended /\ world' = world /\ cols' = cols /\ CtrlC(cmds)
      BY <1>8 DEF CtrlCKey, EditorHasKeys, Free, Running
    <2>2. Keeps(host)  BY <2>1 DEF HostCorrect
    <2>. QED  BY <1>0, <1>1, <2>1, <2>2, CtrlCKeeps
  <1>9. CASE End
    <2>1. ~ended /\ ended' /\ host' = ShutDown(host) /\ world' = world /\ cols' = cols
      BY <1>9 DEF End, Running
    <2>2. Sound(host) /\ Answered(host)  BY <2>1 DEF HostCorrect, Keeps
    <2>3. Settled(host')  BY <1>0, <2>1, <2>2, ShutDownSettles
    <2>. QED  BY <1>0, <2>1, <2>3 DEF HostCorrect, AppTypeOK, Settled
  <1>10. CASE Interrupted \/ Quit \/ Queueing \/ Working \/ UNCHANGED appVars
    <2>1. UNCHANGED <<hostVars, ended>>
      BY <1>10 DEF Interrupted, SignalArrives, Quit, ContextEnds, Queueing, Enqueue, Unqueued, Working, TakeJob,
                   CallEnds, PostDone, DropDone, appVars, jobVars
    <2>. QED  BY <1>2, <2>1
  <1>. QED  BY <1>3, <1>4, <1>5, <1>6, <1>7, <1>8, <1>9, <1>10 DEF Next

(* The hosts are correct in every reachable state. *)
LEMMA HostIsCorrect == Spec => []HostCorrect
  <1>. QED  BY HostCorrectInit, HostCorrectKept, PTL DEF Spec

(* For every set of worlds: no request of an extension is answered twice,  *)
(* an open one has its dialog on the stack, and the end of the loop leaves *)
(* none unanswered (rpc.go, extension.go, shutdown).                       *)
THEOREM RequestsAreAnswered == Spec => []DialogsAnsweredOnce
  <1>1. HostCorrect => DialogsAnsweredOnce
    <2> SUFFICES ASSUME HostCorrect, NEW d \in world.dialogs
                 PROVE  /\ host.answers[d] <= 1
                        /\ d \in host.asked /\ host.answers[d] = 0 => ~ended /\ Dialog(d) \in Owners(host.stack)
                        /\ Dialog(d) \in Owners(host.stack) => host.answers[d] = 0
      BY DEF DialogsAnsweredOnce
    <2>1. CASE ended
      <3>1. Owners(host.stack) = {}
        <4>1. host.stack.entries = <<>>  BY <2>1 DEF HostCorrect, Settled
        <4>2. DOMAIN host.stack.entries = {}  BY <4>1
        <4>. QED  BY <4>2 DEF Owners
      <3>2. host.answers[d] = IF d \in host.asked THEN 1 ELSE 0  BY <2>1 DEF HostCorrect, Settled
      <3>. QED  BY <3>1, <3>2
    <2>2. CASE ~ended
      <3>1. Dialog(d) \in Owners(host.stack) <=> d \in host.dialogs
        BY <2>2 DEF HostCorrect, Keeps, Sound, Boxes
      <3>2. host.answers[d] = IF d \in host.asked \ host.dialogs THEN 1 ELSE 0
        BY <2>2 DEF HostCorrect, Keeps, Answered
      <3>. QED  BY <2>2, <3>1, <3>2
    <2>. QED  BY <2>1, <2>2
  <1>. QED  BY <1>1, HostIsCorrect, PTL

(* For every set of worlds: while an overlay is visible the keys go to one *)
(* that is visible (interact/overlay.go), whatever order the core mounts,  *)
(* hides, unmounts and disposes in.                                        *)
THEOREM OverlaysGetTheKeys == Spec => []KeysReachAVisibleOverlay
  <1>1. HostCorrect => KeysReachAVisibleOverlay
    <2> SUFFICES ASSUME HostCorrect PROVE KeysReachAVisibleOverlay
      OBVIOUS
    <2>1. CASE ended
      <3>1. host.stack.entries = <<>>  BY <2>1 DEF HostCorrect, Settled
      <3>2. DOMAIN host.stack.entries = {}  BY <3>1
      <3>. QED  BY <3>2 DEF KeysReachAVisibleOverlay, HasVisible, Visible
    <2>2. CASE ~ended  BY <2>2 DEF HostCorrect, Keeps, Sound, Heeds, KeysReachAVisibleOverlay
    <2>. QED  BY <2>1, <2>2
  <1>. QED  BY <1>1, HostIsCorrect, PTL

-----------------------------------------------------------------------------
(* The rows of a remote component.                                         *)
RowTypes(h) ==
  /\ DOMAIN h = HostFields
  /\ h.slot \in [world.comps -> Slots \cup {None}] /\ h.gen \in [world.comps -> Nat]
  /\ h.last \in [world.comps -> Nat] /\ h.seen \in [world.comps -> Int]
  /\ DOMAIN h.shown = world.comps /\ DOMAIN h.dead = world.comps /\ h.wire \subseteq Asked

(* No request is newer than the counter; the newest is for the width that  *)
(* the component was last painted at.                                      *)
UpTo(h, c) ==
  /\ \A q \in h.wire : q.id = c =>
       q.gen <= h.gen[c] /\ (q.gen = h.gen[c] /\ h.seen[c] > 0 => q.width = h.seen[c])
  /\ h.last[c] <= h.gen[c]

(* The newest request is on its way, or its answer is shown.               *)
Kept(h, c) ==
  \/ \E q \in h.wire : q.id = c /\ q.gen = h.gen[c]
  \/ h.shown[c].gen = h.gen[c] /\ (h.seen[c] > 0 => h.shown[c].width = h.seen[c])

RowsOf(h, c) ==
  /\ UpTo(h, c)
  /\ h.slot[c] = None => \A q \in h.wire : q.id # c
  /\ Live(h, c) => Kept(h, c)

Newest(h) == RowTypes(h) /\ \A c \in world.comps \ h.reused : RowsOf(h, c)

(* A piece of a handler that has to do with no rows.                       *)
SameRows(h, g) ==
  /\ DOMAIN g = HostFields
  /\ g.wire = h.wire /\ g.gen = h.gen /\ g.seen = h.seen /\ g.shown = h.shown
  /\ g.slot = h.slot /\ g.dead = h.dead /\ g.last = h.last /\ g.reused = h.reused

(* Two steps that leave the rows of remotes alone leave them alone together.
   *)
LEMMA SameRowsTrans ==
  ASSUME NEW f, NEW g, NEW h, SameRows(f, g), SameRows(g, h)
  PROVE  SameRows(f, h)
  BY DEF SameRows

(* What has been asked of and shown by remotes decides whether the newest
   answer is shown. *)
LEMMA NewestSame ==
  ASSUME NEW h, NEW g, Newest(h), SameRows(h, g)
  PROVE  Newest(g)
  BY DEF SameRows, Newest, RowTypes, RowsOf, UpTo, Kept, Live

(* Focus, boxes and the root are aside from the rows of remotes. *)
LEMMA PiecesAside ==
  ASSUME NEW h, DOMAIN h = HostFields
  PROVE  /\ SameRows(h, h) /\ SameRows(h, Rebuild(h))
         /\ \A x : SameRows(h, Focus(h, x)) /\ SameRows(h, Unshow(h, x)) /\ SameRows(h, Unbox(h, x))
         /\ \A x, y : SameRows(h, Box(h, x, y))
  <1>1. SameRows(h, h)  BY DEF SameRows
  <1>2. SameRows(h, Rebuild(h))  BY DEF SameRows, Rebuild, HostFields
  <1>3. \A g : DOMAIN g = HostFields => \A x : SameRows(g, Focus(g, x))  BY DEF SameRows, Focus, HostFields
  <1>4. \A x : SameRows(h, Unshow(h, x))  BY DEF SameRows, Unshow, HostFields
  <1>5. \A x : SameRows(h, Unbox(h, x))  BY DEF SameRows, Unbox, Unshow, HostFields
  <1>6. ASSUME NEW x, NEW y PROVE SameRows(h, Box(h, x, y))
    <2> DEFINE t == Show(h.stack, Dialog(x), y, Boxed)
               f == [h EXCEPT !.stack = t, !.dialogs = @ \cup {x}]
    <2>1. Box(h, x, y) = Focus(f, y)  BY DEF Box, HostFields
    <2> HIDE DEF t
    <2>2. SameRows(h, f)  BY DEF SameRows, HostFields
    <2> HIDE DEF f
    <2>3. SameRows(f, Focus(f, y))  BY <1>3, <2>2 DEF SameRows
    <2>. QED  BY <2>1, <2>2, <2>3, SameRowsTrans
  <1>. QED  BY <1>1, <1>2, <1>3, <1>4, <1>5, <1>6

(* Putting a component into its slot is aside from the rows of remotes. *)
LEMMA SlottedAside ==
  ASSUME NEW h, DOMAIN h = HostFields, NEW c, NEW slot
  PROVE  SameRows(h, Slotted(h, c, slot))
  <1> DEFINE r == Object(h, c)
  <1>1. ASSUME NEW f, SameRows(h, f) PROVE SameRows(h, Rebuild(f))
    <2>1. SameRows(f, Rebuild(f))  BY <1>1, PiecesAside DEF SameRows
    <2>. QED  BY <1>1, <2>1, SameRowsTrans
  <1>2. /\ SameRows(h, [h EXCEPT !.header = r]) /\ SameRows(h, [h EXCEPT !.widgets = @ \cup {r}])
        /\ SameRows(h, [h EXCEPT !.editor = r])
    BY DEF SameRows, HostFields
  <1>3. \/ Slotted(h, c, slot) = Rebuild([h EXCEPT !.header = r])
        \/ Slotted(h, c, slot) = Rebuild([h EXCEPT !.widgets = @ \cup {r}])
        \/ Slotted(h, c, slot) = Rebuild([h EXCEPT !.editor = r])
        \/ Slotted(h, c, slot) = Box(h, c, r)
    BY DEF Slotted
  <1> HIDE DEF r
  <1>. QED  BY <1>1, <1>2, <1>3, PiecesAside

(* Taking a component out of its slot is aside from the rows of remotes. *)
LEMMA UnslottedAside ==
  ASSUME NEW h, DOMAIN h = HostFields, NEW c
  PROVE  SameRows(h, Unslotted(h, c))
  <1> DEFINE r == Object(h, c)
  <1>1. ASSUME NEW f, SameRows(h, f) PROVE SameRows(h, Rebuild(f))
    <2>1. SameRows(f, Rebuild(f))  BY <1>1, PiecesAside DEF SameRows
    <2>. QED  BY <1>1, <2>1, SameRowsTrans
  <1>2. /\ SameRows(h, [h EXCEPT !.header = None]) /\ SameRows(h, [h EXCEPT !.widgets = @ \ {r}])
        /\ SameRows(h, [h EXCEPT !.editor = None])
    BY DEF SameRows, HostFields
  <1>3. \/ Unslotted(h, c) = Rebuild([h EXCEPT !.header = None])
        \/ Unslotted(h, c) = Rebuild([h EXCEPT !.widgets = @ \ {r}])
        \/ Unslotted(h, c) = Rebuild([h EXCEPT !.editor = None])
        \/ Unslotted(h, c) = Unbox(h, c)
        \/ Unslotted(h, c) = h
    BY DEF Unslotted
  <1> HIDE DEF r
  <1>. QED  BY <1>1, <1>2, <1>3, PiecesAside

(* A new request is the newest, whatever the component showed.             *)
LEMMA RequestedNewest ==
  ASSUME AppTypeOK, NEW h, RowTypes(h), NEW c \in world.comps, h.slot[c] # None,
         \A d \in world.comps \ h.reused : d # c => RowsOf(h, d),
         c \notin h.reused => UpTo(h, c)
  PROVE  Newest(RequestRemote(h, c))
  <1> DEFINE width == IF h.seen[c] > 0 THEN h.seen[c] ELSE Whole
             q == [id |-> c, gen |-> h.gen[c] + 1, width |-> width]
             g == RequestRemote(h, c)
  <1>1. g = [h EXCEPT !.gen[c] = @ + 1, !.wire = @ \cup {q}]  BY DEF RequestRemote, RequestAt
  <1>2. /\ q \in Asked /\ q.id = c /\ q.gen = h.gen[c] + 1 /\ (h.seen[c] > 0 => q.width = h.seen[c])
    <2>1. h.gen[c] + 1 \in Nat /\ width \in Int  BY Names DEF RowTypes
    <2>2. h.seen[c] > 0 => width = h.seen[c]  OBVIOUS
    <2> HIDE DEF width
    <2>. QED  BY <2>1, <2>2 DEF Asked
  <1> HIDE DEF q
  <1>3. /\ DOMAIN g = HostFields /\ g.gen = [h.gen EXCEPT ![c] = @ + 1] /\ g.wire = h.wire \cup {q}
        /\ g.seen = h.seen /\ g.shown = h.shown /\ g.slot = h.slot /\ g.dead = h.dead /\ g.last = h.last
        /\ g.reused = h.reused
    BY <1>1 DEF RowTypes, HostFields
  <1> HIDE DEF g
  <1>4. RowTypes(g)  BY <1>2, <1>3 DEF RowTypes
  <1>5. ASSUME NEW d \in world.comps \ g.reused, d # c PROVE RowsOf(g, d)
    <2>1. g.gen[d] = h.gen[d] /\ RowsOf(h, d)  BY <1>3, <1>5 DEF RowTypes
    <2>2. \A p \in g.wire : p.id = d => p \in h.wire  BY <1>2, <1>3, <1>5
    <2>3. UpTo(g, d)  BY <1>3, <2>1, <2>2 DEF RowsOf, UpTo
    <2>4. Live(g, d) => Kept(g, d)  BY <1>3, <2>1 DEF RowsOf, Kept, Live
    <2>. QED  BY <1>3, <2>1, <2>2, <2>3, <2>4 DEF RowsOf
  <1>6. ASSUME c \notin g.reused PROVE RowsOf(g, c)
    <2>1. g.gen[c] = h.gen[c] + 1 /\ h.gen[c] \in Nat /\ h.last[c] \in Nat  BY <1>3 DEF RowTypes
    <2>2. \A p \in h.wire : p.gen \in Nat  BY DEF RowTypes, Asked
    <2>3. UpTo(h, c)  BY <1>3, <1>6
    <2>4. \A p \in h.wire : p.id = c => p.gen < g.gen[c]  BY <2>1, <2>2, <2>3 DEF UpTo
    <2>5. g.last[c] <= g.gen[c]  BY <1>3, <2>1, <2>3 DEF UpTo
    <2>6. UpTo(g, c)  BY <1>2, <1>3, <2>1, <2>2, <2>4, <2>5 DEF UpTo
    <2>7. Kept(g, c)  BY <1>2, <1>3, <2>1 DEF Kept
    <2>. QED  BY <1>3, <2>6, <2>7 DEF RowsOf
  <1>. QED  BY <1>4, <1>5, <1>6 DEF Newest, g

(* Mounting a component keeps the newest answers shown. *)
LEMMA MountedNewest ==
  ASSUME AppTypeOK, NEW h, Newest(h), NEW c \in world.comps, NEW slot \in Slots
  PROVE  Newest(Mounted(h, c, slot)) /\ Mounted(h, c, slot).reused = h.reused
  <1>0. slot # None /\ RowTypes(h)  BY SlotAssumption DEF Newest
  <1>1. CASE h.slot[c] = None
    <2> DEFINE f == [h EXCEPT !.slot[c] = slot, !.made[c] = @ + 1, !.dead[c] = FALSE,
                              !.seen[c] = 0, !.shown[c] = Blank]
               g == Slotted(f, c, slot)
    <2>1. Mounted(h, c, slot) = RequestRemote(g, c)  BY <1>1 DEF Mounted
    <2>2. /\ DOMAIN f = HostFields /\ f.slot = [h.slot EXCEPT ![c] = slot] /\ f.dead = [h.dead EXCEPT ![c] = FALSE]
          /\ f.seen = [h.seen EXCEPT ![c] = 0] /\ f.shown = [h.shown EXCEPT ![c] = Blank]
          /\ f.gen = h.gen /\ f.last = h.last /\ f.wire = h.wire /\ f.reused = h.reused
      BY <1>0 DEF RowTypes, HostFields
    <2> HIDE DEF f
    <2>3. RowTypes(f) /\ f.slot[c] # None  BY <1>0, <2>2 DEF RowTypes
    <2>4. ASSUME NEW d \in world.comps \ f.reused, d # c PROVE RowsOf(f, d)
      <3>1. RowsOf(h, d)  BY <2>2, <2>4 DEF Newest
      <3>2. f.slot[d] = h.slot[d] /\ f.dead[d] = h.dead[d] /\ f.seen[d] = h.seen[d] /\ f.shown[d] = h.shown[d]
        BY <1>0, <2>2, <2>4 DEF RowTypes
      <3>3. UpTo(f, d)  BY <2>2, <3>1, <3>2 DEF RowsOf, UpTo
      <3>4. Live(f, d) => Kept(f, d)
        <4>1. Live(f, d) => Live(h, d)  BY <3>2 DEF Live
        <4>2. Kept(h, d) => Kept(f, d)  BY <2>2, <3>2 DEF Kept
        <4>. QED  BY <3>1, <4>1, <4>2 DEF RowsOf
      <3>. QED  BY <2>2, <3>1, <3>2, <3>3, <3>4 DEF RowsOf
    <2>5. c \notin f.reused => UpTo(f, c)  BY <1>1, <2>2 DEF Newest, RowsOf, UpTo
    <2>6. SameRows(f, g)  BY <2>2, SlottedAside
    <2> HIDE DEF g
    <2>7. RowTypes(g) /\ g.slot[c] # None  BY <2>3, <2>6 DEF SameRows, RowTypes
    <2>8. \A d \in world.comps \ g.reused : d # c => RowsOf(g, d)
      BY <2>4, <2>6 DEF SameRows, RowsOf, UpTo, Kept, Live
    <2>9. c \notin g.reused => UpTo(g, c)  BY <2>5, <2>6 DEF SameRows, UpTo
    <2>10. Newest(RequestRemote(g, c))  BY <2>7, <2>8, <2>9, RequestedNewest
    <2>11. RequestRemote(g, c).reused = g.reused
      BY <2>7 DEF RequestRemote, RequestAt, RowTypes, HostFields
    <2>. QED  BY <2>1, <2>2, <2>6, <2>10, <2>11 DEF SameRows
  <1>2. CASE h.slot[c] # None /\ h.slot[c] = slot  BY <1>2 DEF Mounted
  <1>3. CASE h.slot[c] # None /\ h.slot[c] # slot
    <2> DEFINE u == Unslotted(h, c)
               f == [u EXCEPT !.slot[c] = slot]
    <2>1. Mounted(h, c, slot) = Slotted(f, c, slot)  BY <1>3 DEF Mounted
    <2>2. SameRows(h, u) /\ Newest(u)  BY <1>0, UnslottedAside, NewestSame DEF RowTypes
    <2>3. u.slot[c] # None  BY <1>3, <2>2 DEF SameRows
    <2> HIDE DEF u
    <2>4. /\ DOMAIN f = HostFields /\ f.slot = [u.slot EXCEPT ![c] = slot] /\ f.dead = u.dead
          /\ f.seen = u.seen /\ f.shown = u.shown /\ f.gen = u.gen /\ f.last = u.last /\ f.wire = u.wire
          /\ f.reused = u.reused
      BY <2>2 DEF SameRows, HostFields
    <2> HIDE DEF f
    <2>5. RowTypes(f) /\ \A d \in world.comps : f.slot[d] = None <=> u.slot[d] = None
      BY <1>0, <2>2, <2>3, <2>4 DEF Newest, RowTypes
    <2>6. Newest(f)  BY <2>2, <2>4, <2>5 DEF Newest, RowsOf, UpTo, Kept, Live
    <2>7. SameRows(f, Slotted(f, c, slot))  BY <2>4, SlottedAside
    <2>8. Newest(Slotted(f, c, slot))  BY <2>6, <2>7, NewestSame
    <2>. QED  BY <2>1, <2>2, <2>4, <2>7, <2>8 DEF SameRows
  <1>. QED  BY <1>1, <1>2, <1>3

(* A remote made anew has been asked nothing and shows nothing. *)
LEMMA EnsuredNewest ==
  ASSUME AppTypeOK, NEW h, Newest(h), NEW c \in world.comps
  PROVE  Newest(Ensured(h, c)) /\ Ensured(h, c).reused = h.reused
  <1>1. "overlay" \in Slots  BY DEF Slots
  <1>. QED  BY <1>1, MountedNewest DEF Ensured

(* A remote disposed of shows nothing any more. *)
LEMMA DisposedNewest ==
  ASSUME AppTypeOK, NEW h, Newest(h), NEW c \in world.comps
  PROVE  Newest(Disposed(h, c))
  <1> DEFINE u == Unslotted(h, c)
             reused == IF \E q \in h.wire : q.id = c THEN u.reused \cup {c} ELSE u.reused
             f == [u EXCEPT !.slot[c] = None, !.dead[c] = FALSE, !.gen[c] = 0, !.last[c] = 0, !.shown[c] = Blank,
                            !.reused = reused]
  <1>1. SameRows(h, u) /\ Newest(u)  BY UnslottedAside, NewestSame DEF Newest, RowTypes
  <1>0. DOMAIN u = HostFields  BY <1>1 DEF SameRows
  <1>2. Disposed(h, c) = IF f.editor = None THEN Focus(f, Ed) ELSE f
    <2>1. f = [u EXCEPT !.slot[c] = None, !.dead[c] = FALSE, !.gen[c] = 0, !.last[c] = 0, !.shown[c] = Blank,
                        !.reused = IF \E q \in h.wire : q.id = c THEN @ \cup {c} ELSE @]
      BY <1>0 DEF HostFields
    <2> HIDE DEF f
    <2>. QED  BY <2>1 DEF Disposed
  <1>3. u.reused \subseteq reused /\ (c \notin reused => \A q \in u.wire : q.id # c)  BY <1>1 DEF SameRows
  <1> HIDE DEF u, reused
  <1>4. /\ DOMAIN f = HostFields /\ f.slot = [u.slot EXCEPT ![c] = None] /\ f.dead = [u.dead EXCEPT ![c] = FALSE]
        /\ f.gen = [u.gen EXCEPT ![c] = 0] /\ f.last = [u.last EXCEPT ![c] = 0]
        /\ f.shown = [u.shown EXCEPT ![c] = Blank] /\ f.seen = u.seen /\ f.wire = u.wire /\ f.reused = reused
    BY <1>0 DEF HostFields
  <1> HIDE DEF f
  <1>5. RowTypes(f)  BY <1>1, <1>4 DEF Newest, RowTypes
  <1>6. ASSUME NEW d \in world.comps \ f.reused PROVE RowsOf(f, d)
    <2>1. RowTypes(u) /\ d \notin u.reused /\ RowsOf(u, d)  BY <1>1, <1>3, <1>4, <1>6 DEF Newest
    <2>2. CASE d = c
      <3>1. f.slot[c] = None /\ f.last[c] = 0 /\ f.gen[c] = 0  BY <1>4, <2>1 DEF RowTypes
      <3>2. \A q \in f.wire : q.id # c  BY <1>3, <1>4, <1>6, <2>2
      <3>. QED  BY <2>2, <3>1, <3>2 DEF RowsOf, UpTo, Live
    <2>3. CASE d # c
      <3>1. /\ f.slot[d] = u.slot[d] /\ f.dead[d] = u.dead[d] /\ f.gen[d] = u.gen[d] /\ f.last[d] = u.last[d]
            /\ f.shown[d] = u.shown[d]
        BY <1>4, <2>1, <2>3 DEF RowTypes
      <3>2. UpTo(f, d)  BY <1>4, <2>1, <3>1 DEF RowsOf, UpTo
      <3>3. Live(f, d) => Kept(f, d)
        <4>1. Live(f, d) => Live(u, d)  BY <3>1 DEF Live
        <4>2. Kept(u, d) => Kept(f, d)  BY <1>4, <3>1 DEF Kept
        <4>. QED  BY <2>1, <4>1, <4>2 DEF RowsOf
      <3>. QED  BY <1>4, <2>1, <3>1, <3>2, <3>3 DEF RowsOf
    <2>. QED  BY <2>2, <2>3
  <1>7. Newest(f)  BY <1>5, <1>6 DEF Newest
  <1>8. Newest(Focus(f, Ed))  BY <1>4, <1>7, PiecesAside, NewestSame
  <1>. QED  BY <1>2, <1>7, <1>8

(* Invalidating a component asks its remote again. *)
LEMMA InvalidatedNewest ==
  ASSUME AppTypeOK, NEW h, Newest(h), NEW c \in world.comps, h.slot[c] # None
  PROVE  Newest(Invalidated(h, c))
  <1> DEFINE f == IF h.dead[c] THEN h ELSE [h EXCEPT !.shown[c] = Blank]
  <1>1. /\ DOMAIN f = HostFields /\ f.wire = h.wire /\ f.gen = h.gen /\ f.seen = h.seen /\ f.slot = h.slot
        /\ f.dead = h.dead /\ f.last = h.last /\ f.reused = h.reused /\ DOMAIN f.shown = DOMAIN h.shown
        /\ \A d \in world.comps : d # c => f.shown[d] = h.shown[d]
    BY DEF Newest, RowTypes, HostFields
  <1>2. Invalidated(h, c) = RequestRemote(f, c)  BY DEF Invalidated
  <1> HIDE DEF f
  <1>3. RowTypes(f)  BY <1>1 DEF Newest, RowTypes
  <1>4. \A d \in world.comps \ f.reused : d # c => RowsOf(f, d)
    BY <1>1 DEF Newest, RowsOf, UpTo, Kept, Live
  <1>5. c \notin f.reused => UpTo(f, c)  BY <1>1 DEF Newest, RowsOf, UpTo
  <1>. QED  BY <1>1, <1>2, <1>3, <1>4, <1>5, RequestedNewest

(* Closing a dialog keeps the newest answers shown. *)
LEMMA ClosedNewest ==
  ASSUME NEW h, Newest(h), NEW id
  PROVE  Newest(Closed(h, id))
  <1> DEFINE u == Unbox(h, id)
             dead == [c \in DOMAIN u.dead |-> u.dead[c] \/ c = id]
             shown == [c \in DOMAIN u.shown |-> IF c = id THEN Blank ELSE u.shown[c]]
             f == [u EXCEPT !.dead = dead, !.shown = shown]
  <1>1. Closed(h, id) = IF id \in h.dialogs THEN Focus(f, Ed) ELSE h  BY DEF Closed
  <1>2. SameRows(h, u) /\ Newest(u)  BY PiecesAside, NewestSame DEF Newest, RowTypes
  <1> HIDE DEF u
  <1>3. /\ DOMAIN dead = DOMAIN u.dead /\ DOMAIN shown = DOMAIN u.shown
        /\ \A c \in world.comps : ~dead[c] => ~u.dead[c] /\ shown[c] = u.shown[c]
    BY <1>2 DEF Newest, RowTypes
  <1> HIDE DEF dead, shown
  <1>4. /\ DOMAIN f = HostFields /\ f.dead = dead /\ f.shown = shown /\ f.wire = u.wire /\ f.gen = u.gen
        /\ f.seen = u.seen /\ f.slot = u.slot /\ f.last = u.last /\ f.reused = u.reused
    BY <1>2 DEF SameRows, HostFields
  <1> HIDE DEF f
  <1>5. RowTypes(f)  BY <1>2, <1>3, <1>4 DEF Newest, RowTypes
  <1>6. \A c \in world.comps \ f.reused : RowsOf(f, c)
    BY <1>2, <1>3, <1>4 DEF Newest, RowsOf, UpTo, Kept, Live
  <1>7. Newest(f)  BY <1>5, <1>6 DEF Newest
  <1>8. Newest(Focus(f, Ed))  BY <1>4, <1>7, PiecesAside, NewestSame
  <1>. QED  BY <1>1, <1>8

(* Answering a dialog is aside from the rows of remotes. *)
LEMMA AnswerAside ==
  ASSUME NEW h, DOMAIN h = HostFields, NEW id
  PROVE  SameRows(h, Answer(h, id))
  BY DEF SameRows, Answer, HostFields

(* Cancelling a dialog keeps the newest answers shown. *)
LEMMA CancelNewest ==
  ASSUME NEW h, Newest(h), NEW id
  PROVE  Newest(Closed(Answer(h, id), id)) /\ Newest(Cancelled(h, id)) /\ Newest(CancelTop(h, id))
  <1>1. Newest(Closed(Answer(h, id), id))
    <2>1. Newest(Answer(h, id))  BY AnswerAside, NewestSame DEF Newest, RowTypes
    <2>. QED  BY <2>1, ClosedNewest
  <1>2. Newest(Cancelled(h, id))  BY <1>1 DEF Cancelled
  <1>3. Newest(Focus([h EXCEPT !.stack = HideTop(@)], Ed))
    <2> DEFINE f == [h EXCEPT !.stack = HideTop(@)]
    <2>1. SameRows(h, f)  BY DEF SameRows, HostFields, Newest, RowTypes
    <2> HIDE DEF f
    <2>2. Newest(f) /\ DOMAIN f = HostFields  BY <2>1, NewestSame DEF SameRows
    <2>. QED  BY <2>2, PiecesAside, NewestSame DEF f
  <1>. QED  BY <1>1, <1>2, <1>3 DEF CancelTop

(* A paint asks last for the width that it rendered the component at last. *)
LEMMA LastAsked ==
  ASSUME AppTypeOK, NEW h, Sound(h), NEW c \in world.comps, Live(h, c), Places(h, c) # {}
  PROVE  LET A == Asking(h, c)
             P == Places(h, c)
         IN  /\ Max(P) \in P
             /\ A = {} => WidthAt(h, Max(P)) = h.seen[c]
             /\ A # {} => Max(A) \in A /\ (\A i \in A : i <= Max(A)) /\ WidthAt(h, Max(A)) = WidthAt(h, Max(P))
  <1> DEFINE A == Asking(h, c)
             P == Places(h, c)
             n == Len(h.stack.entries)
             W(i) == WidthAt(h, i)
             Earlier(j) == {k \in P : k < j}
  <1>1. n \in Nat /\ P \in SUBSET (0..n) /\ A \subseteq P  BY PlacesTyped
  <1>2. P \in SUBSET Nat /\ \A S : S \subseteq P => S \in SUBSET (0..n) /\ S \in SUBSET Nat  BY <1>1
  <1>3. \A j \in P : W(j) # WidthBefore(h, c, j) => j \in A  BY DEF Asking
  <1>4. \A j \in P : WidthBefore(h, c, j) = IF Earlier(j) = {} THEN h.seen[c] ELSE W(Max(Earlier(j)))
    BY DEF WidthBefore
  <1>5. Max(P) \in P /\ \A i \in P : i <= Max(P)  BY <1>1, <1>2, Largest
  <1>6. \A j \in P : Earlier(j) # {} => Max(Earlier(j)) \in Earlier(j) /\ \A k \in Earlier(j) : k <= Max(Earlier(j))
    <2> SUFFICES ASSUME NEW j \in P, Earlier(j) # {}
                 PROVE  Max(Earlier(j)) \in Earlier(j) /\ \A k \in Earlier(j) : k <= Max(Earlier(j))
      OBVIOUS
    <2>1. Earlier(j) \in SUBSET (0..n)  BY <1>2
    <2> HIDE DEF Earlier, P
    <2>2. Max(Earlier(j)) \in Earlier(j) /\ \A k \in Earlier(j) : Max(Earlier(j)) >= k  BY <1>1, <2>1, Largest
    <2>. QED  BY <1>2, <2>1, <2>2
  <1> HIDE DEF A, P, W
  <1>7. ASSUME A = {} PROVE W(Max(P)) = h.seen[c]
    <2> DEFINE D == {j \in P : W(j) # h.seen[c]}
    <2>1. ASSUME D # {} PROVE FALSE
      <3>1. D \in SUBSET Nat  BY <1>2
      <3>2. Min(D) \in D /\ \A y \in D : Min(D) <= y
        <4> HIDE DEF D
        <4>. QED  BY <2>1, <3>1, Smallest
      <3>3. PICK j \in P : W(j) # h.seen[c] /\ \A y \in D : j <= y  BY <3>2
      <3>4. CASE Earlier(j) = {}  BY <1>3, <1>4, <1>7, <3>3, <3>4
      <3>5. CASE Earlier(j) # {}
        <4>1. Max(Earlier(j)) \in P /\ Max(Earlier(j)) < j  BY <1>6, <3>5
        <4>2. Max(Earlier(j)) \notin D  BY <1>2, <3>3, <4>1
        <4>3. W(Max(Earlier(j))) = h.seen[c]  BY <4>1, <4>2
        <4>. QED  BY <1>3, <1>4, <1>7, <3>3, <3>5, <4>3
      <3>. QED  BY <3>4, <3>5
    <2>. QED  BY <1>5, <2>1
  <1>8. ASSUME A # {} PROVE Max(A) \in A /\ (\A i \in A : i <= Max(A)) /\ W(Max(A)) = W(Max(P))
    <2> DEFINE m == Max(A)
               D == {j \in P : m < j /\ W(j) # W(m)}
    <2>1. A \in SUBSET (0..n)  BY <1>1, <1>2
    <2>2. m \in A /\ \A i \in A : m >= i  BY <1>1, <1>8, <2>1, Largest
    <2> HIDE DEF m
    <2>3. m \in P /\ m \in Nat /\ \A i \in A : i <= m  BY <1>1, <1>2, <2>2
    <2>4. ASSUME D # {} PROVE FALSE
      <3>1. D \in SUBSET Nat  BY <1>2
      <3>2. Min(D) \in D /\ \A y \in D : Min(D) <= y
        <4> HIDE DEF D
        <4>. QED  BY <2>4, <3>1, Smallest
      <3>3. PICK j \in P : m < j /\ W(j) # W(m) /\ \A y \in D : j <= y  BY <3>2
      <3>4. m \in Earlier(j)  BY <2>3, <3>3
      <3>5. Max(Earlier(j)) \in P /\ Max(Earlier(j)) < j /\ m <= Max(Earlier(j))  BY <1>6, <3>3, <3>4
      <3>6. Max(Earlier(j)) \notin D  BY <1>2, <3>3, <3>5
      <3>7. W(Max(Earlier(j))) = W(m)
        <4>1. Max(Earlier(j)) \in Nat  BY <1>2, <3>5
        <4>2. CASE Max(Earlier(j)) = m  BY <4>2
        <4>3. CASE Max(Earlier(j)) # m
          <5>1. m < Max(Earlier(j))  BY <2>3, <3>5, <4>1, <4>3
          <5>. QED  BY <3>5, <3>6, <5>1
        <4>. QED  BY <4>2, <4>3
      <3>8. j \in A  BY <1>3, <1>4, <3>3, <3>4, <3>7
      <3>9. j <= m /\ j \in Nat  BY <1>2, <2>3, <3>8, <3>3
      <3>. QED  BY <2>3, <3>3, <3>9
    <2>5. W(m) = W(Max(P))
      <3>1. m <= Max(P) /\ Max(P) \in Nat  BY <1>2, <1>5, <2>3
      <3>. QED  BY <1>5, <2>3, <2>4, <3>1
    <2>. QED  BY <2>2, <2>3, <2>5 DEF m
  <1>. QED  BY <1>5, <1>7, <1>8 DEF A, P, W

(* The requests of one paint are numbered one by one, in the order of their
   places. *)
LEMMA RequestsCounted ==
  ASSUME AppTypeOK, NEW h, Sound(h), NEW c \in world.comps
  PROVE  LET A == Asking(h, c)
             Upto(i) == Cardinality({j \in A : j <= i})
         IN  /\ Cardinality(A) \in Nat /\ (Cardinality(A) = 0 <=> A = {})
             /\ \A i \in A : Upto(i) \in Nat /\ Upto(i) <= Cardinality(A)
             /\ \A i \in A : Upto(i) = Cardinality(A) => \A j \in A : j <= i
             /\ \A i \in A : (\A j \in A : j <= i) => Upto(i) = Cardinality(A)
  <1> DEFINE A == Asking(h, c)
             n == Len(h.stack.entries)
  <1>1. n \in Nat /\ A \subseteq 0..n /\ Cardinality(A) \in Nat  BY PlacesTyped
  <1>2. IsFiniteSet(A)
    <2> HIDE DEF n, A
    <2>1. n \in Int /\ 0 \in Int  BY <1>1
    <2>2. IsFiniteSet(0..n)  BY <2>1, FS_Interval
    <2>. QED  BY <1>1, <2>2, FS_Subset
  <1> HIDE DEF A
  <1>3. Cardinality(A) = 0 <=> A = {}  BY <1>2, FS_EmptySet
  <1>4. ASSUME NEW i \in A
        PROVE  LET S == {j \in A : j <= i}
               IN  /\ Cardinality(S) \in Nat /\ Cardinality(S) <= Cardinality(A)
                   /\ Cardinality(S) = Cardinality(A) => \A j \in A : j <= i
                   /\ (\A j \in A : j <= i) => Cardinality(S) = Cardinality(A)
    <2> DEFINE S == {j \in A : j <= i}
    <2>1. S \in SUBSET A  OBVIOUS
    <2>2. (S = A) <=> (\A j \in A : j <= i)  OBVIOUS
    <2> HIDE DEF S
    <2>3. IsFiniteSet(S) /\ Cardinality(S) <= Cardinality(A) /\ (Cardinality(A) = Cardinality(S) => A = S)
      BY <1>2, <2>1, FS_Subset
    <2>4. Cardinality(S) \in Nat  BY <2>3, FS_CardinalityType
    <2>. QED  BY <2>2, <2>3, <2>4 DEF S
  <1>. QED  BY <1>1, <1>3, <1>4 DEF A

(* A paint asks once per place and leaves older answers behind. *)
LEMMA PaintedNewest ==
  ASSUME AppTypeOK, NEW h, Sound(h), Newest(h)
  PROVE  Newest(Painted(h))
  <1> DEFINE last(c) == WidthAt(h, Max(Places(h, c)))
             seen == [c \in world.comps |-> IF Live(h, c) /\ Places(h, c) # {} THEN last(c) ELSE h.seen[c]]
             gen == [c \in world.comps |-> h.gen[c] + Cardinality(Asking(h, c))]
             wire == h.wire \cup UNION {Requests(h, c) : c \in world.comps}
             g == [h EXCEPT !.seen = seen, !.gen = gen, !.wire = wire]
  <1>0. RowTypes(h)  BY DEF Newest
  <1>1. Painted(h) = g  BY DEF Painted
  <1>2. Sound(Painted(h))  BY PaintedSound
  <1>3. \A c \in world.comps : seen[c] = IF Live(h, c) /\ Places(h, c) # {} THEN last(c) ELSE h.seen[c]
    OBVIOUS
  <1>4. \A c \in world.comps : gen[c] = h.gen[c] + Cardinality(Asking(h, c))  OBVIOUS
  <1>5. \A q : q \in wire <=> q \in h.wire \/ \E c \in world.comps : q \in Requests(h, c)  OBVIOUS
  <1> HIDE DEF seen, gen, wire
  <1>6. /\ DOMAIN g = HostFields /\ g.wire = wire /\ g.gen = gen /\ g.seen = seen /\ g.shown = h.shown
        /\ g.slot = h.slot /\ g.dead = h.dead /\ g.last = h.last /\ g.reused = h.reused
    BY <1>0 DEF RowTypes, HostFields
  <1>7. RowTypes(g)  BY <1>0, <1>1, <1>2, <1>6 DEF RowTypes, Sound, HostTypeOK
  <1> HIDE DEF g
  <1>8. ASSUME NEW c \in world.comps \ h.reused PROVE RowsOf(g, c)
    <2> DEFINE A == Asking(h, c)
               Count(i) == Cardinality({j \in A : j <= i})
    <2>1. RowsOf(h, c) /\ h.gen[c] \in Nat /\ h.last[c] \in Nat  BY <1>0 DEF Newest, RowTypes
    <2>2. \A q \in h.wire : q.gen \in Nat  BY <1>0 DEF RowTypes, Asked
    <2>3. \A q \in wire : q.id = c =>
            q \in h.wire \/ \E i \in A : q.gen = h.gen[c] + Count(i) /\ q.width = WidthAt(h, i)
      <3>1. ASSUME NEW d \in world.comps, NEW q \in Requests(h, d)
            PROVE  q.id = d /\ \E i \in Asking(h, d) :
                     q.gen = h.gen[d] + Cardinality({j \in Asking(h, d) : j <= i}) /\ q.width = WidthAt(h, i)
        <4>1. PICK i \in Asking(h, d) :
                q = [id |-> d, gen |-> h.gen[d] + Cardinality({j \in Asking(h, d) : j <= i}), width |-> WidthAt(h, i)]
          BY <3>1 DEF Requests
        <4>. QED  BY <4>1
      <3>. QED  BY <1>5, <3>1
    <2>4. \A i \in A : \E q \in wire : q.id = c /\ q.gen = h.gen[c] + Count(i) /\ q.width = WidthAt(h, i)
      <3> SUFFICES ASSUME NEW i \in A
                   PROVE  \E q \in wire : q.id = c /\ q.gen = h.gen[c] + Count(i) /\ q.width = WidthAt(h, i)
        OBVIOUS
      <3> DEFINE q == [id |-> c, gen |-> h.gen[c] + Count(i), width |-> WidthAt(h, i)]
      <3>1. q \in Requests(h, c)  BY DEF Requests
      <3>2. q \in wire  BY <1>5, <3>1
      <3>. QED  BY <3>2
    <2>5. /\ Cardinality(A) \in Nat /\ (Cardinality(A) = 0 <=> A = {})
          /\ \A i \in A : Count(i) \in Nat /\ Count(i) <= Cardinality(A)
          /\ \A i \in A : Count(i) = Cardinality(A) => \A j \in A : j <= i
          /\ \A i \in A : (\A j \in A : j <= i) => Count(i) = Cardinality(A)
      BY RequestsCounted
    <2>6. A # {} => Live(h, c) /\ Places(h, c) # {}  BY DEF Asking
    <2>7. A # {} => /\ Max(A) \in A /\ (\A i \in A : i <= Max(A)) /\ WidthAt(h, Max(A)) = seen[c]
      <3>1. ASSUME A # {} PROVE Max(A) \in A /\ (\A i \in A : i <= Max(A)) /\ WidthAt(h, Max(A)) = last(c)
        BY <2>6, <3>1, LastAsked
      <3>. QED  BY <1>3, <2>6, <3>1
    <2>8. A = {} => seen[c] = h.seen[c]
      <3>1. ASSUME A = {}, Live(h, c), Places(h, c) # {} PROVE last(c) = h.seen[c]  BY <3>1, LastAsked
      <3>. QED  BY <1>3, <3>1
    <2>9. \A i \in A : i \in Nat
      <3>1. A \subseteq Places(h, c) /\ Places(h, c) \in SUBSET (0..Len(h.stack.entries))  BY PlacesTyped
      <3>. QED  BY <3>1
    <2>10. g.gen[c] = h.gen[c] + Cardinality(A)  BY <1>4, <1>6
    <2> HIDE DEF A, Count
    <2>11. CASE A = {}
      <3>1. g.gen[c] = h.gen[c] /\ g.seen[c] = h.seen[c]  BY <1>6, <2>1, <2>5, <2>8, <2>10, <2>11
      <3>2. \A q : q \in g.wire /\ q.id = c <=> q \in h.wire /\ q.id = c  BY <1>5, <1>6, <2>3, <2>11
      <3>3. UpTo(g, c)  BY <1>6, <2>1, <3>1, <3>2 DEF RowsOf, UpTo
      <3>4. Live(g, c) => Kept(g, c)
        <4>1. Live(g, c) => Live(h, c)  BY <1>6 DEF Live
        <4>2. Kept(h, c) => Kept(g, c)  BY <1>6, <3>1, <3>2 DEF Kept
        <4>. QED  BY <2>1, <4>1, <4>2 DEF RowsOf
      <3>. QED  BY <1>6, <2>1, <3>2, <3>3, <3>4 DEF RowsOf
    <2>12. CASE A # {}
      <3>1. Cardinality(A) > 0 /\ Max(A) \in A /\ Count(Max(A)) = Cardinality(A)  BY <2>5, <2>7, <2>12
      <3>2. \A q \in h.wire : q.id = c => q.gen < g.gen[c]  BY <2>1, <2>2, <2>5, <2>10, <3>1 DEF RowsOf, UpTo
      <3>3. \A i \in A : Count(i) = Cardinality(A) => i = Max(A)
        <4> SUFFICES ASSUME NEW i \in A, Count(i) = Cardinality(A) PROVE i = Max(A)
          OBVIOUS
        <4>1. Max(A) <= i /\ i <= Max(A)  BY <2>5, <2>7, <2>12
        <4>. QED  BY <2>9, <3>1, <4>1
      <3>4. ASSUME NEW q \in wire, q.id = c
            PROVE  q.gen <= g.gen[c] /\ (q.gen = g.gen[c] => q.width = seen[c])
        <4>1. CASE q \in h.wire  BY <2>1, <2>2, <2>5, <2>10, <3>2, <3>4, <4>1
        <4>2. CASE q \notin h.wire
          <5>1. PICK i \in A : q.gen = h.gen[c] + Count(i) /\ q.width = WidthAt(h, i)  BY <2>3, <3>4, <4>2
          <5>2. q.gen <= g.gen[c]  BY <2>1, <2>5, <2>10, <5>1
          <5>3. ASSUME q.gen = g.gen[c] PROVE q.width = seen[c]
            <6>1. Count(i) = Cardinality(A)  BY <2>1, <2>5, <2>10, <5>1, <5>3
            <6>2. i = Max(A)  BY <3>3, <6>1
            <6>. QED  BY <2>7, <2>12, <5>1, <6>2
          <5>. QED  BY <5>2, <5>3
        <4>. QED  BY <4>1, <4>2
      <3>5. h.last[c] <= g.gen[c]  BY <2>1, <2>5, <2>10 DEF RowsOf, UpTo
      <3>6. UpTo(g, c)  BY <1>6, <3>4, <3>5 DEF UpTo
      <3>7. Kept(g, c)
        <4>1. PICK q \in wire : q.id = c /\ q.gen = h.gen[c] + Count(Max(A))  BY <2>4, <3>1
        <4>. QED  BY <1>6, <2>10, <3>1, <4>1 DEF Kept
      <3>8. g.slot[c] # None  BY <1>6, <2>6, <2>12 DEF Live
      <3>. QED  BY <3>6, <3>7, <3>8 DEF RowsOf
    <2>. QED  BY <2>11, <2>12
  <1>. QED  BY <1>1, <1>6, <1>7, <1>8 DEF Newest

(* An answer is taken only when none newer has been. *)
LEMMA ResultNewest ==
  ASSUME AppTypeOK, NEW h, Newest(h), NEW q \in h.wire
  PROVE  LET got   == [h EXCEPT !.wire = @ \ {q}]
             taken == Ensured([got EXCEPT !.last[q.id] = q.gen], q.id)
         IN  /\ ~Current(h, q) => Newest(got)
             /\ Current(h, q) => IF taken.dead[q.id] THEN Newest(taken)
                                 ELSE Newest([taken EXCEPT !.shown[q.id] = [gen |-> q.gen, width |-> q.width]])
  <1> DEFINE c     == q.id
             got   == [h EXCEPT !.wire = @ \ {q}]
             noted == [got EXCEPT !.last[c] = q.gen]
             taken == Ensured(noted, c)
             rows  == [gen |-> q.gen, width |-> q.width]
             shown == [taken EXCEPT !.shown[c] = rows]
  <1>0. RowTypes(h) /\ c \in world.comps /\ q.gen \in Nat  BY DEF Newest, RowTypes, Asked
  <1>1. /\ DOMAIN got = HostFields /\ got.wire = h.wire \ {q} /\ got.gen = h.gen /\ got.seen = h.seen
        /\ got.shown = h.shown /\ got.slot = h.slot /\ got.dead = h.dead /\ got.last = h.last
        /\ got.reused = h.reused
    BY <1>0 DEF RowTypes, HostFields
  <1>2. RowTypes(got)  BY <1>0, <1>1 DEF RowTypes
  <1> HIDE DEF got
  <1>3. ASSUME NEW d \in world.comps \ h.reused, d = c => ~Current(h, q) PROVE RowsOf(got, d)
    <2>1. RowsOf(h, d)  BY <1>3 DEF Newest
    <2>2. UpTo(got, d)  BY <1>1, <2>1 DEF RowsOf, UpTo
    <2>3. Live(got, d) => Kept(got, d)
      <3>1. Live(got, d) => Kept(h, d)  BY <1>1, <2>1 DEF Live, RowsOf
      <3>2. ASSUME NEW p \in h.wire, p.id = d, p.gen = h.gen[d] PROVE p \in got.wire
        <4>1. p # q
          <5>1. d = c => ~(q.gen = h.gen[c])
            <6>1. h.last[c] \in Nat /\ h.gen[c] \in Nat  BY <1>0 DEF RowTypes
            <6>. QED  BY <1>0, <1>3, <2>1, <6>1 DEF Current, RowsOf, UpTo
          <5>. QED  BY <3>2, <5>1
        <4>. QED  BY <1>1, <4>1
      <3>. QED  BY <1>1, <3>1, <3>2 DEF Kept
    <2>. QED  BY <1>1, <2>1, <2>2, <2>3 DEF RowsOf
  <1>4. ASSUME ~Current(h, q) PROVE Newest(got)  BY <1>1, <1>2, <1>3, <1>4 DEF Newest
  <1>5. ASSUME Current(h, q) PROVE IF taken.dead[c] THEN Newest(taken) ELSE Newest(shown)
    <2>1. /\ DOMAIN noted = HostFields /\ noted.wire = got.wire /\ noted.gen = h.gen /\ noted.seen = h.seen
          /\ noted.shown = h.shown /\ noted.slot = h.slot /\ noted.dead = h.dead
          /\ noted.last = [h.last EXCEPT ![c] = q.gen] /\ noted.reused = h.reused
      BY <1>1 DEF HostFields
    <2> HIDE DEF noted
    <2>2. RowTypes(noted)  BY <1>0, <1>1, <1>2, <2>1 DEF RowTypes
    <2>3. ASSUME NEW d \in world.comps \ h.reused, d # c PROVE RowsOf(noted, d)
      <3>1. RowsOf(got, d) /\ noted.last[d] = got.last[d]  BY <1>0, <1>1, <1>3, <2>1, <2>3 DEF RowTypes
      <3>2. UpTo(noted, d)  BY <1>1, <2>1, <3>1 DEF RowsOf, UpTo
      <3>3. Live(noted, d) => Kept(noted, d)  BY <1>1, <2>1, <3>1 DEF RowsOf, Kept, Live
      <3>. QED  BY <1>1, <2>1, <3>1, <3>2, <3>3 DEF RowsOf
    <2>4. CASE c \in h.reused
      <3>1. Newest(noted)  BY <2>1, <2>2, <2>3, <2>4 DEF Newest
      <3>2. Newest(taken) /\ c \in taken.reused  BY <1>0, <2>1, <2>4, <3>1, EnsuredNewest
      <3> HIDE DEF taken, rows
      <3>3. /\ DOMAIN shown = HostFields /\ shown.shown = [taken.shown EXCEPT ![c] = rows]
            /\ shown.wire = taken.wire /\ shown.gen = taken.gen /\ shown.seen = taken.seen
            /\ shown.slot = taken.slot /\ shown.dead = taken.dead /\ shown.last = taken.last
            /\ shown.reused = taken.reused
        BY <3>2 DEF Newest, RowTypes, HostFields
      <3> HIDE DEF shown
      <3>4. RowTypes(shown)  BY <3>2, <3>3 DEF Newest, RowTypes
      <3>5. ASSUME NEW d \in world.comps \ shown.reused PROVE RowsOf(shown, d)
        <4>1. RowsOf(taken, d) /\ shown.shown[d] = taken.shown[d]  BY <3>2, <3>3, <3>5 DEF Newest, RowTypes
        <4>. QED  BY <3>3, <4>1 DEF RowsOf, UpTo, Kept, Live
      <3>6. Newest(shown)  BY <3>4, <3>5 DEF Newest
      <3>. QED  BY <3>2, <3>6
    <2>5. CASE c \notin h.reused
      <3>1. RowsOf(h, c) /\ h.gen[c] \in Nat  BY <1>0, <2>5 DEF Newest, RowTypes
      <3>2. h.slot[c] # None  BY <3>1 DEF RowsOf
      <3>3. q.gen = h.gen[c] /\ (h.seen[c] > 0 => q.width = h.seen[c])
        BY <1>0, <1>5, <3>1 DEF RowsOf, UpTo, Current
      <3>4. taken = noted  BY <2>1, <3>2 DEF Ensured
      <3>5. noted.last[c] = q.gen  BY <1>0, <2>1 DEF RowTypes
      <3>6. UpTo(noted, c)  BY <1>0, <1>1, <2>1, <3>1, <3>3, <3>5 DEF RowsOf, UpTo
      <3>7. CASE noted.dead[c]
        <4>1. RowsOf(noted, c)  BY <2>1, <3>2, <3>6, <3>7 DEF RowsOf, Live
        <4>2. Newest(noted)  BY <2>1, <2>2, <2>3, <4>1 DEF Newest
        <4>. QED  BY <3>4, <3>7, <4>2
      <3>8. CASE ~noted.dead[c]
        <4> DEFINE s == [noted EXCEPT !.shown[c] = rows]
        <4>0. rows.gen = q.gen /\ rows.width = q.width  OBVIOUS
        <4> HIDE DEF rows
        <4>1. /\ DOMAIN s = HostFields /\ s.shown = [h.shown EXCEPT ![c] = rows]
              /\ s.wire = noted.wire /\ s.gen = noted.gen /\ s.seen = noted.seen /\ s.slot = noted.slot
              /\ s.dead = noted.dead /\ s.last = noted.last /\ s.reused = noted.reused
          BY <2>1 DEF HostFields
        <4> HIDE DEF s
        <4>2. RowTypes(s)  BY <2>1, <2>2, <4>1 DEF RowTypes
        <4>3. ASSUME NEW d \in world.comps \ h.reused, d # c PROVE RowsOf(s, d)
          <5>1. RowsOf(noted, d) /\ s.shown[d] = noted.shown[d]  BY <1>0, <2>1, <2>3, <4>1, <4>3 DEF RowTypes
          <5>. QED  BY <4>1, <5>1 DEF RowsOf, UpTo, Kept, Live
        <4>4. s.shown[c] = rows  BY <1>0, <4>1 DEF RowTypes
        <4>5. Kept(s, c)  BY <2>1, <3>3, <4>0, <4>1, <4>4 DEF Kept
        <4>6. UpTo(s, c)  BY <3>6, <4>1 DEF UpTo
        <4>7. RowsOf(s, c)  BY <2>1, <3>2, <4>1, <4>5, <4>6 DEF RowsOf
        <4>8. Newest(s)  BY <2>1, <4>1, <4>2, <4>3, <4>7 DEF Newest
        <4>. QED  BY <3>4, <3>8, <4>8 DEF s
      <3>. QED  BY <3>7, <3>8
    <2>. QED  BY <2>4, <2>5
  <1>. QED  BY <1>4, <1>5 DEF got

(* The handlers that are aside from rows keep the newest answers shown. *)
LEMMA AsideNewest ==
  ASSUME NEW h, Newest(h)
  PROVE  /\ Newest(Rebuild(h)) /\ Newest(Opened(h))
         /\ \A x : Newest(Focus(h, x)) /\ Newest(Unshow(h, x)) /\ Newest(Unbox(h, x))
         /\ \A x, y : Newest(Box(h, x, y))
  <1>1. DOMAIN h = HostFields  BY DEF Newest, RowTypes
  <1>2. SameRows(h, Opened(h))  BY <1>1 DEF SameRows, Opened, HostFields
  <1>. QED  BY <1>1, <1>2, PiecesAside, NewestSame

(* Every handler of the hosts keeps the newest answers shown. *)
LEMMA HostingNewest ==
  ASSUME AppTypeOK, Keeps(host), Newest(host), HostNext
  PROVE  Newest(host')
  <1> USE DEF Handles
  <1>0. Sound(host) /\ Answered(host) /\ DOMAIN host = HostFields  BY DEF Keeps, Newest, RowTypes
  <1>1. CASE Paint  BY <1>0, <1>1, PaintedNewest DEF Paint
  <1>2. CASE ModelEvent  BY <1>2, AsideNewest DEF ModelEvent
  <1>3. CASE ComponentOpen
    <2>1. world.slots \subseteq Slots  BY WorldAssumption DEF AppTypeOK
    <2>2. PICK c \in world.comps, slot \in world.slots : host' = Mounted(host, c, slot)
      BY <1>3 DEF ComponentOpen
    <2>. QED  BY <2>1, <2>2, MountedNewest
  <1>4. CASE ComponentResult
    <2>1. PICK q \in host.wire :
            LET got   == [host EXCEPT !.wire = @ \ {q}]
                taken == Ensured([got EXCEPT !.last[q.id] = q.gen], q.id)
            IN  host' = IF ~Current(host, q) THEN got
                        ELSE IF taken.dead[q.id] THEN taken
                        ELSE [taken EXCEPT !.shown[q.id] = [gen |-> q.gen, width |-> q.width]]
      BY <1>4, ZenonT(30) DEF ComponentResult
    <2> DEFINE got   == [host EXCEPT !.wire = @ \ {q}]
               taken == Ensured([got EXCEPT !.last[q.id] = q.gen], q.id)
               shown == [taken EXCEPT !.shown[q.id] = [gen |-> q.gen, width |-> q.width]]
    <2>2. /\ ~Current(host, q) => Newest(got)
          /\ Current(host, q) => IF taken.dead[q.id] THEN Newest(taken) ELSE Newest(shown)
      BY ResultNewest, ZenonT(30)
    <2>3. host' = IF ~Current(host, q) THEN got ELSE IF taken.dead[q.id] THEN taken ELSE shown  BY <2>1
    <2> HIDE DEF got, taken, shown
    <2>. QED  BY <2>2, <2>3
  <1>5. CASE ComponentInvalidate  BY <1>5, InvalidatedNewest DEF ComponentInvalidate
  <1>6. CASE ComponentDispose  BY <1>6, DisposedNewest DEF ComponentDispose
  <1>7. CASE ComponentFocus
    <2> DEFINE f(r) == [host EXCEPT !.root = r]
    <2>1. PICK c \in world.comps, on \in BOOLEAN :
            host' = IF on THEN IF host.slot[c] = "overlay" THEN Focus(host, Object(host, c)) ELSE f(Object(host, c))
                    ELSE IF host.root = Object(host, c) THEN f(Ed) ELSE host
      BY <1>7 DEF ComponentFocus
    <2>2. \A r : SameRows(host, f(r))  BY <1>0 DEF SameRows, HostFields
    <2> HIDE DEF f
    <2>3. \A r : Newest(f(r))  BY <2>2, NewestSame
    <2>. QED  BY <2>1, <2>3, AsideNewest
  <1>8. CASE OverlayMount
    <2>1. PICK o \in world.mounts, c \in world.comps \cup {None} :
            LET backed == IF c = None THEN host
                          ELSE LET h == Ensured(host, c)
                               IN  IF c \in h.dialogs THEN Unbox(h, c) ELSE h
                comp   == IF c = None THEN Mount(o) ELSE Object(backed, c)
                shown  == [Unshow(backed, Mount(o)) EXCEPT !.mounts = @ \cup {o}]
            IN  host' = Focus([shown EXCEPT !.stack = Show(@, Mount(o), comp, Boxed)], comp)
      BY <1>8, ZenonT(30) DEF OverlayMount
    <2> DEFINE h == Ensured(host, c)
               backed == IF c = None THEN host ELSE IF c \in h.dialogs THEN Unbox(h, c) ELSE h
               comp == IF c = None THEN Mount(o) ELSE Object(backed, c)
               u == Unshow(backed, Mount(o))
               m == [u EXCEPT !.mounts = @ \cup {o}]
               shown == [m EXCEPT !.stack = Show(@, Mount(o), comp, Boxed)]
    <2>2. host' = Focus(shown, comp)  BY <2>1
    <2>3. Newest(backed)
      <3>1. CASE c = None  BY <3>1
      <3>2. CASE c # None
        <4>1. Newest(h)  BY <3>2, EnsuredNewest
        <4>2. backed = IF c \in h.dialogs THEN Unbox(h, c) ELSE h  BY <3>2
        <4> HIDE DEF h, backed
        <4>. QED  BY <4>1, <4>2, AsideNewest
      <3>. QED  BY <3>1, <3>2
    <2> HIDE DEF backed, comp
    <2>4. Newest(u)  BY <2>3, AsideNewest
    <2> HIDE DEF u
    <2>5. SameRows(u, m)  BY <2>4 DEF SameRows, Newest, RowTypes, HostFields
    <2> HIDE DEF m
    <2>6. SameRows(m, shown)  BY <2>5 DEF SameRows, HostFields
    <2> HIDE DEF shown
    <2>7. Newest(shown)  BY <2>4, <2>5, <2>6, NewestSame
    <2>. QED  BY <2>2, <2>7, AsideNewest
  <1>9. CASE OverlayUnmount
    <2>1. PICK o \in host.mounts : host' = Focus([Unshow(host, Mount(o)) EXCEPT !.mounts = @ \ {o}], Ed)
      BY <1>9 DEF OverlayUnmount
    <2> DEFINE u == Unshow(host, Mount(o))
               m == [u EXCEPT !.mounts = @ \ {o}]
    <2>2. Newest(u)  BY AsideNewest
    <2>3. host' = Focus(m, Ed)  BY <2>1
    <2> HIDE DEF u
    <2>4. SameRows(u, m)  BY <2>2 DEF SameRows, Newest, RowTypes, HostFields
    <2> HIDE DEF m
    <2>. QED  BY <2>2, <2>3, <2>4, NewestSame, AsideNewest
  <1>10. CASE OverlayUpdate
    <2>1. SameRows(host, host')  BY <1>0, <1>10 DEF OverlayUpdate, SameRows, HostFields
    <2>. QED  BY <2>1, NewestSame
  <1>11. CASE ExtensionAsks
    <2>1. PICK d \in world.dialogs \ host.asked :
            \/ host' = Box([host EXCEPT !.asked = @ \cup {d}], d, Dialog(d))
            \/ host' = Answer([host EXCEPT !.asked = @ \cup {d}], d)
      BY <1>11, ZenonT(30) DEF ExtensionAsks
    <2> DEFINE h == [host EXCEPT !.asked = @ \cup {d}]
    <2>2. SameRows(host, h)  BY <1>0 DEF SameRows, HostFields
    <2> HIDE DEF h
    <2>3. Newest(h) /\ DOMAIN h = HostFields  BY <2>2, NewestSame DEF SameRows
    <2>4. Newest(Answer(h, d))  BY <2>3, AnswerAside, NewestSame
    <2>. QED  BY <2>1, <2>3, <2>4, AsideNewest DEF h
  <1>12. CASE ExtensionCancels
    <2>1. (\E d : host' = Cancelled(host, d)) \/ (\E d : host' = CancelTop(host, d))
      BY <1>12 DEF ExtensionCancels
    <2>. QED  BY <2>1, CancelNewest
  <1>13. CASE Resize
    <2> DEFINE remotes == {c \in world.comps : host.slot[c] # None}
               width(c) == IF host.seen[c] > 0 THEN host.seen[c] ELSE Whole'
               q(c) == [id |-> c, gen |-> host.gen[c] + 1, width |-> width(c)]
               t == ReconcileFocus(host.stack)
               gen == [c \in world.comps |-> IF c \in remotes THEN host.gen[c] + 1 ELSE host.gen[c]]
               wire == host.wire \cup {q(c) : c \in remotes}
               g == [host EXCEPT !.stack = t, !.gen = gen, !.wire = wire]
    <2>0. RowTypes(host)  BY DEF Newest
    <2>1. host' = g /\ cols' = cols - 1 /\ cols > 1  BY <1>13 DEF Resize
    <2>2. \A c \in world.comps : gen[c] = IF c \in remotes THEN host.gen[c] + 1 ELSE host.gen[c]  OBVIOUS
    <2>3. gen \in [world.comps -> Nat]  BY <2>0 DEF RowTypes
    <2>4. \A c \in remotes : q(c).id = c /\ q(c).gen = host.gen[c] + 1 /\ (host.seen[c] > 0 => q(c).width = host.seen[c])
      OBVIOUS
    <2>5. Whole' \in Int  BY <2>1 DEF AppTypeOK, Whole
    <2>6. \A c \in remotes : host.gen[c] + 1 \in Nat /\ width(c) \in Int  BY <2>0, <2>5 DEF RowTypes
    <2> HIDE DEF width
    <2>7. \A c \in remotes : q(c) \in Asked  BY <2>6 DEF Asked
    <2> HIDE DEF q
    <2>8. wire \subseteq Asked /\ \A p : p \in wire <=> p \in host.wire \/ \E c \in remotes : p = q(c)
      BY <2>0, <2>7 DEF RowTypes
    <2> HIDE DEF t, gen, wire
    <2>9. /\ DOMAIN g = HostFields /\ g.wire = wire /\ g.gen = gen /\ g.seen = host.seen /\ g.shown = host.shown
          /\ g.slot = host.slot /\ g.dead = host.dead /\ g.last = host.last /\ g.reused = host.reused
      BY <1>0 DEF HostFields
    <2> HIDE DEF g
    <2>10. RowTypes(g)  BY <2>0, <2>3, <2>8, <2>9 DEF RowTypes
    <2>11. ASSUME NEW c \in world.comps \ host.reused PROVE RowsOf(g, c)
      <3>1. RowsOf(host, c) /\ host.gen[c] \in Nat /\ host.last[c] \in Nat  BY <2>0 DEF Newest, RowTypes
      <3>2. \A p \in host.wire : p.gen \in Nat  BY <2>0 DEF RowTypes, Asked
      <3>3. CASE c \in remotes
        <4>1. g.gen[c] = host.gen[c] + 1  BY <2>2, <2>9, <3>3
        <4>2. \A p \in wire : p.id = c => p \in host.wire \/ p = q(c)  BY <2>4, <2>8
        <4>3. UpTo(g, c)
          <5>1. \A p \in host.wire : p.id = c => p.gen < g.gen[c]  BY <3>1, <3>2, <4>1 DEF RowsOf, UpTo
          <5>2. host.last[c] <= g.gen[c]  BY <3>1, <4>1 DEF RowsOf, UpTo
          <5>3. \A p \in wire : p.id = c => p.gen <= g.gen[c] /\ (p.gen = g.gen[c] /\ g.seen[c] > 0 => p.width = g.seen[c])
            BY <2>4, <2>9, <3>1, <3>2, <3>3, <4>1, <4>2, <5>1
          <5>. QED  BY <2>9, <5>2, <5>3 DEF UpTo
        <4>4. Kept(g, c)  BY <2>4, <2>8, <2>9, <3>3, <4>1 DEF Kept
        <4>. QED  BY <2>9, <3>3, <4>3, <4>4 DEF RowsOf
      <3>4. CASE c \notin remotes
        <4>1. g.gen[c] = host.gen[c] /\ host.slot[c] = None  BY <2>2, <2>9, <3>4
        <4>2. \A p \in wire : p.id = c => p \in host.wire  BY <2>4, <2>8, <3>4
        <4>. QED  BY <2>9, <3>1, <4>1, <4>2 DEF RowsOf, UpTo, Live
      <3>. QED  BY <3>3, <3>4
    <2>12. Newest(g)  BY <2>9, <2>10, <2>11 DEF Newest
    <2>. QED  BY <2>1, <2>12
  <1>14. CASE KeyToOverlay
    <2>1. (\E id : host' = Closed(Answer(host, id), id)) \/ (\E x : host' = Unshow(host, x))
      BY <1>14 DEF KeyToOverlay
    <2>. QED  BY <2>1, CancelNewest, AsideNewest
  <1>. QED
    BY <1>1, <1>2, <1>3, <1>4, <1>5, <1>6, <1>7, <1>8, <1>9, <1>10, <1>11, <1>12, <1>13, <1>14 DEF HostNext

RowsCorrect == IF ended THEN \A c \in world.comps : host.slot[c] = None ELSE Newest(host)

(* Nothing has been asked or shown at the start. *)
LEMMA RowsInit == Init => RowsCorrect
  <1> SUFFICES ASSUME Init PROVE Newest(host)
    BY DEF Init, JobsInit, RowsCorrect
  <1>1. /\ DOMAIN host = HostFields
        /\ host.slot = [c \in world.comps |-> None] /\ host.gen = [c \in world.comps |-> 0]
        /\ host.last = [c \in world.comps |-> 0] /\ host.seen = [c \in world.comps |-> 0]
        /\ host.shown = [c \in world.comps |-> Blank] /\ host.dead = [c \in world.comps |-> FALSE] /\ host.wire = {}
    BY DEF Init, HostInit, HostFields
  <1>2. RowTypes(host)  BY <1>1 DEF RowTypes
  <1>3. \A c \in world.comps : RowsOf(host, c)  BY <1>1 DEF RowsOf, UpTo, Live
  <1>. QED  BY <1>2, <1>3 DEF Newest

(* Every step of the program keeps the newest answers shown. *)
LEMMA RowsKept == HostCorrect /\ RowsCorrect /\ [Next]_appVars => RowsCorrect'
  <1> SUFFICES ASSUME HostCorrect, RowsCorrect, [Next]_appVars PROVE RowsCorrect'
    OBVIOUS
  <1>0. AppTypeOK  BY DEF HostCorrect
  <1>1. ASSUME ~ended, ~ended', world' = world, Newest(host') PROVE RowsCorrect'
    BY <1>1 DEF RowsCorrect, Newest, RowTypes, RowsOf, UpTo, Kept, Live, Asked
  <1>2. ASSUME UNCHANGED <<hostVars, ended>> PROVE RowsCorrect'
    BY <1>2 DEF hostVars, RowsCorrect, Newest, RowTypes, RowsOf, UpTo, Kept, Live, Asked
  <1>3. ASSUME ~ended PROVE Newest(host) /\ Keeps(host) /\ DOMAIN host = HostFields
    BY <1>3 DEF RowsCorrect, HostCorrect, Newest, RowTypes
  <1>4. CASE Hosting
    <2>1. ~ended /\ ended' = ended /\ HostNext  BY <1>4 DEF Hosting, Running, jobVars
    <2>2. Newest(host')  BY <1>0, <1>3, <2>1, HostingNewest
    <2>3. world' = world
      <3>1. Sound(host) /\ Answered(host)  BY <1>3, <2>1 DEF Keeps
      <3>. QED  BY <1>0, <2>1, <3>1, HostingKeeps
    <2>. QED  BY <1>1, <2>1, <2>2, <2>3
  <1>5. CASE Paste \/ Type \/ Submit \/ AskFor \/ Choose
    <2>1. /\ ~ended /\ ended' = ended /\ world' = world
          /\ host' = Rebuild(host) \/ host' = host \/ host' = Unshow(host, host.stack.focused)
      BY <1>5 DEF Paste, Type, Submit, AskFor, Choose, Handles, EditorHasKeys, Free, Running
    <2>2. Newest(host')  BY <1>3, <2>1, AsideNewest
    <2>. QED  BY <1>1, <2>1, <2>2
  <1>6. CASE TakeCommand \/ CtrlCKey
    <2>1. /\ ~ended /\ ended' = ended /\ world' = world
          /\ \/ host' = Rebuild(host) \/ host' = host \/ host' = Opened(Rebuild(host))
             \/ \E d : host' = CancelTop(host, d)
      BY <1>6 DEF TakeCommand, HandleOutcome, CtrlCOverlay, CtrlC, CtrlCKey, EditorHasKeys, Free, Running
    <2>2. Newest(host) /\ Newest(Rebuild(host))  BY <1>3, <2>1, AsideNewest
    <2>3. Newest(host')  BY <2>1, <2>2, AsideNewest, CancelNewest
    <2>. QED  BY <1>1, <2>1, <2>3
  <1>7. CASE End
    <2>1. ~ended /\ ended' /\ host' = ShutDown(host) /\ world' = world  BY <1>7 DEF End, Running
    <2>2. host'.slot = [c \in world.comps |-> None]  BY <1>3, <2>1 DEF ShutDown, HostFields
    <2>. QED  BY <2>1, <2>2 DEF RowsCorrect
  <1>8. CASE Interrupted \/ Quit \/ Queueing \/ Working \/ UNCHANGED appVars
    <2>1. UNCHANGED <<hostVars, ended>>
      BY <1>8 DEF Interrupted, SignalArrives, Quit, ContextEnds, Queueing, Enqueue, Unqueued, Working, TakeJob,
                  CallEnds, PostDone, DropDone, appVars, jobVars
    <2>. QED  BY <1>2, <2>1
  <1>. QED  BY <1>4, <1>5, <1>6, <1>7, <1>8 DEF Next

(* For every set of worlds: whatever the order of the answers, the slots   *)
(* a component goes through, the resizes and invalidations, it ends up     *)
(* with the answer to the newest request at the width it was painted at    *)
(* (rpc.go, remote.go).                                                    *)
THEOREM NewestAnswersShown == Spec => []NewestAnswerShown
  <1>1. Spec => []RowsCorrect
    BY RowsInit, RowsKept, HostIsCorrect, PTL DEF Spec
  <1>2. HostCorrect /\ RowsCorrect => NewestAnswerShown
    <2> SUFFICES ASSUME RowsCorrect, NEW c \in world.comps \ host.reused, Live(host, c), ~dirty,
                        \A q \in host.wire : q.id # c
                 PROVE  /\ host.shown[c].gen = host.gen[c]
                        /\ host.seen[c] > 0 => host.shown[c].width = host.seen[c]
      BY DEF NewestAnswerShown
    <2>1. ~ended  BY DEF RowsCorrect, Live
    <2>. QED  BY <2>1 DEF RowsCorrect, Newest, RowsOf, Kept
  <1>. QED  BY <1>1, <1>2, HostIsCorrect, PTL
=============================================================================
