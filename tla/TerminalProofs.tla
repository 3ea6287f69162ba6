---------------------------- MODULE TerminalProofs ----------------------------
(***************************************************************************)
(* Stop takes back what was switched on (runtime/terminal.go): theorems    *)
(* about Terminal for every emulator, user and capacity.  The heart is     *)
(* what the loop may still have to do when Stop has looked at the modes:   *)
(* whatever the answers were, it is either nothing with the mouse, or one  *)
(* of four lists that end by switching the mouse off; and what is on is    *)
(* noted, about to be noted, or known to have come too late.               *)
(***************************************************************************)
EXTENDS Terminal, SequenceTheorems, TLAPS

-----------------------------------------------------------------------------
(* The invariant.                                                          *)

Kinds == {"keyboard", "colour"} \cup PrivateModes

(* Something to do that leaves the mouse modes alone.                      *)
Quiet(a) ==
  /\ a.op \notin {"mouse", "mouseNote"}
  /\ a.op \in {"on", "off", "note", "unnote", "claim"} => a.arg # "mouse"
  /\ a.op = "probe" => a.arg \in Kinds

Calm(s) == \E S : s \in Seq(S) /\ \A a \in S : Quiet(a)

MouseWork ==
  {<<Act("mouse", "")>>, <<Act("on", "mouse"), Act("mouseNote", "")>>,
   <<Act("mouseNote", "")>>, <<Act("off", "mouse")>>}

Commands ==
  {Act("startProbes", ""), Act("mouse", ""), Act("alt", ""), Act("fallback", ""), Act("drain", ""),
   Act("probe", "colour")}

IsRouter(p) ==
  /\ p = [owners |-> p.owners, csi |-> p.csi, osc11 |-> p.osc11, pending |-> p.pending, queued |-> p.queued]
  /\ p.owners \in Seq(Kinds)

(* Terminal's record.                                                      *)
IsTerm(x) ==
  x = [started |-> x.started, stopped |-> x.stopped, flags |-> x.flags, resolved |-> x.resolved,
       supported |-> x.supported, fallback |-> x.fallback, due |-> x.due, appearance |-> x.appearance]

(* The fields the proofs read are there.                                   *)
Shaped ==
  /\ screen = [modes |-> screen.modes, wire |-> screen.wire]
  /\ IsTerm(term)
  /\ loop = [on |-> loop.on, todo |-> loop.todo, draining |-> loop.draining]
  /\ app = [does |-> app.does, reads |-> app.reads, suspends |-> app.suspends, why |-> app.why]
  /\ stopper = [at |-> stopper.at, saw |-> stopper.saw]

(* What is asked, what is commanded, and what is to be done about it.      *)
Routed == IsRouter(probe) /\ cmds \in Seq(Commands) /\ (loop.todo \in MouseWork \/ Calm(loop.todo))

(* The loop runs only between Start and the end of Stop; the application   *)
(* waits inside Stop.                                                      *)
Alive ==
  /\ loop.on => term.started
  /\ stopper.at \in {"out", "disabling", "looking", "unwinding", "closing", "waiting"}
  /\ stopper.at # "out" => term.started /\ term.stopped /\ app.does = "stop"
  /\ app.does = "start" => ~term.started

(* Stop has switched the mouse off: if it is on again, the loop is about   *)
(* to find out that it lost the race.                                      *)
MouseIsWatched ==
  stopper.at \in {"looking", "unwinding", "closing", "waiting"} /\ "mouse" \in screen.modes
    => loop.on /\ loop.todo \in {<<Act("mouseNote", "")>>, <<Act("off", "mouse")>>}

(* The acts that come with a note of what they do.                         *)
NotedAfter(s, i, m) == \E j \in DOMAIN s : j > i /\ s[j].op = "note" /\ s[j].arg = m
Unnotes(s, m)       == \E j \in DOMAIN s : s[j].op = "unnote" /\ s[j].arg = m
Switched(s, i)      == s[i - 1].op = "off" /\ s[i - 1].arg = s[i].arg

(* A list of things to do is tidy: what it switches on it notes, unless    *)
(* that was noted before, or Stop resets it anyway; and it takes a note    *)
(* back only of a keyboard protocol that it has just switched off.         *)
Tidy(s, flags) ==
  \A i \in DOMAIN s :
    /\ s[i].op = "on" => \/ s[i].arg \in {"appearance", "mouse"}
                         \/ NotedAfter(s, i, s[i].arg)
                         \/ s[i].arg \in flags \ {"modify"} /\ ~Unnotes(s, s[i].arg)
    /\ s[i].op = "unnote" => s[i].arg \in {"modify", "kitty"} /\ (i > 1 => Switched(s, i))
    /\ s[i].op = "claim" => s[i].arg \notin {"modify", "kitty"}

StartsOff == loop.todo # <<>> /\ loop.todo[1].op = "unnote" => loop.todo[1].arg \notin screen.modes

(* Until Stop has looked at the flags, a mode that is on has one or is     *)
(* about to be noted, or Stop takes it back unseen, or it came too late.   *)
Reset == IF stopper.at = "looking" THEN {"raw", "mouse"} ELSE {"raw", "mouse", "paste", "appearance"}

HasNotLooked == stopper.at \in {"out", "disabling", "looking"}

Noted ==
  HasNotLooked =>
    /\ \A m \in screen.modes : m \in term.flags \cup late \cup Reset \/ NoteDue(m)
    /\ loop.on => Tidy(loop.todo, term.flags) /\ StartsOff

(* What is still on is what Stop is going to take back, or came too late.  *)
Undone ==
  /\ stopper.at = "unwinding" => screen.modes \subseteq late \cup stopper.saw \cup {"raw", "mouse"}
  /\ stopper.at \in {"closing", "waiting"}
       => screen.modes \subseteq late \cup {"raw", "mouse"} \cup (stopper.saw \cap {"alt"})
  /\ ~term.started => screen.modes \subseteq (late \ {"mouse"})

TerminalInv == Shaped /\ Routed /\ Alive /\ MouseIsWatched /\ Noted /\ Undone

-----------------------------------------------------------------------------
(* Lists of things to do.                                                  *)

(* A list of quiet things is calm.                                         *)
LEMMA QuietListIsCalm ==
  ASSUME NEW S, NEW s \in Seq(S), \A a \in S : Quiet(a)
  PROVE  Calm(s)
BY DEF Calm

(* Nothing, and one or two quiet things, are calm.                         *)
LEMMA ShortListsAreCalm ==
  /\ Calm(<<>>)
  /\ \A a : Quiet(a) => Calm(<<a>>)
  /\ \A a, b : Quiet(a) /\ Quiet(b) => Calm(<<a, b>>)
<1>1. Calm(<<>>)
  BY EmptySeq DEF Calm
<1>2. ASSUME NEW a, Quiet(a) PROVE Calm(<<a>>)
  <2> DEFINE s == <<a>>
             S == {a}
  <2>1. s \in Seq(S)
    OBVIOUS
  <2>2. \A x \in S : Quiet(x)
    BY <1>2
  <2> HIDE DEF s, S
  <2>3. Calm(s)
    BY <2>1, <2>2, QuietListIsCalm
  <2> QED BY <2>3 DEF s
<1>3. ASSUME NEW a, NEW b, Quiet(a), Quiet(b) PROVE Calm(<<a, b>>)
  <2> DEFINE s == <<a, b>>
             S == {a, b}
  <2>1. s \in Seq(S)
    OBVIOUS
  <2>2. \A x \in S : Quiet(x)
    BY <1>3
  <2> HIDE DEF s, S
  <2>3. Calm(s)
    BY <2>1, <2>2, QuietListIsCalm
  <2> QED BY <2>3 DEF s
<1> QED BY <1>1, <1>2, <1>3

(* One calm list after another is calm.                                    *)
LEMMA CalmThenCalm ==
  ASSUME NEW s, NEW t, Calm(s), Calm(t)
  PROVE  Calm(s \o t)
<1>1. PICK S : s \in Seq(S) /\ \A a \in S : Quiet(a)
  BY DEF Calm
<1>2. PICK T : t \in Seq(T) /\ \A a \in T : Quiet(a)
  BY DEF Calm
<1>3. s \in Seq(S \cup T) /\ t \in Seq(S \cup T)
  BY <1>1, <1>2
<1>4. s \o t \in Seq(S \cup T)
  BY <1>3
<1> QED BY <1>1, <1>2, <1>4 DEF Calm

(* The first thing of a calm list is quiet, the rest is calm.              *)
LEMMA CalmStepByStep ==
  ASSUME NEW s, Calm(s), s # <<>>
  PROVE  Quiet(Head(s)) /\ Calm(Tail(s))
<1>1. PICK S : s \in Seq(S) /\ \A a \in S : Quiet(a)
  BY DEF Calm
<1>2. Head(s) \in S /\ Tail(s) \in Seq(S)
  BY <1>1, HeadTailProperties
<1> QED BY <1>1, <1>2 DEF Calm

(* What the loop does when it has nothing to do with the mouse: acts, and  *)
(* then the rest.                                                          *)
LEMMA CalmGoesOn ==
  ASSUME NEW s, NEW acts, Calm(s), s # <<>>, Calm(acts)
  PROVE  Calm(acts \o Tail(s))
BY CalmStepByStep, CalmThenCalm

(* Short lists one after another.                                          *)
LEMMA ShortListsJoin ==
  /\ <<>> \o <<>> = <<>>
  /\ \A a, b : (<<a>> \o <<b>>) \o <<>> = <<a, b>>
<1>1. <<>> \o <<>> = <<>>
  BY EmptySeq, ConcatEmptySeq
<1>2. ASSUME NEW a, NEW b PROVE (<<a>> \o <<b>>) \o <<>> = <<a, b>>
  <2> DEFINE p == <<a>>
             q == <<b>>
             s == <<a, b>>
             S == {a, b}
  <2>1. p \in Seq(S) /\ q \in Seq(S) /\ s \in Seq(S)
    OBVIOUS
  <2>2. Len(p) = 1 /\ Len(q) = 1 /\ Len(s) = 2 /\ p[1] = a /\ q[1] = b /\ s[1] = a /\ s[2] = b
    OBVIOUS
  <2> HIDE DEF p, q, s, S
  <2>3. p \o q \in Seq(S) /\ Len(p \o q) = 2 /\ \A i \in 1..2 : (p \o q)[i] = IF i <= 1 THEN p[i] ELSE q[i - 1]
    BY <2>1, <2>2, ConcatProperties
  <2>4. (p \o q)[1] = a /\ (p \o q)[2] = b
    BY <2>2, <2>3
  <2>5. \A i \in 1..2 : (p \o q)[i] = s[i]
    BY <2>2, <2>4
  <2>6. p \o q = s
    BY <2>1, <2>2, <2>3, <2>5, SeqEqual
  <2>7. s \o <<>> = s
    BY <2>1, ConcatEmptySeq
  <2> QED BY Zenon, <2>6, <2>7 DEF p, q, s
<1> QED BY <1>1, <1>2

(* What tuples hold, and how they are joined.                              *)
LEMMA TupleFields ==
  /\ DOMAIN <<>> = {}
  /\ \A a : DOMAIN <<a>> = {1} /\ <<a>> [1] = a /\ <<a>> # <<>>
  /\ \A a, b : DOMAIN <<a, b>> = {1, 2} /\ <<a, b>> [1] = a /\ <<a, b>> [2] = b /\ <<a, b>> # <<>>
  /\ \A a, b, c : /\ DOMAIN <<a, b, c>> = {1, 2, 3}
                  /\ <<a, b, c>> [1] = a /\ <<a, b, c>> [2] = b /\ <<a, b, c>> [3] = c
  /\ \A a, b, c, d : /\ DOMAIN <<a, b, c, d>> = {1, 2, 3, 4}
                     /\ <<a, b, c, d>> [1] = a /\ <<a, b, c, d>> [2] = b
                     /\ <<a, b, c, d>> [3] = c /\ <<a, b, c, d>> [4] = d
OBVIOUS

LEMMA TuplesJoin ==
  /\ \A a, b : <<>> \o <<a, b>> = <<a, b>> /\ <<a, b>> \o <<>> = <<a, b>> /\ <<a>> \o <<b>> = <<a, b>>
  /\ \A a, b, c : <<a, b>> \o <<c>> = <<a, b, c>>
  /\ \A a, b, c, d : <<a, b>> \o <<c, d>> = <<a, b, c, d>>
<1>1. ASSUME NEW a, NEW b
      PROVE  <<>> \o <<a, b>> = <<a, b>> /\ <<a, b>> \o <<>> = <<a, b>> /\ <<a>> \o <<b>> = <<a, b>>
  <2> DEFINE w == <<a, b>>
             S == {a, b}
  <2>1. w \in Seq(S)
    OBVIOUS
  <2> HIDE DEF w, S
  <2>2. <<>> \o w = w /\ w \o <<>> = w
    BY <2>1, ConcatEmptySeq
  <2>3. (<<a>> \o <<b>>) \o <<>> = w
    BY Zenon, ShortListsJoin DEF w
  <2>4. <<a>> \o <<b>> \in Seq(S)
    BY DEF S
  <2>5. <<a>> \o <<b>> = w
    BY <2>3, <2>4, ConcatEmptySeq
  <2> QED BY <2>2, <2>5 DEF w
<1>2. ASSUME NEW a, NEW b, NEW c, NEW d
      PROVE  <<a, b>> \o <<c>> = <<a, b, c>> /\ <<a, b>> \o <<c, d>> = <<a, b, c, d>>
  <2> DEFINE p == <<a, b>>
             q == <<c>>
             r == <<c, d>>
             v == <<a, b, c>>
             w == <<a, b, c, d>>
             S == {a, b, c, d}
  <2>1. p \in Seq(S) /\ q \in Seq(S) /\ r \in Seq(S) /\ v \in Seq(S) /\ w \in Seq(S)
    OBVIOUS
  <2>2. Len(p) = 2 /\ Len(q) = 1 /\ Len(r) = 2 /\ Len(v) = 3 /\ Len(w) = 4
    OBVIOUS
  <2>3. /\ p[1] = a /\ p[2] = b /\ q[1] = c /\ r[1] = c /\ r[2] = d
        /\ v[1] = a /\ v[2] = b /\ v[3] = c /\ w[1] = a /\ w[2] = b /\ w[3] = c /\ w[4] = d
    OBVIOUS
  <2> HIDE DEF p, q, r, v, w, S
  <2>4. /\ p \o q \in Seq(S) /\ Len(p \o q) = Len(p) + Len(q)
        /\ \A i \in 1 .. Len(p) + Len(q) : (p \o q)[i] = IF i <= Len(p) THEN p[i] ELSE q[i - Len(p)]
    BY Zenon, <2>1, ConcatProperties
  <2>5. /\ p \o r \in Seq(S) /\ Len(p \o r) = Len(p) + Len(r)
        /\ \A i \in 1 .. Len(p) + Len(r) : (p \o r)[i] = IF i <= Len(p) THEN p[i] ELSE r[i - Len(p)]
    BY Zenon, <2>1, ConcatProperties
  <2>6. p \o q = v
    <3>1. (p \o q)[1] = v[1] /\ (p \o q)[2] = v[2] /\ (p \o q)[3] = v[3]
      BY <2>2, <2>3, <2>4
    <3>2. Len(p \o q) = Len(v) /\ \A i \in 1 .. Len(v) : (p \o q)[i] = v[i]
      BY <2>2, <2>4, <3>1
    <3> QED BY <2>1, <2>4, <3>2, SeqEqual
  <2>7. p \o r = w
    <3>1. (p \o r)[1] = w[1] /\ (p \o r)[2] = w[2] /\ (p \o r)[3] = w[3] /\ (p \o r)[4] = w[4]
      BY <2>2, <2>3, <2>5
    <3>2. Len(p \o r) = Len(w) /\ \A i \in 1 .. Len(w) : (p \o r)[i] = w[i]
      BY <2>2, <2>5, <3>1
    <3> QED BY <2>1, <2>5, <3>2, SeqEqual
  <2> QED BY <2>6, <2>7 DEF p, q, r, v, w
<1>3. \A a, b : <<>> \o <<a, b>> = <<a, b>> /\ <<a, b>> \o <<>> = <<a, b>> /\ <<a>> \o <<b>> = <<a, b>>
  BY Zenon, <1>1
<1>4. \A a, b, c, d : <<a, b>> \o <<c>> = <<a, b, c>> /\ <<a, b>> \o <<c, d>> = <<a, b, c, d>>
  BY Zenon, <1>2
<1> QED BY Zenon, <1>3, <1>4

(* What an act is made of.                                                *)
LEMMA ActFields == \A n, arg : Act(n, arg).op = n /\ Act(n, arg).arg = arg
BY DEF Act

(* The first steps of the four lists about the mouse.                      *)
LEMMA MouseStepByStep ==
  /\ Head(<<Act("mouse", "")>>) = Act("mouse", "") /\ Tail(<<Act("mouse", "")>>) = <<>>
  /\ Head(<<Act("mouseNote", "")>>) = Act("mouseNote", "") /\ Tail(<<Act("mouseNote", "")>>) = <<>>
  /\ Head(<<Act("off", "mouse")>>) = Act("off", "mouse") /\ Tail(<<Act("off", "mouse")>>) = <<>>
  /\ Head(<<Act("on", "mouse"), Act("mouseNote", "")>>) = Act("on", "mouse")
  /\ Tail(<<Act("on", "mouse"), Act("mouseNote", "")>>) = <<Act("mouseNote", "")>>
<1>1. \A a : Head(<<a>>) = a /\ Tail(<<a>>) = <<>>
  OBVIOUS
<1>2. \A a, b : Head(<<a, b>>) = a /\ Tail(<<a, b>>) = <<b>>
  OBVIOUS
<1> QED BY <1>1, <1>2

-----------------------------------------------------------------------------
(* Tidy lists.                                                             *)

(* Something to do that switches no mode on and takes no note back.        *)
Mild(a) ==
  /\ Quiet(a) /\ a.op \notin {"on", "unnote"}
  /\ a.op = "claim" => a.arg \notin {"modify", "kitty"}

Plain(s) == \E S : s \in Seq(S) /\ \A a \in S : Mild(a)

(* A list that may be put before any other: what it notes it notes itself, *)
(* and it takes back only the weaker keyboard protocol.                    *)
Prefixed(s, flags) ==
  /\ \E S : s \in Seq(S)
  /\ \A i \in DOMAIN s :
       /\ s[i].op = "on" => \/ s[i].arg \in {"appearance", "mouse"}
                            \/ NotedAfter(s, i, s[i].arg)
                            \/ s[i].arg \in flags \ {"modify", "kitty"}
       /\ s[i].op = "unnote" => s[i].arg = "modify" /\ i > 1 /\ Switched(s, i)
       /\ s[i].op = "claim" => s[i].arg \notin {"modify", "kitty"}

(* Plain lists are calm and tidy, and may come before any other.           *)
LEMMA PlainLists ==
  ASSUME NEW s, Plain(s), NEW flags
  PROVE  Calm(s) /\ Tidy(s, flags) /\ Prefixed(s, flags) /\ (s # <<>> => s[1].op # "unnote")
<1>1. PICK S : s \in Seq(S) /\ \A a \in S : Mild(a)
  BY DEF Plain
<1>2. Calm(s)
  BY <1>1 DEF Calm, Mild
<1>3. \A i \in DOMAIN s : Mild(s[i])
  BY <1>1
<1>4. Tidy(s, flags) /\ Prefixed(s, flags)
  BY <1>1, <1>3 DEF Tidy, Prefixed, Mild
<1>5. s # <<>> => 1 \in DOMAIN s
  BY <1>1, EmptySeq
<1> QED BY <1>2, <1>3, <1>4, <1>5 DEF Mild

(* Nothing, and one mild thing, are plain, and plain lists can be joined.  *)
LEMMA ShortListsArePlain ==
  /\ Plain(<<>>)
  /\ \A a : Mild(a) => Plain(<<a>>)
<1>1. Plain(<<>>)
  BY EmptySeq DEF Plain
<1>2. ASSUME NEW a, Mild(a) PROVE Plain(<<a>>)
  <2> DEFINE s == <<a>>
             S == {a}
  <2>1. s \in Seq(S)
    OBVIOUS
  <2>2. \A x \in S : Mild(x)
    BY <1>2
  <2> HIDE DEF s, S
  <2>3. Plain(s)
    BY <2>1, <2>2 DEF Plain
  <2> QED BY <2>3 DEF s
<1> QED BY <1>1, <1>2

LEMMA PlainThenPlain ==
  ASSUME NEW s, NEW t, Plain(s), Plain(t)
  PROVE  Plain(s \o t)
<1>1. PICK S : s \in Seq(S) /\ \A a \in S : Mild(a)
  BY DEF Plain
<1>2. PICK T : t \in Seq(T) /\ \A a \in T : Mild(a)
  BY DEF Plain
<1>3. s \in Seq(S \cup T) /\ t \in Seq(S \cup T)
  BY <1>1, <1>2
<1>4. s \o t \in Seq(S \cup T)
  BY <1>3
<1> QED BY <1>1, <1>2, <1>4 DEF Plain

(* The rest of a tidy list is tidy, whatever flags come on; if it begins   *)
(* with taking a note back, the mode was the last thing switched off.      *)
LEMMA TidyGoesOn ==
  ASSUME NEW S, NEW s \in Seq(S), s # <<>>, NEW flags, Tidy(s, flags)
  PROVE  /\ Tidy(Tail(s), flags)
         /\ Tail(s) # <<>> /\ Tail(s)[1].op = "unnote" => s[1].op = "off" /\ s[1].arg = Tail(s)[1].arg
<1> DEFINE t == Tail(s)
<1>1. Len(s) \in Nat \ {0} /\ DOMAIN s = 1..Len(s)
  BY EmptySeq
<1>2. DOMAIN t = 1..(Len(s) - 1) /\ \A i \in DOMAIN t : t[i] = s[i + 1] /\ i + 1 \in DOMAIN s
  BY <1>1, HeadTailProperties
<1> HIDE DEF t
<1>3. ASSUME NEW i \in DOMAIN t, t[i].op = "on"
      PROVE  \/ t[i].arg \in {"appearance", "mouse"}
             \/ NotedAfter(t, i, t[i].arg)
             \/ t[i].arg \in flags \ {"modify"} /\ ~Unnotes(t, t[i].arg)
  <2>1. t[i] = s[i + 1] /\ i + 1 \in DOMAIN s
    BY <1>2
  <2>2. CASE NotedAfter(s, i + 1, t[i].arg)
    <3>1. PICK j \in DOMAIN s : j > i + 1 /\ s[j].op = "note" /\ s[j].arg = t[i].arg
      BY <2>2 DEF NotedAfter
    <3>2. j - 1 \in DOMAIN t /\ t[j - 1] = s[j] /\ j - 1 > i
      BY <1>1, <1>2, <3>1
    <3> QED BY <3>1, <3>2 DEF NotedAfter
  <2>3. CASE t[i].arg \in flags \ {"modify"} /\ ~Unnotes(s, t[i].arg)
    BY <1>2, <2>3 DEF Unnotes
  <2> QED BY <1>3, <2>1, <2>2, <2>3 DEF Tidy
<1>4. ASSUME NEW i \in DOMAIN t, t[i].op = "unnote"
      PROVE  t[i].arg \in {"modify", "kitty"} /\ s[i].op = "off" /\ s[i].arg = t[i].arg
             /\ (i > 1 => t[i - 1] = s[i])
  <2>1. t[i] = s[i + 1] /\ i + 1 \in DOMAIN s /\ i + 1 > 1 /\ (i + 1) - 1 = i
    BY <1>1, <1>2
  <2>2. i > 1 => i - 1 \in DOMAIN t
    BY <1>1, <1>2
  <2> QED BY <1>2, <1>4, <2>1, <2>2 DEF Tidy, Switched
<1>5. \A i \in DOMAIN t : t[i].op = "claim" => t[i].arg \notin {"modify", "kitty"}
  BY <1>2 DEF Tidy
<1>6. Tidy(t, flags)
  BY <1>3, <1>4, <1>5 DEF Tidy, Switched
<1>7. t # <<>> => 1 \in DOMAIN t
  BY <1>1, <1>2 DEF t
<1> QED BY <1>4, <1>6, <1>7 DEF t

(* More flags do no harm.                                                  *)
LEMMA TidyStays ==
  ASSUME NEW s, NEW flags, NEW more, Tidy(s, flags), flags \subseteq more
  PROVE  Tidy(s, more)
BY DEF Tidy

(* A list that may come before any other, and a tidy one after it.         *)
LEMMA TidyJoins ==
  ASSUME NEW a, NEW flags, Prefixed(a, flags),
         NEW S, NEW t \in Seq(S), Tidy(t, flags), t # <<>> => t[1].op # "unnote"
  PROVE  /\ Tidy(a \o t, flags)
         /\ a \o t # <<>> => (a \o t)[1].op # "unnote"
<1>1. PICK T : a \in Seq(T)
  BY DEF Prefixed
<1> DEFINE w == a \o t
           n == Len(a)
<1>2. a \in Seq(S \cup T) /\ t \in Seq(S \cup T)
  BY <1>1
<1>3. /\ n \in Nat /\ Len(t) \in Nat /\ DOMAIN a = 1..n /\ DOMAIN t = 1..Len(t) /\ DOMAIN w = 1..(n + Len(t))
      /\ \A i \in 1..(n + Len(t)) : w[i] = IF i <= n THEN a[i] ELSE t[i - n]
  BY <1>2, ConcatProperties
<1> HIDE DEF w, n
<1>4. \A i \in DOMAIN a : i \in DOMAIN w /\ w[i] = a[i]
  BY <1>3
<1>5. \A i \in DOMAIN w : i \notin DOMAIN a => i - n \in DOMAIN t /\ w[i] = t[i - n] /\ i > n
  BY <1>3
<1>6. \A i \in DOMAIN t : i + n \in DOMAIN w /\ w[i + n] = t[i]
  BY <1>3
<1>7. \A i \in DOMAIN a : a[i].op = "unnote" => a[i].arg = "modify" /\ i > 1 /\ Switched(a, i)
  BY DEF Prefixed
<1>8. \A i \in DOMAIN t : t[i].op = "unnote" => t[i].arg \in {"modify", "kitty"} /\ i > 1 /\ Switched(t, i)
  BY <1>3 DEF Tidy
<1>9. ASSUME NEW m, m # "modify", ~Unnotes(t, m) PROVE ~Unnotes(w, m)
  BY <1>4, <1>5, <1>7, <1>9 DEF Unnotes
<1>10. ASSUME NEW i \in DOMAIN w, w[i].op = "on"
       PROVE  \/ w[i].arg \in {"appearance", "mouse"}
              \/ NotedAfter(w, i, w[i].arg)
              \/ w[i].arg \in flags \ {"modify"} /\ ~Unnotes(w, w[i].arg)
  <2>1. CASE i \in DOMAIN a
    <3>1. w[i] = a[i]
      BY <1>4, <2>1
    <3>2. CASE NotedAfter(a, i, a[i].arg)
      BY <1>4, <3>1, <3>2 DEF NotedAfter
    <3>3. CASE a[i].arg \in flags \ {"modify", "kitty"}
      <4>1. ~Unnotes(t, a[i].arg)
        BY <1>8, <3>3 DEF Unnotes
      <4> QED BY <1>9, <3>1, <3>3, <4>1
    <3> QED BY <1>10, <2>1, <3>1, <3>2, <3>3 DEF Prefixed
  <2>2. CASE i \notin DOMAIN a
    <3>1. i - n \in DOMAIN t /\ w[i] = t[i - n]
      BY <1>5, <2>2
    <3>2. CASE NotedAfter(t, i - n, t[i - n].arg)
      <4>1. PICK j \in DOMAIN t : j > i - n /\ t[j].op = "note" /\ t[j].arg = t[i - n].arg
        BY <3>2 DEF NotedAfter
      <4>2. j + n \in DOMAIN w /\ w[j + n] = t[j] /\ j + n > i
        BY <1>3, <1>6, <4>1
      <4> QED BY <3>1, <4>1, <4>2 DEF NotedAfter
    <3>3. CASE t[i - n].arg \in flags \ {"modify"} /\ ~Unnotes(t, t[i - n].arg)
      BY <1>9, <3>1, <3>3
    <3> QED BY <1>10, <3>1, <3>2, <3>3 DEF Tidy
  <2> QED BY <2>1, <2>2
<1>11. ASSUME NEW i \in DOMAIN w, w[i].op = "unnote"
       PROVE  w[i].arg \in {"modify", "kitty"} /\ i > 1 /\ Switched(w, i)
  <2>1. CASE i \in DOMAIN a
    <3>1. w[i] = a[i] /\ i > 1 /\ Switched(a, i) /\ a[i].arg = "modify"
      BY <1>4, <1>7, <1>11, <2>1
    <3>2. i - 1 \in DOMAIN a
      BY <1>3, <2>1, <3>1
    <3> QED BY <1>4, <3>1, <3>2 DEF Switched
  <2>2. CASE i \notin DOMAIN a
    <3>1. i - n \in DOMAIN t /\ w[i] = t[i - n] /\ i > n
      BY <1>5, <2>2
    <3>2. i - n > 1 /\ Switched(t, i - n) /\ t[i - n].arg \in {"modify", "kitty"}
      BY <1>8, <1>11, <3>1
    <3>3. i - 1 \in DOMAIN w /\ w[i - 1] = t[(i - n) - 1] /\ i > 1
      BY <1>3, <3>1, <3>2
    <3> QED BY <3>1, <3>2, <3>3 DEF Switched
  <2> QED BY <2>1, <2>2
<1>12. ASSUME NEW i \in DOMAIN w, w[i].op = "claim" PROVE w[i].arg \notin {"modify", "kitty"}
  BY <1>4, <1>5, <1>12 DEF Prefixed, Tidy
<1>13. Tidy(w, flags)
  BY <1>10, <1>11, <1>12 DEF Tidy
<1>14. w # <<>> => 1 \in DOMAIN w
  BY <1>2, <1>3 DEF w
<1> QED BY <1>11, <1>13, <1>14 DEF w

-----------------------------------------------------------------------------
(* The answers.                                                            *)

(* Every act but those about the mouse is quiet, and mild if it switches   *)
(* nothing; a probe has its kind.                                          *)
LEMMA ActsAreMild ==
  ASSUME NEW arg
  PROVE  /\ \A op \in {"emit", "resolve", "keyboardMiss", "kitty", "colour", "dsr", "leave"} : Mild(Act(op, arg))
         /\ \A op \in {"on", "off", "note", "unnote", "claim"} : arg # "mouse" => Quiet(Act(op, arg))
         /\ arg \in PrivateModes => Mild(Act("claim", arg)) /\ Mild(Act("claim", "noscroll"))
         /\ arg \in Kinds => Mild(Act("probe", arg))
BY DEF Mild, Quiet, Act, PrivateModes

(* The other fields of the router are free.                                *)
LEMMA RouterFields ==
  ASSUME NEW p, NEW v, IsRouter(p)
  PROVE  /\ IsRouter([p EXCEPT !.csi = v]) /\ IsRouter([p EXCEPT !.osc11 = v])
         /\ IsRouter([p EXCEPT !.pending = v]) /\ IsRouter([p EXCEPT !.queued = v])
BY DEF IsRouter

(* Putting pieces together again leaves the owners alone.                  *)
LEMMA ReassemblyKeepsOwners ==
  ASSUME NEW p, NEW seq, IsRouter(p)
  PROVE  IsRouter(Reassembled(p, seq).p)
<1> DEFINE kept(buf) == [p EXCEPT !.csi = buf]
<1>1. \A buf : IsRouter(kept(buf))
  BY DEF IsRouter
<1>2. Reassembled(p, seq).p \in {p, kept(<<>>), kept(p.csi \o seq)}
  BY DEF Reassembled
<1> QED BY <1>1, <1>2

(* A DA1 takes the head of the line away and at most resolves a mode.      *)
LEMMA SentinelIsPlain ==
  ASSUME NEW p, IsRouter(p), p.owners # <<>>
  PROVE  IsRouter(Sentinel(p).p) /\ Plain(Sentinel(p).acts)
<1>1. Head(p.owners) \in Kinds /\ Tail(p.owners) \in Seq(Kinds)
  BY HeadTailProperties DEF IsRouter
<1>2. IsRouter(shiftOwner(p))
  <2>1. shiftOwner(p) = [owners |-> Tail(p.owners), csi |-> p.csi, osc11 |-> p.osc11,
                         pending |-> p.pending, queued |-> p.queued]
    BY SMTT(40) DEF IsRouter, shiftOwner
  <2> QED BY <1>1, <2>1 DEF IsRouter
<1>3. CASE Head(p.owners) = "colour"
  <2> DEFINE q == shiftOwner(p)
             o == IF p.pending THEN <<>> ELSE q.osc11
             w == [q EXCEPT !.pending = FALSE, !.osc11 = o]
  <2>1. IsRouter(w)
    <3> HIDE DEF q, o
    <3>1. IsRouter([q EXCEPT !.pending = FALSE])
      BY <1>2, RouterFields DEF q
    <3>2. IsRouter([[q EXCEPT !.pending = FALSE] EXCEPT !.osc11 = o])
      BY <3>1, RouterFields
    <3> QED BY <3>2
  <2>2. Sentinel(p) = CASE Head(p.owners) = "colour" -> [p |-> w, acts |-> <<>>]
                        [] Head(p.owners) = "keyboard" -> [p |-> q, acts |-> <<Act("keyboardMiss", "")>>]
                        [] Head(p.owners) \in PrivateModes ->
                             [p |-> q, acts |-> <<Act("resolve", [mode |-> Head(p.owners), supported |-> FALSE])>>]
    BY Zenon DEF Sentinel
  <2>3. Sentinel(p) = [p |-> w, acts |-> <<>>]
    <3> HIDE DEF q, w
    <3> QED BY <1>3, <2>2 DEF PrivateModes
  <2> HIDE DEF w
  <2> QED BY <2>1, <2>3, ShortListsArePlain
<1>4. CASE Head(p.owners) = "keyboard"
  BY <1>2, <1>4, ShortListsArePlain, ActsAreMild DEF Sentinel
<1>5. CASE Head(p.owners) \in PrivateModes
  <2>1. Head(p.owners) \notin {"colour", "keyboard"}
    BY <1>5 DEF PrivateModes
  <2> QED BY <1>2, <1>5, <2>1, ShortListsArePlain, ActsAreMild DEF Sentinel
<1> QED BY <1>1, <1>3, <1>4, <1>5 DEF Kinds

(* Collecting the colour makes at most a colour.                           *)
LEMMA ColourIsPlain ==
  ASSUME NEW p, NEW seq, IsRouter(p)
  PROVE  IsRouter(ColourPiece(p, seq).p) /\ Plain(ColourPiece(p, seq).acts)
BY ShortListsArePlain, ActsAreMild DEF ColourPiece, IsRouter

(* Whatever a sequence is taken for, it gives the loop nothing to do with  *)
(* the mouse, and no mode to switch on at once.                            *)
LEMMA RouteIsPlain ==
  ASSUME NEW p0, NEW seq0, IsRouter(p0)
  PROVE  IsRouter(route(p0, seq0).p) /\ Plain(route(p0, seq0).acts)
<1> DEFINE r   == Reassembled(p0, seq0)
           p   == r.p
           seq == r.seq
           settled == <<Act("resolve", [mode |-> seq[4], supported |-> seq[5] = "+"])>>
           claimed == IF seq[4] = "scroll" /\ seq[5] = "+" THEN <<Act("claim", "noscroll")>> ELSE <<>>
           other(act) == [p |-> [p EXCEPT !.osc11 = IF p.pending THEN <<>> ELSE @], acts |-> <<act>>]
<1>1. IsRouter(p)
  BY ReassemblyKeepsOwners
<1>2. Plain(settled \o claimed)
  <2>1. Plain(settled)
    BY ShortListsArePlain, ActsAreMild
  <2>2. Plain(claimed)
    BY ShortListsArePlain, ActsAreMild DEF PrivateModes
  <2> QED BY <2>1, <2>2, PlainThenPlain
<1>3. \A act : Mild(act) => IsRouter(other(act).p) /\ Plain(other(act).acts)
  BY <1>1, ShortListsArePlain DEF IsRouter
<1>4. \/ route(p0, seq0) = [p |-> p, acts |-> <<>>]
      \/ route(p0, seq0) = [p |-> p, acts |-> settled \o claimed]
      \/ route(p0, seq0) = [p |-> p, acts |-> <<Act("kitty", "")>>]
      \/ route(p0, seq0) = other(Act("dsr", ""))
      \/ route(p0, seq0) = other(Act("emit", seq0))
      \/ p.owners # <<>> /\ route(p0, seq0) = Sentinel(p)
      \/ route(p0, seq0) = ColourPiece(p, seq)
  <2> DEFINE c1 == r.eaten
             c2 == ~r.eaten /\ \E m \in PrivateModes, status \in {"+", "-"} : seq = DECRPM(m, status)
             c3 == ~r.eaten /\ seq = DA1 /\ p.owners # <<>>
             c4 == ~r.eaten /\ seq = KittyFlags
             c5 == ~r.eaten /\ CollectsColour(p, seq)
             c6 == ~r.eaten /\ seq = AppearanceDSR
  <2>1. route(p0, seq0) = CASE c1 -> [p |-> p, acts |-> <<>>]
                            [] c2 -> [p |-> p, acts |-> settled \o claimed]
                            [] c3 -> Sentinel(p)
                            [] c4 -> [p |-> p, acts |-> <<Act("kitty", "")>>]
                            [] c5 -> ColourPiece(p, seq)
                            [] c6 -> other(Act("dsr", ""))
                            [] OTHER -> other(Act("emit", seq0))
    BY Zenon DEF route
  <2>2. c3 => p.owners # <<>>
    OBVIOUS
  <2> HIDE DEF c1, c2, c3, c4, c5, c6, p, settled, claimed, other, seq, r
  <2> QED BY <2>1, <2>2
<1> HIDE DEF p, settled, claimed, other, seq, r
<1>5. CASE p.owners # <<>> /\ route(p0, seq0) = Sentinel(p)
  BY <1>1, <1>5, SentinelIsPlain
<1>6. CASE route(p0, seq0) = ColourPiece(p, seq)
  BY <1>1, <1>6, ColourIsPlain
<1>7. CASE route(p0, seq0) = other(Act("dsr", "")) \/ route(p0, seq0) = other(Act("emit", seq0))
  BY <1>3, <1>7, ActsAreMild
<1>8. CASE route(p0, seq0) = [p |-> p, acts |-> <<>>]
  BY <1>1, <1>8, ShortListsArePlain
<1>9. CASE route(p0, seq0) = [p |-> p, acts |-> settled \o claimed]
  BY <1>1, <1>2, <1>9
<1>10. CASE route(p0, seq0) = [p |-> p, acts |-> <<Act("kitty", "")>>]
  <2>1. Mild(Act("kitty", ""))
    BY ActsAreMild
  <2>2. Plain(<<Act("kitty", "")>>)
    BY <2>1, ShortListsArePlain
  <2> DEFINE kitty == <<Act("kitty", "")>>
  <2> HIDE DEF kitty
  <2>3. route(p0, seq0) = [p |-> p, acts |-> kitty]
    BY <1>10 DEF kitty
  <2>4. Plain(kitty)
    BY <2>2 DEF kitty
  <2> QED BY <1>1, <2>3, <2>4
<1> QED BY <1>4, <1>5, <1>6, <1>7, <1>8, <1>9, <1>10

-----------------------------------------------------------------------------
(* What the loop is doing, and what it still has to do.                    *)

Watching == {<<Act("mouseNote", "")>>, <<Act("off", "mouse")>>}

(* The head of the list says which list it is.                             *)
LEMMA HeadsTell ==
  ASSUME Routed, NEW n, Doing(n)
  PROVE  /\ n \notin {"mouse", "mouseNote", "on", "off"} => Calm(loop.todo) /\ loop.todo \notin Watching
         /\ n = "mouse" => loop.todo = <<Act("mouse", "")>>
         /\ n = "mouseNote" => loop.todo = <<Act("mouseNote", "")>>
         /\ n = "on" => \/ Calm(loop.todo) /\ Arg # "mouse"
                        \/ loop.todo = <<Act("on", "mouse"), Act("mouseNote", "")>>
         /\ n = "off" => \/ Calm(loop.todo) /\ Arg # "mouse"
                         \/ loop.todo = <<Act("off", "mouse")>> /\ Arg = "mouse"
<1>0. loop.todo # <<>> /\ Head(loop.todo).op = n
  BY DEF Doing
<1>1. CASE Calm(loop.todo)
  <2>1. Quiet(Head(loop.todo))
    BY <1>0, <1>1, CalmStepByStep
  <2>2. n \notin {"mouse", "mouseNote"} /\ (n \in {"on", "off"} => Arg # "mouse")
    BY <1>0, <2>1 DEF Quiet, Arg
  <2>3. ASSUME loop.todo = <<Act("mouseNote", "")>> PROVE n = "mouseNote"
    <3>1. Head(loop.todo) = Act("mouseNote", "")
      BY Zenon, <2>3, MouseStepByStep
    <3> QED BY Zenon, <1>0, <3>1, ActFields
  <2>4. ASSUME loop.todo = <<Act("off", "mouse")>> PROVE n = "off"
    <3>1. Head(loop.todo) = Act("off", "mouse")
      BY Zenon, <2>4, MouseStepByStep
    <3> QED BY Zenon, <1>0, <3>1, ActFields
  <2> QED BY <1>1, <2>2, <2>3, <2>4 DEF Watching
<1>2. CASE loop.todo = <<Act("mouse", "")>>
  <2>1. Head(loop.todo) = Act("mouse", "")
    BY Zenon, <1>2, MouseStepByStep
  <2>2. n = "mouse"
    BY Zenon, <1>0, <2>1, ActFields
  <2> QED BY <1>2, <2>2
<1>3. CASE loop.todo = <<Act("on", "mouse"), Act("mouseNote", "")>>
  <2>1. Head(loop.todo) = Act("on", "mouse")
    BY Zenon, <1>3, MouseStepByStep
  <2>2. n = "on"
    BY Zenon, <1>0, <2>1, ActFields
  <2> QED BY <1>3, <2>2
<1>4. CASE loop.todo = <<Act("mouseNote", "")>>
  <2>1. Head(loop.todo) = Act("mouseNote", "")
    BY Zenon, <1>4, MouseStepByStep
  <2>2. n = "mouseNote"
    BY Zenon, <1>0, <2>1, ActFields
  <2> QED BY <1>4, <2>2
<1>5. CASE loop.todo = <<Act("off", "mouse")>>
  <2>1. Head(loop.todo) = Act("off", "mouse")
    BY Zenon, <1>5, MouseStepByStep
  <2>2. n = "off"
    BY Zenon, <1>0, <2>1, ActFields
  <2>3. Arg = "mouse"
    BY Zenon, <2>1, ActFields DEF Arg
  <2> QED BY <1>5, <2>2, <2>3
<1> QED BY <1>1, <1>2, <1>3, <1>4, <1>5 DEF Routed, MouseWork

(* A list about the mouse is not empty.                                    *)
LEMMA WatchingIsBusy ==
  ASSUME loop.todo \in Watching
  PROVE  loop.todo # <<>>
<1>1. \A a : <<a>> # <<>>
  OBVIOUS
<1> QED BY <1>1 DEF Watching

-----------------------------------------------------------------------------
(* Steps that leave the modes and Stop alone.                              *)

(* The same session of the terminal, and Stop as far as it was.            *)
SameLife(x, y) == IsTerm(x) /\ x.started = y.started /\ x.stopped = y.stopped

Apart ==
  /\ screen'.modes = screen.modes /\ stopper' = stopper /\ late' = late /\ Noted'
  /\ SameLife(term', term)
  /\ loop'.on => loop.on
  /\ loop.on /\ loop.todo \in Watching => loop'.on /\ loop'.todo = loop.todo
  /\ app.does = "stop" => app'.does = "stop"
  /\ app'.does = "start" => app.does = "start"

(* Such a step keeps the invariant if it keeps its first two parts.        *)
LEMMA ApartKeeps ==
  ASSUME TerminalInv, Apart, Shaped', Routed'
  PROVE  TerminalInv'
<1>1. Alive'
  BY DEF TerminalInv, Alive, Apart, SameLife
<1>2. MouseIsWatched'
  BY DEF TerminalInv, MouseIsWatched, Apart, Watching
<1>3. Undone'
  BY DEF TerminalInv, Undone, Apart, SameLife
<1> QED BY <1>1, <1>2, <1>3 DEF TerminalInv, Apart

(* The loop is busy with a list of acts that are each something.           *)
LEMMA TodoIsASequence ==
  ASSUME Routed
  PROVE  \E S : loop.todo \in Seq(S)
<1>1. \A a : <<a>> \in Seq({a})
  OBVIOUS
<1>2. \A a, b : <<a, b>> \in Seq({a, b})
  OBVIOUS
<1>3. ASSUME NEW w \in MouseWork PROVE \E S : w \in Seq(S)
  <2>1. \E a, b : w = <<a>> \/ w = <<a, b>>
    BY Zenon DEF MouseWork
  <2>2. PICK a, b : w = <<a>> \/ w = <<a, b>>
    BY Zenon, <2>1
  <2>3. CASE w = <<a>>
    BY <1>1, <2>3
  <2>4. CASE w = <<a, b>>
    BY <1>2, <2>4
  <2> QED BY <2>2, <2>3, <2>4
<1> QED BY <1>3 DEF Routed, Calm

(* A step of the loop that switches nothing: what it notes was the head,   *)
(* and what it takes a note of back is off.                                *)
LEMMA NotedStep ==
  ASSUME TerminalInv, NEW n, n \notin {"on", "off"}, Doing(n),
         NEW acts, HasNotLooked => Prefixed(acts, term'.flags),
         loop'.todo = acts \o Tail(loop.todo), loop'.on = loop.on,
         UNCHANGED <<stopper, late>>, screen'.modes = screen.modes,
         n = "note" => term'.flags = term.flags \cup {Arg},
         n = "unnote" => term'.flags = term.flags \ {Arg},
         n \notin {"note", "unnote"} => term.flags \subseteq term'.flags
  PROVE  Noted'
<1> SUFFICES ASSUME HasNotLooked PROVE Noted'
  BY DEF Noted, HasNotLooked
<1> DEFINE s == loop.todo
           t == Tail(loop.todo)
<1>1. loop.on /\ s # <<>> /\ Head(s).op = n /\ Arg = Head(s).arg
  BY DEF Doing, Arg
<1>2. PICK S : s \in Seq(S)
  BY TodoIsASequence DEF TerminalInv
<1>3. s[1].op = n /\ Arg = s[1].arg /\ 1 \in DOMAIN s /\ t \in Seq(S) /\ Len(s) \in Nat \ {0}
      /\ DOMAIN t = 1..(Len(s) - 1) /\ \A i \in DOMAIN t : t[i] = s[i + 1]
  BY <1>1, <1>2, EmptySeq, HeadTailProperties
<1>4. Tidy(s, term.flags) /\ StartsOff /\ \A m \in screen.modes : m \in term.flags \cup late \cup Reset \/ NoteDue(m)
  BY <1>1 DEF TerminalInv, Noted
<1>5. Tidy(t, term.flags) /\ (t # <<>> => t[1].op # "unnote")
  BY <1>1, <1>2, <1>3, <1>4, TidyGoesOn
<1>6. n = "unnote" => Arg \notin screen.modes
  BY <1>1, <1>3, <1>4 DEF StartsOff
<1>7. Tidy(t, term'.flags)
  <2>1. CASE n = "unnote"
    <3>1. Unnotes(s, Arg)
      BY <1>3, <2>1 DEF Unnotes
    <3>2. ASSUME NEW i \in DOMAIN t, t[i].op = "on", t[i].arg = Arg, Arg # "appearance", Arg # "mouse"
          PROVE  NotedAfter(t, i, Arg)
      <4>1. i + 1 \in DOMAIN s /\ s[i + 1] = t[i]
        BY <1>2, <1>3
      <4>2. NotedAfter(s, i + 1, Arg)
        BY <1>4, <3>1, <3>2, <4>1 DEF Tidy
      <4>3. PICK j \in DOMAIN s : j > i + 1 /\ s[j].op = "note" /\ s[j].arg = Arg
        BY <4>2 DEF NotedAfter
      <4>4. j - 1 \in DOMAIN t /\ t[j - 1] = s[j] /\ j - 1 > i
        BY <1>2, <1>3, <4>3
      <4> QED BY <4>3, <4>4 DEF NotedAfter
    <3>3. term'.flags = term.flags \ {Arg}
      BY <2>1
    <3> HIDE DEF t
    <3> QED BY <1>5, <3>2, <3>3 DEF Tidy
  <2>2. CASE n # "unnote"
    <3>1. term.flags \subseteq term'.flags
      BY <2>2
    <3> QED BY <1>5, <3>1, TidyStays
  <2> QED BY <2>1, <2>2
<1>8. Tidy(acts \o t, term'.flags) /\ (acts \o t # <<>> => (acts \o t)[1].op # "unnote")
  <2> HIDE DEF t
  <2> QED BY <1>3, <1>5, <1>7, TidyJoins
<1>9. ASSUME NEW m \in screen.modes, m \notin late \cup Reset PROVE m \in term'.flags \/ (NoteDue(m))'
  <2>1. CASE m \in term.flags
    BY <1>6, <2>1
  <2>2. CASE NoteDue(m)
    <3>1. PICK i \in DOMAIN s : s[i].op = "note" /\ s[i].arg = m
      BY <2>2 DEF NoteDue
    <3>2. CASE i = 1
      BY <1>3, <3>1, <3>2
    <3>3. CASE i # 1
      <4>1. i - 1 \in DOMAIN t /\ t[i - 1] = s[i]
        BY <1>2, <1>3, <3>1, <3>3
      <4>2. PICK T : acts \in Seq(T)
        BY DEF Prefixed
      <4>3. acts \in Seq(S \cup T) /\ t \in Seq(S \cup T)
        BY <1>3, <4>2
      <4> HIDE DEF t
      <4>4. Len(acts) + (i - 1) \in DOMAIN (acts \o t) /\ (acts \o t)[Len(acts) + (i - 1)] = t[i - 1]
        BY <4>1, <4>3, ConcatProperties
      <4>5. loop'.todo = acts \o t
        BY DEF t
      <4> QED BY <3>1, <4>1, <4>4, <4>5 DEF NoteDue
    <3> QED BY <3>2, <3>3
  <2> QED BY <1>4, <1>9, <2>1, <2>2
<1>10. Reset' = Reset
  BY DEF Reset
<1> QED BY <1>8, <1>9, <1>10 DEF Noted, StartsOff

(* The loop does something that has nothing to do with the mouse.          *)
LEMMA QuietStep ==
  ASSUME TerminalInv, NEW n, n \notin {"mouse", "mouseNote", "on", "off"}, Doing(n),
         NEW acts, Calm(acts), Then(acts), Shaped', IsRouter(probe'), cmds' \in Seq(Commands),
         UNCHANGED <<stopper, app, late>>, screen'.modes = screen.modes,
         SameLife(term', term), HasNotLooked => Prefixed(acts, term'.flags),
         n = "note" => term'.flags = term.flags \cup {Arg},
         n = "unnote" => term'.flags = term.flags \ {Arg},
         n \notin {"note", "unnote"} => term.flags \subseteq term'.flags
  PROVE  TerminalInv'
<1>1. Calm(loop.todo) /\ loop.todo \notin Watching /\ loop.todo # <<>>
  BY HeadsTell DEF TerminalInv, Doing
<1>2. loop'.on = loop.on /\ loop'.todo = acts \o Tail(loop.todo)
  BY DEF Then, TerminalInv, Shaped
<1>3. Calm(loop'.todo)
  BY <1>1, <1>2, CalmGoesOn
<1>4. Routed'
  BY <1>3 DEF Routed
<1>5. Noted'
  BY <1>2, NotedStep
<1>6. Apart
  BY <1>1, <1>2, <1>5 DEF Apart
<1> QED BY <1>4, <1>6, ApartKeeps

(* Nothing changes that the invariant is about, but messages come and go.  *)
LEMMA OthersStep ==
  ASSUME TerminalInv, Shaped', cmds' \in Seq(Commands), UNCHANGED <<stopper, late, loop, probe>>,
         screen'.modes = screen.modes, SameLife(term', term), term'.flags = term.flags,
         app.does = "stop" => app'.does = "stop", app'.does = "start" => app.does = "start"
  PROVE  TerminalInv'
<1>1. Routed'
  BY DEF TerminalInv, Routed
<1>2. Noted'
  BY DEF TerminalInv, Noted, HasNotLooked, NoteDue, Reset, StartsOff
<1>3. Apart
  BY <1>2 DEF Apart
<1> QED BY <1>1, <1>3, ApartKeeps

-----------------------------------------------------------------------------
(* The loop's steps.                                                       *)

(* A field of a record that is there may be replaced.                      *)
LEMMA FieldsStay ==
  ASSUME Shaped, NEW v
  PROVE  /\ LET s == [screen EXCEPT !.wire = v]
            IN  s = [modes |-> s.modes, wire |-> s.wire] /\ s.modes = screen.modes
         /\ LET s == [screen EXCEPT !.modes = v]
            IN  s = [modes |-> s.modes, wire |-> s.wire] /\ s.modes = v
         /\ LET l == [loop EXCEPT !.todo = v]
            IN  l = [on |-> l.on, todo |-> l.todo, draining |-> l.draining] /\ l.on = loop.on /\ l.todo = v
         /\ LET l == [loop EXCEPT !.draining = v]
            IN  l = [on |-> l.on, todo |-> l.todo, draining |-> l.draining] /\ l.on = loop.on /\ l.todo = loop.todo
BY DEF Shaped

(* No field but "started" and "stopped" decides about that.                *)
SameRecord(x, y) == SameLife(x, y) /\ x.flags = y.flags

LEMMA TermFieldsStay ==
  ASSUME NEW x, IsTerm(x), NEW v, NEW u
  PROVE  /\ SameRecord(x, x)
         /\ SameLife([x EXCEPT !.flags = v], x)
         /\ [x EXCEPT !.flags = v].flags = v
         /\ SameRecord([x EXCEPT !.fallback = v], x)
         /\ SameRecord([x EXCEPT !.due = v], x)
         /\ SameRecord([x EXCEPT !.appearance = v], x)
         /\ SameRecord([x EXCEPT !.resolved = v, !.supported = u], x)
<1>1. /\ SameLife([x EXCEPT !.flags = v], x) /\ [x EXCEPT !.flags = v].flags = v
      /\ SameRecord([x EXCEPT !.fallback = v], x)
  BY DEF SameRecord, SameLife, IsTerm
<1>2. SameRecord([x EXCEPT !.due = v], x) /\ SameRecord([x EXCEPT !.appearance = v], x)
  BY DEF SameRecord, SameLife, IsTerm
<1>3. SameRecord([x EXCEPT !.resolved = v, !.supported = u], x)
  <2> DEFINE y == [x EXCEPT !.resolved = v]
  <2>1. SameRecord(y, x)
    BY DEF SameRecord, SameLife, IsTerm
  <2>2. [x EXCEPT !.resolved = v, !.supported = u] = [y EXCEPT !.supported = u]
    OBVIOUS
  <2> HIDE DEF y
  <2>3. SameRecord([y EXCEPT !.supported = u], y)
    BY <2>1 DEF SameRecord, SameLife, IsTerm
  <2> QED BY <2>1, <2>2, <2>3 DEF SameRecord, SameLife
<1>4. SameRecord(x, x)
  BY DEF SameRecord, SameLife
<1> QED BY <1>1, <1>2, <1>3, <1>4

(* A query of a known kind goes out, or waits, or is spared.               *)
LEMMA ProbeKeeps ==
  ASSUME TerminalInv, Probe
  PROVE  TerminalInv'
<1>1. Arg \in Kinds
  <2>1. Calm(loop.todo) /\ loop.todo # <<>>
    BY HeadsTell DEF Probe, TerminalInv, Doing
  <2>2. Quiet(Head(loop.todo)) /\ Head(loop.todo).op = "probe"
    BY <2>1, CalmStepByStep DEF Probe, Doing
  <2> QED BY <2>2 DEF Quiet, Arg
<1>2. IsRouter(probe')
  <2>1. IsRouter(probe)
    BY DEF TerminalInv, Routed
  <2>2. CASE UNCHANGED probe
    BY <2>1, <2>2 DEF IsRouter
  <2>3. CASE probe' = [probe EXCEPT !.queued = TRUE]
    BY <2>1, <2>3, RouterFields
  <2>4. CASE probe' = [pushOwner(probe, Arg) EXCEPT !.pending = @ \/ Arg = "colour",
                                                    !.osc11 = IF Arg = "colour" THEN <<>> ELSE @]
    <3> DEFINE q == pushOwner(probe, Arg)
               a == q.pending \/ Arg = "colour"
               b == IF Arg = "colour" THEN <<>> ELSE q.osc11
    <3>1. Append(probe.owners, Arg) \in Seq(Kinds)
      BY <1>1, <2>1, AppendProperties DEF IsRouter
    <3>2. IsRouter(q)
      BY SMTT(40), <2>1, <3>1 DEF IsRouter, pushOwner
    <3>3. probe' = [q EXCEPT !.pending = a, !.osc11 = b]
      BY <2>4
    <3> HIDE DEF q, a, b
    <3>4. IsRouter([q EXCEPT !.pending = a])
      BY <3>2, RouterFields
    <3>5. IsRouter([[q EXCEPT !.pending = a] EXCEPT !.osc11 = b])
      BY <3>4, RouterFields
    <3> QED BY <3>3, <3>5
  <2> QED BY <2>2, <2>3, <2>4 DEF Probe
<1>3. /\ screen' = [modes |-> screen'.modes, wire |-> screen'.wire]
      /\ screen'.modes = screen.modes
  BY FieldsStay DEF Probe, TerminalInv, Asked, Shaped
<1>4. SameLife(term', term) /\ term'.flags = term.flags
  <2>1. IsTerm(term)
    BY DEF TerminalInv, Shaped
  <2>2. term' = term \/ term' = [term EXCEPT !.fallback = term.fallback \/ Arg = "keyboard"]
    BY DEF Probe
  <2>3. SameRecord(term', term)
    BY Zenon, <2>1, <2>2, TermFieldsStay
  <2> QED BY <2>3 DEF SameRecord
<1>5. Shaped'
  BY <1>3, <1>4, FieldsStay DEF Probe, Then, TerminalInv, Shaped, SameLife
<1>6. cmds' \in Seq(Commands) /\ UNCHANGED <<stopper, app, late>> /\ Doing("probe") /\ Then(<<>>)
  BY DEF Probe, TerminalInv, Routed
<1>7. Calm(<<>>) /\ Prefixed(<<>>, term'.flags)
  BY ShortListsArePlain, PlainLists
<1> QED BY <1>2, <1>3, <1>4, <1>5, <1>6, <1>7, QuietStep

(* A keyboard protocol that is switched on and noted, and before that the  *)
(* weaker one taken back.                                                  *)
LEMMA ProtocolLists ==
  ASSUME NEW flags
  PROVE  /\ Prefixed(<<Act("on", "modify"), Act("note", "modify")>>, flags)
         /\ Prefixed(Withdrawn("modify") \o <<Act("on", "kitty"), Act("note", "kitty")>>, flags)
<1> DEFINE on(m) == <<Act("on", m), Act("note", m)>>
           both  == <<Act("off", "modify"), Act("unnote", "modify"), Act("on", "kitty"), Act("note", "kitty")>>
<1>1. \A m : Prefixed(on(m), flags)
  <2> SUFFICES ASSUME NEW m PROVE Prefixed(on(m), flags)
    OBVIOUS
  <2> DEFINE s == on(m)
             S == {Act("on", m), Act("note", m)}
  <2>1. s \in Seq(S)
    OBVIOUS
  <2>2. DOMAIN s = {1, 2} /\ s[1] = Act("on", m) /\ s[2] = Act("note", m)
    OBVIOUS
  <2> HIDE DEF s, S
  <2>3. s[1].op = "on" /\ s[1].arg = m /\ s[2].op = "note" /\ s[2].arg = m
    BY <2>2, ActFields
  <2>4. NotedAfter(s, 1, m)
    BY <2>2, <2>3 DEF NotedAfter
  <2>5. Prefixed(s, flags)
    BY <2>1, <2>2, <2>3, <2>4 DEF Prefixed
  <2> QED BY <2>5 DEF s
<1>2. Prefixed(both, flags)
  <2> DEFINE S == {Act("off", "modify"), Act("unnote", "modify"), Act("on", "kitty"), Act("note", "kitty")}
  <2>1. both \in Seq(S)
    OBVIOUS
  <2>2. DOMAIN both = {1, 2, 3, 4} /\ both[1] = Act("off", "modify") /\ both[2] = Act("unnote", "modify")
        /\ both[3] = Act("on", "kitty") /\ both[4] = Act("note", "kitty")
    OBVIOUS
  <2> HIDE DEF both, S
  <2>3. /\ both[1].op = "off" /\ both[1].arg = "modify" /\ both[2].op = "unnote" /\ both[2].arg = "modify"
        /\ both[3].op = "on" /\ both[3].arg = "kitty" /\ both[4].op = "note" /\ both[4].arg = "kitty"
    BY <2>2, ActFields
  <2>4. NotedAfter(both, 3, "kitty") /\ Switched(both, 2)
    BY <2>2, <2>3 DEF NotedAfter, Switched
  <2> QED BY <2>1, <2>2, <2>3, <2>4 DEF Prefixed
<1>3. Withdrawn("modify") \o on("kitty") \in {both, on("kitty")}
  <2> DEFINE gone == <<Act("off", "modify"), Act("unnote", "modify")>>
  <2>1. Withdrawn("modify") \in {gone, <<>>}
    BY DEF Withdrawn
  <2>2. gone \o on("kitty") = both
    <3>1. \A a, b, c, d : <<a, b>> \o <<c, d>> = <<a, b, c, d>>
      BY TuplesJoin
    <3> QED BY Zenon, <3>1
  <2>3. <<>> \o on("kitty") = on("kitty")
    <3>1. \A a, b : <<>> \o <<a, b>> = <<a, b>>
      BY TuplesJoin
    <3> QED BY Zenon, <3>1
  <2> HIDE DEF gone, on, both
  <2> QED BY <2>1, <2>2, <2>3
<1> HIDE DEF both
<1> QED BY <1>1, <1>2, <1>3

(* The lock is taken to look at a few fields, and to set some.             *)
LEMMA NotesKeep ==
  ASSUME TerminalInv, Note \/ Unnote \/ Claim \/ KeyboardMiss
  PROVE  TerminalInv'
<1>1. UNCHANGED <<screen, stopper, app, late, probe, cmds>> /\ IsRouter(probe') /\ cmds' \in Seq(Commands)
  BY DEF Note, Unnote, Claim, KeyboardMiss, TerminalInv, Routed, IsRouter
<1>2. ASSUME NEW n \in {"note", "unnote", "claim", "keyboardMiss"}, Doing(n), NEW acts, Then(acts),
             Calm(acts), HasNotLooked => Prefixed(acts, term'.flags), SameLife(term', term),
             n = "note" => term'.flags = term.flags \cup {Arg},
             n = "unnote" => term'.flags = term.flags \ {Arg},
             n \notin {"note", "unnote"} => term.flags \subseteq term'.flags
      PROVE  TerminalInv'
  <2>1. Shaped'
    BY <1>1, <1>2, FieldsStay DEF Then, TerminalInv, Shaped, SameLife
  <2> QED BY <1>1, <1>2, <2>1, QuietStep
<1>3. IsTerm(term)
  BY DEF TerminalInv, Shaped
<1>4. Calm(<<>>) /\ \A flags : Prefixed(<<>>, flags)
  BY ShortListsArePlain, PlainLists
<1>5. CASE Note
  <2>1. Doing("note") /\ Then(<<>>) /\ term' = [term EXCEPT !.flags = term.flags \cup {Arg}]
    BY <1>5 DEF Note
  <2>2. SameLife(term', term) /\ term'.flags = term.flags \cup {Arg}
    BY <1>3, <2>1, TermFieldsStay
  <2> QED BY <1>2, <1>4, <2>1, <2>2
<1>6. CASE Unnote
  <2>1. Doing("unnote") /\ Then(<<>>) /\ term' = [term EXCEPT !.flags = term.flags \ {Arg}]
    BY <1>6 DEF Unnote
  <2>2. SameLife(term', term) /\ term'.flags = term.flags \ {Arg}
    BY <1>3, <2>1, TermFieldsStay
  <2> QED BY <1>2, <1>4, <2>1, <2>2
<1>7. CASE Claim
  <2>1. CASE Arg \in term.flags \/ term.stopped
    <3>1. Doing("claim") /\ Then(<<>>) /\ term' = term
      BY <1>7, <2>1 DEF Claim
    <3>2. SameLife(term', term) /\ term'.flags = term.flags
      BY <1>3, <3>1, TermFieldsStay DEF SameRecord
    <3> QED BY <1>2, <1>4, <3>1, <3>2
  <2>2. CASE ~(Arg \in term.flags \/ term.stopped)
    <3>1. Doing("claim") /\ Then(<<Act("on", Arg)>>) /\ term' = [term EXCEPT !.flags = term.flags \cup {Arg}]
      BY <1>7, <2>2 DEF Claim
    <3>2. SameLife(term', term) /\ term'.flags = term.flags \cup {Arg}
      BY <1>3, <3>1, TermFieldsStay
    <3>3. PICK S : loop.todo \in Seq(S) /\ loop.todo # <<>>
      BY <3>1, TodoIsASequence DEF TerminalInv, Doing
    <3>4. loop.on /\ loop.todo[1] = Head(loop.todo) /\ 1 \in DOMAIN loop.todo /\ Head(loop.todo).op = "claim"
      BY <3>1, <3>3, EmptySeq, HeadTailProperties DEF Doing
    <3>5. Arg # "mouse"
      <4>0. Routed /\ "claim" \notin {"mouse", "mouseNote", "on", "off"}
        BY DEF TerminalInv
      <4>1. Calm(loop.todo)
        BY <3>1, <4>0, HeadsTell
      <4> QED BY <3>3, <3>4, <4>1, CalmStepByStep DEF Quiet, Arg
    <3>6. HasNotLooked => Arg \notin {"modify", "kitty"}
      BY <3>4 DEF TerminalInv, Noted, Tidy, Arg
    <3>7. Calm(<<Act("on", Arg)>>)
      BY <3>5, ActsAreMild, ShortListsAreCalm
    <3>8. ASSUME HasNotLooked PROVE Prefixed(<<Act("on", Arg)>>, term'.flags)
      <4> DEFINE w == <<Act("on", Arg)>>
                 T == {Act("on", Arg)}
      <4>1. w \in Seq(T) /\ DOMAIN w = {1} /\ w[1] = Act("on", Arg)
        OBVIOUS
      <4>2. Act("on", Arg).op = "on" /\ Act("on", Arg).arg = Arg
        BY ActFields
      <4> HIDE DEF w, T
      <4>3. Prefixed(w, term'.flags)
        BY <3>2, <3>6, <3>8, <4>1, <4>2 DEF Prefixed
      <4> QED BY <4>3 DEF w
    <3> QED BY <1>2, <3>1, <3>2, <3>7, <3>8
  <2> QED BY <2>1, <2>2
<1>8. CASE KeyboardMiss
  <2>1. Doing("keyboardMiss")
    BY <1>8 DEF KeyboardMiss
  <2>2. SameLife(term', term) /\ term'.flags = term.flags
    <3>1. term' = term \/ term' = [term EXCEPT !.fallback = FALSE]
      BY <1>8 DEF KeyboardMiss
    <3>2. SameRecord(term', term)
      BY Zenon, <1>3, <3>1, TermFieldsStay
    <3> QED BY <3>2 DEF SameRecord
  <2>3. CASE Then(<<>>)
    BY <1>2, <1>4, <2>1, <2>2, <2>3
  <2>4. CASE Then(<<Act("on", "modify"), Act("note", "modify")>>)
    <3>1. Calm(<<Act("on", "modify"), Act("note", "modify")>>)
      BY ActsAreMild, ShortListsAreCalm
    <3> QED BY <1>2, <2>1, <2>2, <2>4, <3>1, ProtocolLists
  <2> QED BY <1>8, <2>3, <2>4 DEF KeyboardMiss
<1> QED BY <1>5, <1>6, <1>7, <1>8

(* The modes the emulator knows, and what it answers.                      *)
LEMMA AnswersKeep ==
  ASSUME TerminalInv, Resolve \/ KittyAnswers \/ ColourAnswers \/ AppearanceChanged \/ Emit
  PROVE  TerminalInv'
<1> DEFINE settled == (IF Arg.mode = "inband" /\ Arg.supported THEN <<Act("claim", "inband")>> ELSE <<>>)
                      \o <<Act("emit", <<"mode">>)>>
           kitty   == Withdrawn("modify") \o <<Act("on", "kitty"), Act("note", "kitty")>>
           shown   == <<Act("emit", <<"appearance">>)>>
<1>1. PICK n \in {"resolve", "kitty", "colour", "dsr", "emit"} :
        Doing(n) /\ \E acts \in {<<>>, settled, kitty, shown} : Then(acts)
  <2>1. Resolve => Doing("resolve") /\ (Then(<<>>) \/ Then(settled))
    BY Zenon DEF Resolve
  <2>2. KittyAnswers => Doing("kitty") /\ Then(kitty)
    BY DEF KittyAnswers
  <2>3. ColourAnswers => Doing("colour") /\ (Then(<<>>) \/ Then(shown))
    BY DEF ColourAnswers, Then
  <2>4. AppearanceChanged => Doing("dsr") /\ Then(<<>>)
    BY DEF AppearanceChanged
  <2>5. Emit => Doing("emit") /\ Then(<<>>)
    BY DEF Emit
  <2> HIDE DEF settled, kitty, shown
  <2> QED BY <2>1, <2>2, <2>3, <2>4, <2>5
<1>2. PICK acts \in {<<>>, settled, kitty, shown} : Then(acts)
  BY <1>1
<1>3. Calm(acts) /\ Prefixed(acts, term'.flags)
  <2>1. Plain(settled)
    <3>1. Mild(Act("claim", "inband")) /\ \A arg : Mild(Act("emit", arg))
      BY ActsAreMild DEF PrivateModes
    <3> QED BY <3>1, ShortListsArePlain, PlainThenPlain
  <2>2. Calm(kitty) /\ Prefixed(kitty, term'.flags)
    BY ActsAreMild, ShortListsAreCalm, CalmThenCalm, ProtocolLists DEF Withdrawn
  <2>3. Plain(shown)
    <3>1. \A arg : Mild(Act("emit", arg))
      BY ActsAreMild
    <3> QED BY <3>1, ShortListsArePlain
  <2> HIDE DEF settled, kitty, shown
  <2> QED BY <1>2, <2>1, <2>2, <2>3, ShortListsArePlain, PlainLists
<1> HIDE DEF settled, kitty, shown
<1>4. SameLife(term', term) /\ term'.flags = term.flags
  <2>1. IsTerm(term)
    BY DEF TerminalInv, Shaped
  <2>2. \/ term' = term \/ term' = [term EXCEPT !.fallback = FALSE]
        \/ term' = [term EXCEPT !.appearance = TRUE] \/ term' = [term EXCEPT !.due = TRUE]
        \/ \E v, u : term' = [term EXCEPT !.resolved = v, !.supported = u]
    BY DEF Resolve, KittyAnswers, ColourAnswers, AppearanceChanged, Emit
  <2> DEFINE fallback(v) == [term EXCEPT !.fallback = v]
             shows(v)    == [term EXCEPT !.appearance = v]
             due(v)      == [term EXCEPT !.due = v]
             settles(v, u) == [term EXCEPT !.resolved = v, !.supported = u]
  <2>4. \A v, u : /\ SameRecord(term, term) /\ SameRecord(fallback(v), term) /\ SameRecord(shows(v), term)
                  /\ SameRecord(due(v), term) /\ SameRecord(settles(v, u), term)
    BY <2>1, TermFieldsStay
  <2>5. \/ term' = term \/ term' = fallback(FALSE) \/ term' = shows(TRUE) \/ term' = due(TRUE)
        \/ \E v, u : term' = settles(v, u)
    BY <2>2
  <2> HIDE DEF fallback, shows, due, settles
  <2>3. SameRecord(term', term)
    BY Zenon, <2>4, <2>5
  <2> QED BY <2>3 DEF SameRecord
<1>5. UNCHANGED <<screen, stopper, app, late, probe, cmds>>
  BY DEF Resolve, KittyAnswers, ColourAnswers, AppearanceChanged, Emit
<1>6. Shaped'
  BY <1>2, <1>4, <1>5, FieldsStay DEF Then, TerminalInv, Shaped, SameLife
<1>7. IsRouter(probe') /\ cmds' \in Seq(Commands)
  BY <1>5 DEF TerminalInv, Routed, IsRouter
<1> QED BY <1>1, <1>2, <1>3, <1>4, <1>5, <1>6, <1>7, QuietStep

(* What the mouse's command does notes nothing, and the mouse needs no     *)
(* note.                                                                   *)
LEMMA MouseListsAreTidy ==
  ASSUME NEW flags, NEW w \in {<<>>} \cup MouseWork
  PROVE  Tidy(w, flags) /\ (w # <<>> => w[1].op # "unnote") /\ \A i \in DOMAIN w : w[i].op # "note"
<1>1. /\ \A i \in DOMAIN w : w[i].op \in {"mouse", "mouseNote", "off"} \/ w[i] = Act("on", "mouse")
      /\ w # <<>> => 1 \in DOMAIN w
  <2>1. CASE w = <<>>
    BY <2>1, TupleFields
  <2>2. ASSUME NEW a \in {Act("mouse", ""), Act("mouseNote", ""), Act("off", "mouse")}, w = <<a>>
        PROVE  1 \in DOMAIN w /\ \A i \in DOMAIN w : w[i].op \in {"mouse", "mouseNote", "off"}
    <3>1. DOMAIN w = {1} /\ w[1] = a
      BY <2>2, TupleFields
    <3>2. a.op \in {"mouse", "mouseNote", "off"}
      BY <2>2, ActFields
    <3> QED BY <3>1, <3>2
  <2>3. CASE w = <<Act("on", "mouse"), Act("mouseNote", "")>>
    <3>1. DOMAIN w = {1, 2} /\ w[1] = Act("on", "mouse") /\ w[2] = Act("mouseNote", "")
      BY <2>3, TupleFields
    <3>2. w[2].op = "mouseNote"
      BY <3>1, ActFields
    <3> QED BY <3>1, <3>2
  <2> QED BY <2>1, <2>2, <2>3 DEF MouseWork
<1>2. \A i \in DOMAIN w : w[i].op \notin {"unnote", "claim", "note"} /\ (w[i].op = "on" => w[i].arg = "mouse")
  BY <1>1, ActFields
<1> QED BY <1>1, <1>2 DEF Tidy

(* An idle loop takes up a tidy list.                                      *)
LEMMA FreshListKeepsNotes ==
  ASSUME TerminalInv, loop.todo = <<>>, UNCHANGED <<stopper, late>>, screen'.modes = screen.modes,
         term'.flags = term.flags, Tidy(loop'.todo, term.flags), loop'.todo # <<>> => loop'.todo[1].op # "unnote"
  PROVE  Noted'
<1>1. \A m : ~NoteDue(m)
  BY DEF NoteDue
<1> QED BY <1>1 DEF TerminalInv, Noted, HasNotLooked, StartsOff, Reset

(* The list for the alternate screen, and the one of a drain.              *)
LEMMA AltListIsTidy ==
  ASSUME NEW todo, todo = <<Act("on", "alt"), Act("note", "alt")>> \o AltKitty
  PROVE  Tidy(todo, term.flags) /\ (todo # <<>> => todo[1].op # "unnote")
<1> DEFINE short == <<Act("on", "alt"), Act("note", "alt")>>
           long  == <<Act("on", "alt"), Act("note", "alt"), Act("on", "kitty")>>
<1>1. todo = short \/ ("kitty" \in term.flags /\ todo = long)
  BY Zenon, TuplesJoin DEF AltKitty
<1>2. DOMAIN short = {1, 2} /\ short[1] = Act("on", "alt") /\ short[2] = Act("note", "alt")
  BY TupleFields
<1>3. DOMAIN long = {1, 2, 3} /\ long[1] = Act("on", "alt") /\ long[2] = Act("note", "alt") /\ long[3] = Act("on", "kitty")
  BY TupleFields
<1> HIDE DEF short, long
<1>4. Tidy(short, term.flags) /\ short[1].op # "unnote"
  BY <1>2, ActFields DEF Tidy, NotedAfter
<1>5. "kitty" \in term.flags => Tidy(long, term.flags) /\ long[1].op # "unnote"
  BY <1>3, ActFields DEF Tidy, NotedAfter, Unnotes
<1> QED BY <1>1, <1>4, <1>5

LEMMA DrainListIsTidy ==
  ASSUME NEW todo, todo = Withdrawn("kitty") \o Withdrawn("modify")
  PROVE  Tidy(todo, term.flags) /\ (todo # <<>> => todo[1].op # "unnote")
<1> DEFINE one(m) == <<Act("off", m), Act("unnote", m)>>
           two    == <<Act("off", "kitty"), Act("unnote", "kitty"), Act("off", "modify"), Act("unnote", "modify")>>
<1>1. todo \in {<<>>, one("kitty"), one("modify"), two}
  <2>1. \A m : Withdrawn(m) \in {one(m), <<>>}
    BY DEF Withdrawn
  <2>2. <<>> \o <<>> = <<>> /\ \A m : one(m) \o <<>> = one(m) /\ <<>> \o one(m) = one(m)
    <3>1. \A a, b : <<>> \o <<a, b>> = <<a, b>> /\ <<a, b>> \o <<>> = <<a, b>>
      BY TuplesJoin
    <3> QED BY Zenon, <3>1, ShortListsJoin
  <2>3. one("kitty") \o one("modify") = two
    <3>1. \A a, b, c, d : <<a, b>> \o <<c, d>> = <<a, b, c, d>>
      BY TuplesJoin
    <3> QED BY Zenon, <3>1
  <2> HIDE DEF one, two
  <2> QED BY <2>1, <2>2, <2>3
<1>2. \A m : DOMAIN one(m) = {1, 2} /\ one(m)[1] = Act("off", m) /\ one(m)[2] = Act("unnote", m)
  BY TupleFields
<1>3. /\ DOMAIN two = {1, 2, 3, 4} /\ two[1] = Act("off", "kitty") /\ two[2] = Act("unnote", "kitty")
      /\ two[3] = Act("off", "modify") /\ two[4] = Act("unnote", "modify")
  BY TupleFields
<1> HIDE DEF one, two
<1>4. \A m \in {"kitty", "modify"} : Tidy(one(m), term.flags) /\ one(m)[1].op # "unnote"
  BY <1>2, ActFields DEF Tidy, Switched
<1>5. Tidy(two, term.flags) /\ two[1].op # "unnote"
  BY <1>3, ActFields DEF Tidy, Switched
<1>6. Tidy(<<>>, term.flags)
  BY TupleFields DEF Tidy
<1> QED BY <1>1, <1>4, <1>5, <1>6

(* A command gives the loop nothing to do with the mouse, but the one that *)
(* asks for it.                                                            *)
LEMMA CommandKeeps ==
  ASSUME TerminalInv, TakeCommand
  PROVE  TerminalInv'
<1> DEFINE c == Head(cmds)
<1>1. c \in Commands /\ Tail(cmds) \in Seq(Commands) /\ cmds' = Tail(cmds)
  BY HeadTailProperties DEF TakeCommand, TerminalInv, Routed
<1>2. loop'.on = loop.on /\ (loop'.todo \in MouseWork \/ Calm(loop'.todo)) /\ SameRecord(term', term)
      /\ Tidy(loop'.todo, term.flags) /\ (loop'.todo # <<>> => loop'.todo[1].op # "unnote")
      /\ loop' = [on |-> loop'.on, todo |-> loop'.todo, draining |-> loop'.draining]
  <2>0. IsTerm(term) /\ SameRecord(term, term)
    BY TermFieldsStay DEF TerminalInv, Shaped
  <2>1. CASE c = Act("startProbes", "")
    <3>0. c.op = "startProbes"
      BY Zenon, <2>1, ActFields
    <3>1. loop' = [loop EXCEPT !.todo = StartProbes] /\ term' = term
      BY <2>1, <3>0 DEF TakeCommand
    <3>2. Calm(StartProbes) /\ Tidy(StartProbes, term.flags) /\ StartProbes[1].op # "unnote"
      <4> DEFINE s == <<Act("probe", "keyboard"), Act("probe", "colour")>>
                 t == <<Act("on", "appearance"), Act("probe", "inband")>>
                 u == <<Act("probe", "scroll")>>
      <4>0. /\ \A k \in {"keyboard", "colour", "inband", "scroll"} : Quiet(Act("probe", k))
            /\ Quiet(Act("on", "appearance"))
        BY ActsAreMild DEF Mild, Kinds, PrivateModes
      <4>1. Calm(s) /\ Calm(t) /\ Calm(u)
        BY <4>0, ShortListsAreCalm
      <4>2. StartProbes = (s \o t) \o u
        BY DEF StartProbes
      <4>3. Tidy(StartProbes, term.flags) /\ StartProbes[1].op # "unnote"
        BY DEF StartProbes, Tidy, Act
      <4> HIDE DEF s, t, u
      <4> QED BY <4>1, <4>2, <4>3, CalmThenCalm
    <3> QED BY <2>0, <3>1, <3>2, FieldsStay DEF TerminalInv
  <2>2. CASE c = Act("mouse", "")
    <3>0. c.op = "mouse"
      BY Zenon, <2>2, ActFields
    <3>1. loop' = [loop EXCEPT !.todo = <<Act("mouse", "")>>] /\ term' = term
      BY <2>2, <3>0 DEF TakeCommand
    <3> DEFINE todo == <<Act("mouse", "")>>
    <3>2. todo \in MouseWork
      BY DEF MouseWork
    <3> HIDE DEF todo
    <3>3. Tidy(todo, term.flags) /\ (todo # <<>> => todo[1].op # "unnote")
      BY <3>2, MouseListsAreTidy
    <3>4. loop' = [loop EXCEPT !.todo = todo] /\ SameRecord(term', term)
      BY <2>0, <3>1 DEF todo
    <3>5. loop'.on = loop.on /\ loop'.todo = todo
          /\ loop' = [on |-> loop'.on, todo |-> loop'.todo, draining |-> loop'.draining]
      BY <3>4, FieldsStay DEF TerminalInv
    <3> QED BY <3>2, <3>3, <3>4, <3>5
  <2>3. CASE c = Act("alt", "")
    <3> DEFINE todo == <<Act("on", "alt"), Act("note", "alt")>> \o AltKitty
    <3>0. c.op = "alt"
      BY Zenon, <2>3, ActFields
    <3>1. loop' = [loop EXCEPT !.todo = todo] /\ term' = term
      BY <2>3, <3>0 DEF TakeCommand
    <3>2. Calm(todo)
      BY ActsAreMild, ShortListsAreCalm, CalmThenCalm DEF AltKitty
    <3>3. Tidy(todo, term.flags) /\ (todo # <<>> => todo[1].op # "unnote")
      BY AltListIsTidy
    <3> HIDE DEF todo
    <3> QED BY <2>0, <3>1, <3>2, <3>3, FieldsStay DEF TerminalInv
  <2>4. CASE c = Act("fallback", "")
    <3> DEFINE todo == <<Act("keyboardMiss", "")>>
    <3>0. c.op = "fallback"
      BY Zenon, <2>4, ActFields
    <3>1. loop' = [loop EXCEPT !.todo = todo] /\ term' = term
      BY <2>4, <3>0 DEF TakeCommand
    <3>2. Plain(todo)
      BY ActsAreMild, ShortListsArePlain
    <3> HIDE DEF todo
    <3> QED BY <2>0, <3>1, <3>2, PlainLists, FieldsStay DEF TerminalInv
  <2>5. CASE c = Act("probe", "colour")
    <3> DEFINE todo == <<Act("probe", "colour")>>
    <3>0. c.op = "probe"
      BY Zenon, <2>5, ActFields
    <3>1. loop' = [loop EXCEPT !.todo = todo] /\ term' = term
      BY <2>5, <3>0 DEF TakeCommand
    <3>2. Plain(todo)
      BY ActsAreMild, ShortListsArePlain DEF Kinds
    <3> HIDE DEF todo
    <3> QED BY <2>0, <3>1, <3>2, PlainLists, FieldsStay DEF TerminalInv
  <2>6. CASE c = Act("drain", "")
    <3> DEFINE todo == Withdrawn("kitty") \o Withdrawn("modify")
    <3>0. c.op = "drain"
      BY Zenon, <2>6, ActFields
    <3>1. loop' = [loop EXCEPT !.draining = TRUE, !.todo = todo] /\ term' = [term EXCEPT !.fallback = FALSE]
      BY <2>6, <3>0 DEF TakeCommand
    <3>2. Calm(todo)
      BY ActsAreMild, ShortListsAreCalm, CalmThenCalm DEF Withdrawn
    <3>3. SameRecord(term', term)
      BY <2>0, <3>1, TermFieldsStay
    <3>5. Tidy(todo, term.flags) /\ (todo # <<>> => todo[1].op # "unnote")
      BY DrainListIsTidy
    <3> HIDE DEF todo
    <3>4. loop'.on = loop.on /\ loop'.todo = todo
          /\ loop' = [on |-> loop'.on, todo |-> loop'.todo, draining |-> loop'.draining]
      BY <3>1 DEF TerminalInv, Shaped
    <3> QED BY <3>2, <3>3, <3>4, <3>5
  <2> QED BY <1>1, <2>1, <2>2, <2>3, <2>4, <2>5, <2>6 DEF Commands
<1>3. UNCHANGED <<screen, stopper, app, late, probe>>
  BY DEF TakeCommand
<1>4. Shaped'
  BY <1>2, <1>3 DEF TerminalInv, Shaped, SameRecord, SameLife
<1>5. Routed'
  BY <1>1, <1>2, <1>3 DEF TerminalInv, Routed, IsRouter
<1>6. loop.todo \notin Watching
  BY WatchingIsBusy DEF TakeCommand, Idle
<1>7. Noted'
  <2>1. loop.todo = <<>>
    BY DEF TakeCommand, Idle
  <2> QED BY <1>2, <1>3, <2>1, FreshListKeepsNotes DEF SameRecord
<1>8. Apart
  BY <1>2, <1>3, <1>6, <1>7 DEF Apart, SameRecord
<1> QED BY <1>4, <1>5, <1>8, ApartKeeps

(* What is read, routed or thrown away.                                    *)
LEMMA InputKeeps ==
  ASSUME TerminalInv, Route \/ Read \/ InputEnds \/ FlushDue \/ DrainEnds
  PROVE  TerminalInv'
<1>1. loop.todo = <<>> /\ loop.todo \notin Watching
  BY WatchingIsBusy DEF Route, Read, InputEnds, FlushDue, DrainEnds, Idle
<1>2. UNCHANGED <<stopper, late, term, cmds>> /\ (app.does = "stop" => app'.does = "stop")
      /\ (app'.does = "start" => app.does = "start")
  BY DEF Route, Read, InputEnds, FlushDue, DrainEnds, TerminalInv, Shaped
<1>3. /\ loop'.on = loop.on /\ (loop'.todo = <<>> \/ Plain(loop'.todo)) /\ IsRouter(probe')
      /\ loop' = [on |-> loop'.on, todo |-> loop'.todo, draining |-> loop'.draining]
  <2>0. IsRouter(probe)
    BY DEF TerminalInv, Routed
  <2>1. CASE Route
    <3>1. CASE UNCHANGED <<loop, probe>>
      BY <1>1, <2>0, <3>1 DEF TerminalInv, Shaped, IsRouter
    <3>2. CASE ~UNCHANGED <<loop, probe>>
      <4> DEFINE r == route(probe, Head(dec.out))
      <4>1. probe' = r.p /\ loop' = [loop EXCEPT !.todo = r.acts]
        BY <2>1, <3>2 DEF Route
      <4>2. IsRouter(r.p) /\ Plain(r.acts)
        BY <2>0, RouteIsPlain
      <4> HIDE DEF r
      <4> QED BY <4>1, <4>2, FieldsStay DEF TerminalInv
    <3> QED BY <3>1, <3>2
  <2>2. CASE InputEnds
    <3> DEFINE todo == <<Act("emit", <<"closed">>), Act("leave", "")>>
    <3>1. loop' = [loop EXCEPT !.todo = todo] /\ UNCHANGED probe
      BY <2>2 DEF InputEnds
    <3>2. Plain(todo)
      <4>1. \A arg : Mild(Act("emit", arg)) /\ Mild(Act("leave", arg))
        BY ActsAreMild
      <4>2. Plain(<<Act("emit", <<"closed">>)>>) /\ Plain(<<Act("leave", "")>>)
        BY <4>1, ShortListsArePlain
      <4>3. <<Act("emit", <<"closed">>)>> \o <<Act("leave", "")>> = todo
        BY Zenon, TuplesJoin
      <4> QED BY <4>2, <4>3, PlainThenPlain
    <3> HIDE DEF todo
    <3> QED BY <2>0, <3>1, <3>2, FieldsStay DEF TerminalInv, IsRouter
  <2>3. CASE Read \/ FlushDue
    BY <1>1, <2>0, <2>3 DEF Read, FlushDue, TerminalInv, Shaped, IsRouter
  <2>4. CASE DrainEnds
    <3>1. loop' = [loop EXCEPT !.draining = FALSE] /\ UNCHANGED probe
      BY <2>4 DEF DrainEnds
    <3> QED BY <1>1, <2>0, <3>1, FieldsStay DEF TerminalInv, IsRouter
  <2> QED BY <2>1, <2>2, <2>3, <2>4
<1>4. screen' = [modes |-> screen'.modes, wire |-> screen'.wire] /\ screen'.modes = screen.modes
  BY FieldsStay DEF Route, Read, InputEnds, FlushDue, DrainEnds, TerminalInv, Shaped
<1>5. app' = [does |-> app'.does, reads |-> app'.reads, suspends |-> app'.suspends, why |-> app'.why]
  BY DEF Route, Read, InputEnds, FlushDue, DrainEnds, TerminalInv, Shaped
<1>6. SameLife(term', term)
  BY <1>2, TermFieldsStay DEF SameRecord, TerminalInv, Shaped
<1>7. Shaped'
  BY <1>2, <1>3, <1>4, <1>5, <1>6 DEF TerminalInv, Shaped, SameLife
<1>8. Plain(loop'.todo)
  BY <1>3, ShortListsArePlain
<1>9. Routed'
  BY <1>2, <1>3, <1>8, PlainLists DEF TerminalInv, Routed
<1>10. Noted'
  BY <1>1, <1>2, <1>4, <1>8, PlainLists, FreshListKeepsNotes
<1>11. Apart
  BY <1>1, <1>2, <1>3, <1>4, <1>6, <1>10 DEF Apart
<1> QED BY <1>7, <1>9, <1>11, ApartKeeps

(* The loop ends: it had nothing to do any more, or had met the end of the *)
(* input, and in both cases nothing with the mouse.                        *)
LEMMA LeaveKeeps ==
  ASSUME TerminalInv, Leave
  PROVE  TerminalInv'
<1>1. loop.todo \notin Watching
  <2>1. CASE Doing("leave")
    <3>1. "leave" \notin {"mouse", "mouseNote", "on", "off"}
      OBVIOUS
    <3>2. Routed
      BY DEF TerminalInv
    <3> QED BY <2>1, <3>1, <3>2, HeadsTell
  <2>2. CASE Idle
    BY <2>2, WatchingIsBusy DEF Idle
  <2> QED BY <2>1, <2>2 DEF Leave
<1>2. /\ loop' = [on |-> loop'.on, todo |-> loop'.todo, draining |-> loop'.draining]
      /\ ~loop'.on /\ loop'.todo = loop.todo
  BY DEF Leave, TerminalInv, Shaped
<1>3. UNCHANGED <<screen, term, probe, cmds, stopper, app, late>>
  BY DEF Leave
<1>4. SameLife(term', term)
  BY <1>3, TermFieldsStay DEF SameRecord, TerminalInv, Shaped
<1>5. Shaped'
  BY <1>2, <1>3, <1>4 DEF TerminalInv, Shaped, SameLife
<1>6. Routed'
  BY <1>2, <1>3 DEF TerminalInv, Routed, IsRouter
<1>7. Noted'
  BY <1>2, <1>3 DEF TerminalInv, Noted, HasNotLooked, NoteDue, Reset
<1>8. Apart
  BY <1>1, <1>2, <1>3, <1>4, <1>7 DEF Apart
<1> QED BY <1>5, <1>6, <1>8, ApartKeeps

(* With nothing to note, the mouse's command may look at the flags.        *)
LEMMA MouseKeepsNotes ==
  ASSUME TerminalInv, \A i \in DOMAIN loop.todo : loop.todo[i].op # "note",
         UNCHANGED <<stopper, late>>, screen'.modes = screen.modes, term.flags \subseteq term'.flags,
         Tidy(loop'.todo, term'.flags), loop'.todo # <<>> => loop'.todo[1].op # "unnote"
  PROVE  Noted'
<1>1. \A m : ~NoteDue(m)
  BY DEF NoteDue
<1> QED BY <1>1 DEF TerminalInv, Noted, HasNotLooked, StartsOff, Reset

(* The mouse is asked for before Stop has begun.                           *)
LEMMA SetMouseKeeps ==
  ASSUME TerminalInv, SetMouseMode
  PROVE  TerminalInv'
<1>1. loop.todo = <<Act("mouse", "")>> /\ Tail(loop.todo) = <<>>
  BY HeadsTell, MouseStepByStep DEF SetMouseMode, TerminalInv
<1>2. UNCHANGED <<screen, term, probe, cmds, stopper, app, late>>
  BY DEF SetMouseMode
<1>3. loop.todo \notin Watching
  <2>1. Head(loop.todo).op = "mouse"
    BY DEF SetMouseMode, Doing
  <2>2. \A a \in Watching : Head(a).op \in {"mouseNote", "off"}
    BY MouseStepByStep, ActFields DEF Watching
  <2> QED BY <2>1, <2>2
<1>4. /\ loop' = [on |-> loop'.on, todo |-> loop'.todo, draining |-> loop'.draining]
      /\ loop'.on = loop.on
      /\ loop'.todo = <<>> \/ loop'.todo = <<Act("on", "mouse"), Act("mouseNote", "")>>
  <2>1. CASE Then(<<>>)
    <3>1. loop'.todo = <<>> \o Tail(loop.todo)
      BY <2>1 DEF Then, TerminalInv, Shaped
    <3>2. loop'.todo = <<>>
      BY Zenon, <1>1, <3>1, ShortListsJoin
    <3> QED BY <2>1, <3>2 DEF Then, TerminalInv, Shaped
  <2>2. CASE Then(<<Act("on", "mouse")>> \o Rechecked)
    <3>1. loop'.todo = (<<Act("on", "mouse")>> \o <<Act("mouseNote", "")>>) \o Tail(loop.todo)
      BY <2>2 DEF Then, TerminalInv, Shaped, Rechecked
    <3>2. loop'.todo = <<Act("on", "mouse"), Act("mouseNote", "")>>
      BY Zenon, <1>1, <3>1, ShortListsJoin
    <3> QED BY <2>2, <3>2 DEF Then, TerminalInv, Shaped
  <2> QED BY <2>1, <2>2 DEF SetMouseMode
<1>5. SameLife(term', term)
  BY <1>2, TermFieldsStay DEF SameRecord, TerminalInv, Shaped
<1>6. Shaped'
  BY <1>2, <1>4, <1>5 DEF TerminalInv, Shaped, SameLife
<1>7. Routed'
  BY <1>2, <1>4, ShortListsAreCalm DEF TerminalInv, Routed, IsRouter, MouseWork
<1>8. Noted'
  <2>1. loop.todo \in MouseWork /\ loop'.todo \in {<<>>} \cup MouseWork
    BY <1>1, <1>4 DEF MouseWork
  <2>2. \A i \in DOMAIN loop.todo : loop.todo[i].op # "note"
    BY <2>1, MouseListsAreTidy
  <2>3. Tidy(loop'.todo, term'.flags) /\ (loop'.todo # <<>> => loop'.todo[1].op # "unnote")
    BY <2>1, MouseListsAreTidy
  <2> QED BY <1>2, <2>2, <2>3, MouseKeepsNotes
<1>9. Apart
  BY <1>2, <1>3, <1>4, <1>5, <1>8 DEF Apart
<1> QED BY <1>6, <1>7, <1>9, ApartKeeps

(* The command that asked for the mouse looks again: it has lost the race  *)
(* and goes on to switch the mouse off, or has won it.                     *)
LEMMA NoteMouseKeeps ==
  ASSUME TerminalInv, NoteMouseMode
  PROVE  TerminalInv'
<1>1. loop.todo = <<Act("mouseNote", "")>> /\ Tail(loop.todo) = <<>> /\ loop.on
  BY HeadsTell, MouseStepByStep DEF NoteMouseMode, TerminalInv, Doing
<1>2. UNCHANGED <<screen, probe, cmds, stopper, app, late>>
  BY DEF NoteMouseMode
<1>3. /\ loop' = [on |-> loop'.on, todo |-> loop'.todo, draining |-> loop'.draining]
      /\ loop'.on = loop.on
      /\ IF term.stopped THEN loop'.todo = <<Act("off", "mouse")>> ELSE loop'.todo = <<>>
  <2>1. CASE term.stopped
    <3>1. Then(<<Act("off", "mouse")>>)
      BY <2>1 DEF NoteMouseMode
    <3>2. loop'.todo = <<Act("off", "mouse")>> \o Tail(loop.todo)
      BY <3>1 DEF Then, TerminalInv, Shaped
    <3>3. \A a : <<a>> \o <<>> = <<a>>
      OBVIOUS
    <3>4. loop'.todo = <<Act("off", "mouse")>>
      BY <1>1, <3>2, <3>3
    <3> QED BY <2>1, <3>1, <3>4 DEF Then, TerminalInv, Shaped
  <2>2. CASE ~term.stopped
    <3>1. Then(<<>>)
      BY <2>2 DEF NoteMouseMode
    <3>2. loop'.todo = <<>> \o Tail(loop.todo)
      BY <3>1 DEF Then, TerminalInv, Shaped
    <3>3. loop'.todo = <<>>
      BY Zenon, <1>1, <3>2, ShortListsJoin
    <3> QED BY <2>2, <3>1, <3>3 DEF Then, TerminalInv, Shaped
  <2> QED BY <2>1, <2>2
<1>4. SameLife(term', term) /\ term.flags \subseteq term'.flags
  <2>1. term' = term \/ term' = [term EXCEPT !.flags = term.flags \cup {"mouse"}]
    BY DEF NoteMouseMode
  <2>2. IsTerm(term)
    BY DEF TerminalInv, Shaped
  <2>3. term' = term => SameLife(term', term) /\ term.flags \subseteq term'.flags
    BY <2>2, TermFieldsStay DEF SameRecord
  <2>4. term' = [term EXCEPT !.flags = term.flags \cup {"mouse"}]
        => SameLife(term', term) /\ term.flags \subseteq term'.flags
    BY <2>2, TermFieldsStay
  <2> QED BY <2>1, <2>3, <2>4
<1>5. Shaped'
  BY <1>2, <1>3, <1>4 DEF TerminalInv, Shaped, SameLife
<1>6. Routed'
  BY <1>2, <1>3, ShortListsAreCalm DEF TerminalInv, Routed, IsRouter, MouseWork
<1>7. Alive' /\ Undone'
  BY <1>2, <1>3, <1>4 DEF TerminalInv, Alive, Undone, SameLife
<1>8. MouseIsWatched'
  BY <1>1, <1>2, <1>3 DEF TerminalInv, MouseIsWatched, Alive
<1>9. Noted'
  <2>1. loop.todo \in MouseWork /\ loop'.todo \in {<<>>} \cup MouseWork
    BY <1>1, <1>3 DEF MouseWork
  <2>2. \A i \in DOMAIN loop.todo : loop.todo[i].op # "note"
    BY <2>1, MouseListsAreTidy
  <2>3. Tidy(loop'.todo, term'.flags) /\ (loop'.todo # <<>> => loop'.todo[1].op # "unnote")
    BY <2>1, MouseListsAreTidy
  <2> QED BY <1>2, <1>4, <2>2, <2>3, MouseKeepsNotes
<1> QED BY <1>5, <1>6, <1>7, <1>8, <1>9 DEF TerminalInv

(* A mode that is switched on has a note to come, or had one before, or is *)
(* known to be late; one that is switched off needs none.                  *)
LEMMA SwitchKeepsNotes ==
  ASSUME TerminalInv, NEW n \in {"on", "off"}, Doing(n), loop'.todo = <<>> \o Tail(loop.todo), loop'.on = loop.on,
         UNCHANGED <<term, stopper>>, late \ {Arg} \subseteq late', screen'.modes \subseteq screen.modes \cup {Arg},
         Arg \in screen'.modes => n = "on" /\ late' = Missed(Arg)
  PROVE  Noted'
<1> SUFFICES ASSUME HasNotLooked PROVE Noted'
  BY DEF Noted, HasNotLooked
<1> DEFINE s == loop.todo
           t == Tail(loop.todo)
<1>1. loop.on /\ s # <<>> /\ Head(s).op = n /\ Arg = Head(s).arg
  BY DEF Doing, Arg
<1>2. PICK S : s \in Seq(S)
  BY TodoIsASequence DEF TerminalInv
<1>3. s[1].op = n /\ Arg = s[1].arg /\ 1 \in DOMAIN s /\ t \in Seq(S) /\ Len(s) \in Nat \ {0}
      /\ DOMAIN t = 1..(Len(s) - 1) /\ \A i \in DOMAIN t : t[i] = s[i + 1]
  BY <1>1, <1>2, EmptySeq, HeadTailProperties
<1>4. loop'.todo = t
  <2> HIDE DEF t
  <2> QED BY <1>3, ConcatEmptySeq DEF t
<1>5. Tidy(s, term.flags) /\ \A m \in screen.modes : m \in term.flags \cup late \cup Reset \/ NoteDue(m)
  BY <1>1 DEF TerminalInv, Noted
<1>6. Tidy(t, term.flags) /\ (t # <<>> /\ t[1].op = "unnote" => n = "off" /\ t[1].arg = Arg)
  BY <1>1, <1>2, <1>3, <1>5, TidyGoesOn
<1>7. StartsOff'
  BY <1>4, <1>6 DEF StartsOff
<1>8. ASSUME NEW m, NEW i \in DOMAIN s, i > 1, s[i].op = "note", s[i].arg = m PROVE (NoteDue(m))'
  <2>1. i - 1 \in DOMAIN t /\ t[i - 1] = s[i]
    BY <1>2, <1>3, <1>8
  <2> QED BY <1>4, <1>8, <2>1 DEF NoteDue
<1>9. ASSUME NEW m \in screen.modes, m # Arg PROVE m \in term.flags \cup late' \cup Reset \/ (NoteDue(m))'
  <2>1. CASE NoteDue(m)
    <3>1. PICK i \in DOMAIN s : s[i].op = "note" /\ s[i].arg = m
      BY <2>1 DEF NoteDue
    <3>2. i > 1
      BY <1>2, <1>3, <3>1
    <3> QED BY <1>8, <3>1, <3>2
  <2> QED BY <1>5, <1>9, <2>1
<1>10. ASSUME NEW m \in screen'.modes, m = Arg PROVE m \in term.flags \cup late' \cup Reset \/ (NoteDue(m))'
  <2>1. n = "on" /\ late' = Missed(Arg)
    BY <1>10
  <2>2. CASE NotedAfter(s, 1, m)
    <3>1. PICK i \in DOMAIN s : i > 1 /\ s[i].op = "note" /\ s[i].arg = m
      BY <2>2 DEF NotedAfter
    <3> QED BY <1>8, <3>1
  <2>3. CASE Arg \in {"appearance", "mouse"}
    BY <1>10, <2>1, <2>3 DEF Missed, StopIsPast, Reset
  <2> QED BY <1>3, <1>5, <1>10, <2>1, <2>2, <2>3 DEF Tidy
<1>11. Reset' = Reset
  BY DEF Reset
<1> HIDE DEF s, t
<1>12. \A m \in screen'.modes : m \in term'.flags \cup late' \cup Reset' \/ (NoteDue(m))'
  BY <1>9, <1>10, <1>11
<1> QED BY <1>4, <1>6, <1>7, <1>12 DEF Noted

(* A mode is switched on.                                                  *)
LEMMA TurnOnKeeps ==
  ASSUME TerminalInv, TurnOn
  PROVE  TerminalInv'
<1>1. /\ loop' = [on |-> loop'.on, todo |-> loop'.todo, draining |-> loop'.draining]
      /\ loop'.on = loop.on /\ loop'.todo = <<>> \o Tail(loop.todo) /\ loop.on /\ loop.todo # <<>>
  BY DEF TurnOn, Doing, Then, TerminalInv, Shaped
<1>2. UNCHANGED <<term, probe, cmds, stopper, app>> /\ screen' = TurnedOn(Arg) /\ late' = Missed(Arg)
  BY DEF TurnOn
<1>3. /\ screen' = [modes |-> screen'.modes, wire |-> screen'.wire]
      /\ screen'.modes = IF Knows(Arg) THEN screen.modes \cup {Arg} ELSE screen.modes
  BY <1>2 DEF TurnedOn, TerminalInv, Shaped
<1>4. \/ Calm(loop'.todo) /\ Arg # "mouse" /\ loop.todo \notin Watching
      \/ loop'.todo = <<Act("mouseNote", "")>> /\ loop.todo = <<Act("on", "mouse"), Act("mouseNote", "")>>
  <2>1. \/ Calm(loop.todo) /\ Arg # "mouse"
        \/ loop.todo = <<Act("on", "mouse"), Act("mouseNote", "")>>
    BY HeadsTell DEF TurnOn, TerminalInv
  <2>2. CASE Calm(loop.todo) /\ Arg # "mouse"
    <3>1. Calm(loop'.todo)
      BY <1>1, <2>2, CalmGoesOn, ShortListsAreCalm
    <3>2. \A a \in Watching : Head(a).op \in {"mouseNote", "off"}
      BY MouseStepByStep, ActFields DEF Watching
    <3> QED BY <2>2, <3>1, <3>2 DEF TurnOn, Doing
  <2>3. CASE loop.todo = <<Act("on", "mouse"), Act("mouseNote", "")>>
    <3>1. Tail(loop.todo) = <<Act("mouseNote", "")>>
      BY Zenon, <2>3, MouseStepByStep
    <3>2. \A a : <<>> \o <<a>> = <<a>>
      OBVIOUS
    <3> QED BY <1>1, <2>3, <3>1, <3>2
  <2> QED BY <2>1, <2>2, <2>3
<1>5. Shaped'
  BY <1>1, <1>2, <1>3 DEF TerminalInv, Shaped, IsTerm
<1>6. Routed'
  BY <1>2, <1>4 DEF TerminalInv, Routed, IsRouter, MouseWork
<1>7. Alive'
  BY <1>1, <1>2 DEF TerminalInv, Alive
<1>8. MouseIsWatched'
  <2> SUFFICES ASSUME stopper'.at \in {"looking", "unwinding", "closing", "waiting"}, "mouse" \in screen'.modes
               PROVE  loop'.on /\ loop'.todo \in {<<Act("mouseNote", "")>>, <<Act("off", "mouse")>>}
    BY DEF MouseIsWatched
  <2>1. CASE loop'.todo = <<Act("mouseNote", "")>>
    BY <1>1, <2>1
  <2>2. CASE Arg # "mouse" /\ loop.todo \notin Watching
    BY <1>2, <1>3, <2>2 DEF TerminalInv, MouseIsWatched, Watching
  <2> QED BY <1>4, <2>1, <2>2
<1>9. Undone'
  BY <1>1, <1>2, <1>3 DEF TerminalInv, Undone, Alive, Missed, StopIsPast
<1>10. Noted'
  <2>1. Doing("on") /\ late \ {Arg} \subseteq late'
    BY <1>2 DEF TurnOn, Missed
  <2> QED BY <1>1, <1>2, <1>3, <2>1, SwitchKeepsNotes
<1> QED BY <1>5, <1>6, <1>7, <1>8, <1>9, <1>10 DEF TerminalInv

(* A mode is switched off.                                                 *)
LEMMA TurnOffKeeps ==
  ASSUME TerminalInv, TurnOff
  PROVE  TerminalInv'
<1>1. /\ loop' = [on |-> loop'.on, todo |-> loop'.todo, draining |-> loop'.draining]
      /\ loop'.on = loop.on /\ loop'.todo = <<>> \o Tail(loop.todo) /\ loop.on /\ loop.todo # <<>>
  BY DEF TurnOff, Doing, Then, TerminalInv, Shaped
<1>2. UNCHANGED <<term, probe, cmds, stopper, app>> /\ screen' = TurnedOff({Arg}) /\ late' = late \ {Arg}
  BY DEF TurnOff
<1>3. screen' = [modes |-> screen'.modes, wire |-> screen'.wire] /\ screen'.modes = screen.modes \ {Arg}
  BY <1>2 DEF TurnedOff, TerminalInv, Shaped
<1>4. Calm(loop'.todo) /\ (Arg = "mouse" \/ loop.todo \notin Watching)
  <2>1. \/ Calm(loop.todo) /\ Arg # "mouse"
        \/ loop.todo = <<Act("off", "mouse")>> /\ Arg = "mouse"
    BY HeadsTell DEF TurnOff, TerminalInv
  <2>2. CASE Calm(loop.todo) /\ Arg # "mouse"
    <3>1. Calm(loop'.todo)
      BY ZenonT(40), <1>1, <2>2, CalmGoesOn, ShortListsAreCalm
    <3>2. Head(<<Act("mouseNote", "")>>).op = "mouseNote" /\ Head(<<Act("off", "mouse")>>).arg = "mouse"
      BY ZenonT(40), MouseStepByStep, ActFields
    <3>3. Head(loop.todo).op = "off" /\ Head(loop.todo).arg # "mouse"
      BY <2>2 DEF TurnOff, Doing, Arg
    <3> QED BY <3>1, <3>2, <3>3 DEF Watching
  <2>3. CASE loop.todo = <<Act("off", "mouse")>> /\ Arg = "mouse"
    <3>1. Tail(loop.todo) = <<>>
      BY Zenon, <2>3, MouseStepByStep
    <3>2. loop'.todo = <<>>
      BY <1>1, <3>1
    <3> QED BY <2>3, <3>2, ShortListsAreCalm
  <2> QED BY <2>1, <2>2, <2>3
<1>5. Shaped'
  BY <1>1, <1>2, <1>3 DEF TerminalInv, Shaped, IsTerm
<1>6. Routed'
  BY <1>2, <1>4 DEF TerminalInv, Routed, IsRouter
<1>7. Alive'
  BY <1>1, <1>2 DEF TerminalInv, Alive
<1>8. MouseIsWatched'
  BY <1>2, <1>3, <1>4 DEF TerminalInv, MouseIsWatched, Watching
<1>9. Undone'
  BY <1>1, <1>2, <1>3 DEF TerminalInv, Undone, Alive
<1>10. Noted'
  <2>1. Doing("off")
    BY DEF TurnOff
  <2> QED BY <1>1, <1>2, <1>3, <2>1, SwitchKeepsNotes
<1> QED BY <1>5, <1>6, <1>7, <1>8, <1>9, <1>10 DEF TerminalInv

-----------------------------------------------------------------------------
(* Start and Stop, step by step.                                           *)

(* A new session begins with one command and nothing to do.                *)
LEMMA StartKeeps ==
  ASSUME TerminalInv, Start
  PROVE  TerminalInv'
<1>1. stopper.at = "out"
  BY DEF Start, TerminalInv, Alive
<1>2. UNCHANGED <<probe, stopper>> /\ loop' = [on |-> TRUE, todo |-> <<>>, draining |-> FALSE]
  BY DEF Start
<1>3. IsTerm(term') /\ term'.started = TRUE
  BY DEF Start, TerminalInv, Shaped, IsTerm
<1>4. /\ screen' = [modes |-> screen'.modes, wire |-> screen'.wire]
      /\ app' = [does |-> app'.does, reads |-> app'.reads, suspends |-> app'.suspends, why |-> app'.why]
  BY DEF Start, TerminalInv, Shaped
<1>5. cmds' \in Seq(Commands)
  <2>1. \A c \in Commands : <<c>> \in Seq(Commands)
    OBVIOUS
  <2>2. Act("startProbes", "") \in Commands
    BY DEF Commands
  <2>3. cmds' = <<Act("startProbes", "")>>
    BY DEF Start
  <2> QED BY <2>1, <2>2, <2>3
<1>6. Shaped'
  BY <1>2, <1>3, <1>4 DEF TerminalInv, Shaped
<1>7. Routed'
  BY <1>2, <1>5, ShortListsAreCalm DEF TerminalInv, Routed, IsRouter
<1>8. Alive' /\ MouseIsWatched' /\ Undone'
  <2>1. app'.does = "run"
    BY DEF Start, TerminalInv, Shaped
  <2> QED BY <1>1, <1>2, <1>3, <2>1 DEF TerminalInv, Alive, MouseIsWatched, Undone
<1>9. Noted'
  <2>1. screen'.modes = screen.modes \cup {"raw", "paste"} /\ late' = late /\ ~term.started
    BY DEF Start, TerminalInv, Shaped, Alive
  <2>2. screen'.modes \subseteq late' \cup Reset' /\ loop'.todo = <<>>
    BY <1>1, <1>2, <2>1 DEF TerminalInv, Undone, Reset
  <2>3. Tidy(<<>>, term'.flags)
    BY TupleFields DEF Tidy
  <2> QED BY <2>2, <2>3 DEF Noted, StartsOff
<1> QED BY <1>6, <1>7, <1>8, <1>9 DEF TerminalInv

(* Stop marks the terminal and switches off what it always set; the mouse  *)
(* is off from here on, unless the loop is about to see that it is late.   *)
LEMMA StopBeginsKeeps ==
  ASSUME TerminalInv, StopBegins \/ StopDisables
  PROVE  TerminalInv'
<1>1. UNCHANGED <<loop, probe, cmds, app>>
  BY DEF StopBegins, StopDisables
<1>2. stopper' = [at |-> stopper'.at, saw |-> stopper'.saw]
  BY DEF StopBegins, StopDisables, At, TerminalInv, Shaped
<1>3. IsTerm(term') /\ term'.started = term.started
  BY DEF StopBegins, StopDisables, TerminalInv, Shaped, IsTerm
<1>4. screen' = [modes |-> screen'.modes, wire |-> screen'.wire] /\ screen'.modes \subseteq screen.modes
  BY DEF StopBegins, StopDisables, TurnedOff, TerminalInv, Shaped
<1>5. CASE StopBegins
  <2>1. stopper'.at = "disabling" /\ term'.stopped /\ term.started /\ app.does = "stop"
    BY <1>5 DEF StopBegins, At, TerminalInv, Shaped, IsTerm
  <2>2. stopper.at = "out" /\ UNCHANGED <<screen, late>> /\ term'.flags = term.flags
    BY <1>5 DEF StopBegins, At, TerminalInv, Shaped, IsTerm
  <2>3. Noted'
    BY <1>1, <2>1, <2>2 DEF TerminalInv, Noted, HasNotLooked, NoteDue, Reset, StartsOff
  <2> QED BY <1>1, <1>2, <1>3, <1>4, <2>1, <2>2, <2>3
             DEF TerminalInv, Shaped, Routed, IsRouter, Alive, MouseIsWatched, Undone
<1>6. CASE StopDisables
  <2> DEFINE back == {"paste", "mouse", "appearance"}
  <2>1. stopper'.at = "looking" /\ stopper.at = "disabling" /\ term'.stopped = term.stopped
    BY <1>6 DEF StopDisables, At, TerminalInv, Shaped, IsTerm
  <2>2. screen'.modes = screen.modes \ back /\ late' = late \ back /\ term'.flags = term.flags \ {"mouse"}
    BY <1>6 DEF StopDisables, TurnedOff, TerminalInv, Shaped, IsTerm
  <2>3. Noted'
    <3>1. \A m \in screen'.modes : m \in term'.flags \cup late' \cup Reset' \/ (NoteDue(m))'
      BY <1>1, <2>1, <2>2 DEF TerminalInv, Noted, HasNotLooked, NoteDue, Reset
    <3>2. loop'.on => Tidy(loop'.todo, term'.flags) /\ StartsOff'
      BY <1>1, <2>1, <2>2 DEF TerminalInv, Noted, HasNotLooked, Tidy, StartsOff
    <3> QED BY <3>1, <3>2 DEF Noted
  <2> QED BY <1>1, <1>2, <1>3, <1>4, <2>1, <2>2, <2>3
             DEF TerminalInv, Shaped, Routed, IsRouter, Alive, MouseIsWatched, Undone
<1> QED BY <1>5, <1>6

(* Stop looks at the flags: what is on has one, or is being noted just     *)
(* then, or had come too late before.                                      *)
LEMMA StopLooksKeeps ==
  ASSUME TerminalInv, StopLooks
  PROVE  TerminalInv'
<1>1. UNCHANGED <<screen, loop, probe, cmds, app>> /\ stopper.at = "looking"
      /\ stopper' = [at |-> "unwinding", saw |-> term.flags]
      /\ late' = late \cup Unnoted
  BY DEF StopLooks
<1>2. SameLife(term', term)
  <2>1. \E v : term' = [term EXCEPT !.flags = v]
    BY DEF StopLooks
  <2> QED BY <2>1, TermFieldsStay DEF TerminalInv, Shaped
<1>3. Shaped' /\ Routed'
  BY <1>1, <1>2 DEF TerminalInv, Shaped, Routed, IsRouter, SameLife
<1>4. Alive' /\ MouseIsWatched'
  BY <1>1, <1>2 DEF TerminalInv, Alive, MouseIsWatched, SameLife
<1>5. Undone'
  <2>1. screen.modes \subseteq late' \cup term.flags \cup {"raw", "mouse"}
    BY <1>1 DEF TerminalInv, Noted, HasNotLooked, Reset, Unnoted
  <2> QED BY <1>1, <1>2, <2>1 DEF TerminalInv, Alive, Undone, SameLife
<1>6. Noted'
  BY <1>1 DEF Noted, HasNotLooked
<1> QED BY <1>3, <1>4, <1>5, <1>6 DEF TerminalInv

(* Stop takes back what it saw, and lets the loop go.                      *)
LEMMA StopUnwindsKeeps ==
  ASSUME TerminalInv, StopUnwinds \/ StopCloses
  PROVE  TerminalInv'
<1>1. UNCHANGED <<loop, probe, cmds, app>>
  BY DEF StopUnwinds, StopCloses
<1>2. stopper' = [at |-> stopper'.at, saw |-> stopper'.saw] /\ stopper'.saw = stopper.saw
  BY DEF StopUnwinds, StopCloses, At, TerminalInv, Shaped
<1>3. SameLife(term', term)
  <2>0. IsTerm(term)
    BY DEF TerminalInv, Shaped
  <2>1. CASE term' = term
    BY <2>0, <2>1, TermFieldsStay DEF SameRecord
  <2>2. ASSUME NEW v, term' = [term EXCEPT !.flags = v] PROVE SameLife(term', term)
    BY <2>0, <2>2, TermFieldsStay
  <2> QED BY <2>1, <2>2 DEF StopUnwinds, StopCloses
<1>4. CASE StopUnwinds
  <2> DEFINE back == stopper.saw \ {"alt"}
  <2>1. /\ screen' = [modes |-> screen'.modes, wire |-> screen'.wire] /\ screen'.modes = screen.modes \ back
        /\ late' = late \ back /\ stopper.at = "unwinding" /\ stopper'.at = "closing"
    BY <1>4 DEF StopUnwinds, TurnedOff, At, TerminalInv, Shaped
  <2>2. Shaped' /\ Routed'
    BY <1>1, <1>2, <1>3, <2>1 DEF TerminalInv, Shaped, Routed, IsRouter, SameLife
  <2>3. Alive' /\ MouseIsWatched'
    BY <1>1, <1>3, <2>1 DEF TerminalInv, Alive, MouseIsWatched, SameLife
  <2>4. Undone'
    BY <1>1, <1>2, <1>3, <2>1 DEF TerminalInv, Alive, Undone, SameLife
  <2>5. Noted'
    BY <2>1 DEF Noted, HasNotLooked
  <2> QED BY <2>2, <2>3, <2>4, <2>5 DEF TerminalInv
<1>5. CASE StopCloses
  <2>1. UNCHANGED <<screen, late>> /\ stopper.at = "closing" /\ stopper'.at = "waiting"
    BY <1>5 DEF StopCloses, At, TerminalInv, Shaped
  <2>2. Shaped' /\ Routed'
    BY <1>1, <1>2, <1>3, <2>1 DEF TerminalInv, Shaped, Routed, IsRouter, SameLife
  <2>3. Noted'
    BY <2>1 DEF Noted, HasNotLooked
  <2> QED BY <1>1, <1>2, <1>3, <2>1, <2>2, <2>3 DEF TerminalInv, Alive, MouseIsWatched, Undone, SameLife
<1> QED BY <1>4, <1>5

(* The loop is gone: nobody is left to switch the mouse on, and what is    *)
(* still on came too late.                                                 *)
LEMMA StopReturnsKeeps ==
  ASSUME TerminalInv, StopReturns
  PROVE  TerminalInv'
<1> DEFINE back == {"raw"} \cup (stopper.saw \cap {"alt"})
<1>1. UNCHANGED <<loop, cmds>> /\ ~loop.on /\ stopper.at = "waiting" /\ stopper' = [stopper EXCEPT !.at = "out"]
      /\ probe' = NoProbes /\ late' = late \ back
  BY DEF StopReturns, At
<1>2. /\ screen' = [modes |-> screen'.modes, wire |-> screen'.wire]
      /\ screen'.modes = screen.modes \ back
  <2>1. screen' = [TurnedOff(back) EXCEPT !.wire = <<>>]
    BY DEF StopReturns
  <2> HIDE DEF back
  <2> QED BY <2>1 DEF TurnedOff, TerminalInv, Shaped
<1>3. IsTerm(term') /\ ~term'.started
  BY DEF StopReturns, TerminalInv, Shaped, IsTerm
<1>4. app' = [does |-> app'.does, reads |-> app'.reads, suspends |-> app'.suspends, why |-> app'.why]
  BY DEF StopReturns, TerminalInv, Shaped
<1>5. IsRouter(NoProbes)
  BY DEF IsRouter, NoProbes
<1>6. stopper' = [at |-> stopper'.at, saw |-> stopper'.saw] /\ stopper'.at = "out"
  BY <1>1 DEF TerminalInv, Shaped
<1>7. Shaped' /\ Routed'
  BY <1>1, <1>2, <1>3, <1>4, <1>5, <1>6 DEF TerminalInv, Shaped, Routed
<1>8. "mouse" \notin screen.modes
  BY <1>1 DEF TerminalInv, MouseIsWatched
<1>9. screen'.modes \subseteq (late' \ {"mouse"})
  BY <1>1, <1>2, <1>8 DEF TerminalInv, Undone
<1>10. Alive' /\ MouseIsWatched' /\ Undone'
  BY <1>1, <1>3, <1>6, <1>9 DEF Alive, MouseIsWatched, Undone
<1>11. Noted'
  BY <1>1, <1>9 DEF Noted
<1> QED BY <1>7, <1>10, <1>11 DEF TerminalInv

-----------------------------------------------------------------------------
(* The application, the user and the timers.                               *)

(* None of them touches a mode, or the loop, or leaves Stop.               *)
LEMMA OthersKeep ==
  ASSUME TerminalInv,
         \/ Receive \/ FindsClosed \/ Quit \/ Suspend \/ Drain \/ DrainTimesOut
         \/ Type \/ EnableMouse \/ EnterAltScreen \/ Poll \/ ChangeColours \/ AskColour \/ KittyFallback
  PROVE  TerminalInv'
<1>0. IsTerm(term)
  BY DEF TerminalInv, Shaped
<1>1. /\ UNCHANGED <<stopper, late, loop, probe>> /\ (app.does = "stop" => app'.does = "stop")
      /\ app'.does = "start" => app.does = "start"
  BY DEF Receive, FindsClosed, Quit, Quits, Suspend, Drain, DrainTimesOut, Type, EnableMouse, EnterAltScreen,
         Poll, Sends, ChangeColours, AskColour, KittyFallback, TerminalInv, Shaped
<1>2. app' = [does |-> app'.does, reads |-> app'.reads, suspends |-> app'.suspends, why |-> app'.why]
  BY DEF Receive, FindsClosed, Quit, Quits, Suspend, Drain, DrainTimesOut, Type, EnableMouse, EnterAltScreen,
         Poll, Sends, ChangeColours, AskColour, KittyFallback, TerminalInv, Shaped
<1>3. screen' = [modes |-> screen'.modes, wire |-> screen'.wire] /\ screen'.modes = screen.modes
  BY FieldsStay
     DEF Receive, FindsClosed, Quit, Quits, Suspend, Drain, DrainTimesOut, Type, EnableMouse, EnterAltScreen,
         Poll, Sends, ChangeColours, AskColour, KittyFallback, TerminalInv, Shaped
<1>4. SameLife(term', term) /\ term'.flags = term.flags
  <2>1. term' = term \/ term' = [term EXCEPT !.due = FALSE] \/ term' = [term EXCEPT !.fallback = FALSE]
    BY DEF Receive, FindsClosed, Quit, Suspend, Drain, DrainTimesOut, Type, EnableMouse, EnterAltScreen,
           Poll, Sends, ChangeColours, AskColour, KittyFallback
  <2>2. SameRecord(term', term)
    BY <1>0, <2>1, TermFieldsStay
  <2> QED BY <2>2 DEF SameRecord
<1>5. cmds' \in Seq(Commands)
  <2>1. cmds' = cmds \/ \E c \in Commands : cmds' = Append(cmds, c)
    BY DEF Receive, FindsClosed, Quit, Suspend, Drain, DrainTimesOut, Type, EnableMouse, EnterAltScreen,
           Poll, Sends, ChangeColours, AskColour, KittyFallback, Commands
  <2>2. cmds \in Seq(Commands)
    BY DEF TerminalInv, Routed
  <2> QED BY <2>1, <2>2, AppendProperties
<1>6. Shaped'
  BY <1>1, <1>2, <1>3, <1>4 DEF TerminalInv, Shaped, SameLife
<1> QED BY <1>1, <1>3, <1>4, <1>5, <1>6, OthersStep

-----------------------------------------------------------------------------
(* The theorem.                                                            *)

(* Before the first Start nothing is on.                                   *)
LEMMA TerminalStarts ==
  ASSUME Init
  PROVE  TerminalInv
<1>1. Shaped
  BY DEF Init, Shaped, IsTerm
<1>2. Routed
  <2>1. IsRouter(NoProbes) /\ <<>> \in Seq(Commands)
    BY DEF IsRouter, NoProbes
  <2> QED BY <2>1, ShortListsAreCalm DEF Init, Routed
<1>3. Alive /\ MouseIsWatched /\ Noted /\ Undone
  BY DEF Init, Alive, MouseIsWatched, Noted, Undone
<1> QED BY <1>1, <1>2, <1>3 DEF TerminalInv

(* Every step keeps the invariant.                                         *)
LEMMA TerminalStep ==
  ASSUME TerminalInv, [Next]_vars
  PROVE  TerminalInv'
<1>1. CASE Start
  BY <1>1, StartKeeps
<1>2. CASE LoopStep
  <2>1. CASE Probe
    BY <2>1, ProbeKeeps
  <2>2. CASE Note \/ Unnote \/ Claim \/ KeyboardMiss
    BY <2>2, NotesKeep
  <2>3. CASE Resolve \/ KittyAnswers \/ ColourAnswers \/ AppearanceChanged \/ Emit
    BY <2>3, AnswersKeep
  <2>4. CASE TurnOn
    BY <2>4, TurnOnKeeps
  <2>5. CASE TurnOff
    BY <2>5, TurnOffKeeps
  <2>6. CASE SetMouseMode
    BY <2>6, SetMouseKeeps
  <2>7. CASE NoteMouseMode
    BY <2>7, NoteMouseKeeps
  <2>8. CASE TakeCommand
    BY <2>8, CommandKeeps
  <2>9. CASE Route \/ Read \/ InputEnds
    BY <2>9, InputKeeps
  <2>10. CASE Leave
    BY <2>10, LeaveKeeps
  <2> QED BY <1>2, <2>1, <2>2, <2>3, <2>4, <2>5, <2>6, <2>7, <2>8, <2>9, <2>10 DEF LoopStep
<1>3. CASE FlushDue \/ DrainEnds
  BY <1>3, InputKeeps
<1>4. CASE Stopping
  <2>1. CASE StopBegins \/ StopDisables
    BY <2>1, StopBeginsKeeps
  <2>2. CASE StopLooks
    BY <2>2, StopLooksKeeps
  <2>3. CASE StopUnwinds \/ StopCloses
    BY <2>3, StopUnwindsKeeps
  <2>4. CASE StopReturns
    BY <2>4, StopReturnsKeeps
  <2> QED BY <1>4, <2>1, <2>2, <2>3, <2>4 DEF Stopping
<1>5. CASE \/ Receive \/ FindsClosed \/ Quit \/ Suspend \/ Drain \/ DrainTimesOut
           \/ Type \/ EnableMouse \/ EnterAltScreen \/ Poll \/ ChangeColours \/ AskColour \/ KittyFallback
  BY <1>5, OthersKeep
<1>6. CASE UNCHANGED vars
  <2>1. Shaped' /\ Routed' /\ Alive' /\ MouseIsWatched' /\ Undone'
    BY <1>6 DEF vars, TerminalInv, Shaped, IsTerm, Routed, IsRouter, Alive, MouseIsWatched, Undone
  <2>2. Noted'
    BY <1>6 DEF vars, TerminalInv, Noted, HasNotLooked, NoteDue, Reset, StartsOff
  <2> QED BY <2>1, <2>2 DEF TerminalInv
<1> QED BY <1>1, <1>2, <1>3, <1>4, <1>5, <1>6 DEF Next

(* The invariant holds, whatever the emulator knows and the user does.     *)
THEOREM TerminalCorrect == Spec => []TerminalInv
<1>1. Init => TerminalInv
  BY TerminalStarts
<1>2. TerminalInv /\ [Next]_vars => TerminalInv'
  BY TerminalStep
<1> QED BY <1>1, <1>2, PTL DEF Spec

(* When Stop has returned, whatever the loop and the callers switched on   *)
(* is off, but for a mode switched on after Stop was through with it, or   *)
(* just before Stop looked and not yet noted; the mouse is off in any case *)
(* (Terminal.Stop, setMouseMode).                                          *)
THEOREM StopTakesModesBack == Spec => []StopRestores
<1>1. TerminalInv => StopRestores
  BY DEF TerminalInv, Undone, StopRestores
<1> QED BY <1>1, TerminalCorrect, PTL
=============================================================================
