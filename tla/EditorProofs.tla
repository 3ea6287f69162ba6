---------------------------- MODULE EditorProofs ----------------------------
(***************************************************************************)
(* Proofs about Editor for every mixture of keys, every text and every     *)
(* bound of its stacks: a yank undoes a run of kills, what is sent for a   *)
(* paste marker is what was pasted, and the two stacks are one line of     *)
(* versions.                                                               *)
(***************************************************************************)
EXTENDS Editor, SequenceTheorems, FiniteSetTheorems, TLAPS

-----------------------------------------------------------------------------
(* Least and greatest offsets. *)
LEMMA LeastOffset ==
  ASSUME NEW S \in SUBSET Nat, S # {}
  PROVE  \E x \in S : \A y \in S : x <= y
  <1>1. PICK x \in S : \A y \in S : <<y, x>> \notin OpToRel(<, Nat)
    BY NatLessThanWellFounded, WFMin
  <1>2. \A a, b \in Nat : a < b => <<a, b>> \in OpToRel(<, Nat)  BY DEF OpToRel
  <1>3. x \in Nat /\ \A y \in S : y \in Nat /\ ~(y < x)  BY <1>1, <1>2
  <1>4. \A y \in S : x <= y  BY <1>3
  <1>. QED  BY <1>4

(* A non-empty bounded set of offsets has a greatest one. *)
LEMMA GreatestOffset ==
  ASSUME NEW n \in Nat, NEW S \in SUBSET (0..n), S # {}
  PROVE  \E x \in S : \A y \in S : y <= x
  <1> DEFINE T == {n - y : y \in S}
  <1>0. \A y \in S : y \in 0..n /\ n - y \in Nat  OBVIOUS
  <1>1. T \in SUBSET Nat /\ T # {}  BY <1>0
  <1>2. PICK t \in T : \A z \in T : t <= z  BY <1>1, LeastOffset
  <1>3. PICK x \in S : t = n - x  OBVIOUS
  <1>4. \A y \in S : n - x <= n - y  BY <1>2, <1>3
  <1>5. \A y \in S : y <= x  BY <1>4, <1>0
  <1>. QED  BY <1>5

(* Parts of a text and their concatenations. *)
LEMMA Front1 ==
  ASSUME NEW R, NEW s \in Seq(R), NEW i \in 0..Len(s)
  PROVE  /\ SubSeq(s, 1, i) \in Seq(R) /\ Len(SubSeq(s, 1, i)) = i
         /\ \A k \in 1..i : SubSeq(s, 1, i)[k] = s[k]
  <1>1. \A k \in 1..i : s[k] \in R  OBVIOUS
  <1>2. 1 \in Int /\ i \in Int /\ i - 1 + 1 = i  OBVIOUS
  <1>3. /\ SubSeq(s, 1, i) \in Seq(R) /\ Len(SubSeq(s, 1, i)) = IF 1 <= i THEN i - 1 + 1 ELSE 0
        /\ \A k \in 1..i - 1 + 1 : SubSeq(s, 1, i)[k] = s[1 + k - 1]
    BY <1>1, <1>2, SubSeqProperties
  <1>. QED  BY <1>3

(* A piece of a text between two offsets has the tokens of that text. *)
LEMMA Middle ==
  ASSUME NEW R, NEW s \in Seq(R), NEW i \in 0..Len(s), NEW j \in i..Len(s)
  PROVE  /\ SubSeq(s, i + 1, j) \in Seq(R) /\ Len(SubSeq(s, i + 1, j)) = j - i
         /\ \A k \in 1..j - i : SubSeq(s, i + 1, j)[k] = s[i + k]
  <1> DEFINE a == i + 1
  <1>1. a \in Int /\ j \in Int /\ j - a + 1 = j - i /\ (a <= j <=> i < j) /\ j - i \in Nat
        /\ \A k \in Int : a + k - 1 = i + k
    OBVIOUS
  <1>2. \A k \in a..j : s[k] \in R  OBVIOUS
  <1> HIDE DEF a
  <1>3. /\ SubSeq(s, a, j) \in Seq(R) /\ Len(SubSeq(s, a, j)) = IF a <= j THEN j - a + 1 ELSE 0
        /\ \A k \in 1..j - a + 1 : SubSeq(s, a, j)[k] = s[a + k - 1]
    BY <1>1, <1>2, SubSeqProperties
  <1>4. Len(SubSeq(s, a, j)) = j - i  BY <1>1, <1>3
  <1>5. \A k \in 1..j - i : SubSeq(s, a, j)[k] = s[i + k]  BY <1>1, <1>3
  <1>. QED  BY <1>3, <1>4, <1>5 DEF a

(* A text made of two is cut into them where they meet. *)
LEMMA Halves ==
  ASSUME NEW R, NEW s \in Seq(R), NEW t \in Seq(R)
  PROVE  /\ s \o t \in Seq(R) /\ Len(s \o t) = Len(s) + Len(t)
         /\ SubSeq(s \o t, 1, Len(s)) = s
         /\ SubSeq(s \o t, Len(s) + 1, Len(s \o t)) = t
  <1> DEFINE n == Len(s)  m == Len(t)  u == s \o t
  <1>0. n \in Nat /\ m \in Nat  OBVIOUS
  <1>1. /\ u \in Seq(R) /\ Len(u) = n + m
        /\ \A i \in 1..n + m : u[i] = IF i <= n THEN s[i] ELSE t[i - n]
    BY ConcatProperties
  <1>n. n = Len(s) /\ m = Len(t)  OBVIOUS
  <1> HIDE DEF u, n, m
  <1>2. n \in 0..Len(u) /\ Len(u) \in n..Len(u) /\ Len(u) - n = m  BY <1>0, <1>1
  <1>3. SubSeq(u, 1, n) = s
    <2>1. /\ SubSeq(u, 1, n) \in Seq(R) /\ Len(SubSeq(u, 1, n)) = n
          /\ \A k \in 1..n : SubSeq(u, 1, n)[k] = u[k]
      BY <1>1, <1>2, Front1
    <2>2. \A k \in 1..n : u[k] = s[k]  BY <1>0, <1>1
    <2>. QED  BY <2>1, <2>2, <1>n, SeqEqual
  <1>4. SubSeq(u, n + 1, Len(u)) = t
    <2>1. /\ SubSeq(u, n + 1, Len(u)) \in Seq(R) /\ Len(SubSeq(u, n + 1, Len(u))) = m
          /\ \A k \in 1..m : SubSeq(u, n + 1, Len(u))[k] = u[n + k]
      BY <1>1, <1>2, Middle
    <2>2. \A k \in 1..m : u[n + k] = t[k]
      <3> TAKE k \in 1..m
      <3>1. n + k \in 1..n + m /\ ~(n + k <= n) /\ (n + k) - n = k  BY <1>0
      <3>. QED  BY <3>1, <1>1
    <2>. QED  BY <2>1, <2>2, <1>n, SeqEqual
  <1>. QED  BY <1>1, <1>3, <1>4, <1>n DEF u

(* A text cut at i, and at i and j. *)
LEMMA CutOnce ==
  ASSUME NEW R, NEW s \in Seq(R), NEW i \in 0..Len(s)
  PROVE  SubSeq(s, 1, i) \o SubSeq(s, i + 1, Len(s)) = s
  <1>1. 1 \in 1..Len(s) + 1 /\ i \in 1 - 1..Len(s) /\ Len(s) \in i..Len(s)  OBVIOUS
  <1>2. SubSeq(s, 1, i) \o SubSeq(s, i + 1, Len(s)) = SubSeq(s, 1, Len(s))
    BY <1>1, ConcatAdjacentSubSeq
  <1>. QED  BY <1>2, SubSeqFull

(* Cutting a text at two offsets and joining the pieces gives the text. *)
LEMMA CutTwice ==
  ASSUME NEW R, NEW s \in Seq(R), NEW i \in 0..Len(s), NEW j \in i..Len(s)
  PROVE  /\ SubSeq(s, 1, i) \o SubSeq(s, i + 1, j) = SubSeq(s, 1, j)
         /\ SubSeq(s, i + 1, j) \o SubSeq(s, j + 1, Len(s)) = SubSeq(s, i + 1, Len(s))
         /\ (SubSeq(s, 1, i) \o SubSeq(s, i + 1, j)) \o SubSeq(s, j + 1, Len(s)) = s
  <1>1. 1 \in 1..Len(s) + 1 /\ i \in 1 - 1..Len(s) /\ j \in i..Len(s)  OBVIOUS
  <1>2. SubSeq(s, 1, i) \o SubSeq(s, i + 1, j) = SubSeq(s, 1, j)
    BY <1>1, ConcatAdjacentSubSeq
  <1>3. SubSeq(s, i + 1, j) \o SubSeq(s, j + 1, Len(s)) = SubSeq(s, i + 1, Len(s))
    <2> DEFINE a == i + 1
    <2>1. a \in 1..Len(s) + 1 /\ j \in a - 1..Len(s) /\ Len(s) \in j..Len(s)  OBVIOUS
    <2> HIDE DEF a
    <2>2. SubSeq(s, a, j) \o SubSeq(s, j + 1, Len(s)) = SubSeq(s, a, Len(s))
      BY <2>1, ConcatAdjacentSubSeq
    <2>. QED  BY <2>2 DEF a
  <1>4. j \in 0..Len(s)  OBVIOUS
  <1>. QED  BY <1>2, <1>3, <1>4, CutOnce

-----------------------------------------------------------------------------
(* Editors whose tokens come from R. *)
SnapType(R) == {s \in [text : Seq(R), at : Nat] : s.at <= Len(s.text)}
EditorType(R) ==
  {e \in [text : Seq(R), at : Nat, undo : Seq(SnapType(R)), redo : Seq(SnapType(R)),
          last : {"none", "type", "kill", "yank"}, ring : Seq(Seq(R)), history : Seq(Seq(R)),
          index : Nat, scratch : Seq(R), pastes : Seq(Nat)] :
     /\ e.at <= Len(e.text) /\ e.index <= Len(e.history)
     /\ Len(e.undo) + Len(e.redo) <= MaxUndo
     /\ Len(e.ring) <= MaxEntries /\ Len(e.history) <= MaxHistory}

(* What undo and a run of kills or yanks need of the mark last left.       *)
Marked(e) ==
  /\ e.last = "type" => e.undo # <<>> /\ e.redo = <<>>
  /\ e.last \in {"kill", "yank"} => e.ring # <<>>

(* What a key does to the two stacks. *)
Same(e, f)    == f.text = e.text /\ f.undo = e.undo /\ f.redo = e.redo
Edited(e, f)  == \E at \in 0..Len(e.text) :
                   f.undo = Pushed(e.undo, [text |-> e.text, at |-> at], MaxUndo) /\ f.redo = <<>>
TypedOn(e, f) == e.last = "type" /\ f.undo = e.undo /\ f.redo = e.redo
Loaded(f)     == f.undo = <<>> /\ f.redo = <<>>

(* What it means to be an editor, field by field. *)
LEMMA EditorFacts ==
  ASSUME NEW R, NEW e \in EditorType(R)
  PROVE  /\ e.text \in Seq(R) /\ e.at \in Nat /\ e.at <= Len(e.text) /\ Len(e.text) \in Nat
         /\ e.undo \in Seq(SnapType(R)) /\ e.redo \in Seq(SnapType(R))
         /\ Len(e.undo) \in Nat /\ Len(e.redo) \in Nat /\ Len(e.undo) + Len(e.redo) <= MaxUndo
         /\ e.last \in {"none", "type", "kill", "yank"} /\ e.ring \in Seq(Seq(R))
         /\ e.history \in Seq(Seq(R)) /\ e.index \in Nat /\ e.index <= Len(e.history)
         /\ e.scratch \in Seq(R) /\ e.pastes \in Seq(Nat)
         /\ MaxUndo \in Nat \ {0} /\ MaxEntries \in Nat \ {0} /\ MaxHistory \in Nat \ {0}
         /\ e.at \in 0..Len(e.text) /\ Len(e.undo) <= MaxUndo /\ Len(e.redo) <= MaxUndo
         /\ e.index \in 0..Len(e.history) /\ Len(e.history) \in Nat /\ 0 <= Len(e.history)
         /\ Len(e.ring) <= MaxEntries /\ Len(e.history) <= MaxHistory
  <1>1. /\ e.text \in Seq(R) /\ e.at \in Nat /\ e.at <= Len(e.text)
        /\ e.undo \in Seq(SnapType(R)) /\ e.redo \in Seq(SnapType(R))
        /\ Len(e.undo) + Len(e.redo) <= MaxUndo
        /\ e.last \in {"none", "type", "kill", "yank"} /\ e.ring \in Seq(Seq(R))
        /\ e.history \in Seq(Seq(R)) /\ e.index \in Nat /\ e.index <= Len(e.history)
        /\ e.scratch \in Seq(R) /\ e.pastes \in Seq(Nat)
        /\ Len(e.ring) <= MaxEntries /\ Len(e.history) <= MaxHistory
    BY DEF EditorType
  <1>2. MaxUndo \in Nat \ {0} /\ MaxEntries \in Nat \ {0} /\ MaxHistory \in Nat \ {0}
    BY EditorAssumption DEF EditorAssumption
  <1> DEFINE n == Len(e.text)  u == Len(e.undo)  r == Len(e.redo)  h == Len(e.history)
  <1>3. n \in Nat /\ u \in Nat /\ r \in Nat /\ h \in Nat  BY <1>1, LenProperties
  <1>4. e.at <= n /\ u + r <= MaxUndo /\ e.index <= h /\ e.at \in Nat /\ e.index \in Nat  BY <1>1
  <1> HIDE DEF n, u, r, h
  <1>5. /\ e.at \in 0..n /\ u <= MaxUndo /\ r <= MaxUndo /\ e.index \in 0..h /\ 0 <= h
    BY <1>2, <1>3, <1>4
  <1>. QED  BY <1>1, <1>2, <1>3, <1>5 DEF n, u, r, h

(* A stack with a limit. *)
LEMMA PushedFits ==
  ASSUME NEW S, NEW stack \in Seq(S), NEW s \in S, NEW limit \in Nat \ {0}, Len(stack) <= limit
  PROVE  /\ Pushed(stack, s, limit) \in Seq(S) /\ Pushed(stack, s, limit) # <<>>
         /\ Len(Pushed(stack, s, limit)) = IF Len(stack) = limit THEN limit ELSE Len(stack) + 1
         /\ Pushed(stack, s, limit)[Len(Pushed(stack, s, limit))] = s
         /\ Len(stack) < limit => \A i \in 1..Len(stack) : Pushed(stack, s, limit)[i] = stack[i]
         /\ Len(stack) = limit => \A i \in 1..limit - 1 : Pushed(stack, s, limit)[i] = stack[i + 1]
  <1>1. CASE Len(stack) = limit
    <2>1. stack # <<>>  BY <1>1, EmptySeq
    <2>2. /\ Tail(stack) \in Seq(S) /\ Len(Tail(stack)) = limit - 1
          /\ \A i \in 1..limit - 1 : Tail(stack)[i] = stack[i + 1]
      BY <1>1, <2>1, HeadTailProperties
    <2> DEFINE t == Tail(stack)
    <2> HIDE DEF t
    <2>3. t \in Seq(S) /\ Len(t) = limit - 1 /\ \A i \in 1..limit - 1 : t[i] = stack[i + 1]
      BY <2>2 DEF t
    <2>4. /\ Append(t, s) \in Seq(S) /\ Append(t, s) # <<>> /\ Len(Append(t, s)) = limit
          /\ \A i \in 1..limit - 1 : Append(t, s)[i] = t[i]
          /\ Append(t, s)[limit] = s
      BY <2>3, AppendProperties
    <2>5. Pushed(stack, s, limit) = Append(t, s)  BY <1>1 DEF Pushed, t
    <2>. QED  BY <1>1, <2>3, <2>4, <2>5
  <1>2. CASE Len(stack) # limit
    <2>1. Pushed(stack, s, limit) = Append(stack, s)  BY <1>2 DEF Pushed
    <2>2. Len(stack) \in Nat  OBVIOUS
    <2>. QED  BY <1>2, <2>1, <2>2, AppendProperties
  <1>. QED  BY <1>1, <1>2

(* Writing and cutting. *)
LEMMA InsertFits ==
  ASSUME NEW R, NEW text \in Seq(R), NEW at \in 0..Len(text), NEW s \in Seq(R)
  PROVE  LET u == SubSeq(text, 1, at) \o s \o SubSeq(text, at + 1, Len(text))
         IN  u \in Seq(R) /\ Len(u) = Len(text) + Len(s)
  <1>1. SubSeq(text, 1, at) \in Seq(R) /\ Len(SubSeq(text, 1, at)) = at  BY Front1
  <1>2. Len(text) \in at..Len(text)  OBVIOUS
  <1>3. /\ SubSeq(text, at + 1, Len(text)) \in Seq(R)
        /\ Len(SubSeq(text, at + 1, Len(text))) = Len(text) - at
    BY <1>2, Middle
  <1> DEFINE l == SubSeq(text, 1, at)  r == SubSeq(text, at + 1, Len(text))
  <1> HIDE DEF l, r
  <1>a. l \in Seq(R) /\ Len(l) = at  BY <1>1 DEF l
  <1>b. r \in Seq(R) /\ Len(r) = Len(text) - at  BY <1>3 DEF r
  <1>4. l \o s \in Seq(R) /\ Len(l \o s) = at + Len(s)  BY <1>a, ConcatProperties
  <1> DEFINE m == l \o s
  <1>c. m \in Seq(R) /\ Len(m) = at + Len(s)  BY <1>4
  <1> HIDE DEF m
  <1>d. m \o r \in Seq(R) /\ Len(m \o r) = (at + Len(s)) + (Len(text) - at)
    BY ZenonT(40), <1>b, <1>c, ConcatProperties
  <1>5. (l \o s) \o r \in Seq(R) /\ Len((l \o s) \o r) = (at + Len(s)) + (Len(text) - at)
    BY <1>d DEF m
  <1>6. (at + Len(s)) + (Len(text) - at) = Len(text) + Len(s)  OBVIOUS
  <1>. QED  BY <1>5, <1>6 DEF l, r

(* A text with a piece cut out is shorter by that piece. *)
LEMMA CutFits ==
  ASSUME NEW R, NEW text \in Seq(R), NEW i \in 0..Len(text), NEW j \in i..Len(text)
  PROVE  LET u == SubSeq(text, 1, i) \o SubSeq(text, j + 1, Len(text))
         IN  u \in Seq(R) /\ Len(u) = Len(text) - (j - i) /\ i <= Len(u)
  <1>1. SubSeq(text, 1, i) \in Seq(R) /\ Len(SubSeq(text, 1, i)) = i  BY Front1
  <1>2. j \in 0..Len(text) /\ Len(text) \in j..Len(text)  OBVIOUS
  <1>3. /\ SubSeq(text, j + 1, Len(text)) \in Seq(R)
        /\ Len(SubSeq(text, j + 1, Len(text))) = Len(text) - j
    BY <1>2, Middle
  <1> DEFINE l == SubSeq(text, 1, i)  r == SubSeq(text, j + 1, Len(text))
  <1> HIDE DEF l, r
  <1>a. l \in Seq(R) /\ Len(l) = i  BY <1>1 DEF l
  <1>b. r \in Seq(R) /\ Len(r) = Len(text) - j  BY <1>3 DEF r
  <1>4. l \o r \in Seq(R) /\ Len(l \o r) = i + (Len(text) - j)  BY <1>a, <1>b, ConcatProperties
  <1>5. i + (Len(text) - j) = Len(text) - (j - i) /\ i <= i + (Len(text) - j)  OBVIOUS
  <1>. QED  BY <1>4, <1>5 DEF l, r

-----------------------------------------------------------------------------
(* The operations every key is made of: what they leave alone.             *)
Rest(e, f) ==
  /\ f.undo = e.undo /\ f.redo = e.redo /\ f.last = e.last /\ f.ring = e.ring
  /\ f.history = e.history /\ f.index = e.index /\ f.scratch = e.scratch /\ f.pastes = e.pastes

(* Inserting changes the text and the caret and nothing else. *)
LEMMA InsertKeeps ==
  ASSUME NEW R, NEW e \in EditorType(R), NEW s \in Seq(R)
  PROVE  Insert(e, s) \in EditorType(R) /\ Rest(e, Insert(e, s))
  <1> DEFINE u == SubSeq(e.text, 1, e.at) \o s \o SubSeq(e.text, e.at + 1, Len(e.text))
             at == e.at + Len(s)
  <1>1. e.text \in Seq(R) /\ e.at \in 0..Len(e.text)  BY EditorFacts
  <1>2. u \in Seq(R) /\ Len(u) = Len(e.text) + Len(s)  BY <1>1, InsertFits
  <1>3. at \in Nat /\ at <= Len(u)  BY <1>1, <1>2
  <1>4. Insert(e, s) = [e EXCEPT !.text = u, !.at = at]  BY DEF Insert
  <1> HIDE DEF u, at
  <1>. QED  BY <1>2, <1>3, <1>4 DEF EditorType, Rest

(* Cutting changes the text and the caret and nothing else. *)
LEMMA CutKeeps ==
  ASSUME NEW R, NEW e \in EditorType(R), NEW i \in 0..Len(e.text), NEW j \in i..Len(e.text)
  PROVE  Cut(e, i, j) \in EditorType(R) /\ Rest(e, Cut(e, i, j)) /\ Cut(e, i, j).at = i
  <1> DEFINE u == SubSeq(e.text, 1, i) \o SubSeq(e.text, j + 1, Len(e.text))
  <1>1. e.text \in Seq(R)  BY EditorFacts
  <1>2. u \in Seq(R) /\ i <= Len(u)  BY <1>1, CutFits
  <1>3. Cut(e, i, j) = [e EXCEPT !.text = u, !.at = i]  BY DEF Cut
  <1>4. i \in Nat  BY <1>1
  <1> HIDE DEF u
  <1> DEFINE f == [e EXCEPT !.text = u, !.at = i]
  <1>5. f \in EditorType(R)  BY <1>2, <1>4 DEF EditorType
  <1>6. Rest(e, f) /\ f.at = i  BY DEF EditorType, Rest
  <1>. QED  BY <1>3, <1>5, <1>6

(* The text and the caret make a version. *)
LEMMA SnapFits ==
  ASSUME NEW R, NEW e \in EditorType(R)
  PROVE  Snap(e) \in SnapType(R)
  BY DEF EditorType, SnapType, Snap

(* Recording pushes the present version, within the limit, and empties the
   redo stack. *)
LEMMA RecordUndoKeeps ==
  ASSUME NEW R, NEW e \in EditorType(R)
  PROVE  LET r == RecordUndo(e)
         IN  /\ r \in EditorType(R) /\ r.undo # <<>>
             /\ r.undo = Pushed(e.undo, [text |-> e.text, at |-> e.at], MaxUndo) /\ r.redo = <<>>
             /\ r.text = e.text /\ r.at = e.at /\ r.last = e.last /\ r.ring = e.ring
             /\ r.history = e.history /\ r.index = e.index /\ r.scratch = e.scratch
             /\ r.pastes = e.pastes
  <1> DEFINE undo == Pushed(e.undo, Snap(e), MaxUndo)
  <1>0. e.undo \in Seq(SnapType(R)) /\ Len(e.undo) <= MaxUndo /\ MaxUndo \in Nat \ {0}
    BY EditorFacts
  <1>1. Snap(e) \in SnapType(R)  BY SnapFits
  <1>2. undo \in Seq(SnapType(R)) /\ undo # <<>>
    BY <1>0, <1>1, PushedFits
  <1>3. Len(undo) <= MaxUndo /\ Len(undo) \in Nat
    <2>1. Len(undo) = IF Len(e.undo) = MaxUndo THEN MaxUndo ELSE Len(e.undo) + 1
      BY <1>0, <1>1, PushedFits
    <2>. QED  BY <2>1, <1>0
  <1>4. <<>> \in Seq(SnapType(R)) /\ Len(<<>>) = 0  BY EmptySeq
  <1>5. RecordUndo(e) = [e EXCEPT !.undo = undo, !.redo = <<>>]  BY DEF RecordUndo
  <1>6. undo = Pushed(e.undo, [text |-> e.text, at |-> e.at], MaxUndo)  BY DEF Snap
  <1> HIDE DEF undo
  <1>7. Len(undo) + Len(<<>>) <= MaxUndo  BY <1>3, <1>4
  <1> DEFINE r == [e EXCEPT !.undo = undo, !.redo = <<>>]
  <1>8. r \in EditorType(R)  BY <1>2, <1>4, <1>7 DEF EditorType
  <1>9. /\ r.undo = undo /\ r.redo = <<>> /\ r.text = e.text /\ r.at = e.at /\ r.last = e.last
        /\ r.ring = e.ring /\ r.history = e.history /\ r.index = e.index /\ r.scratch = e.scratch
        /\ r.pastes = e.pastes
    BY DEF EditorType
  <1> HIDE DEF r
  <1>. QED  BY <1>2, <1>5, <1>6, <1>8, <1>9 DEF r

(* Leaving a run and the history changes neither text nor stacks. *)
LEMMA ResetKeeps ==
  ASSUME NEW R, NEW e \in EditorType(R)
  PROVE  LET r == Reset(e)
         IN  /\ r \in EditorType(R) /\ r.last = "none" /\ r.index = 0
             /\ r.text = e.text /\ r.at = e.at /\ r.undo = e.undo /\ r.redo = e.redo /\ r.ring = e.ring
             /\ r.history = e.history /\ r.scratch = e.scratch /\ r.pastes = e.pastes
  <1>1. Reset(e) = [e EXCEPT !.last = "none", !.index = 0]  BY DEF Reset
  <1>2. 0 <= Len(e.history)  BY EditorFacts
  <1> DEFINE r == [e EXCEPT !.last = "none", !.index = 0]
  <1>3. r \in EditorType(R)  BY <1>2 DEF EditorType
  <1>4. /\ r.last = "none" /\ r.index = 0 /\ r.text = e.text /\ r.at = e.at /\ r.undo = e.undo
        /\ r.redo = e.redo /\ r.ring = e.ring /\ r.history = e.history /\ r.scratch = e.scratch
        /\ r.pastes = e.pastes
    BY DEF EditorType
  <1> HIDE DEF r
  <1>. QED  BY <1>1, <1>3, <1>4 DEF r

(* One undo step, then a change of the text. *)
LEMMA RecordsOnce ==
  ASSUME NEW R, NEW e, NEW h \in EditorType(R), h.text = e.text, h.undo = e.undo,
         NEW f \in EditorType(R), Rest(RecordUndo(h), f)
  PROVE  /\ Edited(e, f) /\ f.undo # <<>> /\ f.redo = <<>> /\ f.last = h.last /\ f.ring = h.ring
         /\ f.pastes = h.pastes /\ f.history = h.history /\ f.index = h.index
  <1> DEFINE r == RecordUndo(h)
  <1>1. /\ r.undo # <<>> /\ r.undo = Pushed(h.undo, [text |-> h.text, at |-> h.at], MaxUndo)
        /\ r.redo = <<>> /\ r.last = h.last /\ r.ring = h.ring /\ r.pastes = h.pastes
        /\ r.history = h.history /\ r.index = h.index
    BY RecordUndoKeeps
  <1>2. h.at \in 0..Len(e.text)  BY EditorFacts
  <1>3. /\ f.undo = r.undo /\ f.redo = r.redo /\ f.last = r.last /\ f.ring = r.ring
        /\ f.pastes = r.pastes /\ f.history = r.history /\ f.index = r.index
    BY DEF Rest
  <1> HIDE DEF r
  <1>4. f.undo = Pushed(e.undo, [text |-> e.text, at |-> h.at], MaxUndo) /\ f.redo = <<>>
    BY <1>1, <1>3
  <1>5. Edited(e, f)  BY <1>2, <1>4, Zenon DEF Edited
  <1>. QED  BY <1>1, <1>3, <1>5

Recorded(R, e, h, f) ==
  /\ f \in EditorType(R) /\ Edited(e, f) /\ f.undo # <<>> /\ f.redo = <<>>
  /\ f.last = h.last /\ f.ring = h.ring /\ f.pastes = h.pastes

(* Recording and then inserting is an edit on the line of versions. *)
LEMMA RecordedInsert ==
  ASSUME NEW R, NEW e, NEW h \in EditorType(R), h.text = e.text, h.undo = e.undo, NEW s \in Seq(R)
  PROVE  /\ Recorded(R, e, h, Insert(RecordUndo(h), s))
         /\ Insert(RecordUndo(h), s).text = Insert(h, s).text
         /\ Insert(RecordUndo(h), s).at = Insert(h, s).at
  <1> DEFINE r == RecordUndo(h)  f == Insert(r, s)
  <1>1. r \in EditorType(R) /\ r.text = h.text /\ r.at = h.at  BY RecordUndoKeeps
  <1> HIDE DEF r
  <1>2. f \in EditorType(R) /\ Rest(r, f)  BY <1>1, InsertKeeps
  <1>3. f.text = Insert(h, s).text /\ f.at = Insert(h, s).at
    <2>1. f.text = SubSeq(r.text, 1, r.at) \o s \o SubSeq(r.text, r.at + 1, Len(r.text)) /\ f.at = r.at + Len(s)
      BY <1>1 DEF Insert, EditorType
    <2>2. /\ Insert(h, s).text = SubSeq(h.text, 1, h.at) \o s \o SubSeq(h.text, h.at + 1, Len(h.text))
          /\ Insert(h, s).at = h.at + Len(s)
      BY DEF Insert, EditorType
    <2>. QED  BY <2>1, <2>2, <1>1
  <1> HIDE DEF f
  <1>4. Rest(RecordUndo(h), f)  BY <1>2 DEF r
  <1>5. /\ Edited(e, f) /\ f.undo # <<>> /\ f.redo = <<>> /\ f.last = h.last /\ f.ring = h.ring
        /\ f.pastes = h.pastes
    BY <1>2, <1>4, RecordsOnce
  <1>. QED  BY <1>2, <1>3, <1>5 DEF f, r, Recorded

(* Recording and then cutting is an edit on the line of versions. *)
LEMMA RecordedCut ==
  ASSUME NEW R, NEW e, NEW h \in EditorType(R), h.text = e.text, h.undo = e.undo,
         NEW i \in 0..Len(h.text), NEW j \in i..Len(h.text)
  PROVE  /\ Recorded(R, e, h, Cut(RecordUndo(h), i, j))
         /\ Cut(RecordUndo(h), i, j).text = SubSeq(h.text, 1, i) \o SubSeq(h.text, j + 1, Len(h.text))
         /\ Cut(RecordUndo(h), i, j).at = i
  <1> DEFINE r == RecordUndo(h)  f == Cut(r, i, j)
  <1>1. r \in EditorType(R) /\ r.text = h.text  BY RecordUndoKeeps
  <1> HIDE DEF r
  <1>2. f \in EditorType(R) /\ Rest(r, f) /\ f.at = i  BY <1>1, CutKeeps
  <1>3. f.text = SubSeq(h.text, 1, i) \o SubSeq(h.text, j + 1, Len(h.text))
    BY <1>1 DEF Cut, EditorType
  <1> HIDE DEF f
  <1>4. Rest(RecordUndo(h), f)  BY <1>2 DEF r
  <1>5. /\ Edited(e, f) /\ f.undo # <<>> /\ f.redo = <<>> /\ f.last = h.last /\ f.ring = h.ring
        /\ f.pastes = h.pastes
    BY <1>2, <1>4, RecordsOnce
  <1>. QED  BY <1>2, <1>3, <1>5 DEF f, r, Recorded

(* Keys that end a run: what they leave. *)
Plainly(R, e, f) ==
  /\ f \in EditorType(R) /\ f.last \notin {"kill", "yank"} /\ Marked(f)
  /\ Same(e, f) \/ Edited(e, f) \/ TypedOn(e, f) \/ Loaded(f)

(* One token is a text. *)
LEMMA OneToken ==
  ASSUME NEW R, NEW t \in R
  PROVE  <<t>> \in Seq(R) /\ Len(<<t>>) = 1
  OBVIOUS

(* Leaving the prompt history changes nothing an edit looks at. *)
LEMMA ExitHistoryKeeps ==
  ASSUME NEW R, NEW e \in EditorType(R)
  PROVE  LET h == ExitHistory(e)
         IN  /\ h \in EditorType(R) /\ h.text = e.text /\ h.undo = e.undo /\ h.redo = e.redo
             /\ h.last = e.last /\ h.ring = e.ring /\ h.pastes = e.pastes
  <1> DEFINE at == IF e.at = 0 THEN Len(e.text) ELSE e.at
             h  == [e EXCEPT !.index = 0, !.scratch = <<>>, !.at = at]
  <1>0. at \in Nat /\ at <= Len(e.text) /\ 0 <= Len(e.history)
    <2>1. e.at \in Nat /\ e.at <= Len(e.text) /\ Len(e.text) \in Nat /\ 0 <= Len(e.history)
      BY EditorFacts
    <2>. QED  BY <2>1
  <1>1. <<>> \in Seq(R)  BY EmptySeq
  <1>2. ExitHistory(e) = e \/ ExitHistory(e) = h  BY DEF ExitHistory
  <1> HIDE DEF at
  <1>3. h \in EditorType(R)  BY <1>0, <1>1 DEF EditorType
  <1>4. h.text = e.text /\ h.undo = e.undo /\ h.redo = e.redo /\ h.last = e.last /\ h.ring = e.ring
        /\ h.pastes = e.pastes
    BY DEF EditorType
  <1> HIDE DEF h
  <1>. QED  BY <1>2, <1>3, <1>4

(* Typing a character edits, or goes on with the version of the word it
   belongs to. *)
LEMMA TypeKeeps ==
  ASSUME NEW R, NEW e \in EditorType(R), Marked(e), NEW t \in R
  PROVE  Plainly(R, e, Type(e, t)) /\ Type(e, t).pastes = e.pastes
  <1> DEFINE h == ExitHistory(e)
             r == IF Word(t) /\ h.last = "type" THEN h ELSE RecordUndo(h)
             g == Insert(r, <<t>>)
             last == IF Word(t) THEN "type" ELSE "none"
             f == [g EXCEPT !.last = last]
  <1>1. /\ h \in EditorType(R) /\ h.text = e.text /\ h.undo = e.undo /\ h.redo = e.redo
        /\ h.last = e.last /\ h.pastes = e.pastes
    BY ExitHistoryKeeps
  <1>2. Type(e, t) = f  BY DEF Type
  <1>3. <<t>> \in Seq(R)  BY OneToken
  <1> HIDE DEF h
  <1>4. CASE Word(t) /\ h.last = "type"
    <2>1. r = h /\ last = "type"  BY <1>4
    <2>2. g \in EditorType(R) /\ Rest(h, g)  BY <2>1, <1>1, <1>3, InsertKeeps
    <2>3. g.undo = e.undo /\ g.redo = e.redo /\ g.pastes = e.pastes  BY <2>2, <1>1 DEF Rest
    <2> HIDE DEF g, last
    <2>4. f \in EditorType(R)  BY <2>1, <2>2 DEF EditorType
    <2>5. f.last = "type" /\ f.undo = g.undo /\ f.redo = g.redo /\ f.pastes = g.pastes
      BY <2>1, <2>2 DEF EditorType
    <2> HIDE DEF f
    <2>6. e.undo # <<>> /\ e.redo = <<>> /\ e.last = "type"  BY <1>1, <1>4 DEF Marked
    <2>7. Marked(f) /\ TypedOn(e, f)  BY <2>3, <2>5, <2>6 DEF Marked, TypedOn
    <2>. QED  BY <1>2, <2>3, <2>4, <2>5, <2>7 DEF Plainly
  <1>5. CASE ~(Word(t) /\ h.last = "type")
    <2>1. r = RecordUndo(h)  BY <1>5
    <2>0. g = Insert(RecordUndo(h), <<t>>)  BY <2>1
    <2>2. /\ g \in EditorType(R) /\ Edited(e, g) /\ g.undo # <<>> /\ g.redo = <<>> /\ g.pastes = h.pastes
      <3>1. Recorded(R, e, h, Insert(RecordUndo(h), <<t>>))  BY <1>1, <1>3, RecordedInsert
      <3>. QED  BY <2>0, <3>1 DEF Recorded
    <2>3. last \in {"type", "none"}  OBVIOUS
    <2> HIDE DEF g, last
    <2>4. f \in EditorType(R)  BY <2>2, <2>3 DEF EditorType
    <2>5. f.last = last /\ f.undo = g.undo /\ f.redo = g.redo /\ f.pastes = g.pastes
      BY <2>2 DEF EditorType
    <2> HIDE DEF f
    <2>6. Marked(f) /\ Edited(e, f)  BY <2>2, <2>3, <2>5 DEF Marked, Edited
    <2>. QED  BY <1>1, <1>2, <2>2, <2>3, <2>4, <2>5, <2>6 DEF Plainly
  <1>. QED  BY <1>4, <1>5

(* Leaving a run and inserting is one edit. *)
LEMMA ResetInsertKeeps ==
  ASSUME NEW R, NEW e \in EditorType(R), NEW s \in Seq(R)
  PROVE  LET f == Insert(RecordUndo(Reset(e)), s) IN Plainly(R, e, f) /\ f.pastes = e.pastes
  <1> DEFINE h == Reset(e)  f == Insert(RecordUndo(h), s)
  <1>1. /\ h \in EditorType(R) /\ h.last = "none" /\ h.text = e.text /\ h.undo = e.undo
        /\ h.pastes = e.pastes
    BY ResetKeeps
  <1> HIDE DEF h
  <1>2. Recorded(R, e, h, f)  BY <1>1, RecordedInsert
  <1> HIDE DEF f
  <1>3. Plainly(R, e, f) /\ f.pastes = e.pastes  BY <1>1, <1>2 DEF Recorded, Plainly, Marked
  <1>. QED  BY <1>3 DEF f, h

(* Leaving a run and cutting is one edit. *)
LEMMA ResetCutKeeps ==
  ASSUME NEW R, NEW e \in EditorType(R), NEW i \in 0..Len(e.text), NEW j \in i..Len(e.text)
  PROVE  LET f == Cut(RecordUndo(Reset(e)), i, j) IN Plainly(R, e, f) /\ f.pastes = e.pastes
  <1> DEFINE h == Reset(e)  f == Cut(RecordUndo(h), i, j)
  <1>1. /\ h \in EditorType(R) /\ h.last = "none" /\ h.text = e.text /\ h.undo = e.undo
        /\ h.pastes = e.pastes
    BY ResetKeeps
  <1> HIDE DEF h
  <1>2. Recorded(R, e, h, f)  BY <1>1, RecordedCut
  <1> HIDE DEF f
  <1>3. Plainly(R, e, f) /\ f.pastes = e.pastes  BY <1>1, <1>2 DEF Recorded, Plainly, Marked
  <1>. QED  BY <1>3 DEF f, h

(* Leaving a run and recording is one edit. *)
LEMMA ResetRecordKeeps ==
  ASSUME NEW R, NEW e \in EditorType(R)
  PROVE  LET f == RecordUndo(Reset(e)) IN Plainly(R, e, f) /\ f.pastes = e.pastes
  <1> DEFINE h == Reset(e)  f == RecordUndo(h)
  <1>1. /\ h \in EditorType(R) /\ h.last = "none" /\ h.text = e.text /\ h.undo = e.undo
        /\ h.pastes = e.pastes
    BY ResetKeeps
  <1> HIDE DEF h
  <1>2. f \in EditorType(R) /\ f.last = h.last /\ f.pastes = h.pastes  BY <1>1, RecordUndoKeeps
  <1>3. Rest(RecordUndo(h), f)  BY DEF Rest
  <1> HIDE DEF f
  <1>4. Edited(e, f) /\ f.last = h.last  BY <1>1, <1>2, <1>3, RecordsOnce
  <1>5. Plainly(R, e, f) /\ f.pastes = e.pastes  BY <1>1, <1>2, <1>4 DEF Plainly, Marked
  <1>. QED  BY <1>5 DEF f, h

(* Backspace and delete are edits, or do nothing at the ends. *)
LEMMA EraseKeeps ==
  ASSUME NEW R, NEW e \in EditorType(R), NEW f \in {Backspace(e), Delete(e)}
  PROVE  Plainly(R, e, f) /\ f.pastes = e.pastes
  <1>1. e.at \in 0..Len(e.text) /\ e.at \in Nat /\ Len(e.text) \in Nat  BY EditorFacts
  <1>2. CASE f = RecordUndo(Reset(e))  BY <1>2, ResetRecordKeeps
  <1>3. CASE e.at # 0 /\ f = Cut(RecordUndo(Reset(e)), e.at - 1, e.at)
    <2>1. e.at - 1 \in 0..Len(e.text) /\ e.at \in e.at - 1..Len(e.text)  BY <1>1, <1>3
    <2>. QED  BY <1>3, <2>1, ResetCutKeeps
  <1>4. CASE e.at # Len(e.text) /\ f = Cut(RecordUndo(Reset(e)), e.at, e.at + 1)
    <2>1. e.at + 1 \in e.at..Len(e.text)  BY <1>1, <1>4
    <2>. QED  BY <1>1, <1>4, <2>1, ResetCutKeeps
  <1>. QED  BY <1>2, <1>3, <1>4 DEF Backspace, Delete

(* A large paste inserts its marker and keeps its text under the next number.
   *)
LEMMA PasteLargeKeeps ==
  ASSUME NEW R, NEW e \in EditorType(R), NEW k \in Nat,
         Marker(Len(e.pastes) + 1, k) \in Seq(R)
  PROVE  Plainly(R, e, PasteLarge(e, k)) /\ PasteLarge(e, k).pastes = Append(e.pastes, k)
  <1> DEFINE t == Marker(Len(e.pastes) + 1, k)
             r == RecordUndo(Reset(e))
             kept == Append(e.pastes, k)
             g == [r EXCEPT !.pastes = kept]
             f == Insert(g, t)
  <1>1. PasteLarge(e, k) = f  BY DEF PasteLarge
  <1>2. t \in Seq(R)  OBVIOUS
  <1>3. kept \in Seq(Nat)  BY EditorFacts, AppendProperties
  <1>4. Plainly(R, e, r)  BY ResetRecordKeeps
  <1> HIDE DEF t, r, kept
  <1>5. r \in EditorType(R)  BY <1>4 DEF Plainly
  <1>6. g \in EditorType(R) /\ g.pastes = kept /\ g.undo = r.undo /\ g.redo = r.redo /\ g.last = r.last
        /\ g.text = r.text
    BY <1>3, <1>5 DEF EditorType
  <1> HIDE DEF g
  <1>7. f \in EditorType(R) /\ Rest(g, f)  BY <1>2, <1>6, InsertKeeps
  <1> HIDE DEF f
  <1>8. f.undo = r.undo /\ f.redo = r.redo /\ f.last = r.last /\ f.pastes = kept
    BY <1>6, <1>7 DEF Rest
  <1>9. Edited(e, r) /\ r.last = "none"
    <2> DEFINE h == Reset(e)
    <2>1. h \in EditorType(R) /\ h.last = "none" /\ h.text = e.text /\ h.undo = e.undo  BY ResetKeeps
    <2> HIDE DEF h
    <2>2. r = RecordUndo(h)  BY DEF r, h
    <2>3. Rest(RecordUndo(h), r)  BY <2>2 DEF Rest
    <2>. QED  BY <1>5, <2>1, <2>3, RecordsOnce
  <1>10. Edited(e, f) /\ Marked(f)  BY <1>8, <1>9 DEF Edited, Marked
  <1>. QED  BY <1>1, <1>7, <1>8, <1>9, <1>10 DEF Plainly, kept

-----------------------------------------------------------------------------
(* Where the caret's line begins and ends, and its words.                  *)
LEMMA LineStartFits ==
  ASSUME NEW R, NEW e \in EditorType(R)
  PROVE  LineStart(e) \in 0..e.at
  <1> DEFINE S == {i \in 0..e.at : i = 0 \/ e.text[i] = NL}
  <1>1. e.at \in Nat  BY EditorFacts
  <1>2. 0 \in S /\ S \in SUBSET (0..e.at)  BY <1>1
  <1>3. PICK i \in S : \A y \in S : y <= i  BY <1>1, <1>2, GreatestOffset, Zenon
  <1>4. \A j \in i + 1..e.at : e.text[j] # NL
    <2> TAKE j \in i + 1..e.at
    <2>1. j \in 0..e.at /\ ~(j <= i)  BY <1>1, <1>3
    <2>. QED  BY <2>1, <1>3
  <1>5. \E z \in 0..e.at : (z = 0 \/ e.text[z] = NL) /\ \A j \in z + 1..e.at : e.text[j] # NL
    BY <1>3, <1>4
  <1>. QED  BY <1>5, Zenon DEF LineStart

(* The end of the line is at or behind the caret. *)
LEMMA LineEndFits ==
  ASSUME NEW R, NEW e \in EditorType(R)
  PROVE  LineEnd(e) \in e.at..Len(e.text)
  <1> DEFINE n == Len(e.text)
             S == {i \in e.at..n : i = n \/ e.text[i + 1] = NL}
  <1>1. e.at \in Nat /\ n \in Nat /\ e.at <= n  BY EditorFacts
  <1> HIDE DEF n
  <1>2. n \in S /\ S \in SUBSET Nat /\ S # {}  BY <1>1
  <1>3. PICK i \in S : \A y \in S : i <= y  BY <1>2, LeastOffset, Zenon
  <1>4. \A j \in e.at + 1..i : e.text[j] # NL
    <2> TAKE j \in e.at + 1..i
    <2>1. j - 1 \in e.at..n /\ ~(i <= j - 1) /\ (j - 1) + 1 = j  BY <1>1, <1>3
    <2>. QED  BY <2>1, <1>3
  <1>5. \E z \in e.at..n : (z = n \/ e.text[z + 1] = NL) /\ \A j \in e.at + 1..z : e.text[j] # NL
    BY <1>3, <1>4
  <1>. QED  BY <1>5, Zenon DEF LineEnd, n

(* The start of the word is at or before the caret. *)
LEMMA WordLeftFits ==
  ASSUME NEW R, NEW e \in EditorType(R)
  PROVE  WordLeft(e) \in 0..e.at
  <1> DEFINE l == LineStart(e)  at == e.at
             M == {m \in l..at : \A k \in m + 1..at : e.text[k] = Space}
  <1>1. at \in Nat /\ l \in 0..at  BY EditorFacts, LineStartFits
  <1> HIDE DEF l
  <1>2. at \in M /\ M \in SUBSET Nat /\ M # {}  BY <1>1
  <1>3. PICK m \in M : \A y \in M : m <= y  BY <1>2, LeastOffset, Zenon
  <1>4. m = l \/ e.text[m] # Space
    <2> SUFFICES ASSUME m # l, e.text[m] = Space PROVE FALSE  OBVIOUS
    <2>1. m - 1 \in l..at /\ ~(m <= m - 1) /\ \A k \in (m - 1) + 1..at : k = m \/ k \in m + 1..at
      BY <1>1, <1>3
    <2>2. m - 1 \in M  BY <2>1, <1>3
    <2>. QED  BY <2>1, <2>2, <1>3
  <1> DEFINE I == {i \in l..m : \A k \in i + 1..m : e.text[k] # Space /\ Kind(e.text[k]) = Kind(e.text[m])}
  <1>5. m \in I /\ I \in SUBSET Nat /\ I # {}
    <2>1. m \in l..m /\ m \in Nat /\ l \in Nat  BY <1>1, <1>3
    <2>2. \A k \in m + 1..m : FALSE  BY <2>1
    <2>3. m \in I  BY <2>1, <2>2
    <2>4. I \in SUBSET Nat  BY <2>1
    <2>. QED  BY <2>3, <2>4
  <1>6. PICK i \in I : \A y \in I : i <= y  BY <1>5, LeastOffset, Zenon
  <1>7. i = l \/ (m > i /\ (e.text[i] = Space \/ Kind(e.text[i]) # Kind(e.text[m])))
    <2> SUFFICES ASSUME i # l, e.text[i] # Space, (m > i) => (Kind(e.text[i]) = Kind(e.text[m])) PROVE FALSE
      BY <1>1, <1>3, <1>4, <1>6
    <2>0. i \in l..m /\ m \in l..at  BY <1>3, <1>6
    <2>1. i - 1 \in l..m /\ ~(i <= i - 1) /\ \A k \in (i - 1) + 1..m : k = i \/ k \in i + 1..m
      BY <1>1, <2>0
    <2>2. Kind(e.text[i]) = Kind(e.text[m])
      <3>1. i = m \/ m > i  BY <1>1, <2>0
      <3>. QED  BY <3>1
    <2>3. i - 1 \in I
      <3>1. \A k \in (i - 1) + 1..m : e.text[k] # Space /\ Kind(e.text[k]) = Kind(e.text[m])
        BY <2>1, <2>2, <1>6
      <3>. QED  BY <3>1, <2>1
    <2>. QED  BY <2>1, <2>3, <1>6
  <1>8. \E z \in l..at : \E x \in z..at :
          /\ \A k \in x + 1..at : e.text[k] = Space
          /\ \A k \in z + 1..x : e.text[k] # Space /\ Kind(e.text[k]) = Kind(e.text[x])
          /\ x = l \/ e.text[x] # Space
          /\ z = l \/ (x > z /\ (e.text[z] = Space \/ Kind(e.text[z]) # Kind(e.text[x])))
    <2>1. i \in l..at /\ m \in i..at  BY <1>1, <1>3, <1>6
    <2>. QED  BY <2>1, <1>3, <1>4, <1>6, <1>7
  <1>9. WordLeft(e) \in l..at  BY <1>8, Zenon DEF WordLeft, l
  <1>. QED  BY <1>1, <1>9

(* The end of the word is at or behind the caret. *)
LEMMA WordRightFits ==
  ASSUME NEW R, NEW e \in EditorType(R)
  PROVE  WordRight(e) \in e.at..Len(e.text)
  <1> DEFINE n == LineEnd(e)  at == e.at
             M == {m \in at..n : \A k \in at + 1..m : e.text[k] = Space}
  <1>1. at \in Nat /\ n \in at..Len(e.text) /\ n \in Nat /\ Len(e.text) \in Nat
    <2>1. at \in Nat /\ n \in at..Len(e.text) /\ Len(e.text) \in Nat  BY EditorFacts, LineEndFits
    <2>. QED  BY <2>1
  <1> HIDE DEF n
  <1>2. at \in M /\ M \in SUBSET (0..n) /\ M # {}
    <2>1. at \in at..n /\ \A k \in at + 1..at : FALSE  BY <1>1
    <2>2. at \in M  BY <2>1
    <2>3. M \in SUBSET (0..n)  BY <1>1
    <2>. QED  BY <2>2, <2>3
  <1>3. PICK m \in M : \A y \in M : y <= m  BY <1>1, <1>2, GreatestOffset, Zenon
  <1>4. m = n \/ e.text[m + 1] # Space
    <2> SUFFICES ASSUME m # n, e.text[m + 1] = Space PROVE FALSE  OBVIOUS
    <2>1. m + 1 \in at..n /\ ~(m + 1 <= m) /\ \A k \in at + 1..m + 1 : k = m + 1 \/ k \in at + 1..m
      BY <1>1, <1>3
    <2>2. m + 1 \in M  BY <2>1, <1>3
    <2>. QED  BY <2>1, <2>2, <1>3
  <1> DEFINE J == {j \in m..n : \A k \in m + 1..j : e.text[k] # Space /\ Kind(e.text[k]) = Kind(e.text[m + 1])}
  <1>5. m \in J /\ J \in SUBSET (0..n) /\ J # {}
    <2>1. m \in m..n /\ m \in Nat  BY <1>1, <1>3
    <2>2. \A k \in m + 1..m : FALSE  BY <2>1
    <2>3. m \in J  BY <2>1, <2>2
    <2>4. J \in SUBSET (0..n)  BY <2>1, <1>1
    <2>. QED  BY <2>3, <2>4
  <1>6. PICK j \in J : \A y \in J : y <= j  BY <1>1, <1>5, GreatestOffset, Zenon
  <1>7. j = n \/ (m < j /\ (e.text[j + 1] = Space \/ Kind(e.text[j + 1]) # Kind(e.text[m + 1])))
    <2> SUFFICES ASSUME j # n, e.text[j + 1] # Space, (m < j) => (Kind(e.text[j + 1]) = Kind(e.text[m + 1]))
                 PROVE  FALSE
      BY <1>1, <1>3, <1>4, <1>6
    <2>0. j \in m..n /\ m \in at..n  BY <1>3, <1>6
    <2>1. j + 1 \in m..n /\ ~(j + 1 <= j) /\ \A k \in m + 1..j + 1 : k = j + 1 \/ k \in m + 1..j
      BY <1>1, <2>0
    <2>2. Kind(e.text[j + 1]) = Kind(e.text[m + 1])
      <3>1. j = m \/ m < j  BY <1>1, <2>0
      <3>. QED  BY <3>1
    <2>3. j + 1 \in J
      <3>1. \A k \in m + 1..j + 1 : e.text[k] # Space /\ Kind(e.text[k]) = Kind(e.text[m + 1])
        BY <2>1, <2>2, <1>6
      <3>. QED  BY <3>1, <2>1
    <2>. QED  BY <2>1, <2>3, <1>6
  <1>8. \E z \in at..n : \E x \in at..z :
          /\ \A k \in at + 1..x : e.text[k] = Space
          /\ \A k \in x + 1..z : e.text[k] # Space /\ Kind(e.text[k]) = Kind(e.text[x + 1])
          /\ x = n \/ e.text[x + 1] # Space
          /\ z = n \/ (x < z /\ (e.text[z + 1] = Space \/ Kind(e.text[z + 1]) # Kind(e.text[x + 1])))
    <2>1. j \in at..n /\ m \in at..j  BY <1>1, <1>3, <1>6
    <2>. QED  BY <2>1, <1>3, <1>4, <1>6, <1>7
  <1>9. WordRight(e) \in at..n  BY <1>8, Zenon DEF WordRight, n
  <1>. QED  BY <1>1, <1>9

-----------------------------------------------------------------------------
(* Kills. *)

(* What a kill of the offsets i to j does: backwards it ends at the caret, *)
(* forwards it begins there.                                               *)
Killed(R, e, f, i, j, backward) ==
  /\ f \in EditorType(R) /\ Edited(e, f) /\ f.redo = <<>> /\ f.undo # <<>> /\ f.pastes = e.pastes
  /\ f.text = SubSeq(e.text, 1, i) \o SubSeq(e.text, j + 1, Len(e.text)) /\ f.at = i
  /\ IF i = j THEN f.last = e.last /\ f.ring = e.ring
     ELSE /\ f.last = "kill" /\ f.ring # <<>>
          /\ LET s == SubSeq(e.text, i + 1, j)
             IN  Last(f.ring) = IF e.last = "kill" /\ e.ring # <<>>
                                THEN IF backward THEN s \o Last(e.ring) ELSE Last(e.ring) \o s
                                ELSE s

(* The last entry of a ring, and the rest. *)
LEMMA RingParts ==
  ASSUME NEW S, NEW ring \in Seq(S), ring # <<>>
  PROVE  /\ Last(ring) \in S /\ Front(ring) \in Seq(S) /\ Len(Front(ring)) = Len(ring) - 1
         /\ Len(ring) \in Nat \ {0}
         /\ \A k \in 1..Len(ring) - 1 : Front(ring)[k] = ring[k]
  <1>1. Len(ring) \in Nat \ {0}  BY EmptySeq
  <1>2. Len(ring) - 1 \in 0..Len(ring)  BY <1>1
  <1>3. /\ SubSeq(ring, 1, Len(ring) - 1) \in Seq(S) /\ Len(SubSeq(ring, 1, Len(ring) - 1)) = Len(ring) - 1
        /\ \A k \in 1..Len(ring) - 1 : SubSeq(ring, 1, Len(ring) - 1)[k] = ring[k]
    BY <1>2, Front1
  <1>4. ring[Len(ring)] \in S  BY <1>1
  <1>. QED  BY <1>1, <1>3, <1>4 DEF Last, Front

Pushes(R, ring, s, prepend, accumulate, p) ==
  /\ p \in Seq(Seq(R)) /\ p # <<>> /\ Len(p) <= MaxEntries
  /\ Last(p) = IF accumulate /\ ring # <<>>
               THEN IF prepend THEN s \o Last(ring) ELSE Last(ring) \o s ELSE s

(* A kill joins the newest entry of the ring, or becomes a new one within the
   limit. *)
LEMMA PushFits ==
  ASSUME NEW R, NEW ring \in Seq(Seq(R)), NEW s \in Seq(R), NEW prepend, NEW accumulate,
         Len(ring) <= MaxEntries
  PROVE  Pushes(R, ring, s, prepend, accumulate, Push(ring, s, prepend, accumulate))
  <1>0. MaxEntries \in Nat \ {0}  BY EditorAssumption DEF EditorAssumption
  <1>1. CASE accumulate /\ ring # <<>>
    <2> DEFINE t == IF prepend THEN s \o Last(ring) ELSE Last(ring) \o s
               l == Front(ring)
    <2>1. Last(ring) \in Seq(R) /\ l \in Seq(Seq(R)) /\ Len(l) = Len(ring) - 1  BY <1>1, RingParts
    <2>2. t \in Seq(R)  BY <2>1, ConcatProperties
    <2>3. Push(ring, s, prepend, accumulate) = Append(l, t)  BY <1>1 DEF Push
    <2> HIDE DEF l
    <2>4. /\ t = IF accumulate /\ ring # <<>>
                 THEN IF prepend THEN s \o Last(ring) ELSE Last(ring) \o s ELSE s
      BY <1>1
    <2> HIDE DEF t
    <2>5. /\ Append(l, t) \in Seq(Seq(R)) /\ Append(l, t) # <<>> /\ Len(Append(l, t)) = Len(l) + 1
          /\ Append(l, t)[Len(l) + 1] = t
      BY ZenonT(40), <2>1, <2>2, AppendProperties
    <2>6. Last(Append(l, t)) = t  BY <2>5 DEF Last
    <2>7. Len(Append(l, t)) <= MaxEntries  BY <2>1, <2>5
    <2>. QED  BY <2>3, <2>4, <2>5, <2>6, <2>7 DEF Pushes
  <1>2. CASE ~(accumulate /\ ring # <<>>)
    <2> DEFINE p == Pushed(ring, s, MaxEntries)
    <2>1. Push(ring, s, prepend, accumulate) = p  BY <1>2 DEF Push
    <2>2. /\ p \in Seq(Seq(R)) /\ p # <<>> /\ p[Len(p)] = s
          /\ Len(p) = IF Len(ring) = MaxEntries THEN MaxEntries ELSE Len(ring) + 1
      BY <1>0, PushedFits
    <2> HIDE DEF p
    <2>3. Len(p) <= MaxEntries  BY <1>0, <2>2
    <2>. QED  BY <1>2, <2>1, <2>2, <2>3 DEF Last, Pushes
  <1>. QED  BY <1>1, <1>2

(* A kill cuts the text, pushes what it cut and goes on with the run of kills.
   *)
LEMMA KillKeeps ==
  ASSUME NEW R, NEW e \in EditorType(R), NEW i \in 0..Len(e.text), NEW j \in i..Len(e.text),
         NEW backward
  PROVE  Killed(R, e, Kill(e, i, j, backward), i, j, backward)
  <1> DEFINE h == [e EXCEPT !.index = 0]
             c == Cut(RecordUndo(h), i, j)
             s == SubSeq(e.text, i + 1, j)
             f == Kill(e, i, j, backward)
  <1>0. e.text \in Seq(R) /\ 0 <= Len(e.history) /\ Len(e.text) \in Nat  BY EditorFacts
  <1>1. /\ h \in EditorType(R) /\ h.text = e.text /\ h.undo = e.undo /\ h.last = e.last
        /\ h.ring = e.ring /\ h.pastes = e.pastes
    BY <1>0 DEF EditorType
  <1>2. f = RecordKill(c, s, backward)  BY DEF Kill
  <1>3. s \in Seq(R) /\ Len(s) = j - i  BY <1>0, Middle
  <1> HIDE DEF h, s, f
  <1>h. i \in 0..Len(h.text) /\ j \in i..Len(h.text)  BY <1>1
  <1>4. /\ Recorded(R, e, h, c) /\ c.at = i
        /\ c.text = SubSeq(h.text, 1, i) \o SubSeq(h.text, j + 1, Len(h.text))
    BY ONLY <1>h, <1>1, RecordedCut
  <1> HIDE DEF c
  <1>5. /\ c \in EditorType(R) /\ Edited(e, c) /\ c.undo # <<>> /\ c.redo = <<>> /\ c.last = e.last
        /\ c.ring = e.ring /\ c.pastes = e.pastes
        /\ c.text = SubSeq(e.text, 1, i) \o SubSeq(e.text, j + 1, Len(e.text))
    BY <1>1, <1>4 DEF Recorded
  <1>6. CASE i = j
    <2>1. s = <<>>
      <3>1. Len(s) = 0  BY <1>0, <1>3, <1>6
      <3>. QED  BY <3>1, <1>3, EmptySeq
    <2>2. f = c  BY <2>1, <1>2 DEF RecordKill
    <2>. QED  BY <2>2, <1>4, <1>5, <1>6 DEF Killed, f
  <1>7. CASE i # j
    <2>1. s # <<>>
      <3>1. Len(s) # 0  BY <1>0, <1>3, <1>7
      <3>. QED  BY <3>1, EmptySeq
    <2> DEFINE more == c.last = "kill"
               p    == Push(c.ring, s, backward, more)
    <2>2. f = [c EXCEPT !.ring = p, !.last = "kill"]  BY <2>1, <1>2 DEF RecordKill
    <2>3. c.ring \in Seq(Seq(R)) /\ Len(c.ring) <= MaxEntries  BY <1>5, EditorFacts
    <2>4. /\ p \in Seq(Seq(R)) /\ p # <<>> /\ Len(p) <= MaxEntries
          /\ Last(p) = IF c.last = "kill" /\ c.ring # <<>>
                       THEN IF backward THEN s \o Last(c.ring) ELSE Last(c.ring) \o s ELSE s
      <3> HIDE DEF more
      <3>1. Pushes(R, c.ring, s, backward, more, p)  BY <2>3, <1>3, PushFits
      <3> HIDE DEF p
      <3>. QED  BY <3>1 DEF Pushes, more
    <2> HIDE DEF p
    <2>5. f \in EditorType(R)  BY <2>2, <2>4, <1>5 DEF EditorType
    <2>6. /\ f.ring = p /\ f.last = "kill" /\ f.undo = c.undo /\ f.redo = c.redo /\ f.text = c.text
          /\ f.at = c.at /\ f.pastes = c.pastes
      BY <2>2, <1>5 DEF EditorType
    <2>7. Edited(e, f)  BY <2>6, <1>5 DEF Edited
    <2>8. Last(f.ring) = IF e.last = "kill" /\ e.ring # <<>>
                         THEN IF backward THEN s \o Last(e.ring) ELSE Last(e.ring) \o s ELSE s
      BY <2>4, <2>6, <1>5
    <2>9. f.text = SubSeq(e.text, 1, i) \o SubSeq(e.text, j + 1, Len(e.text)) /\ f.at = i
      BY <2>6, <1>4, <1>5
    <2>. QED  BY <2>4, <2>5, <2>6, <2>7, <2>8, <2>9, <1>5, <1>7 DEF Killed, f, s
  <1>. QED  BY <1>6, <1>7

(* A kill of the text around the caret, backwards or forwards.             *)
KilledHere(R, e, f) ==
  \/ \E i \in 0..e.at : Killed(R, e, f, i, e.at, TRUE)
  \/ \E j \in e.at..Len(e.text) : Killed(R, e, f, e.at, j, FALSE)

(* Each of the four kill commands kills from the caret, or does nothing. *)
LEMMA KillsAreHere ==
  ASSUME NEW R, NEW e \in EditorType(R),
         NEW f \in {ToLineStart(e), ToLineEnd(e), WordBackwards(e), WordForwards(e)}
  PROVE  KilledHere(R, e, f)
  <1>0. e.at \in 0..Len(e.text) /\ e.at \in Nat /\ Len(e.text) \in Nat  BY EditorFacts
  <1>1. Before(e) \in 0..e.at  BY <1>0 DEF Before
  <1>2. After(e) \in e.at..Len(e.text)  BY <1>0 DEF After
  <1>3. LineStart(e) \in 0..e.at /\ WordLeft(e) \in 0..e.at  BY LineStartFits, WordLeftFits
  <1>4. LineEnd(e) \in e.at..Len(e.text) /\ WordRight(e) \in e.at..Len(e.text)
    BY LineEndFits, WordRightFits
  <1>5. ASSUME NEW i \in 0..e.at, f = Kill(e, i, e.at, TRUE) PROVE KilledHere(R, e, f)
    <2>1. i \in 0..Len(e.text) /\ e.at \in i..Len(e.text)  BY <1>0
    <2>2. Killed(R, e, f, i, e.at, TRUE)  BY <2>1, <1>5, KillKeeps
    <2>. QED  BY <2>2, Zenon DEF KilledHere
  <1>6. ASSUME NEW j \in e.at..Len(e.text), f = Kill(e, e.at, j, FALSE) PROVE KilledHere(R, e, f)
    <2>1. Killed(R, e, f, e.at, j, FALSE)  BY <1>0, <1>6, KillKeeps
    <2>. QED  BY <2>1, Zenon DEF KilledHere
  <1>7. CASE f = ToLineStart(e)
    <2>1. (IF e.at = LineStart(e) THEN Before(e) ELSE LineStart(e)) \in 0..e.at  BY <1>1, <1>3
    <2>. QED  BY <2>1, <1>5, <1>7 DEF ToLineStart
  <1>8. CASE f = ToLineEnd(e)
    <2>1. (IF e.at = LineEnd(e) THEN After(e) ELSE LineEnd(e)) \in e.at..Len(e.text)  BY <1>2, <1>4
    <2>. QED  BY <2>1, <1>6, <1>8 DEF ToLineEnd
  <1>9. CASE f = WordBackwards(e)
    <2>1. (IF e.at = LineStart(e) THEN Before(e) ELSE WordLeft(e)) \in 0..e.at  BY <1>1, <1>3
    <2>. QED  BY <2>1, <1>5, <1>9 DEF WordBackwards
  <1>10. CASE f = WordForwards(e)
    <2>1. (IF e.at = LineEnd(e) THEN After(e) ELSE WordRight(e)) \in e.at..Len(e.text)  BY <1>2, <1>4
    <2>. QED  BY <2>1, <1>6, <1>10 DEF WordForwards
  <1>. QED  BY <1>7, <1>8, <1>9, <1>10

-----------------------------------------------------------------------------
(* Yanks. *)
Yanked(R, e, f) ==
  /\ f \in EditorType(R) /\ Edited(e, f) /\ f.undo # <<>> /\ f.redo = <<>>
  /\ f.pastes = e.pastes /\ f.last = "yank" /\ f.ring = e.ring /\ e.ring # <<>>
  /\ f.text = Insert(e, Last(e.ring)).text /\ f.at = Insert(e, Last(e.ring)).at

(* A yank inserts the newest entry of the ring. *)
LEMMA YankKeeps ==
  ASSUME NEW R, NEW e \in EditorType(R), e.ring # <<>>
  PROVE  Yanked(R, e, Yank(e))
  <1> DEFINE h == Reset(e)  s == Last(e.ring)
             g == Insert(RecordUndo(h), s)
             f == [g EXCEPT !.last = "yank"]
  <1>1. /\ h \in EditorType(R) /\ h.text = e.text /\ h.at = e.at /\ h.undo = e.undo
        /\ h.ring = e.ring /\ h.pastes = e.pastes
    BY ResetKeeps
  <1>2. s \in Seq(R)  BY EditorFacts, RingParts
  <1>3. Yank(e) = f  BY DEF Yank
  <1> HIDE DEF h, s
  <1>4. Recorded(R, e, h, g) /\ g.text = Insert(h, s).text /\ g.at = Insert(h, s).at
    BY <1>1, <1>2, RecordedInsert
  <1>5. Insert(h, s).text = Insert(e, s).text /\ Insert(h, s).at = Insert(e, s).at
    BY <1>1 DEF Insert, EditorType
  <1> HIDE DEF g
  <1>6. /\ g \in EditorType(R) /\ Edited(e, g) /\ g.undo # <<>> /\ g.redo = <<>> /\ g.ring = e.ring
        /\ g.pastes = e.pastes
    BY <1>1, <1>4 DEF Recorded
  <1>7. f \in EditorType(R)  BY <1>6 DEF EditorType
  <1>8. /\ f.undo = g.undo /\ f.redo = g.redo /\ f.ring = g.ring /\ f.pastes = g.pastes
        /\ f.last = "yank" /\ f.text = g.text /\ f.at = g.at
    BY <1>6 DEF EditorType
  <1> HIDE DEF f
  <1>9. Edited(e, f)  BY <1>6, <1>8 DEF Edited
  <1>. QED  BY <1>3, <1>4, <1>5, <1>6, <1>7, <1>8, <1>9 DEF Yanked, s

(* The entry is taken out again and the next one is put there, or it does  *)
(* not stand there and only an undo step is left.                          *)
Popped(R, e, f) ==
  /\ f \in EditorType(R) /\ Edited(e, f) /\ f.undo # <<>> /\ f.redo = <<>>
  /\ f.pastes = e.pastes /\ f.last = "yank" /\ e.last = "yank" /\ f.ring # <<>>
  /\ \/ f.ring = e.ring /\ f.text = e.text /\ f.at = e.at
     \/ \E start \in YankStarts(e) :
          LET c == Cut(e, start, e.at)
          IN  f.text = Insert(c, Last(f.ring)).text /\ f.at = Insert(c, Last(f.ring)).at

(* Rotating the ring keeps its entries. *)
LEMMA RotateFits ==
  ASSUME NEW S, NEW ring \in Seq(S), ring # <<>>
  PROVE  Rotate(ring) \in Seq(S) /\ Rotate(ring) # <<>> /\ Len(Rotate(ring)) = Len(ring)
  <1> DEFINE x == Last(ring)  l == Front(ring)
  <1>1. x \in S /\ l \in Seq(S) /\ Len(l) = Len(ring) - 1 /\ Len(ring) \in Nat \ {0}  BY RingParts
  <1> HIDE DEF x, l
  <1>2. <<x>> \in Seq(S) /\ Len(<<x>>) = 1  BY <1>1, OneToken
  <1> DEFINE p == <<x>>
  <1>3. p \in Seq(S) /\ Len(p) = 1  BY <1>2
  <1> HIDE DEF p
  <1>4. p \o l \in Seq(S) /\ Len(p \o l) = 1 + (Len(ring) - 1)
    <2>1. p \o l \in Seq(S) /\ Len(p \o l) = Len(p) + Len(l)
      BY ONLY <1>1, <1>3, ConcatProperties
    <2>. QED  BY <2>1, <1>1, <1>3
  <1>5. Rotate(ring) = p \o l  BY DEF Rotate, p, x, l
  <1>6. Len(p \o l) = Len(ring) /\ p \o l # <<>>  BY <1>1, <1>4, EmptySeq
  <1>. QED  BY <1>4, <1>5, <1>6

(* A yank-pop replaces what the last yank inserted with the next entry. *)
LEMMA YankPopKeeps ==
  ASSUME NEW R, NEW e \in EditorType(R), YankPop(e) # e
  PROVE  Popped(R, e, YankPop(e))
  <1> DEFINE start == CHOOSE i \in YankStarts(e) : TRUE
             h     == [e EXCEPT !.index = 0]
             r     == RecordUndo(h)
             next  == Rotate(e.ring)
             c     == Cut(r, start, e.at)
             g     == [c EXCEPT !.ring = next]
             s     == Last(next)
             f     == YankPop(e)
  <1>0. e.last = "yank" /\ Len(e.ring) > 1 /\ Len(e.ring) \in Nat /\ e.ring \in Seq(Seq(R))
    <2>0. e.ring \in Seq(Seq(R))  BY EditorFacts
    <2>1. e.ring \in Seq(Seq(R)) /\ Len(e.ring) \in Nat  BY <2>0, LenProperties
    <2>2. ~(e.last # "yank" \/ Len(e.ring) <= 1)  BY DEF YankPop
    <2>. QED  BY <2>1, <2>2
  <1>1. e.ring # <<>>  BY <1>0, EmptySeq
  <1>3. /\ h \in EditorType(R) /\ h.text = e.text /\ h.at = e.at /\ h.undo = e.undo
        /\ h.ring = e.ring /\ h.pastes = e.pastes /\ h.last = e.last
    <2>1. 0 <= Len(e.history)  BY EditorFacts
    <2>. QED  BY <2>1 DEF EditorType
  <1>4. f = r \/ (YankStarts(e) # {} /\ f = Insert(g, s))
    BY <1>0 DEF YankPop
  <1> HIDE DEF h
  <1>5. /\ r \in EditorType(R) /\ r.text = e.text /\ r.at = e.at /\ r.last = "yank"
        /\ r.ring = e.ring /\ r.pastes = e.pastes /\ r.undo # <<>> /\ r.redo = <<>>
    BY ZenonT(40), <1>0, <1>3, RecordUndoKeeps
  <1>6. Edited(e, r)
    <2>1. Rest(RecordUndo(h), r)  BY DEF Rest
    <2>. QED  BY <2>1, <1>3, <1>5, RecordsOnce
  <1> HIDE DEF r
  <1>7. CASE f = r
    BY <1>0, <1>1, <1>5, <1>6, <1>7 DEF Popped
  <1>8. CASE YankStarts(e) # {} /\ f = Insert(g, s)
    <2>a. start \in YankStarts(e)  BY <1>8
    <2> HIDE DEF start
    <2>0. e.at \in 0..Len(e.text) /\ e.at \in Nat /\ Len(e.text) \in Nat  BY EditorFacts
    <2>1. start \in 0..e.at /\ start \in 0..Len(e.text) /\ e.at \in start..Len(e.text)
      <3>1. start \in 0..e.at  BY <2>a DEF YankStarts
      <3>. QED  BY <2>0, <3>1
    <2>2. c \in EditorType(R) /\ Rest(r, c) /\ c.at = start  BY <2>1, <1>5, CutKeeps
    <2>3. c.text = Cut(e, start, e.at).text /\ c.at = Cut(e, start, e.at).at
      BY <1>5 DEF Cut, EditorType
    <2>4. next \in Seq(Seq(R)) /\ next # <<>> /\ Len(next) = Len(e.ring)
      BY <1>0, <1>1, RotateFits
    <2>5. s \in Seq(R)  BY <2>4, RingParts
    <2>6. Len(e.ring) <= MaxEntries  BY EditorFacts
    <2> HIDE DEF c, next
    <2>7. g \in EditorType(R)  BY <2>2, <2>4, <2>6 DEF EditorType
    <2>8. /\ g.ring = next /\ g.text = c.text /\ g.at = c.at /\ g.undo = c.undo /\ g.redo = c.redo
          /\ g.last = c.last /\ g.pastes = c.pastes
      BY <2>2 DEF EditorType
    <2> HIDE DEF g, s
    <2> DEFINE k == Insert(g, s)
    <2>9. k \in EditorType(R) /\ Rest(g, k)  BY <2>5, <2>7, InsertKeeps
    <2>10. k.text = Insert(Cut(e, start, e.at), s).text /\ k.at = Insert(Cut(e, start, e.at), s).at
      <3>1. g.text = Cut(e, start, e.at).text /\ g.at = Cut(e, start, e.at).at  BY <2>3, <2>8
      <3>2. Cut(e, start, e.at) \in EditorType(R)  BY <2>1, CutKeeps
      <3> DEFINE d == Cut(e, start, e.at)
      <3> HIDE DEF d
      <3>3. d \in EditorType(R) /\ g.text = d.text /\ g.at = d.at  BY <3>1, <3>2 DEF d
      <3>4. Insert(g, s).text = Insert(d, s).text /\ Insert(g, s).at = Insert(d, s).at
        BY <3>3, <2>7 DEF Insert, EditorType
      <3>. QED  BY <3>4 DEF d
    <2> HIDE DEF k
    <2>11. /\ k.undo = r.undo /\ k.redo = r.redo /\ k.last = "yank" /\ k.ring = next /\ k.pastes = e.pastes
      BY <2>2, <2>8, <2>9, <1>5 DEF Rest
    <2>12. Edited(e, k)  BY <2>11, <1>6 DEF Edited
    <2>13. f = k /\ s = Last(k.ring)  BY <1>8, <2>11 DEF k, s
    <2>14. Popped(R, e, k)
      BY <2>a, <2>4, <2>9, <2>10, <2>11, <2>12, <2>13, <1>0, <1>5 DEF Popped
    <2>. QED  BY <2>13, <2>14
  <1>. QED  BY <1>4, <1>7, <1>8

-----------------------------------------------------------------------------
(* Undo and redo. *)
Undone(e, f) ==
  /\ e.undo # <<>> /\ f.undo = Front(e.undo) /\ f.redo = Append(e.redo, Snap(e))
  /\ f.text = Last(e.undo).text
Redone(e, f) ==
  /\ e.redo # <<>> /\ f.redo = Front(e.redo) /\ f.undo = Append(e.undo, Snap(e))
  /\ f.text = Last(e.redo).text

(* The text between two stacks that may hold one more state together.      *)
Shows(R, e, undo, redo, s, f) ==
  /\ f \in EditorType(R) /\ f.undo = undo /\ f.redo = redo /\ f.text = s.text
  /\ f.last = "none" /\ f.pastes = e.pastes

(* Showing a version takes its text and caret and keeps the rest. *)
LEMMA ShowKeeps ==
  ASSUME NEW R, NEW e \in EditorType(R), NEW undo \in Seq(SnapType(R)), NEW redo \in Seq(SnapType(R)),
         Len(undo) + Len(redo) <= MaxUndo, NEW s \in SnapType(R)
  PROVE  Shows(R, e, undo, redo, s, Show([e EXCEPT !.undo = undo, !.redo = redo], s))
  <1> DEFINE g == [e EXCEPT !.undo = undo, !.redo = redo]
             r == Reset(g)
             f == [r EXCEPT !.scratch = <<>>, !.text = s.text, !.at = s.at]
  <1>1. g \in EditorType(R) /\ g.undo = undo /\ g.redo = redo /\ g.pastes = e.pastes
    BY DEF EditorType
  <1> HIDE DEF g
  <1>2. /\ r \in EditorType(R) /\ r.undo = undo /\ r.redo = redo /\ r.last = "none"
        /\ r.pastes = e.pastes
    BY <1>1, ResetKeeps
  <1>3. <<>> \in Seq(R)  BY EmptySeq
  <1>4. s.text \in Seq(R) /\ s.at \in Nat /\ s.at <= Len(s.text)  BY DEF SnapType
  <1>5. Show(g, s) = f  BY DEF Show
  <1> HIDE DEF r
  <1>6. f \in EditorType(R)  BY <1>2, <1>3, <1>4 DEF EditorType
  <1>7. /\ f.undo = r.undo /\ f.redo = r.redo /\ f.last = r.last /\ f.text = s.text
        /\ f.pastes = r.pastes
    BY <1>2 DEF EditorType
  <1> HIDE DEF f
  <1>8. /\ Show(g, s) \in EditorType(R) /\ Show(g, s).undo = undo /\ Show(g, s).redo = redo
        /\ Show(g, s).text = s.text /\ Show(g, s).last = "none" /\ Show(g, s).pastes = e.pastes
    BY <1>2, <1>5, <1>6, <1>7
  <1>. QED  BY <1>8 DEF g, Shows

(* Taking the last state from one stack and putting one on the other. *)
Fit(S, from, to, s) ==
  /\ Front(from) \in Seq(S) /\ Last(from) \in S
  /\ Pushed(to, s, MaxUndo) = Append(to, s) /\ Append(to, s) \in Seq(S)
  /\ Len(Front(from)) + Len(Append(to, s)) <= MaxUndo
  /\ Len(Append(to, s)) + Len(Front(from)) <= MaxUndo

(* Moving a version from one stack to the other keeps the limit. *)
LEMMA StacksFit ==
  ASSUME NEW S, NEW from \in Seq(S), from # <<>>, NEW to \in Seq(S), NEW s \in S,
         Len(from) + Len(to) <= MaxUndo
  PROVE  Fit(S, from, to, s)
  <1>0. MaxUndo \in Nat \ {0}  BY EditorAssumption DEF EditorAssumption
  <1>1. /\ Last(from) \in S /\ Front(from) \in Seq(S) /\ Len(Front(from)) = Len(from) - 1
        /\ Len(from) \in Nat \ {0}
    BY RingParts
  <1>2. Len(to) \in Nat /\ Append(to, s) \in Seq(S) /\ Len(Append(to, s)) = Len(to) + 1
    BY AppendProperties
  <1>3. Len(to) # MaxUndo  BY <1>0, <1>1, <1>2
  <1>4. Pushed(to, s, MaxUndo) = Append(to, s)  BY <1>3 DEF Pushed
  <1>5. Len(Front(from)) + Len(Append(to, s)) <= MaxUndo  BY <1>0, <1>1, <1>2
  <1>6. Len(Append(to, s)) + Len(Front(from)) <= MaxUndo  BY <1>0, <1>1, <1>2
  <1>. QED  BY <1>1, <1>2, <1>4, <1>5, <1>6 DEF Fit

(* Undo does nothing or steps back on the line of versions. *)
LEMMA UndoKeeps ==
  ASSUME NEW R, NEW e \in EditorType(R)
  PROVE  \/ Undo(e) = e
         \/ /\ Undo(e) \in EditorType(R) /\ Undone(e, Undo(e))
            /\ Undo(e).last = "none" /\ Undo(e).pastes = e.pastes
  <1> SUFFICES ASSUME e.undo # <<>>
               PROVE  /\ Undo(e) \in EditorType(R) /\ Undone(e, Undo(e))
                      /\ Undo(e).last = "none" /\ Undo(e).pastes = e.pastes
    BY DEF Undo
  <1> DEFINE u == Front(e.undo)  r == Append(e.redo, Snap(e))  s == Last(e.undo)
             f == Show([e EXCEPT !.undo = u, !.redo = r], s)
  <1>1. /\ e.undo \in Seq(SnapType(R)) /\ e.redo \in Seq(SnapType(R))
        /\ Len(e.undo) + Len(e.redo) <= MaxUndo /\ Snap(e) \in SnapType(R)
    BY EditorFacts, SnapFits
  <1>2. /\ u \in Seq(SnapType(R)) /\ s \in SnapType(R) /\ r \in Seq(SnapType(R))
        /\ Pushed(e.redo, Snap(e), MaxUndo) = r /\ Len(u) + Len(r) <= MaxUndo
    <2>1. Fit(SnapType(R), e.undo, e.redo, Snap(e))  BY <1>1, StacksFit
    <2>. QED  BY <2>1 DEF Fit
  <1>3. Undo(e) = f  BY <1>2 DEF Undo
  <1> HIDE DEF u, r, s
  <1>4. /\ f \in EditorType(R) /\ f.undo = u /\ f.redo = r /\ f.text = s.text
        /\ f.last = "none" /\ f.pastes = e.pastes
    <2>1. Shows(R, e, u, r, s, f)  BY <1>2, ShowKeeps
    <2> HIDE DEF f
    <2>. QED  BY <2>1 DEF Shows
  <1> HIDE DEF f
  <1>. QED  BY <1>3, <1>4 DEF Undone, u, r, s

(* Redo does nothing or steps forward on the line of versions. *)
LEMMA RedoKeeps ==
  ASSUME NEW R, NEW e \in EditorType(R)
  PROVE  \/ Redo(e) = e
         \/ /\ Redo(e) \in EditorType(R) /\ Redone(e, Redo(e))
            /\ Redo(e).last = "none" /\ Redo(e).pastes = e.pastes
  <1> SUFFICES ASSUME e.redo # <<>>
               PROVE  /\ Redo(e) \in EditorType(R) /\ Redone(e, Redo(e))
                      /\ Redo(e).last = "none" /\ Redo(e).pastes = e.pastes
    BY DEF Redo
  <1> DEFINE r == Front(e.redo)  u == Append(e.undo, Snap(e))  s == Last(e.redo)
             f == Show([e EXCEPT !.undo = u, !.redo = r], s)
  <1>1. /\ e.undo \in Seq(SnapType(R)) /\ e.redo \in Seq(SnapType(R)) /\ Snap(e) \in SnapType(R)
    BY EditorFacts, SnapFits
  <1>s. Len(e.redo) + Len(e.undo) <= MaxUndo
    <2>1. /\ Len(e.undo) \in Nat /\ Len(e.redo) \in Nat /\ MaxUndo \in Nat
          /\ Len(e.undo) + Len(e.redo) <= MaxUndo
      BY EditorFacts
    <2> DEFINE a == Len(e.undo)  b == Len(e.redo)
    <2>2. a \in Nat /\ b \in Nat /\ MaxUndo \in Nat /\ a + b <= MaxUndo  BY <2>1
    <2> HIDE DEF a, b
    <2>3. b + a <= MaxUndo  BY ONLY <2>2
    <2>. QED  BY <2>3 DEF a, b
  <1>2. /\ r \in Seq(SnapType(R)) /\ s \in SnapType(R) /\ u \in Seq(SnapType(R))
        /\ Pushed(e.undo, Snap(e), MaxUndo) = u /\ Len(u) + Len(r) <= MaxUndo
    <2>1. Fit(SnapType(R), e.redo, e.undo, Snap(e))  BY <1>1, <1>s, StacksFit
    <2>. QED  BY <2>1 DEF Fit
  <1>3. Redo(e) = f
    <2>1. Redo(e) = Show([e EXCEPT !.redo = r, !.undo = u], s)  BY <1>2 DEF Redo
    <2>2. [e EXCEPT !.redo = r, !.undo = u] = [e EXCEPT !.undo = u, !.redo = r]  BY DEF EditorType
    <2>. QED  BY <2>1, <2>2
  <1> HIDE DEF u, r, s
  <1>4. /\ f \in EditorType(R) /\ f.undo = u /\ f.redo = r /\ f.text = s.text
        /\ f.last = "none" /\ f.pastes = e.pastes
    <2>1. Shows(R, e, u, r, s, f)  BY <1>2, ShowKeeps
    <2> HIDE DEF f
    <2>. QED  BY <2>1 DEF Shows
  <1> HIDE DEF f
  <1>. QED  BY <1>3, <1>4 DEF Redone, u, r, s

-----------------------------------------------------------------------------
(* Moves, the history, and texts that are replaced. *)
LEMMA ToKeeps ==
  ASSUME NEW R, NEW e \in EditorType(R), NEW i \in 0..Len(e.text)
  PROVE  Plainly(R, e, To(e, i)) /\ To(e, i).pastes = e.pastes
  <1> DEFINE f == [e EXCEPT !.at = i, !.last = "none"]
  <1>1. i \in Nat /\ i <= Len(e.text)  BY EditorFacts
  <1>2. f \in EditorType(R)  BY <1>1 DEF EditorType
  <1>3. f.last = "none" /\ f.text = e.text /\ f.undo = e.undo /\ f.redo = e.redo /\ f.pastes = e.pastes
    BY DEF EditorType
  <1> HIDE DEF f
  <1>4. Plainly(R, e, f) /\ f.pastes = e.pastes  BY <1>2, <1>3 DEF Plainly, Marked, Same
  <1>. QED  BY <1>4 DEF To, f

(* Loading a text starts a new line of versions. *)
LEMMA LoadKeeps ==
  ASSUME NEW R, NEW e \in EditorType(R), NEW s \in Seq(R), NEW at \in 0..Len(s)
  PROVE  LET f == Load(e, s, at)
         IN  /\ f \in EditorType(R) /\ Loaded(f) /\ f.text = s /\ f.last = e.last
             /\ f.pastes = e.pastes /\ f.index = e.index /\ f.history = e.history
  <1> DEFINE f == [e EXCEPT !.undo = <<>>, !.redo = <<>>, !.text = s, !.at = at]
  <1>1. <<>> \in Seq(SnapType(R)) /\ Len(<<>>) = 0  BY EmptySeq
  <1>2. at \in Nat /\ at <= Len(s)  BY LenProperties
  <1>3. 0 + 0 <= MaxUndo
    <2>1. MaxUndo \in Nat  BY EditorFacts
    <2>. QED  BY <2>1
  <1>4. f \in EditorType(R)  BY <1>1, <1>2, <1>3 DEF EditorType
  <1>5. /\ f.undo = <<>> /\ f.redo = <<>> /\ f.text = s /\ f.last = e.last /\ f.pastes = e.pastes
        /\ f.index = e.index /\ f.history = e.history
    BY DEF EditorType
  <1> HIDE DEF f
  <1>6. Load(e, s, at) = f  BY DEF Load, f
  <1>. QED  BY <1>4, <1>5, <1>6 DEF Loaded

(* SetText loads a text, leaves the run and keeps the pastes. *)
LEMMA SetTextKeeps ==
  ASSUME NEW R, NEW e \in EditorType(R), NEW s \in Seq(R)
  PROVE  /\ Plainly(R, e, SetText(e, s)) /\ Loaded(SetText(e, s))
         /\ SetText(e, s).pastes = e.pastes
  <1> DEFINE r == Reset(e)
             g == [r EXCEPT !.scratch = <<>>]
             f == Load(g, s, Len(s))
  <1>1. r \in EditorType(R) /\ r.last = "none" /\ r.pastes = e.pastes  BY ResetKeeps
  <1> HIDE DEF r
  <1>2. <<>> \in Seq(R)  BY EmptySeq
  <1>3. g \in EditorType(R) /\ g.last = "none" /\ g.pastes = e.pastes  BY <1>1, <1>2 DEF EditorType
  <1> HIDE DEF g
  <1>4. Len(s) \in 0..Len(s)  OBVIOUS
  <1>5. f \in EditorType(R) /\ Loaded(f) /\ f.last = g.last /\ f.pastes = g.pastes
    BY <1>3, <1>4, LoadKeeps
  <1>6. SetText(e, s) = f  BY DEF SetText, g, r
  <1> HIDE DEF f
  <1>7. Plainly(R, e, f)  BY <1>3, <1>5 DEF Plainly, Marked
  <1>. QED  BY <1>3, <1>5, <1>6, <1>7

(* Walking the prompt history loads an entry or the draft. *)
LEMMA NavigateKeeps ==
  ASSUME NEW R, NEW e \in EditorType(R), NEW older \in BOOLEAN, older \/ e.index > 0
  PROVE  Plainly(R, e, Navigate(e, older)) /\ Navigate(e, older).pastes = e.pastes
  <1> DEFINE scratch == IF e.index = 0 THEN e.text ELSE e.scratch
             r    == [e EXCEPT !.last = "none", !.scratch = scratch]
             next == IF older THEN e.index + 1 ELSE e.index - 1
             s    == IF next = 0 THEN e.scratch ELSE e.history[next]
             at   == IF older THEN 0 ELSE Len(s)
             g    == [r EXCEPT !.index = next]
             f    == Load(g, s, at)
  <1>0. /\ e.index \in 0..Len(e.history) /\ Len(e.history) \in Nat /\ e.history \in Seq(Seq(R))
        /\ e.text \in Seq(R) /\ e.scratch \in Seq(R) /\ e.at \in 0..Len(e.text)
    BY EditorFacts
  <1>1. scratch \in Seq(R)  BY <1>0
  <1>2. \/ e.history = <<>> /\ Navigate(e, older) = To(e, e.at)
        \/ Navigate(e, older) = r
        \/ e.history # <<>> /\ ~(next > Len(e.history)) /\ Navigate(e, older) = f
    BY DEF Navigate
  <1> HIDE DEF scratch
  <1>3. /\ r \in EditorType(R) /\ r.last = "none" /\ r.text = e.text /\ r.undo = e.undo
        /\ r.redo = e.redo /\ r.pastes = e.pastes /\ r.history = e.history
    BY <1>1 DEF EditorType
  <1> HIDE DEF r
  <1>4. CASE Navigate(e, older) = To(e, e.at)  BY <1>0, <1>4, ToKeeps
  <1>5. CASE Navigate(e, older) = r  BY <1>3, <1>5 DEF Plainly, Marked, Same
  <1>6. CASE ~(next > Len(e.history)) /\ Navigate(e, older) = f
    <2>1. next \in 0..Len(e.history)  BY <1>0, <1>6
    <2>2. s \in Seq(R)  BY <1>0, <2>1
    <2>3. at \in 0..Len(s)
      <3>1. Len(s) \in Nat  BY <2>2, LenProperties
      <3> HIDE DEF s
      <3>. QED  BY <3>1
    <2> HIDE DEF next, s, at
    <2>4. next \in Nat /\ next <= Len(e.history)  BY <2>1, <1>0
    <2>5. g \in EditorType(R) /\ g.last = "none" /\ g.pastes = e.pastes
      BY <2>4, <1>3 DEF EditorType
    <2> HIDE DEF g
    <2>6. f \in EditorType(R) /\ Loaded(f) /\ f.last = g.last /\ f.pastes = g.pastes
      BY <2>2, <2>3, <2>5, LoadKeeps
    <2> HIDE DEF f
    <2>7. Plainly(R, e, f)  BY <2>5, <2>6 DEF Plainly, Marked
    <2>. QED  BY <2>5, <2>6, <2>7, <1>6
  <1>. QED  BY <1>2, <1>4, <1>5, <1>6

(* The offsets of a line are offsets of the text. *)
LEMMA LineOfFits ==
  ASSUME NEW R, NEW e \in EditorType(R), NEW i \in 0..Len(e.text)
  PROVE  LineOf(e, i) \in SUBSET (0..Len(e.text))
  <1> DEFINE g == [e EXCEPT !.at = i]
  <1>0. i \in Nat /\ i <= Len(e.text) /\ Len(e.text) \in Nat  BY EditorFacts
  <1>1. g \in EditorType(R) /\ g.text = e.text /\ g.at = i  BY <1>0 DEF EditorType
  <1>2. LineOf(e, i) = LineStart(g)..LineEnd(g)  BY DEF LineOf
  <1> HIDE DEF g
  <1>3. LineStart(g) \in 0..g.at /\ LineEnd(g) \in g.at..Len(g.text)
    BY <1>1, LineStartFits, LineEndFits
  <1> DEFINE a == LineStart(g)  b == LineEnd(g)
  <1>4. a \in 0..i /\ b \in i..Len(e.text)  BY <1>1, <1>3
  <1> HIDE DEF a, b
  <1>5. a..b \in SUBSET (0..Len(e.text))  BY <1>0, <1>4
  <1>. QED  BY <1>2, <1>5 DEF a, b

(* Up and down move the caret, or walk the prompt history. *)
LEMMA ArrowKeeps ==
  ASSUME NEW R, NEW e \in EditorType(R), NEW f \in Up(e) \cup Down(e)
  PROVE  Plainly(R, e, f) /\ f.pastes = e.pastes
  <1>0. Len(e.text) \in Nat /\ LineStart(e) \in 0..e.at /\ LineEnd(e) \in e.at..Len(e.text)
        /\ e.at \in 0..Len(e.text) /\ e.index \in Nat /\ 0 \in 0..Len(e.text)
    <2>1. Len(e.text) \in Nat /\ e.at \in 0..Len(e.text) /\ e.index \in Nat  BY EditorFacts
    <2>2. 0 \in 0..Len(e.text)  BY <2>1
    <2>. QED  BY <2>1, <2>2, LineStartFits, LineEndFits
  <1> DEFINE a == LineStart(e)  b == LineEnd(e)
  <1>1. a \in 0..e.at /\ b \in e.at..Len(e.text)  BY <1>0
  <1>2. \/ f = Navigate(e, TRUE)
        \/ f = To(e, 0)
        \/ a # 0 /\ \E i \in LineOf(e, a - 1) : f = To(e, i)
        \/ e.index > 0 /\ f = Navigate(e, FALSE)
        \/ f = To(e, b)
        \/ b # Len(e.text) /\ \E i \in LineOf(e, b + 1) : f = To(e, i)
    <2>1. CASE f \in Up(e)  BY <2>1 DEF Up, FirstLine
    <2>2. CASE f \in Down(e)  BY <2>2 DEF Down, LastLine
    <2>. QED  BY <2>1, <2>2
  <1> HIDE DEF a, b
  <1>3. CASE f = Navigate(e, TRUE)  BY <1>3, NavigateKeeps
  <1>4. CASE f = To(e, 0)  BY <1>0, <1>4, ToKeeps
  <1>5. CASE a # 0 /\ \E i \in LineOf(e, a - 1) : f = To(e, i)
    <2>1. a - 1 \in 0..Len(e.text)  BY <1>0, <1>1, <1>5
    <2>2. PICK i \in LineOf(e, a - 1) : f = To(e, i)  BY <1>5
    <2>3. i \in 0..Len(e.text)  BY <2>1, LineOfFits
    <2>. QED  BY <2>2, <2>3, ToKeeps
  <1>6. CASE e.index > 0 /\ f = Navigate(e, FALSE)  BY <1>6, NavigateKeeps
  <1>7. CASE f = To(e, b)
    <2>1. b \in 0..Len(e.text)  BY <1>0, <1>1
    <2>. QED  BY <2>1, <1>7, ToKeeps
  <1>8. CASE b # Len(e.text) /\ \E i \in LineOf(e, b + 1) : f = To(e, i)
    <2>1. b + 1 \in 0..Len(e.text)  BY <1>0, <1>1, <1>8
    <2>2. PICK i \in LineOf(e, b + 1) : f = To(e, i)  BY <1>8
    <2>3. i \in 0..Len(e.text)  BY <2>1, LineOfFits
    <2>. QED  BY <2>2, <2>3, ToKeeps
  <1>. QED  BY <1>2, <1>3, <1>4, <1>5, <1>6, <1>7, <1>8

(* A cursor command leaves the text and ends the run. *)
LEMMA MoveKeeps ==
  ASSUME NEW R, NEW e \in EditorType(R), NEW f \in Moved(e)
  PROVE  Plainly(R, e, f) /\ f.pastes = e.pastes
  <1>1. /\ e.at \in Nat /\ Len(e.text) \in Nat /\ e.at \in 0..Len(e.text)
        /\ LineStart(e) \in 0..e.at /\ LineEnd(e) \in e.at..Len(e.text)
    BY EditorFacts, LineStartFits, LineEndFits
  <1>2. {Before(e), After(e), LineStart(e), LineEnd(e), 0, Len(e.text)} \in SUBSET (0..Len(e.text))
    <2>1. Before(e) \in 0..Len(e.text) /\ After(e) \in 0..Len(e.text)  BY <1>1 DEF Before, After
    <2> DEFINE a == LineStart(e)  b == LineEnd(e)
    <2>2. a \in 0..e.at /\ b \in e.at..Len(e.text)  BY <1>1
    <2> HIDE DEF a, b
    <2>3. a \in 0..Len(e.text) /\ b \in 0..Len(e.text)  BY <1>1, <2>2
    <2>4. 0 \in 0..Len(e.text) /\ Len(e.text) \in 0..Len(e.text)  BY <1>1
    <2>. QED  BY <2>1, <2>3, <2>4 DEF a, b
  <1>3. PICK i \in {Before(e), After(e), LineStart(e), LineEnd(e), 0, Len(e.text)} : f = To(e, i)
    BY DEF Moved
  <1>4. i \in 0..Len(e.text)  BY <1>2
  <1>. QED  BY <1>3, <1>4, ToKeeps

(* White space is trimmed on both sides. *)
LEMMA TrimEndFits ==
  ASSUME NEW R, NEW s \in Seq(R)
  PROVE  TrimEnd(s) \in Seq(R)
  <1> DEFINE N == {n \in 0..Len(s) : n = 0 \/ ~Blank(s[n])}
  <1>0. Len(s) \in Nat  OBVIOUS
  <1>1. 0 \in N /\ N \in SUBSET (0..Len(s)) /\ N # {}  BY <1>0
  <1>2. PICK n \in N : \A y \in N : y <= n  BY <1>0, <1>1, GreatestOffset, Zenon
  <1>3. \A i \in n + 1..Len(s) : Blank(s[i])
    <2> TAKE i \in n + 1..Len(s)
    <2>1. i \in 0..Len(s) /\ i # 0 /\ ~(i <= n)  BY <1>0, <1>2
    <2>. QED  BY <2>1, <1>2
  <1>4. \E m \in 0..Len(s) : (m = 0 \/ ~Blank(s[m])) /\ \A i \in m + 1..Len(s) : Blank(s[i])
    BY <1>2, <1>3
  <1> DEFINE k == CHOOSE m \in 0..Len(s) : (m = 0 \/ ~Blank(s[m])) /\ \A i \in m + 1..Len(s) : Blank(s[i])
  <1>5. k \in 0..Len(s)  BY <1>4, Zenon
  <1>6. TrimEnd(s) = SubSeq(s, 1, k)  BY DEF TrimEnd
  <1> HIDE DEF k
  <1>. QED  BY <1>5, <1>6, Front1

(* A reversed text has the tokens of the text, last first. *)
LEMMA ReverseFits ==
  ASSUME NEW R, NEW s \in Seq(R)
  PROVE  /\ Reverse(s) \in Seq(R) /\ Len(Reverse(s)) = Len(s)
         /\ \A i \in 1..Len(s) : Reverse(s)[i] = s[(Len(s) - i) + 1]
  <1>0. Len(s) \in Nat  OBVIOUS
  <1>1. \A i \in 1..Len(s) : s[(Len(s) - i) + 1] \in R
    <2> TAKE i \in 1..Len(s)
    <2>1. (Len(s) - i) + 1 \in 1..Len(s)  BY <1>0
    <2>. QED  BY <2>1
  <1>2. Reverse(s) \in [1..Len(s) -> R]  BY <1>1 DEF Reverse
  <1>3. Reverse(s) \in Seq(R) /\ Len(Reverse(s)) = Len(s)  BY <1>0, <1>2
  <1>. QED  BY <1>3 DEF Reverse

(* A trimmed text is a text. *)
LEMMA TrimFits ==
  ASSUME NEW R, NEW s \in Seq(R)
  PROVE  Trim(s) \in Seq(R)
  <1>1. TrimEnd(s) \in Seq(R)  BY TrimEndFits
  <1>2. Reverse(TrimEnd(s)) \in Seq(R)  BY <1>1, ReverseFits
  <1>3. TrimEnd(Reverse(TrimEnd(s))) \in Seq(R)  BY <1>2, TrimEndFits
  <1>. QED  BY <1>3, ReverseFits DEF Trim

-----------------------------------------------------------------------------
(* The tokens there can be. *)
Bodies == {Body(k) : k \in Nat}
Tokens ==
  Plain \cup {Token("Paste"), Token("#")} \cup {Digit(d) : d \in Nat} \cup {Size(k) : k \in Nat}
        \cup Bodies

(* A number is written with digits. *)
LEMMA ItoaFits ==
  ASSUME NEW n \in Nat
  PROVE  Itoa(n) \in Seq(Tokens) /\ Len(Itoa(n)) \in {1, 2}
  <1>1. Radix \in Nat \ {0}  BY EditorAssumption DEF EditorAssumption
  <1>2. n \div Radix \in Nat /\ n % Radix \in Nat  BY <1>1
  <1>3. \A d \in Nat : Digit(d) \in Tokens  BY DEF Tokens
  <1>4. CASE n < Radix
    <2>1. Itoa(n) = <<Digit(n)>>  BY <1>4 DEF Itoa
    <2> DEFINE a == Digit(n)
    <2>2. a \in Tokens  BY <1>3
    <2> HIDE DEF a
    <2>3. <<a>> \in Seq(Tokens) /\ Len(<<a>>) = 1  BY <2>2
    <2>. QED  BY <2>1, <2>3 DEF a
  <1>5. CASE ~(n < Radix)
    <2> DEFINE a == Digit(n \div Radix)  b == Digit(n % Radix)
    <2>1. Itoa(n) = <<a, b>>  BY <1>5 DEF Itoa
    <2>2. a \in Tokens /\ b \in Tokens  BY <1>2, <1>3
    <2> HIDE DEF a, b
    <2>3. <<a, b>> \in Seq(Tokens) /\ Len(<<a, b>>) = 2  BY <2>2
    <2>. QED  BY <2>1, <2>3
  <1>. QED  BY <1>4, <1>5

(* A marker is a text. *)
LEMMA MarkerFits ==
  ASSUME NEW n \in Nat, NEW k \in Nat
  PROVE  Marker(n, k) \in Seq(Tokens)
  <1> DEFINE a == Itoa(n)  t == <<Size(k), Close>>
  <1>1. a \in Seq(Tokens)  BY ItoaFits
  <1>2. Opening \in Seq(Tokens)  BY DEF Opening, Tokens, Plain
  <1>3. t \in Seq(Tokens)
    <2>1. Size(k) \in Tokens /\ Close \in Tokens  BY DEF Tokens, Plain
    <2>. QED  BY <2>1
  <1>4. Marker(n, k) = (Opening \o a) \o t  BY DEF Marker
  <1> HIDE DEF a, t
  <1>5. Opening \o a \in Seq(Tokens)  BY <1>1, <1>2, ConcatProperties
  <1>. QED  BY <1>3, <1>4, <1>5, ConcatProperties

-----------------------------------------------------------------------------
(* What is sent for a text. *)

(* Induction up to a bound: the least offset that fails has one before it. *)
LEMMA UpTo ==
  ASSUME NEW n \in Nat, NEW T, 0 \in T, \A r \in 1..n : r - 1 \in T => r \in T
  PROVE  \A r \in 0..n : r \in T
  <1> DEFINE F == {r \in 0..n : r \notin T}
  <1>1. SUFFICES ASSUME F # {} PROVE FALSE  OBVIOUS
  <1>2. PICK x \in F : \A y \in F : x <= y
    <2>1. F \in SUBSET Nat  OBVIOUS
    <2>. QED  BY <1>1, <2>1, LeastOffset
  <1>3. x \in 1..n /\ x \notin T
    <2>1. x \in 0..n /\ x # 0  BY <1>2
    <2>. QED  BY <1>2, <2>1
  <1>4. x - 1 \in 0..n /\ ~(x <= x - 1)  BY <1>3
  <1>5. x - 1 \in T  BY <1>2, <1>4
  <1>. QED  BY <1>3, <1>5

(* Steps taken one after the other make a row of states. *)
Rows(S, n, s, G) ==
  {f \in [0..n -> S] : f[0] = s /\ \A r \in 1..n : f[r] = G[<<f[r - 1], r>>]}

LEMMA RowOfSteps ==
  ASSUME NEW S, NEW n \in Nat, NEW s \in S, NEW G \in [S \X (1..n) -> S]
  PROVE  Rows(S, n, s, G) # {}
  <1> DEFINE Row(m) == \E f \in [0..m -> S] : f[0] = s /\ \A r \in 1..m : f[r] = G[<<f[r - 1], r>>]
             T == {m \in 0..n : Row(m)}
  <1>1. 0 \in T
    <2> DEFINE f == [r \in 0..0 |-> s]
    <2>1. f \in [0..0 -> S] /\ f[0] = s /\ \A r \in 1..0 : FALSE  OBVIOUS
    <2> HIDE DEF f
    <2>2. Row(0)  BY <2>1
    <2>. QED  BY <2>2
  <1>2. ASSUME NEW m \in 1..n, m - 1 \in T PROVE m \in T
    <2>1. PICK f \in [0..m - 1 -> S] : f[0] = s /\ \A r \in 1..m - 1 : f[r] = G[<<f[r - 1], r>>]
      BY <1>2
    <2> DEFINE g == [r \in 0..m |-> IF r = m THEN G[<<f[m - 1], m>>] ELSE f[r]]
    <2>2. m - 1 \in 0..m - 1 /\ \A r \in 0..m : r = m \/ r \in 0..m - 1  OBVIOUS
    <2>3. G[<<f[m - 1], m>>] \in S  BY <2>1, <2>2
    <2>4. g \in [0..m -> S]  BY <2>1, <2>2, <2>3
    <2>5. g[0] = s  BY <2>1
    <2>6. \A r \in 1..m : g[r] = G[<<g[r - 1], r>>]
      <3> TAKE r \in 1..m
      <3>1. r - 1 \in 0..m /\ r \in 0..m /\ r - 1 # m  OBVIOUS
      <3>2. g[r - 1] = f[r - 1]  BY <3>1
      <3>3. CASE r = m  BY <3>1, <3>2, <3>3
      <3>4. CASE r # m
        <4>1. r \in 1..m - 1  BY <3>4
        <4>. QED  BY <2>1, <3>1, <3>2, <3>4, <4>1
      <3>. QED  BY <3>3, <3>4
    <2> HIDE DEF g
    <2>7. Row(m)  BY <2>4, <2>5, <2>6
    <2>. QED  BY <2>7
  <1> HIDE DEF T
  <1>3. n \in T  BY <1>1, <1>2, UpTo
  <1>. QED  BY <1>3 DEF T, Rows

(* One marker replaced: the text keeps its tokens, and unless it stays as  *)
(* it is it gets shorter by more than "[Paste #".                          *)
Found(s, n) == {i \in 0..Len(s) : Stands(s, i, Opening \o Itoa(n))}
Ends(s, i)  == {j \in i + 1..Len(s) : s[j] = Close}
Hit(s, n)   == Found(s, n) # {} /\ Ends(s, Min(Found(s, n))) # {}

(* The least of some offsets is one of them. *)
LEMMA MinFits ==
  ASSUME NEW S \in SUBSET Nat, S # {}
  PROVE  Min(S) \in S /\ \A x \in S : Min(S) <= x
  <1>1. PICK x \in S : \A y \in S : x <= y  BY LeastOffset
  <1>. QED  BY <1>1 DEF Min

LEMMA MinIs ==
  ASSUME NEW S \in SUBSET Nat, NEW x \in S, \A y \in S : x <= y
  PROVE  Min(S) = x
  <1>1. Min(S) \in S /\ \A y \in S : Min(S) <= y  BY MinFits
  <1>2. Min(S) \in Nat /\ x \in Nat  BY <1>1
  <1>. QED  BY <1>1, <1>2

(* What replacing one marker does. *)
ReplacedAt(s, n, k, i, j) ==
  /\ i \in 0..Len(s) /\ j \in 1..Len(s)
  /\ i \in Found(s, n) /\ (\A x \in Found(s, n) : i <= x)
  /\ i < j /\ s[j] = Close /\ \A h \in i + 1..j - 1 : s[h] # Close
  /\ Replaced(s, n, k) = SubSeq(s, 1, i) \o <<Body(k)>> \o SubSeq(s, j + 1, Len(s))
  /\ Len(Replaced(s, n, k)) = i + 1 + (Len(s) - j)

LEMMA ReplacedIs ==
  ASSUME NEW R, Bodies \in SUBSET R, NEW s \in Seq(R), NEW n, NEW k \in Nat
  PROVE  /\ Replaced(s, n, k) \in Seq(R)
         /\ ~Hit(s, n) => Replaced(s, n, k) = s
         /\ Hit(s, n) => \E i, j \in Nat : ReplacedAt(s, n, k, i, j)
  <1> DEFINE F == Found(s, n)  i == Min(F)  E == Ends(s, i)  j == Min(E)
  <1>0. Len(s) \in Nat  OBVIOUS
  <1>1. Replaced(s, n, k) = IF ~Hit(s, n) THEN s
                            ELSE SubSeq(s, 1, i) \o <<Body(k)>> \o SubSeq(s, j + 1, Len(s))
    BY Zenon DEF Replaced, Hit, Found, Ends
  <1>2. CASE ~Hit(s, n)  BY <1>1, <1>2
  <1>3. CASE Hit(s, n)
    <2>1. F # {} /\ E # {}  BY <1>3 DEF Hit
    <2>2. F \in SUBSET (0..Len(s)) /\ F \in SUBSET Nat  BY <1>0 DEF Found
    <2>3. i \in F /\ \A x \in F : i <= x  BY <2>1, <2>2, MinFits
    <2>4. i \in 0..Len(s)  BY <2>2, <2>3
    <2> HIDE DEF F, i
    <2>5. E \in SUBSET (i + 1..Len(s)) /\ E \in SUBSET Nat /\ \A x \in E : s[x] = Close
      BY <1>0, <2>4 DEF Ends
    <2>6. j \in E /\ \A x \in E : j <= x  BY <2>1, <2>5, MinFits
    <2>7. j \in i + 1..Len(s) /\ s[j] = Close  BY <2>5, <2>6
    <2>8. \A h \in i + 1..j - 1 : s[h] # Close
      <3> SUFFICES ASSUME NEW h \in i + 1..j - 1, s[h] = Close PROVE FALSE  OBVIOUS
      <3>1. h \in i + 1..Len(s) /\ ~(j <= h)  BY <1>0, <2>4, <2>7
      <3>2. h \in E  BY <3>1 DEF Ends
      <3>. QED  BY <2>6, <3>1, <3>2
    <2> HIDE DEF E, j
    <2> DEFINE u == SubSeq(s, 1, i)  b == <<Body(k)>>  v == SubSeq(s, j + 1, Len(s))
    <2>9. u \in Seq(R) /\ Len(u) = i  BY <2>4, Front1
    <2>10. v \in Seq(R) /\ Len(v) = Len(s) - j
      <3>1. j \in 0..Len(s) /\ Len(s) \in j..Len(s)  BY <1>0, <2>4, <2>7
      <3>. QED  BY <3>1, Middle
    <2>11. b \in Seq(R) /\ Len(b) = 1
      <3>1. Body(k) \in R  BY DEF Bodies
      <3>. QED  BY <3>1, OneToken
    <2>12. Replaced(s, n, k) = (u \o b) \o v  BY <1>1, <1>3
    <2> HIDE DEF u, b, v
    <2>13. u \o b \in Seq(R) /\ Len(u \o b) = i + 1
      <3>1. u \o b \in Seq(R) /\ Len(u \o b) = Len(u) + Len(b)  BY ONLY <2>9, <2>11, ConcatProperties
      <3>. QED  BY <3>1, <2>9, <2>11
    <2> DEFINE ub == u \o b
    <2>14. ub \in Seq(R) /\ Len(ub) = i + 1  BY <2>13
    <2> HIDE DEF ub
    <2>15. ub \o v \in Seq(R) /\ Len(ub \o v) = i + 1 + (Len(s) - j)
      <3>1. ub \o v \in Seq(R) /\ Len(ub \o v) = Len(ub) + Len(v)
        BY ONLY <2>10, <2>14, ConcatProperties
      <3>. QED  BY <3>1, <2>10, <2>14
    <2>16. Replaced(s, n, k) = ub \o v  BY <2>12 DEF ub
    <2>17. Replaced(s, n, k) = SubSeq(s, 1, i) \o <<Body(k)>> \o SubSeq(s, j + 1, Len(s))
      BY <2>12 DEF u, b, v
    <2>18. Len(Replaced(s, n, k)) = i + 1 + (Len(s) - j) /\ Replaced(s, n, k) \in Seq(R)
      BY <2>15, <2>16
    <2>19. i \in Found(s, n) /\ \A x \in Found(s, n) : i <= x  BY <2>3 DEF F
    <2>20. j \in 1..Len(s) /\ i < j  BY <1>0, <2>4, <2>7
    <2>21. i \in Nat /\ j \in Nat  BY <2>4, <2>20
    <2>22. ReplacedAt(s, n, k, i, j)
      BY <2>4, <2>7, <2>8, <2>17, <2>18, <2>19, <2>20 DEF ReplacedAt
    <2>. QED  BY <1>3, <2>18, <2>21, <2>22
  <1>. QED  BY <1>2, <1>3

LEMMA ReplacedFits ==
  ASSUME NEW R, Bodies \in SUBSET R, NEW s \in Seq(R), NEW n, NEW k \in Nat
  PROVE  Replaced(s, n, k) \in Seq(R)
  BY ReplacedIs

(* The rounds of replacing. *)
Rounds(R, N, n, k, f) ==
  f \in [0..N -> Seq(R)] /\ \A r \in 1..N : f[r] = Replaced(f[r - 1], n, k)
RoundsOf(R, s, n, k, f) ==
  Rounds(R, Len(s), n, k, f) /\ f[0] = s /\ AllReplaced(s, n, k) = f[Len(s) \div Len(Opening)]

(* All markers of a number replaced: the last text of a row of them. *)
LEMMA AllReplacedIs ==
  ASSUME NEW R, Bodies \in SUBSET R, NEW s \in Seq(R), NEW n, NEW k \in Nat
  PROVE  \E f : RoundsOf(R, s, n, k, f)
  <1> DEFINE N == Len(s)
             G == [x \in Seq(R) \X (1..N) |-> Replaced(x[1], n, k)]
             P(f) == f = [r \in 0..N |-> IF r = 0 THEN s ELSE Replaced(f[r - 1], n, k)]
             h == CHOOSE f : P(f)
  <1>0. N \in Nat  OBVIOUS
  <1>1. AllReplaced(s, n, k) = h[Len(s) \div Len(Opening)]  BY DEF AllReplaced
  <1> HIDE DEF N
  <1>2. G \in [Seq(R) \X (1..N) -> Seq(R)]  BY ReplacedFits
  <1>3. \A x \in Seq(R), r \in 1..N : G[<<x, r>>] = Replaced(x, n, k)  OBVIOUS
  <1> HIDE DEF G
  <1>4. PICK g \in [0..N -> Seq(R)] : g[0] = s /\ \A r \in 1..N : g[r] = G[<<g[r - 1], r>>]
    <2>1. Rows(Seq(R), N, s, G) # {}  BY <1>0, <1>2, RowOfSteps
    <2>. QED  BY <2>1 DEF Rows
  <1>5. \A r \in 1..N : g[r] = Replaced(g[r - 1], n, k)
    <2> TAKE r \in 1..N
    <2>1. r - 1 \in 0..N  BY <1>0
    <2>2. g[r - 1] \in Seq(R)  BY <2>1, <1>4
    <2>. QED  BY <1>3, <1>4, <2>2
  <1>6. P(g)
    <2>1. \A r \in 0..N : g[r] = IF r = 0 THEN s ELSE Replaced(g[r - 1], n, k)
      <3> TAKE r \in 0..N
      <3>1. r = 0 \/ r \in 1..N  BY <1>0
      <3>. QED  BY <3>1, <1>4, <1>5
    <2>2. g = [r \in 0..N |-> g[r]]  OBVIOUS
    <2>. QED  BY <2>1, <2>2, Zenon
  <1>7. P(h)  BY <1>6
  <1> HIDE DEF h
  <1>8. /\ DOMAIN h = 0..N /\ h = [r \in 0..N |-> h[r]]
        /\ \A r \in 0..N : h[r] = IF r = 0 THEN s ELSE Replaced(h[r - 1], n, k)
    BY <1>7, Zenon
  <1>9. h[0] = s /\ \A r \in 1..N : h[r] = Replaced(h[r - 1], n, k)
    <2>1. 0 \in 0..N /\ \A r \in 1..N : r \in 0..N /\ r # 0  BY <1>0
    <2>. QED  BY <1>8, <2>1
  <1> DEFINE T == {r \in 0..N : h[r] \in Seq(R)}
  <1>10. \A r \in 0..N : r \in T
    <2>1. 0 \in T  BY <1>0, <1>9
    <2>2. ASSUME NEW r \in 1..N, r - 1 \in T PROVE r \in T
      <3>1. h[r] = Replaced(h[r - 1], n, k) /\ h[r - 1] \in Seq(R) /\ r \in 0..N  BY <1>0, <1>9, <2>2
      <3>2. h[r] \in Seq(R)  BY <3>1, ReplacedFits
      <3>. QED  BY <3>1, <3>2
    <2> HIDE DEF T
    <2>. QED  BY <1>0, <2>1, <2>2, UpTo
  <1>11. h \in [0..N -> Seq(R)]  BY <1>8, <1>10
  <1>12. RoundsOf(R, s, n, k, h)  BY <1>1, <1>9, <1>11, Zenon DEF N, RoundsOf, Rounds
  <1>. QED  BY <1>12, Zenon

(* The opening of a marker, and a marker, token by token. *)
LEMMA OpeningIs ==
  /\ Len(Opening) = 4 /\ DOMAIN Opening = 1..4
  /\ Opening[1] = Token("[") /\ Opening[2] = Token("Paste") /\ Opening[3] = Space
  /\ Opening[4] = Token("#")
  BY DEF Opening

LEMMA AllReplacedFits ==
  ASSUME NEW R, Bodies \in SUBSET R, NEW s \in Seq(R), NEW n, NEW k \in Nat
  PROVE  AllReplaced(s, n, k) \in Seq(R)
  <1>f. PICK f : RoundsOf(R, s, n, k, f)  BY AllReplacedIs, Zenon
  <1>1. f \in [0..Len(s) -> Seq(R)] /\ AllReplaced(s, n, k) = f[Len(s) \div Len(Opening)]
    BY <1>f, Zenon DEF RoundsOf, Rounds
  <1>2. Len(s) \div Len(Opening) \in 0..Len(s)
    <2>1. Len(s) \in Nat  OBVIOUS
    <2>2. Len(s) \div 4 \in 0..Len(s)  BY <2>1
    <2>. QED  BY <2>2, OpeningIs
  <1>. QED  BY <1>1, <1>2

(* An order of the pastes visits each of them. *)
LEMMA OrdersFit ==
  ASSUME NEW kept \in Seq(Nat), NEW order \in Orders(kept)
  PROVE  /\ Len(kept) \in Nat /\ order \in [1..Len(kept) -> 1..Len(kept)]
         /\ \A n \in 1..Len(kept) : \E r \in 1..Len(kept) : order[r] = n
         /\ \A r \in 1..Len(kept) : order[r] \in Nat /\ kept[order[r]] \in Nat
  <1>1. Len(kept) \in Nat /\ \A n \in 1..Len(kept) : kept[n] \in Nat  OBVIOUS
  <1>2. /\ order \in [1..Len(kept) -> 1..Len(kept)]
        /\ \A n \in 1..Len(kept) : \E r \in 1..Len(kept) : order[r] = n
    BY <1>1 DEF Orders, Bijection, Injection, Surjection
  <1>3. \A r \in 1..Len(kept) : order[r] \in 1..Len(kept)  BY <1>2
  <1>4. \A r \in 1..Len(kept) : order[r] \in Nat /\ kept[order[r]] \in Nat
    <2> TAKE r \in 1..Len(kept)
    <2>1. order[r] \in 1..Len(kept)  BY <1>3
    <2>2. kept[order[r]] \in Nat  BY <1>1, <2>1
    <2>. QED  BY <1>1, <2>1, <2>2
  <1>. QED  BY <1>1, <1>2, <1>4

(* The texts kept are put in one after the other. *)
Visits(R, s, kept, order, f) ==
  /\ f \in [0..Len(kept) -> Seq(R)] /\ f[0] = s /\ Expanded(s, kept, order) = f[Len(kept)]
  /\ \A r \in 1..Len(kept) : f[r] = AllReplaced(f[r - 1], order[r], kept[order[r]])

LEMMA ExpandedIs ==
  ASSUME NEW R, Bodies \in SUBSET R, NEW s \in Seq(R), NEW kept \in Seq(Nat), NEW order \in Orders(kept)
  PROVE  \E f : Visits(R, s, kept, order, f)
  <1> DEFINE N == Len(kept)
             G == [x \in Seq(R) \X (1..N) |-> AllReplaced(x[1], order[x[2]], kept[order[x[2]]])]
             P(f) == f = [r \in 0..N |-> IF r = 0 THEN s
                                         ELSE AllReplaced(f[r - 1], order[r], kept[order[r]])]
             h == CHOOSE f : P(f)
  <1>0. N \in Nat /\ \A r \in 1..N : kept[order[r]] \in Nat  BY OrdersFit
  <1>1. Expanded(s, kept, order) = h[N]  BY DEF Expanded
  <1> HIDE DEF N
  <1>2. G \in [Seq(R) \X (1..N) -> Seq(R)]
    <2>1. \A x \in Seq(R) \X (1..N) : AllReplaced(x[1], order[x[2]], kept[order[x[2]]]) \in Seq(R)
      <3> TAKE x \in Seq(R) \X (1..N)
      <3>1. x[1] \in Seq(R) /\ kept[order[x[2]]] \in Nat  BY <1>0
      <3>. QED  BY <3>1, AllReplacedFits
    <2>. QED  BY <2>1
  <1>3. \A x \in Seq(R), r \in 1..N : G[<<x, r>>] = AllReplaced(x, order[r], kept[order[r]])  OBVIOUS
  <1> HIDE DEF G
  <1>4. PICK g \in [0..N -> Seq(R)] : g[0] = s /\ \A r \in 1..N : g[r] = G[<<g[r - 1], r>>]
    <2>1. Rows(Seq(R), N, s, G) # {}  BY <1>0, <1>2, RowOfSteps
    <2>. QED  BY <2>1 DEF Rows
  <1>5. \A r \in 1..N : g[r] = AllReplaced(g[r - 1], order[r], kept[order[r]])
    <2> TAKE r \in 1..N
    <2>1. r - 1 \in 0..N  BY <1>0
    <2>2. g[r - 1] \in Seq(R)  BY <2>1, <1>4
    <2>. QED  BY <1>3, <1>4, <2>2
  <1>6. P(g)
    <2>1. \A r \in 0..N : g[r] = IF r = 0 THEN s ELSE AllReplaced(g[r - 1], order[r], kept[order[r]])
      <3> TAKE r \in 0..N
      <3>1. r = 0 \/ r \in 1..N  BY <1>0
      <3>. QED  BY <3>1, <1>4, <1>5
    <2>2. g = [r \in 0..N |-> g[r]]  OBVIOUS
    <2>. QED  BY <2>1, <2>2, Zenon
  <1>7. P(h)  BY <1>6
  <1> HIDE DEF h
  <1>8. /\ DOMAIN h = 0..N /\ h = [r \in 0..N |-> h[r]]
        /\ \A r \in 0..N : h[r] = IF r = 0 THEN s
                                  ELSE AllReplaced(h[r - 1], order[r], kept[order[r]])
    BY <1>7, Zenon
  <1>9. h[0] = s /\ \A r \in 1..N : h[r] = AllReplaced(h[r - 1], order[r], kept[order[r]])
    <2>1. 0 \in 0..N /\ \A r \in 1..N : r \in 0..N /\ r # 0  BY <1>0
    <2>. QED  BY <1>8, <2>1
  <1> DEFINE T == {r \in 0..N : h[r] \in Seq(R)}
  <1>10. \A r \in 0..N : r \in T
    <2>1. 0 \in T  BY <1>0, <1>9
    <2>2. ASSUME NEW r \in 1..N, r - 1 \in T PROVE r \in T
      <3>1. /\ h[r] = AllReplaced(h[r - 1], order[r], kept[order[r]]) /\ h[r - 1] \in Seq(R)
            /\ r \in 0..N /\ kept[order[r]] \in Nat
        BY <1>0, <1>9, <2>2
      <3>2. h[r] \in Seq(R)  BY <3>1, AllReplacedFits
      <3>. QED  BY <3>1, <3>2
    <2> HIDE DEF T
    <2>. QED  BY <1>0, <2>1, <2>2, UpTo
  <1>11. h \in [0..N -> Seq(R)]  BY <1>8, <1>10
  <1>12. Visits(R, s, kept, order, h)  BY <1>1, <1>9, <1>11, Zenon DEF N, Visits
  <1>. QED  BY <1>12, Zenon

(* A prompt with its markers expanded is a text. *)
LEMMA ExpandedTyped ==
  ASSUME NEW R, Bodies \in SUBSET R, NEW s \in Seq(R), NEW kept \in Seq(Nat), NEW order \in Orders(kept)
  PROVE  Expanded(s, kept, order) \in Seq(R)
  <1>f. PICK f : Visits(R, s, kept, order, f)  BY ExpandedIs, Zenon
  <1>1. f \in [0..Len(kept) -> Seq(R)] /\ Expanded(s, kept, order) = f[Len(kept)]
    BY <1>f, Zenon DEF Visits
  <1>2. Len(kept) \in 0..Len(kept)  OBVIOUS
  <1>. QED  BY <1>1, <1>2

LEMMA ExpandedFits ==
  ASSUME NEW R, Bodies \in SUBSET R, NEW e \in EditorType(R), NEW order \in Orders(e.pastes)
  PROVE  Expanded(e.text, e.pastes, order) \in Seq(R)
  <1>1. e.text \in Seq(R) /\ e.pastes \in Seq(Nat)  BY EditorFacts
  <1>. QED  BY <1>1, ExpandedTyped

(* A marker, token by token. *)
Opens(s, i) ==
  /\ i + 4 <= Len(s) /\ s[i + 1] = Token("[") /\ s[i + 2] = Token("Paste") /\ s[i + 3] = Space
  /\ s[i + 4] = Token("#")
Marks(s, i, n) == i + 5 <= Len(s) /\ Opens(s, i) /\ s[i + 5] = Digit(n)

(* What the tokens of a marker are not. *)
Fresh(t) ==
  /\ t # Token("Paste") /\ t # Space /\ t # Token("#") /\ \A d \in Nat : t # Digit(d)

LEMMA TokensDiffer ==
  ASSUME NEW k \in Nat, NEW n \in Nat
  PROVE  /\ Fresh(Token("[")) /\ Fresh(Body(k))
         /\ Close \notin {Token("["), Token("Paste"), Space, Token("#"), Digit(n), Size(k), Body(k)}
         /\ Token("[") \notin {Token("Paste"), Space, Token("#"), Digit(n), Size(k), Body(k), Close}
         /\ \A d \in Nat : Digit(d) = Digit(n) => d = n
  <1>1. /\ Len(Token("[")) = 1 /\ Token("[")[1] = "[" /\ Len(Close) = 1 /\ Close[1] = "]"
        /\ Len(Token("Paste")) = 1 /\ Token("Paste")[1] = "Paste"
        /\ Len(Space) = 1 /\ Space[1] = " " /\ Len(Token("#")) = 1 /\ Token("#")[1] = "#"
    BY DEF Token, Close, Space
  <1>2. /\ \A d \in Nat : Len(Digit(d)) = 2 /\ Digit(d)[1] = "digit" /\ Digit(d)[2] = d
        /\ Len(Size(k)) = 2 /\ Len(Body(k)) = 2 /\ Body(k)[1] = "body"
    BY DEF Digit, Size, Body
  <1>3. Fresh(Token("["))  BY ONLY <1>1, <1>2 DEF Fresh
  <1>4. Fresh(Body(k))  BY ONLY <1>1, <1>2 DEF Fresh
  <1>d. Len(Digit(n)) = 2 /\ 1 # 2  BY <1>2
  <1>5. /\ Close # Token("[") /\ Close # Token("Paste") /\ Close # Space /\ Close # Token("#")
        /\ Close # Digit(n) /\ Close # Size(k) /\ Close # Body(k)
    <2>1. Close # Token("[") /\ Close # Token("Paste") /\ Close # Space /\ Close # Token("#")
      BY ONLY <1>1
    <2>2. Close # Digit(n) /\ Close # Size(k) /\ Close # Body(k)  BY ONLY Zenon, <1>1, <1>2, <1>d
    <2>. QED  BY <2>1, <2>2
  <1>6. /\ Token("[") # Token("Paste") /\ Token("[") # Space /\ Token("[") # Token("#")
        /\ Token("[") # Digit(n) /\ Token("[") # Size(k) /\ Token("[") # Body(k)
    <2>1. Token("[") # Token("Paste") /\ Token("[") # Space /\ Token("[") # Token("#")
      BY ONLY <1>1
    <2>2. Token("[") # Digit(n) /\ Token("[") # Size(k) /\ Token("[") # Body(k)
      BY ONLY Zenon, <1>1, <1>2, <1>d
    <2>. QED  BY <2>1, <2>2
  <1>7. \A d \in Nat : Digit(d) = Digit(n) => d = n  BY ONLY <1>2, n \in Nat
  <1>. QED  BY <1>3, <1>4, <1>5, <1>6, <1>7

(* Where two texts meet. *)
Joins(R, u, v, w) ==
  /\ w \in Seq(R) /\ Len(w) = Len(u) + Len(v) /\ Len(u) \in Nat /\ Len(v) \in Nat
  /\ \A i \in 1..Len(u) : w[i] = u[i]
  /\ \A i \in 1..Len(v) : w[Len(u) + i] = v[i]

LEMMA Joined ==
  ASSUME NEW R, NEW u \in Seq(R), NEW v \in Seq(R)
  PROVE  Joins(R, u, v, u \o v)
  <1> DEFINE n == Len(u)  m == Len(v)  w == u \o v
  <1>1. /\ w \in Seq(R) /\ Len(w) = n + m
        /\ \A i \in 1..n + m : w[i] = IF i <= n THEN u[i] ELSE v[i - n]
    BY ConcatProperties
  <1>2. n \in Nat /\ m \in Nat  OBVIOUS
  <1> HIDE DEF w, n, m
  <1>3. \A i \in 1..n : w[i] = u[i]  BY <1>1, <1>2
  <1>4. \A i \in 1..m : w[n + i] = v[i]
    <2> TAKE i \in 1..m
    <2>1. n + i \in 1..n + m /\ ~(n + i <= n) /\ (n + i) - n = i  BY <1>2
    <2>. QED  BY <1>1, <2>1
  <1>. QED  BY <1>1, <1>2, <1>3, <1>4 DEF w, n, m, Joins

(* The opening and the number that are looked for, in one piece. *)
LEMMA PatternIs ==
  ASSUME NEW n \in Nat, n < Radix
  PROVE  /\ Itoa(n) = <<Digit(n)>>
         /\ DOMAIN (Opening \o Itoa(n)) = 1..5 /\ \A q \in 1..4 : (Opening \o Itoa(n))[q] = Opening[q]
         /\ (Opening \o Itoa(n))[5] = Digit(n)
  <1> DEFINE d == Digit(n)  t == <<d>>  R == Tokens
  <1>1. Itoa(n) = t  BY DEF Itoa
  <1>2. d \in R  BY DEF Tokens
  <1>3. Opening \in Seq(R)  BY DEF Opening, Tokens, Plain
  <1> HIDE DEF d, R
  <1>4. t \in Seq(R) /\ Len(t) = 1 /\ t[1] = d  BY <1>2
  <1> HIDE DEF t
  <1>5. /\ Opening \o t \in Seq(R) /\ Len(Opening \o t) = Len(Opening) + Len(t)
        /\ \A i \in 1..Len(Opening) : (Opening \o t)[i] = Opening[i]
        /\ \A i \in 1..Len(t) : (Opening \o t)[Len(Opening) + i] = t[i]
    <2>1. Joins(R, Opening, t, Opening \o t)  BY <1>3, <1>4, Joined, Zenon
    <2>. QED  BY <2>1, Zenon DEF Joins
  <1>6. Len(Opening) = 4  BY OpeningIs
  <1> DEFINE w == Opening \o t
  <1>7. w \in Seq(R) /\ Len(w) = 5 /\ (\A i \in 1..4 : w[i] = Opening[i]) /\ w[5] = d
    <2>1. 1 \in 1..Len(t)  BY <1>4
    <2>2. w[Len(Opening) + 1] = t[1]  BY <1>5, <2>1
    <2>3. Len(Opening) + 1 = 5 /\ Len(Opening) + Len(t) = 5  BY <1>4, <1>6
    <2>. QED  BY <1>4, <1>5, <1>6, <2>2, <2>3
  <1> HIDE DEF w
  <1>8. DOMAIN w = 1..5  BY <1>7
  <1>. QED  BY <1>1, <1>7, <1>8 DEF w, t, d

LEMMA StandsIs ==
  ASSUME NEW R, NEW s \in Seq(R), NEW i \in Nat, NEW n \in Nat, n < Radix
  PROVE  /\ Stands(s, i, Opening) <=> Opens(s, i)
         /\ Stands(s, i, Opening \o Itoa(n)) <=> Marks(s, i, n)
  <1>0. Len(s) \in Nat  OBVIOUS
  <1>1. /\ DOMAIN Opening = 1..4 /\ Opening[1] = Token("[") /\ Opening[2] = Token("Paste")
        /\ Opening[3] = Space /\ Opening[4] = Token("#")
    BY OpeningIs
  <1> DEFINE p == Opening \o Itoa(n)
  <1>2. DOMAIN p = 1..5 /\ (\A q \in 1..4 : p[q] = Opening[q]) /\ p[5] = Digit(n)  BY PatternIs
  <1> HIDE DEF p
  <1>3. \A q \in 1..4 : q = 1 \/ q = 2 \/ q = 3 \/ q = 4  OBVIOUS
  <1>4. \A q \in 1..5 : q \in 1..4 \/ q = 5  OBVIOUS
  <1>5. Stands(s, i, Opening) => Opens(s, i)
    <2>1. 1 \in 1..4 /\ 2 \in 1..4 /\ 3 \in 1..4 /\ 4 \in 1..4  OBVIOUS
    <2>. QED  BY <1>1, <2>1 DEF Stands, Opens
  <1>6. Opens(s, i) => Stands(s, i, Opening)
    <2> SUFFICES ASSUME Opens(s, i), NEW q \in 1..4
                 PROVE  i + q <= Len(s) /\ s[i + q] = Opening[q]
      BY <1>1 DEF Stands
    <2>1. i + q <= Len(s)  BY <1>0 DEF Opens
    <2>. QED  BY <2>1, <1>1, <1>3 DEF Opens
  <1>7. Stands(s, i, p) => Marks(s, i, n)
    <2> SUFFICES ASSUME Stands(s, i, p) PROVE Marks(s, i, n)  OBVIOUS
    <2>1. \A q \in 1..5 : i + q <= Len(s) /\ s[i + q] = p[q]  BY <1>2 DEF Stands
    <2>2. Stands(s, i, Opening)
      <3>1. \A q \in 1..4 : q \in 1..5  OBVIOUS
      <3>. QED  BY <1>1, <1>2, <2>1, <3>1 DEF Stands
    <2>3. 5 \in 1..5  OBVIOUS
    <2>. QED  BY <1>2, <1>5, <2>1, <2>2, <2>3 DEF Marks
  <1>8. Marks(s, i, n) => Stands(s, i, p)
    <2> SUFFICES ASSUME Marks(s, i, n), NEW q \in 1..5
                 PROVE  i + q <= Len(s) /\ s[i + q] = p[q]
      BY <1>2 DEF Stands
    <2>1. CASE q = 5  BY <2>1, <1>2 DEF Marks
    <2>2. CASE q \in 1..4
      <3>1. Stands(s, i, Opening)  BY <1>6 DEF Marks
      <3>. QED  BY <2>2, <3>1, <1>1, <1>2 DEF Stands
    <2>. QED  BY <2>1, <2>2, <1>4
  <1>. QED  BY <1>5, <1>6, <1>7, <1>8 DEF p

(* The first marker of a number, and the "]" it runs to. *)
FirstHit(s, n, i, j) ==
  /\ i \in 0..Len(s) /\ Marks(s, i, n) /\ \A x \in 0..Len(s) : Marks(s, x, n) => i <= x
  /\ j \in i + 1..Len(s) /\ s[j] = Close /\ \A h \in i + 1..j - 1 : s[h] # Close
Put(s, i, j, k) == SubSeq(s, 1, i) \o <<Body(k)>> \o SubSeq(s, j + 1, Len(s))

(* A text with a piece of it replaced, token by token. *)
PutAt(R, s, i, j, k, w) ==
  /\ w \in Seq(R) /\ Len(w) = i + 1 + (Len(s) - j)
  /\ \A x \in 1..i : w[x] = s[x]
  /\ w[i + 1] = Body(k)
  /\ \A x \in 1..Len(s) - j : w[i + 1 + x] = s[j + x]

LEMMA PutIs ==
  ASSUME NEW R, Bodies \in SUBSET R, NEW s \in Seq(R), NEW i \in 0..Len(s), NEW j \in i..Len(s),
         NEW k \in Nat
  PROVE  PutAt(R, s, i, j, k, Put(s, i, j, k))
  <1> DEFINE u == SubSeq(s, 1, i)  b == <<Body(k)>>  v == SubSeq(s, j + 1, Len(s))
             ub == u \o b  w == ub \o v
  <1>0. Len(s) \in Nat /\ i \in Nat /\ j \in Nat  OBVIOUS
  <1>1. u \in Seq(R) /\ Len(u) = i /\ \A x \in 1..i : u[x] = s[x]  BY Front1
  <1>2. /\ v \in Seq(R) /\ Len(v) = Len(s) - j
        /\ \A x \in 1..Len(s) - j : v[x] = s[j + x]
    <2>1. j \in 0..Len(s) /\ Len(s) \in j..Len(s)  BY <1>0
    <2>. QED  BY <2>1, Middle
  <1>3. b \in Seq(R) /\ Len(b) = 1 /\ b[1] = Body(k)
    <2>1. Body(k) \in R  BY DEF Bodies
    <2>. QED  BY <2>1, OneToken
  <1>4. Put(s, i, j, k) = w  BY DEF Put
  <1> HIDE DEF u, b, v
  <1>5. Joins(R, u, b, ub)  BY <1>1, <1>3, Joined, Zenon
  <1> HIDE DEF ub
  <1>6. /\ ub \in Seq(R) /\ Len(ub) = i + 1 /\ (\A x \in 1..i : ub[x] = s[x]) /\ ub[i + 1] = Body(k)
    <2>1. 1 \in 1..Len(b)  BY <1>3
    <2>. QED  BY <1>1, <1>3, <1>5, <2>1 DEF Joins
  <1>7. Joins(R, ub, v, w)  BY <1>2, <1>6, Joined, Zenon
  <1> HIDE DEF w
  <1>8. /\ w \in Seq(R) /\ Len(w) = (i + 1) + (Len(s) - j)
        /\ (\A x \in 1..i + 1 : w[x] = ub[x]) /\ \A x \in 1..Len(s) - j : w[(i + 1) + x] = v[x]
    BY <1>2, <1>6, <1>7 DEF Joins
  <1>9. /\ w \in Seq(R) /\ Len(w) = i + 1 + (Len(s) - j)
        /\ (\A x \in 1..i : w[x] = s[x]) /\ w[i + 1] = Body(k)
        /\ \A x \in 1..Len(s) - j : w[i + 1 + x] = s[j + x]
    <2>1. i + 1 \in 1..i + 1 /\ \A x \in 1..i : x \in 1..i + 1  BY <1>0
    <2>. QED  BY <1>2, <1>6, <1>8, <2>1
  <1>. QED  BY <1>4, <1>9 DEF PutAt

(* A text with something to replace has a first marker to replace. *)
LEMMA HitThere ==
  ASSUME NEW R, Bodies \in SUBSET R, NEW s \in Seq(R), NEW n \in Nat, n < Radix, Hit(s, n)
  PROVE  \E i \in Nat, j \in Nat : FirstHit(s, n, i, j)
  <1>1. PICK i, j \in Nat : ReplacedAt(s, n, 0, i, j)
    <2>1. 0 \in Nat  OBVIOUS
    <2>. QED  BY <2>1, ReplacedIs
  <1>2. \A x \in 0..Len(s) : x \in Found(s, n) <=> Marks(s, x, n)
    BY StandsIs DEF Found
  <1>3. j \in i + 1..Len(s)  BY <1>1 DEF ReplacedAt
  <1>4. FirstHit(s, n, i, j)  BY <1>1, <1>2, <1>3 DEF FirstHit, ReplacedAt
  <1>. QED  BY <1>3, <1>4

LEMMA HitHere ==
  ASSUME NEW R, Bodies \in SUBSET R, NEW s \in Seq(R), NEW n \in Nat, n < Radix, NEW k \in Nat,
         NEW i \in Nat, NEW j \in Nat, FirstHit(s, n, i, j)
  PROVE  /\ Hit(s, n) /\ Replaced(s, n, k) = Put(s, i, j, k)
         /\ i \in 0..Len(s) /\ j \in i..Len(s) /\ i + 6 <= j
  <1>0. Len(s) \in Nat /\ i \in 0..Len(s) /\ j \in i + 1..Len(s) /\ s[j] = Close
    BY DEF FirstHit
  <1>1. \A x \in 0..Len(s) : x \in Found(s, n) <=> Marks(s, x, n)
    BY StandsIs DEF Found
  <1>2. Found(s, n) \in SUBSET (0..Len(s))  BY DEF Found
  <1>3. i \in Found(s, n) /\ \A x \in Found(s, n) : i <= x
    BY <1>0, <1>1, <1>2 DEF FirstHit
  <1>4. Min(Found(s, n)) = i
    <2>1. Found(s, n) \in SUBSET Nat  BY <1>2, <1>0
    <2>. QED  BY <2>1, <1>3, MinIs
  <1>5. j \in Ends(s, i)  BY <1>0 DEF Ends
  <1>6. Hit(s, n)  BY <1>3, <1>4, <1>5 DEF Hit
  <1>c. PICK a, b \in Nat : ReplacedAt(s, n, k, a, b)  BY <1>6, ReplacedIs
  <1>7. /\ a \in Found(s, n) /\ (\A x \in Found(s, n) : a <= x) /\ b \in 1..Len(s)
        /\ a < b /\ s[b] = Close /\ \A h \in a + 1..b - 1 : s[h] # Close
        /\ Replaced(s, n, k) = SubSeq(s, 1, a) \o <<Body(k)>> \o SubSeq(s, b + 1, Len(s))
    BY <1>c DEF ReplacedAt
  <1>8. a = i
    <2>1. a <= i /\ i <= a  BY <1>3, <1>7
    <2>. QED  BY <2>1, <1>0
  <1>9. b = j
    <2>1. ~(b < j)
      <3>1. b < j => b \in i + 1..j - 1  BY <1>0, <1>7, <1>8
      <3>. QED  BY <3>1, <1>7 DEF FirstHit
    <2>2. ~(j < b)
      <3>1. j < b => j \in a + 1..b - 1  BY <1>0, <1>7, <1>8
      <3>. QED  BY <3>1, <1>0, <1>7
    <2>. QED  BY <2>1, <2>2, <1>0
  <1>10. Replaced(s, n, k) = Put(s, i, j, k)  BY <1>7, <1>8, <1>9 DEF Put
  <1>11. i + 6 <= j
    <2>1. /\ s[i + 1] = Token("[") /\ s[i + 2] = Token("Paste") /\ s[i + 3] = Space
          /\ s[i + 4] = Token("#") /\ s[i + 5] = Digit(n)
      BY DEF FirstHit, Marks, Opens
    <2>2. Close \notin {Token("["), Token("Paste"), Space, Token("#"), Digit(n)}
      BY TokensDiffer
    <2>3. j # i + 1 /\ j # i + 2 /\ j # i + 3 /\ j # i + 4 /\ j # i + 5
      BY ONLY <2>1, <2>2, <1>0
    <2>. QED  BY <2>3, <1>0
  <1>12. j \in i..Len(s)  BY <1>0
  <1>. QED  BY <1>0, <1>6, <1>10, <1>11, <1>12

(* A text behind which no marker goes on. *)
Loose(v) == Len(v) = 0 \/ Fresh(v[1])

(* A marker does not go over the place where two texts meet. *)
LEMMA NoStraddle ==
  ASSUME NEW R, NEW u \in Seq(R), NEW v \in Seq(R), Loose(v), NEW w, Joins(R, u, v, w),
         NEW n \in Nat, NEW x \in Nat, x < Len(u)
  PROVE  /\ Opens(w, x) <=> Opens(u, x)
         /\ Marks(w, x, n) <=> Marks(u, x, n)
  <1> DEFINE a == Len(u)
  <1>0. /\ a \in Nat /\ Len(v) \in Nat /\ Len(w) = a + Len(v) /\ x < a
        /\ \A i \in 1..a : w[i] = u[i]
    BY DEF Joins
  <1>1. Len(v) # 0 => /\ w[a + 1] # Token("Paste") /\ w[a + 1] # Space /\ w[a + 1] # Token("#")
                      /\ w[a + 1] # Digit(n)
    <2> SUFFICES ASSUME Len(v) # 0
                 PROVE  /\ w[a + 1] # Token("Paste") /\ w[a + 1] # Space /\ w[a + 1] # Token("#")
                        /\ w[a + 1] # Digit(n)
      OBVIOUS
    <2>1. 1 \in 1..Len(v)  BY <1>0
    <2>2. w[a + 1] = v[1]  BY <2>1 DEF Joins
    <2>. QED  BY <2>2 DEF Loose, Fresh
  <1> HIDE DEF a
  <1>2. CASE x + 5 <= a
    <2>1. /\ x + 1 \in 1..a /\ x + 2 \in 1..a /\ x + 3 \in 1..a /\ x + 4 \in 1..a /\ x + 5 \in 1..a
          /\ x + 4 <= Len(w) /\ x + 5 <= Len(w) /\ x + 4 <= a
      BY <1>0, <1>2
    <2>2. /\ w[x + 1] = u[x + 1] /\ w[x + 2] = u[x + 2] /\ w[x + 3] = u[x + 3]
          /\ w[x + 4] = u[x + 4] /\ w[x + 5] = u[x + 5]
      BY <1>0, <2>1
    <2>. QED  BY <1>2, <2>1, <2>2 DEF Opens, Marks, a
  <1>3. CASE x + 4 = a
    <2>1. /\ x + 1 \in 1..a /\ x + 2 \in 1..a /\ x + 3 \in 1..a /\ x + 4 \in 1..a
          /\ x + 4 <= Len(w) /\ x + 4 <= a /\ ~(x + 5 <= a) /\ x + 5 = a + 1
      BY <1>0, <1>3
    <2>2. w[x + 1] = u[x + 1] /\ w[x + 2] = u[x + 2] /\ w[x + 3] = u[x + 3] /\ w[x + 4] = u[x + 4]
      BY <1>0, <2>1
    <2>3. Opens(w, x) <=> Opens(u, x)  BY <2>1, <2>2 DEF Opens, a
    <2>4. ~Marks(u, x, n)  BY <2>1 DEF Marks, a
    <2>5. ~Marks(w, x, n)
      <3> SUFFICES ASSUME Marks(w, x, n) PROVE FALSE  OBVIOUS
      <3>1. x + 5 <= Len(w) /\ w[a + 1] = Digit(n)  BY <2>1 DEF Marks
      <3>. QED  BY <3>1, <1>0, <1>1, <2>1
    <2>. QED  BY <2>3, <2>4, <2>5
  <1>4. CASE x + 4 > a
    <2>1. ~Opens(u, x) /\ ~Marks(u, x, n)
      <3>1. ~(x + 4 <= a)  BY <1>0, <1>4
      <3>. QED  BY <3>1 DEF Opens, Marks, a
    <2>2. ~Opens(w, x)
      <3> SUFFICES ASSUME Opens(w, x) PROVE FALSE  OBVIOUS
      <3>1. /\ x + 4 <= Len(w) /\ w[x + 2] = Token("Paste") /\ w[x + 3] = Space
            /\ w[x + 4] = Token("#")
        BY DEF Opens
      <3>2. a + 1 = x + 2 \/ a + 1 = x + 3 \/ a + 1 = x + 4  BY <1>0, <1>4
      <3>3. Len(v) # 0  BY <1>0, <1>4, <3>1
      <3>4. CASE a + 1 = x + 2  BY <3>1, <3>3, <3>4, <1>1
      <3>5. CASE a + 1 = x + 3  BY <3>1, <3>3, <3>5, <1>1
      <3>6. CASE a + 1 = x + 4  BY <3>1, <3>3, <3>6, <1>1
      <3>. QED  BY <3>2, <3>4, <3>5, <3>6
    <2>. QED  BY <2>1, <2>2 DEF Marks
  <1>. QED  BY <1>0, <1>2, <1>3, <1>4

(* Behind that place the markers are those of the second text. *)
LEMMA BehindJoin ==
  ASSUME NEW R, NEW u \in Seq(R), NEW v \in Seq(R), NEW w, Joins(R, u, v, w),
         NEW n \in Nat, NEW x \in Nat
  PROVE  /\ Opens(w, Len(u) + x) <=> Opens(v, x)
         /\ Marks(w, Len(u) + x, n) <=> Marks(v, x, n)
  <1> DEFINE a == Len(u)  b == Len(v)
  <1>0. /\ a \in Nat /\ b \in Nat /\ Len(w) = a + b
        /\ \A i \in 1..b : w[a + i] = v[i]
    BY DEF Joins
  <1>n. a \in Nat /\ b \in Nat  BY <1>0
  <1> HIDE DEF a, b
  <1>1. Opens(w, a + x) <=> Opens(v, x)
    <2>1. (a + x) + 4 <= Len(w) <=> x + 4 <= b  BY <1>0
    <2>2. CASE x + 4 <= b
      <3>1. /\ x + 1 \in 1..b /\ x + 2 \in 1..b /\ x + 3 \in 1..b /\ x + 4 \in 1..b
            /\ (a + x) + 1 = a + (x + 1) /\ (a + x) + 2 = a + (x + 2)
            /\ (a + x) + 3 = a + (x + 3) /\ (a + x) + 4 = a + (x + 4)
        BY ONLY <1>n, <2>2, x \in Nat
      <3>2. /\ w[(a + x) + 1] = v[x + 1] /\ w[(a + x) + 2] = v[x + 2]
            /\ w[(a + x) + 3] = v[x + 3] /\ w[(a + x) + 4] = v[x + 4]
        <4>0. \A i \in 1..b : w[a + i] = v[i]  BY <1>0
        <4>1. w[(a + x) + 1] = v[x + 1]  BY ONLY <4>0, <3>1
        <4>2. w[(a + x) + 2] = v[x + 2]  BY ONLY <4>0, <3>1
        <4>3. w[(a + x) + 3] = v[x + 3]  BY ONLY <4>0, <3>1
        <4>4. w[(a + x) + 4] = v[x + 4]  BY ONLY <4>0, <3>1
        <4>. QED  BY <4>1, <4>2, <4>3, <4>4
      <3>. QED  BY <2>1, <3>2 DEF Opens, b
    <2>3. CASE ~(x + 4 <= b)  BY <2>1, <2>3 DEF Opens, b
    <2>. QED  BY <2>2, <2>3
  <1>2. (a + x) + 5 <= Len(w) <=> x + 5 <= b  BY <1>0
  <1>3. x + 5 <= b => w[(a + x) + 5] = v[x + 5]
    <2> SUFFICES ASSUME x + 5 <= b PROVE w[(a + x) + 5] = v[x + 5]  OBVIOUS
    <2>1. x + 5 \in 1..b /\ (a + x) + 5 = a + (x + 5)  BY <1>0
    <2>. QED  BY <1>0, <2>1
  <1>. QED  BY <1>1, <1>2, <1>3 DEF Marks, a, b

(* A marker of the first text is replaced there. *)
InFront(u, v, n, k, i, j) ==
  FirstHit(u \o v, n, i, j) /\ Put(u \o v, i, j, k) = Put(u, i, j, k) \o v

LEMMA FrontHit ==
  ASSUME NEW R, Bodies \in SUBSET R, NEW u \in Seq(R), NEW v \in Seq(R), Loose(v),
         NEW n \in Nat, NEW k \in Nat, NEW i \in Nat, NEW j \in Nat, FirstHit(u, n, i, j)
  PROVE  InFront(u, v, n, k, i, j)
  <1> DEFINE a == Len(u)  b == Len(v)  w == u \o v  p == Put(u, i, j, k)  q == p \o v
             z == Put(w, i, j, k)
  <1>1. Joins(R, u, v, w)  BY Joined, Zenon
  <1> HIDE DEF w
  <1>2. /\ a \in Nat /\ b \in Nat /\ w \in Seq(R) /\ Len(w) = a + b
        /\ (\A x \in 1..a : w[x] = u[x]) /\ \A x \in 1..b : w[a + x] = v[x]
    BY <1>1 DEF Joins
  <1>3. /\ i \in 0..a /\ Marks(u, i, n) /\ (\A x \in 0..a : Marks(u, x, n) => i <= x)
        /\ j \in i + 1..a /\ u[j] = Close /\ \A h \in i + 1..j - 1 : u[h] # Close
    BY DEF FirstHit
  <1>4. i < a  BY <1>2, <1>3
  <1>5. FirstHit(w, n, i, j)
    <2>1. Marks(w, i, n)  BY <1>1, <1>3, <1>4, NoStraddle
    <2>2. \A x \in 0..Len(w) : Marks(w, x, n) => i <= x
      <3> SUFFICES ASSUME NEW x \in 0..Len(w), Marks(w, x, n), x < i PROVE FALSE
        BY <1>2, <1>3
      <3>1. x \in Nat /\ x < a /\ x \in 0..a  BY <1>2, <1>4
      <3>2. Marks(u, x, n)  BY <3>1, <1>1, NoStraddle
      <3>. QED  BY <3>1, <3>2, <1>3
    <2>3. /\ i \in 0..Len(w) /\ j \in i + 1..Len(w) /\ j \in 1..a
          /\ \A h \in i + 1..j - 1 : h \in 1..a
      BY <1>2, <1>3
    <2>. QED  BY <1>2, <1>3, <2>1, <2>2, <2>3 DEF FirstHit
  <1>6. PutAt(R, u, i, j, k, p)
    <2>1. i \in 0..Len(u) /\ j \in i..Len(u)  BY <1>2, <1>3
    <2>. QED  BY <2>1, PutIs
  <1>7. PutAt(R, w, i, j, k, z)
    <2>1. i \in 0..Len(w) /\ j \in i..Len(w)  BY <1>2, <1>3
    <2>. QED  BY <1>2, <2>1, PutIs
  <1> HIDE DEF p, z
  <1>8. /\ p \in Seq(R) /\ Len(p) = i + 1 + (a - j) /\ (\A x \in 1..i : p[x] = u[x])
        /\ p[i + 1] = Body(k) /\ \A x \in 1..a - j : p[i + 1 + x] = u[j + x]
    BY <1>6 DEF PutAt
  <1>9. /\ z \in Seq(R) /\ Len(z) = i + 1 + ((a + b) - j) /\ (\A x \in 1..i : z[x] = w[x])
        /\ z[i + 1] = Body(k) /\ \A x \in 1..(a + b) - j : z[i + 1 + x] = w[j + x]
    BY <1>2, <1>7 DEF PutAt
  <1>10. Joins(R, p, v, q)  BY <1>8, Joined, Zenon
  <1> HIDE DEF q
  <1> DEFINE c == i + 1 + (a - j)
  <1>11. /\ q \in Seq(R) /\ Len(q) = c + b /\ c \in Nat
         /\ (\A x \in 1..c : q[x] = p[x]) /\ \A x \in 1..b : q[c + x] = v[x]
    <2>1. c \in Nat  BY <1>2, <1>3
    <2> HIDE DEF c
    <2>2. Len(p) = c  BY <1>8 DEF c
    <2>. QED  BY <1>10, <2>1, <2>2 DEF Joins
  <1>c. c = i + 1 + (a - j)  OBVIOUS
  <1>n. /\ a \in Nat /\ b \in Nat /\ c \in Nat /\ i \in Nat /\ j \in Nat /\ i < j /\ j <= a
    BY <1>2, <1>3, <1>11
  <1> HIDE DEF a, b, c
  <1>12. \A x \in 1..c + b : z[x] = q[x]
    <2> TAKE x \in 1..c + b
    <2>0. x \in Nat /\ c \in Nat /\ b \in Nat  BY <1>2, <1>11
    <2>1. CASE x <= i
      <3>1. x \in 1..i /\ x \in 1..c /\ x \in 1..a  BY <2>0, <2>1, <1>n, <1>c
      <3>. QED  BY <3>1, <1>2, <1>8, <1>9, <1>11
    <2>2. CASE x = i + 1
      <3>1. i + 1 \in 1..c  BY <1>2, <1>3, <1>c
      <3>. QED  BY <2>2, <3>1, <1>8, <1>9, <1>11
    <2>3. CASE x > i + 1 /\ x <= c
      <3> DEFINE y == x - (i + 1)
      <3>1. /\ y \in 1..a - j /\ i + 1 + y = x /\ y \in 1..(a + b) - j /\ x \in 1..c
            /\ j + y \in 1..a
        BY <2>0, <2>3, <1>2, <1>3, <1>c
      <3> HIDE DEF y
      <3>2. z[x] = w[j + y] /\ p[x] = u[j + y] /\ q[x] = p[x]
        BY <3>1, <1>8, <1>9, <1>11
      <3>. QED  BY <3>1, <3>2, <1>2
    <2>4. CASE x > c
      <3> DEFINE y == x - c
      <3>1. /\ y \in 1..b /\ c + y = x /\ (a - j) + y \in 1..(a + b) - j
            /\ i + 1 + ((a - j) + y) = x /\ j + ((a - j) + y) = a + y
        BY <2>0, <2>4, <1>2, <1>3, <1>c
      <3> HIDE DEF y
      <3>2. q[x] = v[y]  BY <3>1, <1>11
      <3>3. z[i + 1 + ((a - j) + y)] = w[j + ((a - j) + y)]
        <4> DEFINE m == (a - j) + y
        <4>1. m \in 1..(a + b) - j  BY <3>1
        <4> HIDE DEF m
        <4>2. z[i + 1 + m] = w[j + m]  BY <4>1, <1>9
        <4>. QED  BY <4>2 DEF m
      <3>. QED  BY <3>1, <3>2, <3>3, <1>2
    <2>. QED  BY <2>0, <2>1, <2>2, <2>3, <2>4, <1>3
  <1>13. Len(z) = c + b  BY <1>9, <1>2, <1>3, <1>c
  <1>14. z = q  BY <1>9, <1>11, <1>12, <1>13, SeqEqual
  <1>. QED  BY <1>5, <1>14, Zenon DEF w, z, q, p, InFront

(* A marker of the second text is replaced there. *)
LEMMA BackPut ==
  ASSUME NEW R, Bodies \in SUBSET R, NEW u \in Seq(R), NEW v \in Seq(R), NEW k \in Nat,
         NEW i \in 0..Len(v), NEW j \in i..Len(v)
  PROVE  Put(u \o v, Len(u) + i, Len(u) + j, k) = u \o Put(v, i, j, k)
  <1> DEFINE a == Len(u)  b == Len(v)  w == u \o v  p == Put(v, i, j, k)  q == u \o p
             z == Put(w, a + i, a + j, k)
  <1>1. Joins(R, u, v, w)  BY Joined, Zenon
  <1> HIDE DEF w
  <1>2. /\ w \in Seq(R) /\ Len(w) = a + b
        /\ (\A x \in 1..a : w[x] = u[x]) /\ \A x \in 1..b : w[a + x] = v[x]
    BY <1>1 DEF Joins
  <1>n. a \in Nat /\ b \in Nat /\ i \in Nat /\ j \in Nat /\ i <= j /\ j <= b  OBVIOUS
  <1>3. PutAt(R, v, i, j, k, p)  BY PutIs
  <1>4. PutAt(R, w, a + i, a + j, k, z)
    <2>1. a + i \in 0..Len(w) /\ a + j \in a + i..Len(w)  BY <1>2, <1>n
    <2>. QED  BY <1>2, <2>1, PutIs
  <1> HIDE DEF p, z
  <1>5. /\ p \in Seq(R) /\ Len(p) = i + 1 + (b - j) /\ (\A x \in 1..i : p[x] = v[x])
        /\ p[i + 1] = Body(k) /\ \A x \in 1..b - j : p[i + 1 + x] = v[j + x]
    BY <1>3 DEF PutAt
  <1>6. Joins(R, u, p, q)  BY <1>5, Joined, Zenon
  <1> HIDE DEF q
  <1> DEFINE c == i + 1 + (b - j)
  <1>c. c = i + 1 + (b - j)  OBVIOUS
  <1>m. c \in Nat  BY <1>n
  <1> HIDE DEF c
  <1>7. /\ q \in Seq(R) /\ Len(q) = a + c /\ (\A x \in 1..a : q[x] = u[x])
        /\ \A x \in 1..c : q[a + x] = p[x]
    BY <1>5, <1>6, <1>c DEF Joins
  <1>8. /\ z \in Seq(R) /\ Len(z) = a + i + 1 + (Len(w) - (a + j))
        /\ (\A x \in 1..a + i : z[x] = w[x]) /\ z[a + i + 1] = Body(k)
        /\ \A x \in 1..Len(w) - (a + j) : z[a + i + 1 + x] = w[a + j + x]
    BY <1>4 DEF PutAt
  <1> HIDE DEF a, b
  <1>9. /\ Len(w) - (a + j) = b - j /\ a + i + 1 + (b - j) = a + c  BY <1>2, <1>c, <1>n
  <1>10. \A x \in 1..a + c : z[x] = q[x]
    <2> TAKE x \in 1..a + c
    <2>0. x \in Nat  BY <1>n, <1>m
    <2>1. CASE x <= a
      <3>1. x \in 1..a /\ x \in 1..a + i  BY <2>1, <1>n, <2>0
      <3>. QED  BY <3>1, <1>2, <1>7, <1>8
    <2>2. CASE x > a /\ x <= a + i
      <3> DEFINE y == x - a
      <3>1. y \in 1..i /\ y \in 1..b /\ y \in 1..c /\ a + y = x /\ x \in 1..a + i
        BY <2>0, <2>2, <1>n, <1>c
      <3> HIDE DEF y
      <3>2. z[x] = w[x] /\ w[a + y] = v[y] /\ q[a + y] = p[y] /\ p[y] = v[y]
        BY <3>1, <1>2, <1>5, <1>7, <1>8
      <3>. QED  BY <3>1, <3>2
    <2>3. CASE x = a + i + 1
      <3>1. i + 1 \in 1..c /\ a + (i + 1) = x  BY <2>3, <1>n, <1>c
      <3>2. q[a + (i + 1)] = p[i + 1]  BY <3>1, <1>7
      <3>. QED  BY <2>3, <3>1, <3>2, <1>5, <1>8
    <2>4. CASE x > a + i + 1
      <3> DEFINE y == x - (a + i + 1)
      <3>1. /\ y \in 1..b - j /\ a + i + 1 + y = x /\ j + y \in 1..b /\ a + (j + y) = a + j + y
            /\ i + 1 + y \in 1..c /\ a + (i + 1 + y) = x
        BY <2>0, <2>4, <1>n, <1>c
      <3> HIDE DEF y
      <3>2. z[x] = w[a + j + y]
        <4>1. y \in 1..Len(w) - (a + j)  BY <3>1, <1>9
        <4>. QED  BY <4>1, <3>1, <1>8
      <3>3. w[a + (j + y)] = v[j + y]  BY <3>1, <1>2
      <3>4. q[a + (i + 1 + y)] = p[i + 1 + y] /\ p[i + 1 + y] = v[j + y]  BY <3>1, <1>5, <1>7
      <3>. QED  BY <3>1, <3>2, <3>3, <3>4
    <2>. QED  BY <2>0, <2>1, <2>2, <2>3, <2>4, <1>n
  <1>11. Len(z) = Len(q)  BY <1>7, <1>8, <1>9
  <1>12. z = q  BY <1>7, <1>8, <1>10, <1>11, SeqEqual
  <1>. QED  BY <1>12 DEF z, q, p, w, a

(* No marker of n stands in u, or goes on from u into what follows it. *)
Unmarked(u, w, n) == \A x \in 0..Len(u) - 1 : ~Marks(w, x, n)

LEMMA BackHit ==
  ASSUME NEW R, NEW u \in Seq(R), NEW v \in Seq(R), NEW n \in Nat, NEW i \in Nat, NEW j \in Nat,
         Unmarked(u, u \o v, n)
  PROVE  FirstHit(v, n, i, j) <=> FirstHit(u \o v, n, Len(u) + i, Len(u) + j)
  <1> DEFINE a == Len(u)  b == Len(v)  w == u \o v
  <1>1. Joins(R, u, v, w)  BY Joined, Zenon
  <1>u. Unmarked(u, w, n)  OBVIOUS
  <1> HIDE DEF w
  <1>2. /\ Len(w) = a + b /\ \A x \in 1..b : w[a + x] = v[x]
    BY <1>1 DEF Joins
  <1>n. a \in Nat /\ b \in Nat /\ i \in Nat /\ j \in Nat  OBVIOUS
  <1>3. \A x \in Nat : Marks(w, a + x, n) <=> Marks(v, x, n)  BY <1>1, BehindJoin
  <1>4. \A x \in 0..a - 1 : ~Marks(w, x, n)  BY <1>u DEF Unmarked
  <1> HIDE DEF a, b
  <1>5. /\ i \in 0..b <=> a + i \in 0..Len(w)
        /\ j \in i + 1..b <=> a + j \in (a + i) + 1..Len(w)
    BY <1>2, <1>n
  <1>6. Marks(w, a + i, n) <=> Marks(v, i, n)  BY <1>3, <1>n
  <1>7. j \in i + 1..b => w[a + j] = v[j]
    <2>1. j \in i + 1..b => j \in 1..b  BY <1>n
    <2>. QED  BY <2>1, <1>2
  <1>8. (\A x \in 0..b : Marks(v, x, n) => i <= x)
          => \A x \in 0..Len(w) : Marks(w, x, n) => a + i <= x
    <2> SUFFICES ASSUME \A x \in 0..b : Marks(v, x, n) => i <= x, NEW x \in 0..Len(w),
                        Marks(w, x, n)
                 PROVE  a + i <= x
      OBVIOUS
    <2>1. x \in Nat /\ x <= a + b  BY <1>2, <1>n
    <2>2. ~(x < a)
      <3>1. x < a => x \in 0..a - 1  BY <2>1, <1>n
      <3>. QED  BY <3>1, <1>4
    <2> DEFINE y == x - a
    <2>3. y \in 0..b /\ y \in Nat /\ a + y = x  BY <2>1, <2>2, <1>n
    <2> HIDE DEF y
    <2>4. Marks(v, y, n)  BY <2>3, <1>3
    <2>5. i <= y  BY <2>3, <2>4
    <2>. QED  BY <2>3, <2>5, <1>n
  <1>9. (\A x \in 0..Len(w) : Marks(w, x, n) => a + i <= x)
          => \A x \in 0..b : Marks(v, x, n) => i <= x
    <2> SUFFICES ASSUME \A x \in 0..Len(w) : Marks(w, x, n) => a + i <= x, NEW x \in 0..b,
                        Marks(v, x, n)
                 PROVE  i <= x
      OBVIOUS
    <2>1. x \in Nat /\ a + x \in 0..Len(w)  BY <1>2, <1>n
    <2>2. Marks(w, a + x, n)  BY <2>1, <1>3
    <2>3. a + i <= a + x  BY <2>1, <2>2
    <2>. QED  BY <2>1, <2>3, <1>n
  <1>10. ASSUME j \in i + 1..b
         PROVE  (\A h \in i + 1..j - 1 : v[h] # Close)
                  <=> \A h \in (a + i) + 1..(a + j) - 1 : w[h] # Close
    <2>1. ASSUME \A h \in i + 1..j - 1 : v[h] # Close, NEW h \in (a + i) + 1..(a + j) - 1
          PROVE  w[h] # Close
      <3> DEFINE y == h - a
      <3>1. y \in i + 1..j - 1 /\ y \in 1..b /\ a + y = h  BY <1>n, <1>10
      <3> HIDE DEF y
      <3>. QED  BY <3>1, <2>1, <1>2
    <2>2. ASSUME \A h \in (a + i) + 1..(a + j) - 1 : w[h] # Close, NEW h \in i + 1..j - 1
          PROVE  v[h] # Close
      <3>1. a + h \in (a + i) + 1..(a + j) - 1 /\ h \in 1..b  BY <1>n, <1>10
      <3>. QED  BY <3>1, <2>2, <1>2
    <2>. QED  BY <2>1, <2>2
  <1>11. FirstHit(v, n, i, j) => FirstHit(w, n, a + i, a + j)
    BY <1>5, <1>6, <1>7, <1>8, <1>10 DEF FirstHit, b
  <1>12. FirstHit(w, n, a + i, a + j) => FirstHit(v, n, i, j)
    BY <1>5, <1>6, <1>7, <1>9, <1>10 DEF FirstHit, b
  <1>. QED  BY <1>11, <1>12 DEF w, a

(* So u \o v is changed where v is, and as v is. *)
LEMMA BackReplaced ==
  ASSUME NEW R, Bodies \in SUBSET R, NEW u \in Seq(R), NEW v \in Seq(R), NEW n \in Nat, n < Radix,
         NEW k \in Nat, Unmarked(u, u \o v, n)
  PROVE  /\ Hit(u \o v, n) <=> Hit(v, n)
         /\ Hit(v, n) => /\ Replaced(u \o v, n, k) = u \o Replaced(v, n, k)
                         /\ Unmarked(u, u \o Replaced(v, n, k), n)
  <1> DEFINE a == Len(u)  w == u \o v
  <1>0. a \in Nat /\ Len(v) \in Nat  OBVIOUS
  <1>1. w \in Seq(R)
    <2>1. Joins(R, u, v, u \o v)  BY Joined, Zenon
    <2>. QED  BY <2>1 DEF Joins
  <1>2. ASSUME Hit(w, n) PROVE Hit(v, n)
    <2> HIDE DEF w
    <2>1. PICK x, y \in Nat : FirstHit(w, n, x, y)  BY <1>1, <1>2, HitThere
    <2>2. x \in 0..Len(w) /\ Marks(w, x, n) /\ y \in x + 1..Len(w)  BY <2>1 DEF FirstHit
    <2>3. ~(x < a)
      <3>1. x < a => x \in 0..a - 1  BY <1>0, <2>1
      <3>. QED  BY <3>1, <2>2 DEF Unmarked, w
    <2> DEFINE i == x - a  j == y - a
    <2>4. i \in Nat /\ j \in Nat /\ a + i = x /\ a + j = y
      <3>1. y > x  BY <2>2
      <3>. QED  BY <3>1, <1>0, <2>1, <2>3
    <2> HIDE DEF i, j
    <2>5. FirstHit(w, n, a + i, a + j)  BY <2>1, <2>4
    <2>6. FirstHit(v, n, i, j)  BY <2>4, <2>5, BackHit DEF w
    <2>. QED  BY <2>4, <2>6, HitHere
  <1>3. ASSUME Hit(v, n)
        PROVE  /\ Hit(w, n) /\ Replaced(w, n, k) = u \o Replaced(v, n, k)
               /\ Unmarked(u, u \o Replaced(v, n, k), n)
    <2>1. PICK i, j \in Nat : FirstHit(v, n, i, j)  BY <1>3, HitThere
    <2>2. /\ Replaced(v, n, k) = Put(v, i, j, k) /\ i \in 0..Len(v) /\ j \in i..Len(v)
      BY <2>1, HitHere
    <2>3. FirstHit(w, n, a + i, a + j)  BY <2>1, BackHit
    <2>4. Hit(w, n) /\ Replaced(w, n, k) = Put(w, a + i, a + j, k)
      <3>1. a + i \in Nat /\ a + j \in Nat  BY <1>0
      <3> HIDE DEF w
      <3>. QED  BY <3>1, <1>1, <2>3, HitHere
    <2>5. Put(w, a + i, a + j, k) = u \o Put(v, i, j, k)  BY <2>2, BackPut
    <2> DEFINE p == Put(v, i, j, k)  q == u \o p
    <2>6. PutAt(R, v, i, j, k, p)  BY <2>2, PutIs
    <2> HIDE DEF p
    <2>7. /\ p \in Seq(R) /\ Len(p) = i + 1 + (Len(v) - j) /\ (\A x \in 1..i : p[x] = v[x])
          /\ p[i + 1] = Body(k)
      BY <2>6 DEF PutAt
    <2>8. Joins(R, u, p, q)  BY <2>7, Joined, Zenon
    <2>w. Joins(R, u, v, w)  BY Joined, Zenon
    <2>u. Unmarked(u, w, n)  OBVIOUS
    <2> HIDE DEF q, w
    <2>9. /\ Len(q) = a + Len(p) /\ (\A x \in 1..a : q[x] = u[x])
          /\ \A x \in 1..Len(p) : q[a + x] = p[x]
      BY <2>8 DEF Joins
    <2>10. /\ Len(w) = a + Len(v) /\ (\A x \in 1..a : w[x] = u[x])
           /\ \A x \in 1..Len(v) : w[a + x] = v[x]
      BY <2>w DEF Joins
    <2>n. a \in Nat /\ i \in Nat /\ j \in Nat /\ i <= j /\ j <= Len(v) /\ Len(v) \in Nat
      BY <1>0, <2>2
    <2>11. \A x \in 1..a + i : q[x] = w[x]
      <3> TAKE x \in 1..a + i
      <3>1. CASE x <= a
        <4>1. x \in 1..a  BY <2>n, <3>1
        <4>. QED  BY <4>1, <2>9, <2>10
      <3>2. CASE x > a
        <4> DEFINE y == x - a
        <4>1. y \in 1..i /\ y \in 1..Len(v) /\ a + y = x  BY <2>n, <3>2
        <4>2. y \in 1..Len(p)  BY <4>1, <2>7, <2>n
        <4> HIDE DEF y
        <4>. QED  BY <4>1, <4>2, <2>7, <2>9, <2>10
      <3>. QED  BY <3>1, <3>2, <2>n
    <2>12. q[a + i + 1] = Body(k)
      <3>1. i + 1 \in 1..Len(p) /\ a + (i + 1) = a + i + 1  BY <2>7, <2>n
      <3>2. q[a + (i + 1)] = p[i + 1]  BY <3>1, <2>9
      <3>. QED  BY <3>1, <3>2, <2>7
    <2>13. Unmarked(u, q, n)
      <3> SUFFICES ASSUME NEW x \in 0..a - 1, Marks(q, x, n) PROVE FALSE
        BY DEF Unmarked
      <3>1. x \in Nat /\ x < a  BY <2>n
      <3>2. /\ q[x + 1] = Token("[") /\ q[x + 2] = Token("Paste") /\ q[x + 3] = Space
            /\ q[x + 4] = Token("#") /\ q[x + 5] = Digit(n)
        BY DEF Marks, Opens
      <3>3. CASE x + 5 <= a + i
        <4>1. /\ x + 1 \in 1..a + i /\ x + 2 \in 1..a + i /\ x + 3 \in 1..a + i
              /\ x + 4 \in 1..a + i /\ x + 5 \in 1..a + i
          BY <2>n, <3>1, <3>3
        <4>2. x + 4 <= Len(w) /\ x + 5 <= Len(w)  BY <2>10, <2>n, <3>1, <3>3
        <4>3. /\ w[x + 1] = Token("[") /\ w[x + 2] = Token("Paste") /\ w[x + 3] = Space
              /\ w[x + 4] = Token("#") /\ w[x + 5] = Digit(n)
          BY <3>2, <4>1, <2>11
        <4>4. Marks(w, x, n)  BY <4>2, <4>3 DEF Marks, Opens
        <4>. QED  BY <4>4, <2>u DEF Unmarked
      <3>4. CASE x + 5 > a + i
        <4>1. \/ a + i + 1 = x + 1 \/ a + i + 1 = x + 2 \/ a + i + 1 = x + 3
              \/ a + i + 1 = x + 4 \/ a + i + 1 = x + 5
          BY <2>n, <3>1, <3>4
        <4>2. Body(k) \in {Token("["), Token("Paste"), Space, Token("#"), Digit(n)}
          BY ONLY <2>12, <3>2, <4>1
        <4>3. Fresh(Body(k)) /\ Token("[") # Body(k)  BY TokensDiffer
        <4>. QED  BY <4>2, <4>3 DEF Fresh
      <3>. QED  BY <3>1, <3>3, <3>4, <2>n
    <2>. QED  BY <2>2, <2>4, <2>5, <2>13 DEF q, p
  <1>. QED  BY <1>2, <1>3

(* A text without the number stays as it is. *)
StaysFrom(N, f, a) == \A r \in a..N : f[r] = f[a]

LEMMA Steady ==
  ASSUME NEW R, Bodies \in SUBSET R, NEW n \in Nat, NEW k \in Nat, NEW N \in Nat,
         NEW f, Rounds(R, N, n, k, f), NEW a \in 0..N, ~Hit(f[a], n)
  PROVE  StaysFrom(N, f, a)
  <1>0. f \in [0..N -> Seq(R)] /\ \A r \in 1..N : f[r] = Replaced(f[r - 1], n, k)
    BY DEF Rounds
  <1> DEFINE T == {r \in Nat : a + r <= N => f[a + r] = f[a]}
  <1>1. 0 \in T  OBVIOUS
  <1>2. ASSUME NEW r \in 1..N, r - 1 \in T PROVE r \in T
    <2> SUFFICES ASSUME a + r <= N PROVE f[a + r] = f[a]  OBVIOUS
    <2>1. a + (r - 1) <= N /\ a + (r - 1) = (a + r) - 1 /\ a + r \in 1..N  OBVIOUS
    <2>2. f[(a + r) - 1] = f[a]  BY <1>2, <2>1
    <2>3. f[a + r] = Replaced(f[a], n, k) /\ f[a] \in Seq(R)  BY <1>0, <2>1, <2>2
    <2>. QED  BY <2>3, ReplacedIs
  <1> HIDE DEF T
  <1>3. \A r \in 0..N : r \in T  BY <1>1, <1>2, UpTo
  <1>4. SUFFICES ASSUME NEW r \in a..N PROVE f[r] = f[a]  BY DEF StaysFrom
  <1> DEFINE y == r - a
  <1>5. y \in 0..N /\ a + y = r /\ a + y <= N  OBVIOUS
  <1> HIDE DEF y
  <1>6. f[a + y] = f[a]  BY <1>3, <1>5 DEF T
  <1>. QED  BY <1>5, <1>6

(* Replacing a marker shortens the text by five tokens at least. *)
LEMMA Shrinks ==
  ASSUME NEW R, Bodies \in SUBSET R, NEW s \in Seq(R), NEW n \in Nat, n < Radix, NEW k \in Nat,
         Hit(s, n)
  PROVE  Len(s) >= 6 /\ Len(Replaced(s, n, k)) + 5 <= Len(s) /\ Replaced(s, n, k) \in Seq(R)
  <1>1. PICK i, j \in Nat : FirstHit(s, n, i, j)  BY HitThere
  <1>2. /\ Replaced(s, n, k) = Put(s, i, j, k) /\ i \in 0..Len(s) /\ j \in i..Len(s) /\ i + 6 <= j
    BY <1>1, HitHere
  <1>3. PutAt(R, s, i, j, k, Put(s, i, j, k))  BY <1>2, PutIs
  <1>4. Len(Replaced(s, n, k)) = i + 1 + (Len(s) - j)  BY <1>2, <1>3 DEF PutAt
  <1>5. Len(s) \in Nat  OBVIOUS
  <1>6. Len(s) >= 6 /\ i + 1 + (Len(s) - j) + 5 <= Len(s)  BY <1>2, <1>5
  <1>. QED  BY <1>4, <1>6, ReplacedFits

(* A quarter of the text's tokens are more rounds than are needed. *)
LEMMA AllDone ==
  ASSUME NEW R, Bodies \in SUBSET R, NEW s \in Seq(R), NEW n \in Nat, n < Radix, NEW k \in Nat
  PROVE  ~Hit(AllReplaced(s, n, k), n)
  <1> DEFINE N == Len(s)  Q == N \div 4
  <1>f. PICK f : RoundsOf(R, s, n, k, f)  BY AllReplacedIs, Zenon
  <1>r. Rounds(R, N, n, k, f)  BY <1>f, Zenon DEF RoundsOf
  <1>1. /\ f \in [0..N -> Seq(R)] /\ f[0] = s /\ AllReplaced(s, n, k) = f[N \div Len(Opening)]
        /\ \A r \in 1..N : f[r] = Replaced(f[r - 1], n, k)
    BY <1>f, Zenon DEF RoundsOf, Rounds
  <1>2. N \in Nat /\ N \div Len(Opening) = Q  BY OpeningIs
  <1>n. N = Len(s)  OBVIOUS
  <1> HIDE DEF N
  <1>3. Q \in 0..N /\ N < 4 * Q + 4  BY <1>2
  <1> HIDE DEF Q
  <1> DEFINE T == {r \in 0..N : Hit(f[r], n) => Len(f[r]) + 5 * r <= N}
  <1>4. 0 \in T  BY <1>1, <1>2, <1>n
  <1>5. ASSUME NEW r \in 1..N, r - 1 \in T PROVE r \in T
    <2>0. r \in 0..N /\ r - 1 \in 0..N  BY <1>2
    <2>1. f[r] = Replaced(f[r - 1], n, k) /\ f[r - 1] \in Seq(R) /\ f[r] \in Seq(R)
      BY <1>1, <2>0
    <2>2. CASE ~Hit(f[r - 1], n)
      <3>1. f[r] = f[r - 1]  BY <2>1, <2>2, ReplacedIs
      <3>. QED  BY <2>0, <2>2, <3>1
    <2>3. CASE Hit(f[r - 1], n)
      <3>1. Len(f[r]) + 5 <= Len(f[r - 1])  BY <2>1, <2>3, Shrinks
      <3>2. Len(f[r - 1]) + 5 * (r - 1) <= N  BY <1>5, <2>3
      <3> DEFINE x == Len(f[r])  y == Len(f[r - 1])
      <3>3. x \in Nat /\ y \in Nat  BY <2>1
      <3>4. x + 5 <= y /\ y + 5 * (r - 1) <= N  BY <3>1, <3>2
      <3> HIDE DEF x, y
      <3>5. x + 5 * r <= N  BY <1>2, <3>3, <3>4
      <3>. QED  BY <2>0, <3>5 DEF x
    <2>. QED  BY <2>2, <2>3
  <1> HIDE DEF T
  <1>6. Q \in T  BY <1>2, <1>3, <1>4, <1>5, UpTo
  <1>7. SUFFICES ASSUME Hit(f[Q], n) PROVE FALSE  BY <1>1, <1>2
  <1>8. Len(f[Q]) + 5 * Q <= N  BY <1>6, <1>7 DEF T
  <1>9. Len(f[Q]) >= 6
    <2>1. f[Q] \in Seq(R)  BY <1>1, <1>3
    <2>. QED  BY <2>1, <1>7, Shrinks
  <1>10. Len(f[Q]) \in Nat
    <2>1. f[Q] \in Seq(R)  BY <1>1, <1>3
    <2>. QED  BY <2>1
  <1> DEFINE x == Len(f[Q])
  <1>11. x + 5 * Q <= N /\ x >= 6 /\ x \in Nat  BY <1>8, <1>9, <1>10
  <1>12. Q \in Nat  BY <1>2, <1>3
  <1> HIDE DEF x
  <1>. QED  BY <1>2, <1>3, <1>11, <1>12

(* Replacing them all may begin with replacing one. *)
LEMMA OneFirst ==
  ASSUME NEW R, Bodies \in SUBSET R, NEW s \in Seq(R), NEW n \in Nat, n < Radix, NEW k \in Nat
  PROVE  /\ ~Hit(s, n) => AllReplaced(s, n, k) = s
         /\ Hit(s, n) => AllReplaced(s, n, k) = AllReplaced(Replaced(s, n, k), n, k)
  <1> DEFINE N == Len(s)  Q == N \div 4  t == Replaced(s, n, k)  M == Len(t)  P == M \div 4
  <1>f. PICK f : RoundsOf(R, s, n, k, f)  BY AllReplacedIs, Zenon
  <1>r. Rounds(R, N, n, k, f)  BY <1>f, Zenon DEF RoundsOf
  <1>1. /\ f \in [0..N -> Seq(R)] /\ f[0] = s /\ AllReplaced(s, n, k) = f[N \div Len(Opening)]
        /\ \A r \in 1..N : f[r] = Replaced(f[r - 1], n, k)
    BY <1>f, Zenon DEF RoundsOf, Rounds
  <1>2. t \in Seq(R)  BY ReplacedFits
  <1>g. PICK g : RoundsOf(R, t, n, k, g)  BY <1>2, AllReplacedIs, Zenon
  <1>3. /\ g \in [0..M -> Seq(R)] /\ g[0] = t /\ AllReplaced(t, n, k) = g[M \div Len(Opening)]
        /\ \A r \in 1..M : g[r] = Replaced(g[r - 1], n, k)
    BY <1>g, Zenon DEF RoundsOf, Rounds
  <1>4. /\ N \in Nat /\ N \div Len(Opening) = Q /\ M \in Nat /\ M \div Len(Opening) = P
    BY <1>2, OpeningIs
  <1>5. Hit(s, n) => M + 5 <= N /\ N >= 6  BY Shrinks
  <1>t. t = Replaced(s, n, k)  OBVIOUS
  <1>d. ~Hit(AllReplaced(t, n, k), n)  BY <1>2, AllDone
  <1> HIDE DEF N, M, t
  <1>6. Q \in 0..N /\ N < 4 * Q + 4 /\ 4 * Q <= N  BY <1>4
  <1>7. P \in 0..M /\ M < 4 * P + 4 /\ 4 * P <= M  BY <1>4
  <1> HIDE DEF Q, P
  <1>8. CASE ~Hit(s, n)
    <2>1. 0 \in 0..N /\ Q \in 0..N /\ ~Hit(f[0], n)  BY <1>1, <1>4, <1>6, <1>8
    <2>2. StaysFrom(N, f, 0)  BY <1>r, <1>4, <2>1, Steady, Zenon
    <2>. QED  BY <1>1, <1>4, <1>8, <2>1, <2>2 DEF StaysFrom
  <1>9. CASE Hit(s, n)
    <2>1. M + 5 <= N /\ N >= 6  BY <1>5, <1>9
    <2> DEFINE T == {r \in 0..M : g[r] = f[r + 1]}
    <2>2. 0 \in T
      <3>1. 1 \in 1..N /\ 1 - 1 = 0  BY <1>4, <2>1
      <3>2. f[1] = Replaced(f[1 - 1], n, k)  BY <1>1, <3>1
      <3>3. f[1] = t  BY <1>1, <1>t, <3>1, <3>2
      <3>4. 0 \in 0..M /\ 0 + 1 = 1  BY <1>4
      <3>. QED  BY <1>3, <3>3, <3>4
    <2>3. ASSUME NEW r \in 1..M, r - 1 \in T PROVE r \in T
      <3>1. r \in 0..M /\ r + 1 \in 1..N /\ (r + 1) - 1 = r /\ (r - 1) + 1 = r
        BY <1>4, <2>1
      <3>2. g[r] = Replaced(g[r - 1], n, k) /\ f[r + 1] = Replaced(f[(r + 1) - 1], n, k)
        BY <1>1, <1>3, <3>1
      <3>3. g[r - 1] = f[(r - 1) + 1]  BY <2>3
      <3>. QED  BY <3>1, <3>2, <3>3
    <2> HIDE DEF T
    <2>4. P \in T  BY <1>4, <1>7, <2>2, <2>3, UpTo
    <2>5. g[P] = f[P + 1]  BY <2>4 DEF T
    <2>6. P + 1 \in 0..N /\ Q \in P + 1..N
      <3>1. 4 * P + 5 <= N  BY <1>4, <1>6, <1>7, <2>1
      <3>2. P \in Nat /\ Q \in Nat  BY <1>4, <1>6, <1>7
      <3>3. P + 1 <= Q  BY <1>4, <1>6, <3>1, <3>2
      <3>. QED  BY <1>4, <1>6, <3>2, <3>3
    <2>7. ~Hit(f[P + 1], n)  BY <1>3, <1>4, <1>d, <2>5
    <2>8. StaysFrom(N, f, P + 1)  BY <1>r, <1>4, <2>6, <2>7, Steady, Zenon
    <2>. QED  BY <1>1, <1>3, <1>4, <1>9, <1>t, <2>5, <2>6, <2>8 DEF StaysFrom
  <1>. QED  BY <1>8, <1>9

(* What stands in front of everything that is replaced stays. *)
Behind(u, v, n, k) == AllReplaced(u \o v, n, k) = u \o AllReplaced(v, n, k)

LEMMA AllBehind ==
  ASSUME NEW R, Bodies \in SUBSET R, NEW u \in Seq(R), NEW v \in Seq(R), NEW n \in Nat, n < Radix,
         NEW k \in Nat, NEW w, w = u \o v, Unmarked(u, w, n)
  PROVE  Behind(u, v, n, k)
  <1> DEFINE T == {m \in Nat : \A z \in Seq(R) : Len(z) < m /\ Unmarked(u, u \o z, n) =>
                                 AllReplaced(u \o z, n, k) = u \o AllReplaced(z, n, k)}
             N == Len(v) + 1
  <1>0. N \in Nat /\ Len(v) < N /\ N \in 0..N  OBVIOUS
  <1>1. 0 \in T
    <2>1. \A z \in Seq(R) : ~(Len(z) < 0)  OBVIOUS
    <2>. QED  BY <2>1
  <1>2. ASSUME NEW m \in 1..N, m - 1 \in T PROVE m \in T
    <2>1. SUFFICES ASSUME NEW z \in Seq(R), Len(z) < m, Unmarked(u, u \o z, n)
                   PROVE  AllReplaced(u \o z, n, k) = u \o AllReplaced(z, n, k)
      <3>1. m \in Nat  BY <1>0
      <3>. QED  BY <2>1, <3>1
    <2> DEFINE uz == u \o z  t == Replaced(z, n, k)
    <2>2. uz \in Seq(R)
      <3>1. Joins(R, u, z, u \o z)  BY Joined, Zenon
      <3>. QED  BY <3>1 DEF Joins
    <2>3. /\ Hit(uz, n) <=> Hit(z, n)
          /\ Hit(z, n) => Replaced(uz, n, k) = u \o t /\ Unmarked(u, u \o t, n)
      BY <2>1, BackReplaced
    <2>4. CASE Hit(z, n)
      <3>1. t \in Seq(R) /\ Len(t) + 5 <= Len(z)  BY <2>4, Shrinks
      <3>2. AllReplaced(z, n, k) = AllReplaced(t, n, k)  BY <2>4, OneFirst
      <3> HIDE DEF uz
      <3>3. AllReplaced(uz, n, k) = AllReplaced(Replaced(uz, n, k), n, k)
        BY <2>2, <2>3, <2>4, OneFirst
      <3> HIDE DEF t
      <3>4. Len(t) < m - 1
        <4>1. Len(t) \in Nat /\ Len(z) \in Nat  BY <3>1
        <4>. QED  BY <2>1, <3>1, <4>1, <1>0
      <3>5. AllReplaced(u \o t, n, k) = u \o AllReplaced(t, n, k)
        BY <1>2, <2>3, <2>4, <3>1, <3>4
      <3>. QED  BY <2>3, <2>4, <3>2, <3>3, <3>5 DEF uz
    <2>5. CASE ~Hit(z, n)
      <3>1. AllReplaced(z, n, k) = z  BY <2>5, OneFirst
      <3> HIDE DEF uz
      <3>2. AllReplaced(uz, n, k) = uz  BY <2>2, <2>3, <2>5, OneFirst
      <3>. QED  BY <3>1, <3>2 DEF uz
    <2>. QED  BY <2>4, <2>5
  <1> HIDE DEF T, N
  <1>3. N \in T  BY <1>0, <1>1, <1>2, UpTo
  <1>. QED  BY <1>0, <1>3 DEF T, Behind

(* WellClosed, in terms of tokens. *)
Closes(s, i, j) ==
  /\ j \in i + 1..Len(s) /\ s[j] = Close
  /\ \A h \in 0..Len(s) : Opens(s, h) => h <= i \/ j <= h
Closed(s) == \A i \in 0..Len(s) : Opens(s, i) => \E j \in Nat : Closes(s, i, j)

LEMMA WellClosedIs ==
  ASSUME NEW R, NEW s \in Seq(R)
  PROVE  WellClosed(s) <=> Closed(s)
  <1>0. Len(s) \in Nat /\ 0 \in Nat /\ 0 < Radix  BY EditorAssumption DEF EditorAssumption
  <1>1. \A i \in 0..Len(s) : i \in Openings(s) <=> Opens(s, i)
    <2> TAKE i \in 0..Len(s)
    <2>1. i \in Nat  BY <1>0
    <2>2. Stands(s, i, Opening) <=> Opens(s, i)  BY <1>0, <2>1, StandsIs
    <2>. QED  BY <2>2 DEF Openings
  <1>2. Openings(s) \in SUBSET (0..Len(s))  BY DEF Openings
  <1>3. ASSUME WellClosed(s) PROVE Closed(s)
    <2> SUFFICES ASSUME NEW i \in 0..Len(s), Opens(s, i) PROVE \E j \in Nat : Closes(s, i, j)
      BY DEF Closed
    <2>1. PICK j \in i + 1..Len(s) : s[j] = Close /\ \A h \in Openings(s) : h <= i \/ j <= h
      BY <1>1, <1>3 DEF WellClosed
    <2>2. Closes(s, i, j)  BY <1>1, <2>1 DEF Closes
    <2>3. j \in Nat  BY <1>0, <2>1
    <2>. QED  BY <2>2, <2>3
  <1>4. ASSUME Closed(s) PROVE WellClosed(s)
    <2> SUFFICES ASSUME NEW i \in Openings(s)
                 PROVE  \E j \in i + 1..Len(s) :
                          s[j] = Close /\ \A h \in Openings(s) : h <= i \/ j <= h
      BY DEF WellClosed
    <2>1. PICK j \in Nat : Closes(s, i, j)  BY <1>1, <1>2, <1>4 DEF Closed
    <2>2. j \in i + 1..Len(s) /\ s[j] = Close  BY <2>1 DEF Closes
    <2>3. \A h \in Openings(s) : h <= i \/ j <= h  BY <2>1, <1>1, <1>2 DEF Closes
    <2>. QED  BY <2>2, <2>3
  <1>. QED  BY <1>3, <1>4

(* With every opening closed, a text in which nothing is to be replaced    *)
(* has no marker of the number.                                            *)
LEMMA NoMarks ==
  ASSUME NEW R, Bodies \in SUBSET R, NEW s \in Seq(R), NEW n \in Nat, n < Radix, Closed(s), ~Hit(s, n)
  PROVE  \A x \in 0..Len(s) : ~Marks(s, x, n)
  <1> DEFINE F == {x \in 0..Len(s) : Marks(s, x, n)}
  <1>0. Len(s) \in Nat  OBVIOUS
  <1>1. SUFFICES ASSUME F # {} PROVE FALSE  OBVIOUS
  <1>2. PICK i \in F : \A x \in F : i <= x
    <2>1. F \in SUBSET Nat  BY <1>0
    <2>. QED  BY <1>1, <2>1, LeastOffset
  <1>3. i \in 0..Len(s) /\ Marks(s, i, n) /\ \A x \in 0..Len(s) : Marks(s, x, n) => i <= x
    BY <1>2
  <1> HIDE DEF F
  <1> DEFINE E == {x \in i + 1..Len(s) : s[x] = Close}
  <1>4. E # {}
    <2>1. PICK j \in Nat : Closes(s, i, j)  BY <1>3 DEF Closed, Marks
    <2>. QED  BY <2>1 DEF Closes
  <1>5. PICK j \in E : \A x \in E : j <= x
    <2>1. E \in SUBSET Nat  BY <1>0, <1>3
    <2>. QED  BY <1>4, <2>1, LeastOffset
  <1>6. j \in i + 1..Len(s) /\ s[j] = Close  BY <1>5
  <1>7. \A h \in i + 1..j - 1 : s[h] # Close
    <2> SUFFICES ASSUME NEW h \in i + 1..j - 1, s[h] = Close PROVE FALSE  OBVIOUS
    <2>1. h \in i + 1..Len(s) /\ ~(j <= h)  BY <1>0, <1>3, <1>6
    <2>. QED  BY <1>5, <2>1
  <1>8. FirstHit(s, n, i, j)  BY <1>3, <1>6, <1>7 DEF FirstHit
  <1>9. i \in Nat /\ j \in Nat /\ 0 \in Nat  BY <1>0, <1>3, <1>6
  <1>. QED  BY <1>8, <1>9, HitHere

(* Replacing a marker leaves every opening closed. *)
LEMMA StaysClosed ==
  ASSUME NEW R, Bodies \in SUBSET R, NEW s \in Seq(R), NEW n \in Nat, n < Radix, NEW k \in Nat,
         NEW i \in Nat, NEW j \in Nat, FirstHit(s, n, i, j), Closed(s)
  PROVE  Closed(Put(s, i, j, k))
  <1> DEFINE a == Len(s)  p == Put(s, i, j, k)  d == j - (i + 1)
  <1>0. /\ i \in 0..Len(s) /\ j \in i..Len(s) /\ i + 6 <= j  BY HitHere
  <1>n. /\ a \in Nat /\ i < j /\ j <= a  BY <1>0
  <1>1. PutAt(R, s, i, j, k, p)  BY <1>0, PutIs
  <1>d. d \in Nat /\ d = j - (i + 1) /\ j = i + 1 + d  BY <1>n
  <1> HIDE DEF p, d
  <1>2. /\ p \in Seq(R) /\ Len(p) = i + 1 + (a - j) /\ (\A x \in 1..i : p[x] = s[x])
        /\ p[i + 1] = Body(k) /\ \A x \in 1..a - j : p[i + 1 + x] = s[j + x]
    BY <1>1 DEF PutAt
  <1> HIDE DEF a
  <1>3. Len(p) \in Nat /\ Len(p) + d = a  BY <1>2, <1>n, <1>d
  <1>4. \A x \in i + 2..Len(p) : p[x] = s[x + d] /\ x + d \in 1..a
    <2> TAKE x \in i + 2..Len(p)
    <2> DEFINE y == x - (i + 1)
    <2>1. y \in 1..a - j /\ i + 1 + y = x /\ j + y = x + d  BY <1>2, <1>n, <1>d
    <2>2. x + d \in 1..a  BY <1>3, <1>d, <1>n
    <2> HIDE DEF y
    <2>3. p[i + 1 + y] = s[j + y]  BY <2>1, <1>2
    <2>. QED  BY <2>1, <2>2, <2>3
  <1>b. /\ Body(k) # Token("[") /\ Body(k) # Token("Paste") /\ Body(k) # Space
        /\ Body(k) # Token("#")
    BY TokensDiffer DEF Fresh
  <1>5. \A x \in Nat : x < i /\ Opens(p, x) => Opens(s, x) /\ x + 4 <= i
    <2> SUFFICES ASSUME NEW x \in Nat, x < i, Opens(p, x) PROVE Opens(s, x) /\ x + 4 <= i
      OBVIOUS
    <2>1. /\ p[x + 1] = Token("[") /\ p[x + 2] = Token("Paste") /\ p[x + 3] = Space
          /\ p[x + 4] = Token("#")
      BY DEF Opens
    <2>2. i + 1 # x + 1 /\ i + 1 # x + 2 /\ i + 1 # x + 3 /\ i + 1 # x + 4
      BY ONLY <2>1, <1>2, <1>b
    <2>3. x + 4 <= i  BY <2>2
    <2>4. /\ x + 1 \in 1..i /\ x + 2 \in 1..i /\ x + 3 \in 1..i /\ x + 4 \in 1..i /\ x + 4 <= a
      BY <2>3, <1>n
    <2>5. /\ s[x + 1] = Token("[") /\ s[x + 2] = Token("Paste") /\ s[x + 3] = Space
          /\ s[x + 4] = Token("#")
      BY <2>1, <2>4, <1>2
    <2>. QED  BY <2>3, <2>4, <2>5 DEF Opens, a
  <1>6. ~Opens(p, i)
    <2>1. p[i + 1] # Token("[")  BY <1>2, <1>b
    <2>. QED  BY <2>1 DEF Opens
  <1>7. \A x \in Nat : i < x /\ Opens(p, x) => Opens(s, x + d)
    <2> SUFFICES ASSUME NEW x \in Nat, i < x, Opens(p, x) PROVE Opens(s, x + d)
      OBVIOUS
    <2>1. /\ x + 4 <= Len(p) /\ p[x + 1] = Token("[") /\ p[x + 2] = Token("Paste")
          /\ p[x + 3] = Space /\ p[x + 4] = Token("#")
      BY DEF Opens
    <2>2. /\ x + 1 \in i + 2..Len(p) /\ x + 2 \in i + 2..Len(p) /\ x + 3 \in i + 2..Len(p)
          /\ x + 4 \in i + 2..Len(p) /\ (x + d) + 4 <= a
          /\ (x + d) + 1 = (x + 1) + d /\ (x + d) + 2 = (x + 2) + d
          /\ (x + d) + 3 = (x + 3) + d /\ (x + d) + 4 = (x + 4) + d
      BY <2>1, <1>3, <1>d
    <2>3. /\ s[(x + 1) + d] = Token("[") /\ s[(x + 2) + d] = Token("Paste")
          /\ s[(x + 3) + d] = Space /\ s[(x + 4) + d] = Token("#")
      BY <2>1, <2>2, <1>4
    <2>. QED  BY <2>2, <2>3 DEF Opens, a
  <1>8. SUFFICES ASSUME NEW x \in 0..Len(p), Opens(p, x) PROVE \E y \in Nat : Closes(p, x, y)
    BY DEF Closed, p
  <1>9. x \in Nat /\ x # i  BY <1>3, <1>6, <1>8
  <1>10. CASE x < i
    <2>1. Opens(s, x) /\ x + 4 <= i /\ x \in 0..a  BY <1>5, <1>8, <1>9, <1>10, <1>n
    <2>2. PICK y \in Nat : Closes(s, x, y)  BY <2>1 DEF Closed, a
    <2>3. /\ y \in x + 1..a /\ s[y] = Close /\ \A h \in 0..a : Opens(s, h) => h <= x \/ y <= h
      BY <2>2 DEF Closes, a
    <2>4. Opens(s, i) /\ i \in 0..a  BY <1>n DEF FirstHit, Marks
    <2>5. y <= i
      <3>1. i <= x \/ y <= i  BY <2>3, <2>4
      <3>. QED  BY <3>1, <1>9, <1>10
    <2>6. y \in 1..i /\ y \in x + 1..Len(p) /\ i <= Len(p)  BY <1>2, <1>n, <1>9, <2>3, <2>5
    <2>7. p[y] = Close  BY <1>2, <2>3, <2>6
    <2>8. ASSUME NEW h \in 0..Len(p), Opens(p, h) PROVE h <= x \/ y <= h
      <3>1. h \in Nat  BY <1>3
      <3>2. CASE h < i
        <4>1. Opens(s, h) /\ h \in 0..a  BY <1>5, <1>n, <2>8, <3>1, <3>2
        <4>. QED  BY <2>3, <4>1
      <3>3. CASE h >= i  BY <2>5, <3>1, <3>3
      <3>. QED  BY <3>1, <3>2, <3>3
    <2>9. Closes(p, x, y)  BY <2>6, <2>7, <2>8 DEF Closes
    <2>. QED  BY <2>9
  <1>11. CASE i < x
    <2>1. Opens(s, x + d) /\ x + d \in 0..a  BY <1>3, <1>7, <1>8, <1>9, <1>11, <1>d
    <2>2. PICK z \in Nat : Closes(s, x + d, z)  BY <2>1 DEF Closed, a
    <2>3. /\ z \in (x + d) + 1..a /\ s[z] = Close
          /\ \A h \in 0..a : Opens(s, h) => h <= x + d \/ z <= h
      BY <2>2 DEF Closes, a
    <2> DEFINE y == z - d
    <2>4. y \in Nat /\ y \in x + 1..Len(p) /\ y \in i + 2..Len(p) /\ y + d = z
      BY <2>3, <1>3, <1>9, <1>11, <1>d
    <2> HIDE DEF y
    <2>5. p[y] = Close  BY <1>4, <2>3, <2>4
    <2>6. ASSUME NEW h \in 0..Len(p), Opens(p, h) PROVE h <= x \/ y <= h
      <3>1. h \in Nat  BY <1>3
      <3>2. CASE h <= i  BY <1>9, <1>11, <3>1, <3>2
      <3>3. CASE i < h
        <4>1. Opens(s, h + d) /\ h + d \in 0..a  BY <1>3, <1>7, <1>d, <2>6, <3>1, <3>3
        <4>2. h + d <= x + d \/ z <= h + d  BY <2>3, <4>1
        <4>. QED  BY <4>2, <2>4, <1>d, <1>9, <3>1
      <3>. QED  BY <3>1, <3>2, <3>3
    <2>7. Closes(p, x, y)  BY <2>4, <2>5, <2>6 DEF Closes
    <2>. QED  BY <2>4, <2>7
  <1>. QED  BY <1>9, <1>10, <1>11

(* A text whose openings are closed is expanded as if it stood alone. *)
LEMMA AllInFront ==
  ASSUME NEW R, Bodies \in SUBSET R, NEW u \in Seq(R), NEW v \in Seq(R), NEW n \in Nat, n < Radix,
         NEW k \in Nat, Closed(u), Loose(v)
  PROVE  /\ AllReplaced(u \o v, n, k) = AllReplaced(u, n, k) \o AllReplaced(v, n, k)
         /\ Closed(AllReplaced(u, n, k))
  <1> DEFINE Apart(z) == /\ AllReplaced(z \o v, n, k) = AllReplaced(z, n, k) \o AllReplaced(v, n, k)
                         /\ Closed(AllReplaced(z, n, k))
             T == {m \in Nat : \A z \in Seq(R) : Len(z) < m /\ Closed(z) => Apart(z)}
             N == Len(u) + 1
  <1>0. N \in Nat /\ Len(u) < N /\ N \in 0..N  OBVIOUS
  <1>1. 0 \in T
    <2>1. \A z \in Seq(R) : ~(Len(z) < 0)  OBVIOUS
    <2> HIDE DEF Apart
    <2>. QED  BY <2>1
  <1>2. ASSUME NEW m \in 1..N, m - 1 \in T PROVE m \in T
    <2>1. SUFFICES ASSUME NEW z \in Seq(R), Len(z) < m, Closed(z) PROVE Apart(z)
      <3>1. m \in Nat  BY <1>0
      <3> HIDE DEF Apart
      <3>. QED  BY <2>1, <3>1
    <2> DEFINE w == z \o v  t == Replaced(z, n, k)
    <2>2. Joins(R, z, v, w)  BY Joined, Zenon
    <2>3. w \in Seq(R) /\ Len(z) \in Nat  BY <2>2 DEF Joins
    <2>4. CASE Hit(z, n)
      <3>1. PICK i, j \in Nat : FirstHit(z, n, i, j)  BY <2>4, HitThere
      <3>2. t = Put(z, i, j, k)  BY <3>1, HitHere
      <3>a. InFront(z, v, n, k, i, j)  BY <3>1, FrontHit
      <3>b. FirstHit(w, n, i, j)  BY <3>a, Zenon DEF InFront
      <3>3. Put(w, i, j, k) = Put(z, i, j, k) \o v  BY <3>a, Zenon DEF InFront
      <3>4. t \in Seq(R) /\ Len(t) + 5 <= Len(z)  BY <2>4, Shrinks
      <3>5. Closed(t)  BY <2>1, <3>1, <3>2, StaysClosed
      <3>6. AllReplaced(z, n, k) = AllReplaced(t, n, k)  BY <2>4, OneFirst
      <3> HIDE DEF w
      <3>7. Hit(w, n) /\ Replaced(w, n, k) = Put(w, i, j, k)  BY <2>3, <3>b, HitHere
      <3>8. AllReplaced(w, n, k) = AllReplaced(Replaced(w, n, k), n, k)
        BY <2>3, <3>7, OneFirst
      <3> HIDE DEF t
      <3>9. Replaced(w, n, k) = t \o v  BY <3>2, <3>3, <3>7
      <3>10. Len(t) < m - 1
        <4>1. Len(t) \in Nat  BY <3>4
        <4>. QED  BY <2>1, <2>3, <3>4, <4>1, <1>0
      <3>11. Apart(t)
        <4> HIDE DEF Apart
        <4>. QED  BY <1>2, <3>4, <3>5, <3>10
      <3>. QED  BY <3>6, <3>8, <3>9, <3>11 DEF w
    <2>5. CASE ~Hit(z, n)
      <3>1. AllReplaced(z, n, k) = z  BY <2>5, OneFirst
      <3>2. \A x \in 0..Len(z) : ~Marks(z, x, n)  BY <2>1, <2>5, NoMarks
      <3>3. Unmarked(z, w, n)
        <4> SUFFICES ASSUME NEW x \in 0..Len(z) - 1 PROVE ~Marks(w, x, n)  BY DEF Unmarked
        <4>1. x \in Nat /\ x < Len(z) /\ x \in 0..Len(z)  BY <2>3
        <4>2. ~Marks(z, x, n)  BY <3>2, <4>1
        <4> HIDE DEF w
        <4>. QED  BY <2>2, <4>1, <4>2, NoStraddle
      <3>4. AllReplaced(w, n, k) = z \o AllReplaced(v, n, k)
        <4>1. Behind(z, v, n, k)  BY <3>3, AllBehind, Zenon
        <4>. QED  BY <4>1, Zenon DEF Behind
      <3>. QED  BY <2>1, <3>1, <3>4
    <2>. QED  BY <2>4, <2>5
  <1> HIDE DEF T, N, Apart
  <1>3. N \in T  BY <1>0, <1>1, <1>2, UpTo
  <1>4. Apart(u)  BY <1>0, <1>3 DEF T
  <1>. QED  BY <1>4 DEF Apart

(* A marker, token by token, and what takes its place. *)
MarkerAt(n, k, m) ==
  /\ m \in Seq(Tokens) /\ Len(m) = 7 /\ Opens(m, 0) /\ m[5] = Digit(n) /\ m[6] = Size(k)
  /\ m[7] = Close

LEMMA MarkerIs ==
  ASSUME NEW n \in Nat, n < Radix, NEW k \in Nat
  PROVE  MarkerAt(n, k, Marker(n, k))
  <1> DEFINE p == Opening \o Itoa(n)  t == <<Size(k), Close>>  w == p \o t
  <1>1. DOMAIN p = 1..5 /\ (\A q \in 1..4 : p[q] = Opening[q]) /\ p[5] = Digit(n)  BY PatternIs
  <1>2. p \in Seq(Tokens) /\ Len(p) = Len(Opening) + Len(Itoa(n))
    <2>1. Itoa(n) \in Seq(Tokens)  BY ItoaFits
    <2>2. Opening \in Seq(Tokens)  BY DEF Opening, Tokens, Plain
    <2>3. Joins(Tokens, Opening, Itoa(n), p)  BY <2>1, <2>2, Joined, Zenon
    <2>. QED  BY <2>3, Zenon DEF Joins
  <1>3. t \in Seq(Tokens) /\ Len(t) = 2 /\ t[1] = Size(k) /\ t[2] = Close
    <2>1. Size(k) \in Tokens /\ Close \in Tokens  BY DEF Tokens, Plain
    <2>. QED  BY <2>1
  <1>4. Marker(n, k) = w  BY Zenon DEF Marker
  <1> HIDE DEF p, t
  <1>5. Joins(Tokens, p, t, w)  BY <1>2, <1>3, Joined, Zenon
  <1> HIDE DEF w
  <1>6. Len(p) = 5
    <2>1. Len(Itoa(n)) = 1
      <3>1. Itoa(n) = << Digit(n) >>  BY PatternIs
      <3>2. Digit(n) \in Tokens  BY DEF Tokens
      <3>. QED  BY <3>1, <3>2, OneToken
    <2>. QED  BY <1>2, <2>1, OpeningIs
  <1>7. /\ w \in Seq(Tokens) /\ Len(w) = 7 /\ (\A i \in 1..5 : w[i] = p[i])
        /\ \A i \in 1..2 : w[5 + i] = t[i]
    BY <1>3, <1>5, <1>6 DEF Joins
  <1>8. /\ w[1] = p[1] /\ w[2] = p[2] /\ w[3] = p[3] /\ w[4] = p[4] /\ w[5] = p[5]
        /\ w[5 + 1] = t[1] /\ w[5 + 2] = t[2]
    <2>1. /\ 1 \in 1..5 /\ 2 \in 1..5 /\ 3 \in 1..5 /\ 4 \in 1..5 /\ 5 \in 1..5
          /\ 1 \in 1..2 /\ 2 \in 1..2
      OBVIOUS
    <2>. QED  BY <1>7, <2>1
  <1>9. /\ p[1] = Token("[") /\ p[2] = Token("Paste") /\ p[3] = Space /\ p[4] = Token("#")
    <2>1. 1 \in 1..4 /\ 2 \in 1..4 /\ 3 \in 1..4 /\ 4 \in 1..4  OBVIOUS
    <2>. QED  BY <1>1, <2>1, OpeningIs
  <1>10. Opens(w, 0)  BY <1>7, <1>8, <1>9 DEF Opens
  <1>11. w[6] = Size(k) /\ w[7] = Close  BY <1>3, <1>8
  <1>. QED  BY <1>1, <1>4, <1>7, <1>8, <1>10, <1>11 DEF MarkerAt

BodyAt(k, m) == m \in Seq(Tokens) /\ Len(m) = 1 /\ m[1] = Body(k)

LEMMA BodyIs ==
  ASSUME NEW k \in Nat
  PROVE  BodyAt(k, << Body(k) >>)
  <1>1. Body(k) \in Tokens  BY DEF Tokens, Bodies
  <1>. QED  BY <1>1, OneToken DEF BodyAt

(* Neither a text that was put in nor another number's marker is touched. *)
LEMMA BodyStays ==
  ASSUME NEW k \in Nat, NEW m, BodyAt(k, m), NEW v \in Seq(Tokens), NEW n \in Nat
  PROVE  Unmarked(m, m \o v, n) /\ Loose(m \o v)
  <1> DEFINE w == m \o v
  <1>1. m \in Seq(Tokens) /\ Len(m) = 1 /\ m[1] = Body(k)  BY DEF BodyAt
  <1>2. Joins(Tokens, m, v, w)  BY <1>1, Joined, Zenon
  <1> HIDE DEF w
  <1>3. w[1] = Body(k)
    <2>1. 1 \in 1..Len(m)  BY <1>1
    <2>. QED  BY <1>1, <1>2, <2>1 DEF Joins
  <1>4. Fresh(Body(k)) /\ Body(k) # Token("[")  BY TokensDiffer
  <1>5. Loose(w)  BY <1>3, <1>4 DEF Loose
  <1>6. Unmarked(m, w, n)
    <2> SUFFICES ASSUME NEW x \in 0..Len(m) - 1, Marks(w, x, n) PROVE FALSE  BY DEF Unmarked
    <2>1. x = 0  BY <1>1
    <2>2. w[0 + 1] = Token("[")  BY <2>1 DEF Marks, Opens
    <2>. QED  BY <2>2, <1>3, <1>4
  <1>. QED  BY <1>5, <1>6 DEF w

LEMMA MarkerStays ==
  ASSUME NEW N \in Nat, NEW k \in Nat, NEW m, MarkerAt(N, k, m), NEW v \in Seq(Tokens),
         NEW n \in Nat
  PROVE  /\ Loose(m \o v)
         /\ n # N => Unmarked(m, m \o v, n)
         /\ Marks(m \o v, 0, N)
  <1> DEFINE w == m \o v
  <1>1. /\ m \in Seq(Tokens) /\ Len(m) = 7 /\ m[1] = Token("[") /\ m[2] = Token("Paste")
        /\ m[3] = Space /\ m[4] = Token("#") /\ m[5] = Digit(N) /\ m[6] = Size(k) /\ m[7] = Close
    BY DEF MarkerAt, Opens
  <1>2. Joins(Tokens, m, v, w)  BY <1>1, Joined, Zenon
  <1> HIDE DEF w
  <1>3. \A x \in 1..7 : w[x] = m[x]  BY <1>1, <1>2 DEF Joins
  <1>4. /\ w[1] = Token("[") /\ w[2] = Token("Paste") /\ w[3] = Space /\ w[4] = Token("#")
        /\ w[5] = Digit(N) /\ w[6] = Size(k) /\ w[7] = Close
    <2>1. /\ 1 \in 1..7 /\ 2 \in 1..7 /\ 3 \in 1..7 /\ 4 \in 1..7 /\ 5 \in 1..7 /\ 6 \in 1..7
          /\ 7 \in 1..7
      OBVIOUS
    <2>. QED  BY <1>1, <1>3, <2>1
  <1>5. Len(w) = 7 + Len(v) /\ Len(v) \in Nat  BY <1>1, <1>2 DEF Joins
  <1>6. Marks(w, 0, N)  BY <1>4, <1>5 DEF Marks, Opens
  <1>7. Loose(w)  BY <1>4, TokensDiffer DEF Loose
  <1>8. ASSUME n # N PROVE Unmarked(m, w, n)
    <2> SUFFICES ASSUME NEW x \in 0..Len(m) - 1, Marks(w, x, n) PROVE FALSE  BY DEF Unmarked
    <2>1. x = 0 \/ x = 1 \/ x = 2 \/ x = 3 \/ x = 4 \/ x = 5 \/ x = 6  BY <1>1
    <2>2. w[x + 1] = Token("[") /\ w[x + 5] = Digit(n)  BY DEF Marks, Opens
    <2>3. /\ Token("[") \notin {Token("Paste"), Space, Token("#"), Digit(N), Size(k), Close}
          /\ Digit(n) = Digit(N) => n = N
      BY TokensDiffer
    <2>4. CASE x = 0
      <3>1. w[0 + 5] = Digit(n) /\ 0 + 5 = 5  BY <2>2, <2>4
      <3>. QED  BY <3>1, <1>4, <1>8, <2>3
    <2>5. CASE x # 0
      <3>1. x + 1 \in {2, 3, 4, 5, 6, 7}  BY <2>1, <2>5
      <3>2. w[x + 1] \in {Token("Paste"), Space, Token("#"), Digit(N), Size(k), Close}
        BY <3>1, <1>4
      <3>. QED  BY <3>2, <2>2, <2>3
    <2>. QED  BY <2>4, <2>5
  <1>. QED  BY <1>6, <1>7, <1>8 DEF w

(* A marker of the number is replaced whole. *)
LEMMA MarkerGoes ==
  ASSUME NEW n \in Nat, n < Radix, NEW k \in Nat, NEW v \in Seq(Tokens)
  PROVE  AllReplaced(Marker(n, k) \o v, n, k) = << Body(k) >> \o AllReplaced(v, n, k)
  <1> DEFINE m == Marker(n, k)  w == m \o v  b == << Body(k) >>  q == b \o v  p == Put(w, 0, 7, k)
  <1>a. Bodies \in SUBSET Tokens  BY DEF Tokens
  <1>b. BodyAt(k, b)  BY BodyIs
  <1>1. MarkerAt(n, k, m)  BY MarkerIs
  <1> HIDE DEF m, b
  <1>2. /\ m \in Seq(Tokens) /\ Len(m) = 7 /\ m[1] = Token("[") /\ m[2] = Token("Paste")
        /\ m[3] = Space /\ m[4] = Token("#") /\ m[5] = Digit(n) /\ m[6] = Size(k) /\ m[7] = Close
    BY <1>1 DEF MarkerAt, Opens
  <1>3. Joins(Tokens, m, v, w)  BY <1>2, Joined, Zenon
  <1>4. Marks(w, 0, n)  BY <1>1, MarkerStays
  <1>5. b \in Seq(Tokens) /\ Len(b) = 1 /\ b[1] = Body(k)  BY <1>b DEF BodyAt
  <1>6. Joins(Tokens, b, v, q)  BY <1>5, Joined, Zenon
  <1>7. AllReplaced(q, n, k) = b \o AllReplaced(v, n, k)
    <2>1. Unmarked(b, q, n)  BY <1>b, BodyStays
    <2>2. Behind(b, v, n, k)  BY <2>1, <1>a, <1>5, AllBehind, Zenon
    <2>. QED  BY <2>2, Zenon DEF Behind
  <1> HIDE DEF w, q
  <1>8. /\ w \in Seq(Tokens) /\ Len(w) = 7 + Len(v) /\ Len(v) \in Nat
        /\ (\A x \in 1..7 : w[x] = m[x]) /\ \A x \in 1..Len(v) : w[7 + x] = v[x]
    BY <1>2, <1>3 DEF Joins
  <1>9. FirstHit(w, n, 0, 7)
    <2>1. 7 \in 0 + 1..Len(w) /\ 0 \in 0..Len(w) /\ \A x \in 0..Len(w) : 0 <= x  BY <1>8
    <2>2. w[7] = Close
      <3>1. 7 \in 1..7  OBVIOUS
      <3>. QED  BY <3>1, <1>2, <1>8
    <2>3. \A h \in 0 + 1..7 - 1 : w[h] # Close
      <3> TAKE h \in 0 + 1..7 - 1
      <3>1. h \in 1..7 /\ (h = 1 \/ h = 2 \/ h = 3 \/ h = 4 \/ h = 5 \/ h = 6)  OBVIOUS
      <3>2. w[h] = m[h]  BY <3>1, <1>8
      <3>3. m[h] \in {Token("["), Token("Paste"), Space, Token("#"), Digit(n), Size(k)}
        BY <3>1, <1>2
      <3>4. Close \notin {Token("["), Token("Paste"), Space, Token("#"), Digit(n), Size(k)}
        BY TokensDiffer
      <3>. QED  BY <3>2, <3>3, <3>4
    <2>. QED  BY <1>4, <2>1, <2>2, <2>3 DEF FirstHit
  <1>10. Hit(w, n) /\ Replaced(w, n, k) = p
    <2>1. 0 \in Nat /\ 7 \in Nat  OBVIOUS
    <2>. QED  BY <1>a, <1>8, <1>9, <2>1, HitHere
  <1>11. AllReplaced(w, n, k) = AllReplaced(p, n, k)  BY <1>a, <1>8, <1>10, OneFirst
  <1>12. p = q
    <2>1. PutAt(Tokens, w, 0, 7, k, p)
      <3>1. 0 \in 0..Len(w) /\ 7 \in 0..Len(w)  BY <1>8
      <3>. QED  BY <3>1, <1>a, <1>8, PutIs
    <2> HIDE DEF p
    <2>2. /\ p \in Seq(Tokens) /\ Len(p) = 1 + Len(v) /\ p[1] = Body(k)
          /\ \A x \in 1..Len(v) : p[1 + x] = w[7 + x]
      <3>1. /\ p \in Seq(Tokens) /\ Len(p) = 0 + 1 + (Len(w) - 7) /\ p[0 + 1] = Body(k)
            /\ \A x \in 1..Len(w) - 7 : p[0 + 1 + x] = w[7 + x]
        BY <2>1 DEF PutAt
      <3>2. Len(w) - 7 = Len(v) /\ 0 + 1 = 1  BY <1>8
      <3>. QED  BY <3>1, <3>2
    <2>3. /\ q \in Seq(Tokens) /\ Len(q) = 1 + Len(v) /\ q[1] = Body(k)
          /\ \A x \in 1..Len(v) : q[1 + x] = v[x]
      <3>1. 1 \in 1..1  OBVIOUS
      <3>. QED  BY <3>1, <1>5, <1>6 DEF Joins
    <2>4. \A x \in 1..1 + Len(v) : p[x] = q[x]
      <3> TAKE x \in 1..1 + Len(v)
      <3>1. CASE x = 1  BY <3>1, <2>2, <2>3
      <3>2. CASE x # 1
        <4> DEFINE y == x - 1
        <4>1. y \in 1..Len(v) /\ 1 + y = x  BY <3>2, <1>8
        <4> HIDE DEF y
        <4>. QED  BY <4>1, <2>2, <2>3, <1>8
      <3>. QED  BY <3>1, <3>2
    <2>. QED  BY <2>2, <2>3, <2>4, SeqEqual
  <1>. QED  BY <1>7, <1>11, <1>12 DEF w, b, m

(* One round of replacing, around a text put in and around a marker. *)
Around(A, m, p, B, n, k) ==
  /\ AllReplaced(A \o (m \o B), n, k) = AllReplaced(A, n, k) \o (p \o AllReplaced(B, n, k))
  /\ Closed(AllReplaced(A, n, k))

LEMMA BodyRound ==
  ASSUME NEW A \in Seq(Tokens), NEW B \in Seq(Tokens), Closed(A), NEW k \in Nat,
         NEW n \in Nat, n < Radix, NEW kn \in Nat, NEW m, BodyAt(k, m)
  PROVE  Around(A, m, m, B, n, kn)
  <1> DEFINE v == m \o B
  <1>a. Bodies \in SUBSET Tokens  BY DEF Tokens
  <1>1. m \in Seq(Tokens)  BY DEF BodyAt
  <1>2. v \in Seq(Tokens)
    <2>1. Joins(Tokens, m, B, v)  BY <1>1, Joined, Zenon
    <2>. QED  BY <2>1, Zenon DEF Joins
  <1>3. Unmarked(m, v, n) /\ Loose(v)  BY BodyStays, Zenon
  <1>4. AllReplaced(v, n, kn) = m \o AllReplaced(B, n, kn)
    <2>1. Behind(m, B, n, kn)  BY <1>a, <1>1, <1>3, AllBehind, Zenon
    <2>. QED  BY <2>1, Zenon DEF Behind
  <1> HIDE DEF v
  <1>5. /\ AllReplaced(A \o v, n, kn) = AllReplaced(A, n, kn) \o AllReplaced(v, n, kn)
        /\ Closed(AllReplaced(A, n, kn))
    BY <1>a, <1>2, <1>3, AllInFront
  <1>. QED  BY <1>4, <1>5, Zenon DEF v, Around

LEMMA MarkerRound ==
  ASSUME NEW A \in Seq(Tokens), NEW B \in Seq(Tokens), Closed(A), NEW k \in Nat,
         NEW N \in Nat, N < Radix, NEW n \in Nat, n < Radix, NEW kn \in Nat, n = N => kn = k,
         NEW b, b = << Body(k) >>
  PROVE  Around(A, Marker(N, k), IF n = N THEN b ELSE Marker(N, k), B, n, kn)
  <1> DEFINE m == Marker(N, k)  v == m \o B  c == IF n = N THEN b ELSE m
             z == c \o AllReplaced(B, n, kn)
  <1>a. Bodies \in SUBSET Tokens  BY DEF Tokens
  <1>m. MarkerAt(N, k, m)  BY MarkerIs
  <1>1. m \in Seq(Tokens)  BY <1>m DEF MarkerAt
  <1>2. v \in Seq(Tokens)
    <2>1. Joins(Tokens, m, B, v)  BY <1>1, Joined, Zenon
    <2>. QED  BY <2>1, Zenon DEF Joins
  <1>3. (n # N => Unmarked(m, v, n)) /\ Loose(v)  BY <1>m, MarkerStays, Zenon
  <1>4. CASE n # N
    <2>1. AllReplaced(v, n, kn) = m \o AllReplaced(B, n, kn)
      <3>1. Behind(m, B, n, kn)  BY <1>a, <1>1, <1>3, <1>4, AllBehind, Zenon
      <3>. QED  BY <3>1, Zenon DEF Behind
    <2>. QED
      <3>1. AllReplaced(v, n, kn) = z  BY <1>4, <2>1
      <3> HIDE DEF v, z
      <3>2. /\ AllReplaced(A \o v, n, kn) = AllReplaced(A, n, kn) \o AllReplaced(v, n, kn)
            /\ Closed(AllReplaced(A, n, kn))
        BY <1>a, <1>2, <1>3, AllInFront
      <3>. QED  BY <3>1, <3>2, Zenon DEF v, z, Around
  <1>5. CASE n = N
    <2>1. AllReplaced(v, N, k) = << Body(k) >> \o AllReplaced(B, N, k)  BY MarkerGoes, Zenon
    <2>2. AllReplaced(v, n, kn) = b \o AllReplaced(B, n, kn)  BY <1>5, <2>1
    <2>. QED
      <3>1. AllReplaced(v, n, kn) = z  BY <1>5, <2>2
      <3> HIDE DEF v, z
      <3>2. /\ AllReplaced(A \o v, n, kn) = AllReplaced(A, n, kn) \o AllReplaced(v, n, kn)
            /\ Closed(AllReplaced(A, n, kn))
        BY <1>a, <1>2, <1>3, AllInFront
      <3>. QED  BY <3>1, <3>2, Zenon DEF v, z, Around
  <1>. QED  BY <1>4, <1>5

(* All the rounds: whatever their order, one of them is the marker's. *)
SentAround(A, n, k, B, kept, order) ==
  Expanded(A \o (Marker(n, k) \o B), kept, order)
    = Expanded(A, kept, order) \o (<< Body(k) >> \o Expanded(B, kept, order))

LEMMA MarkerSent ==
  ASSUME NEW A \in Seq(Tokens), NEW B \in Seq(Tokens), Closed(A), NEW kept \in Seq(Nat),
         Len(kept) < Radix, NEW order \in Orders(kept), NEW N \in 1..Len(kept), NEW k \in Nat,
         kept[N] = k
  PROVE  SentAround(A, N, k, B, kept, order)
  <1> DEFINE m == Marker(N, k)  b == << Body(k) >>  v == m \o B  w == A \o v  K == Len(kept)
  <1>a. Bodies \in SUBSET Tokens  BY DEF Tokens
  <1>0. K \in Nat /\ N \in Nat /\ N < Radix /\ Radix \in Nat
    BY EditorAssumption DEF EditorAssumption
  <1>m. m \in Seq(Tokens)  BY <1>0, MarkerFits
  <1>b. BodyAt(k, b)  BY BodyIs
  <1>1. v \in Seq(Tokens)
    <2>1. Joins(Tokens, m, B, v)  BY <1>m, Joined, Zenon
    <2>. QED  BY <2>1, Zenon DEF Joins
  <1> HIDE DEF v
  <1>2. w \in Seq(Tokens)
    <2>1. Joins(Tokens, A, v, w)  BY <1>1, Joined, Zenon
    <2>. QED  BY <2>1, Zenon DEF Joins
  <1> HIDE DEF w
  <1>3. PICK f : Visits(Tokens, w, kept, order, f)  BY <1>a, <1>2, ExpandedIs, Zenon
  <1>4. PICK g : Visits(Tokens, A, kept, order, g)  BY <1>a, ExpandedIs, Zenon
  <1>5. PICK h : Visits(Tokens, B, kept, order, h)  BY <1>a, ExpandedIs, Zenon
  <1>6. /\ f \in [0..K -> Seq(Tokens)] /\ f[0] = w /\ Expanded(w, kept, order) = f[K]
        /\ \A r \in 1..K : f[r] = AllReplaced(f[r - 1], order[r], kept[order[r]])
    BY <1>3 DEF Visits
  <1>7. /\ g \in [0..K -> Seq(Tokens)] /\ g[0] = A /\ Expanded(A, kept, order) = g[K]
        /\ \A r \in 1..K : g[r] = AllReplaced(g[r - 1], order[r], kept[order[r]])
    BY <1>4 DEF Visits
  <1>8. /\ h \in [0..K -> Seq(Tokens)] /\ h[0] = B /\ Expanded(B, kept, order) = h[K]
        /\ \A r \in 1..K : h[r] = AllReplaced(h[r - 1], order[r], kept[order[r]])
    BY <1>5 DEF Visits
  <1>9. /\ \A r \in 1..K : order[r] \in 1..K /\ order[r] \in Nat /\ kept[order[r]] \in Nat
        /\ \E r \in 1..K : order[r] = N
    BY OrdersFit
  <1>10. K < Radix /\ kept[N] = k  OBVIOUS
  <1> HIDE DEF m, b, K
  <1> DEFINE Gone(r) == \E q \in 1..r : order[q] = N
             Now(r) == IF Gone(r) THEN b ELSE m
             T == {r \in 0..K : Closed(g[r]) /\ f[r] = g[r] \o (Now(r) \o h[r])}
  <1>11. 0 \in T
    <2>1. ~Gone(0)  OBVIOUS
    <2>2. Now(0) = m  BY <2>1
    <2> HIDE DEF Now
    <2>3. f[0] = A \o v /\ 0 \in 0..K  BY <1>6, <1>0 DEF w
    <2>. QED  BY <2>2, <2>3, <1>7, <1>8 DEF v
  <1>12. ASSUME NEW r \in 1..K, r - 1 \in T PROVE r \in T
    <2> DEFINE n == order[r]  kn == kept[order[r]]  x == g[r - 1]  y == h[r - 1]
    <2>1. /\ n \in Nat /\ kn \in Nat /\ n < Radix /\ (n = N => kn = k)
      <3>1. n \in 1..K  BY <1>9
      <3>. QED  BY <3>1, <1>0, <1>9, <1>10
    <2>2. r - 1 \in 0..K /\ r \in 0..K  BY <1>0
    <2>3. /\ x \in Seq(Tokens) /\ y \in Seq(Tokens) /\ Closed(x)
          /\ f[r - 1] = x \o (Now(r - 1) \o y)
      BY <1>7, <1>8, <1>12, <2>2
    <2>4. /\ f[r] = AllReplaced(f[r - 1], n, kn) /\ g[r] = AllReplaced(x, n, kn)
          /\ h[r] = AllReplaced(y, n, kn)
      BY <1>6, <1>7, <1>8
    <2>5. Gone(r) <=> Gone(r - 1) \/ n = N
      <3>1. \A q \in 1..r : q = r \/ q \in 1..r - 1  BY <1>0
      <3>2. r \in 1..r /\ \A q \in 1..r - 1 : q \in 1..r  BY <1>0
      <3>. QED  BY <3>1, <3>2
    <2> HIDE DEF n, kn, x, y, Gone, T
    <2>6. CASE Gone(r - 1)
      <3>1. Now(r - 1) = b /\ Now(r) = b  BY <2>5, <2>6
      <3> HIDE DEF Now
      <3>2. f[r] = AllReplaced(x \o (b \o y), n, kn)  BY <2>3, <2>4, <3>1
      <3>3. /\ AllReplaced(x \o (b \o y), n, kn) = AllReplaced(x, n, kn) \o (b \o AllReplaced(y, n, kn))
            /\ Closed(AllReplaced(x, n, kn))
        <4>1. Around(x, b, b, y, n, kn)  BY <1>b, <2>1, <2>3, BodyRound
        <4>. QED  BY <4>1, Zenon DEF Around
      <3>4. f[r] = g[r] \o (b \o h[r])  BY ONLY <2>4, <3>2, <3>3
      <3>5. Closed(g[r])  BY <2>4, <3>3
      <3>. QED  BY <2>2, <3>1, <3>4, <3>5 DEF T
    <2>7. CASE ~Gone(r - 1)
      <3>1. Now(r - 1) = m /\ Now(r) = IF n = N THEN b ELSE m  BY <2>5, <2>7
      <3> HIDE DEF Now
      <3>2. f[r] = AllReplaced(x \o (m \o y), n, kn)  BY <2>3, <2>4, <3>1
      <3>3. /\ AllReplaced(x \o (m \o y), n, kn)
                 = AllReplaced(x, n, kn) \o ((IF n = N THEN b ELSE m) \o AllReplaced(y, n, kn))
            /\ Closed(AllReplaced(x, n, kn))
        <4>1. Around(x, Marker(N, k), IF n = N THEN b ELSE Marker(N, k), y, n, kn)
          <5>1. b = << Body(k) >>  BY DEF b
          <5>. QED  BY <5>1, <1>0, <2>1, <2>3, MarkerRound
        <4>. QED  BY <4>1, Zenon DEF Around, m
      <3>4. f[r] = g[r] \o (Now(r) \o h[r])  BY ONLY <2>4, <3>1, <3>2, <3>3
      <3>5. Closed(g[r])  BY <2>4, <3>3
      <3>. QED  BY <2>2, <3>4, <3>5 DEF T
    <2>. QED  BY <2>6, <2>7
  <1> HIDE DEF T
  <1>13. K \in T
    <2>1. \A r \in 0..K : r \in T  BY <1>0, <1>11, <1>12, UpTo
    <2>. QED  BY <2>1, <1>0
  <1>14. Now(K) = b  BY <1>9
  <1> HIDE DEF Now
  <1>15. f[K] = g[K] \o (b \o h[K])  BY <1>13, <1>14 DEF T
  <1>16. Expanded(w, kept, order) = Expanded(A, kept, order) \o (b \o Expanded(B, kept, order))
    BY ONLY <1>6, <1>7, <1>8, <1>15
  <1>. QED  BY <1>16, Zenon DEF w, v, m, b, SentAround

(* A prompt joins the history within its limit and touches no paste. *)
LEMMA AddToHistoryKeeps ==
  ASSUME NEW R, NEW e \in EditorType(R), NEW s \in Seq(R)
  PROVE  LET f == AddToHistory(e, s) IN f \in EditorType(R) /\ f.pastes = e.pastes
  <1> DEFINE t    == Trim(s)
             p    == <<t>>
             all  == p \o e.history
             kept == IF Len(all) > MaxHistory THEN Front(all) ELSE all
             f    == [e EXCEPT !.history = kept]
  <1>0. /\ e.history \in Seq(Seq(R)) /\ Len(e.history) \in Nat /\ e.index \in 0..Len(e.history)
        /\ Len(e.history) <= MaxHistory /\ MaxHistory \in Nat \ {0}
    BY EditorFacts
  <1>1. t \in Seq(R)  BY TrimFits
  <1>2. AddToHistory(e, s) = e \/ AddToHistory(e, s) = f  BY DEF AddToHistory
  <1> HIDE DEF t
  <1>3. p \in Seq(Seq(R)) /\ Len(p) = 1  BY <1>1, OneToken
  <1> HIDE DEF p
  <1>4. all \in Seq(Seq(R)) /\ Len(all) = 1 + Len(e.history)
    <2>1. all \in Seq(Seq(R)) /\ Len(all) = Len(p) + Len(e.history)  BY <1>0, <1>3, ConcatProperties
    <2>. QED  BY <2>1, <1>3
  <1> HIDE DEF all
  <1>5. all # <<>>  BY <1>0, <1>4, EmptySeq
  <1>6. Front(all) \in Seq(Seq(R)) /\ Len(Front(all)) = Len(all) - 1  BY <1>4, <1>5, RingParts
  <1>7. kept \in Seq(Seq(R)) /\ Len(kept) <= MaxHistory /\ e.index <= Len(kept)
    BY <1>0, <1>4, <1>6
  <1> HIDE DEF kept
  <1>8. f \in EditorType(R) /\ f.pastes = e.pastes  BY <1>7 DEF EditorType
  <1>. QED  BY <1>2, <1>8

(* A submitted prompt clears the text; an empty one changes nothing. *)
LEMMA SubmittedKeeps ==
  ASSUME NEW R, NEW e \in EditorType(R), NEW s \in Seq(R)
  PROVE  /\ Submitted(e, s) \in EditorType(R) /\ Submitted(e, s).pastes = e.pastes
         /\ s = <<>> => Submitted(e, s) = e
         /\ s # <<>> => Submitted(e, s).last = "none" /\ Loaded(Submitted(e, s))
  <1>1. CASE s = <<>>  BY <1>1 DEF Submitted
  <1>2. CASE s # <<>>
    <2> DEFINE g == AddToHistory(e, s)
    <2>1. g \in EditorType(R) /\ g.pastes = e.pastes  BY AddToHistoryKeeps
    <2>2. Submitted(e, s) = SetText(g, <<>>)  BY <1>2 DEF Submitted
    <2> HIDE DEF g
    <2>3. <<>> \in Seq(R)  BY EmptySeq
    <2> DEFINE f == SetText(g, <<>>)
    <2>4. Plainly(R, g, f) /\ Loaded(f) /\ f.pastes = g.pastes  BY <2>1, <2>3, SetTextKeeps
    <2>5. f.last = "none"
      <3> DEFINE r == Reset(g)  h == [r EXCEPT !.scratch = <<>>]
      <3>1. r \in EditorType(R) /\ r.last = "none"  BY <2>1, ResetKeeps
      <3> HIDE DEF r
      <3>2. h \in EditorType(R) /\ h.last = "none"  BY <3>1, <2>3 DEF EditorType
      <3> HIDE DEF h
      <3>3. f = Load(h, <<>>, Len(<<>>))  BY DEF SetText, h, r
      <3>4. Load(h, <<>>, Len(<<>>)).last = h.last  BY <3>2 DEF Load, EditorType
      <3>. QED  BY <3>2, <3>3, <3>4
    <2> HIDE DEF f
    <2>6. Submitted(e, s) = f  BY <2>2 DEF f
    <2>7. f \in EditorType(R)  BY <2>4 DEF Plainly
    <2>. QED  BY <1>2, <2>1, <2>4, <2>5, <2>6, <2>7
  <1>. QED  BY <1>1, <1>2

(* Submit clears the text, the run and the pastes. *)
LEMMA SubmitKeeps ==
  ASSUME NEW R, Bodies \in SUBSET R, NEW e \in EditorType(R), NEW order \in Orders(e.pastes)
  PROVE  LET f == Submit(e, order)
         IN  f \in EditorType(R) /\ f.last = "none" /\ Loaded(f) /\ f.pastes = <<>>
  <1> DEFINE h == Reset(e)
             l == Load(h, <<>>, 0)
             g == [l EXCEPT !.scratch = <<>>, !.pastes = <<>>]
             s == Trim(Expanded(e.text, e.pastes, order))
             f == Submitted(g, s)
  <1>1. s \in Seq(R)  BY ExpandedFits, TrimFits
  <1>2. h \in EditorType(R) /\ h.last = "none"  BY ResetKeeps
  <1> HIDE DEF h
  <1>3. <<>> \in Seq(R) /\ <<>> \in Seq(Nat) /\ 0 \in 0..Len(<<>>)  BY EmptySeq
  <1>4. l \in EditorType(R) /\ Loaded(l) /\ l.last = h.last
    <2> DEFINE z == <<>>
    <2>1. z \in Seq(R) /\ 0 \in 0..Len(z)  BY <1>3
    <2> HIDE DEF z
    <2>2. /\ Load(h, z, 0) \in EditorType(R) /\ Loaded(Load(h, z, 0))
          /\ Load(h, z, 0).last = h.last
      BY <1>2, <2>1, LoadKeeps
    <2>. QED  BY <2>2 DEF z
  <1> HIDE DEF l
  <1>5. g \in EditorType(R) /\ g.last = "none" /\ g.pastes = <<>> /\ g.undo = l.undo /\ g.redo = l.redo
    BY <1>2, <1>3, <1>4 DEF EditorType
  <1>6. Submit(e, order) = f  BY DEF Submit, SubmitValue, g, l, h
  <1> HIDE DEF g, s
  <1>7. /\ f \in EditorType(R) /\ f.pastes = g.pastes /\ (s = <<>> => f = g)
        /\ (s # <<>> => f.last = "none" /\ Loaded(f))
    BY <1>1, <1>5, SubmittedKeeps
  <1> HIDE DEF f
  <1>. QED  BY <1>4, <1>5, <1>6, <1>7 DEF Loaded

(* FollowUp clears the text and the run and keeps the pastes. *)
LEMMA FollowUpKeeps ==
  ASSUME NEW R, Bodies \in SUBSET R, NEW e \in EditorType(R), NEW order \in Orders(e.pastes),
         Trim(Expanded(e.text, e.pastes, order)) # <<>>
  PROVE  LET f == FollowUp(e, order)
         IN  f \in EditorType(R) /\ f.last = "none" /\ Loaded(f) /\ f.pastes = e.pastes
  <1> DEFINE s == Trim(Expanded(e.text, e.pastes, order))
  <1>1. s \in Seq(R)  BY ExpandedFits, TrimFits
  <1>2. FollowUp(e, order) = Submitted(e, s) /\ s # <<>>  BY DEF FollowUp
  <1> HIDE DEF s
  <1>. QED  BY <1>1, <1>2, SubmittedKeeps

-----------------------------------------------------------------------------
(* The tokens there can be, and the texts kept for the markers that were   *)
(* put there since the last submit.                                        *)
PastedType == [sent : Nat, as : Seq(Nat)]
Kept ==
  \A x \in DOMAIN pasted.as :
    pasted.as[x] \in 1..Len(ed.pastes) /\ ed.pastes[pasted.as[x]] = pasted.sent + x

RunType(R) == {r \in [is : {"yank"}, text : Seq(R), at : Nat] : r.at <= Len(r.text)}

(* A run of kills would come back with a yank; a run that yanks has put    *)
(* the newest entry of the ring where it began.                            *)
RunIs(R, r, e) ==
  /\ r.is \in {"none", "broken", "kill", "yank"}
  /\ e.last \notin {"kill", "yank"} => r.is = "none"
  /\ r.is = "kill" => e.last = "kill" /\ r.text = Insert(e, Last(e.ring)).text
  /\ r.is = "yank" => /\ e.last = "yank" /\ r \in RunType(R)
                      /\ e.text = Insert(r, Last(e.ring)).text /\ e.at = Insert(r, Last(e.ring)).at

EditorInv ==
  /\ world \in Worlds /\ pasted \in PastedType /\ Kept
  /\ ed \in EditorType(Tokens) /\ Marked(ed) /\ RunIs(Tokens, run, ed)

(* An editor over some tokens is an editor over more. *)
LEMMA EditorGrows ==
  ASSUME NEW A, NEW B, A \in SUBSET B
  PROVE  /\ \A s \in Seq(A) : s \in Seq(B)
         /\ \A e \in EditorType(A) : e \in EditorType(B)
  <1>1. \A s \in Seq(A) : s \in Seq(B)  BY SeqMonotonic
  <1>2. SnapType(A) \in SUBSET SnapType(B)  BY <1>1 DEF SnapType
  <1>3. \A s \in Seq(SnapType(A)) : s \in Seq(SnapType(B))  BY <1>2, SeqMonotonic
  <1>4. \A s \in Seq(Seq(A)) : s \in Seq(Seq(B))
    <2>1. Seq(A) \in SUBSET Seq(B)  BY <1>1
    <2>. QED  BY <2>1, SeqMonotonic
  <1>5. \A e \in EditorType(A) : e \in EditorType(B)  BY <1>1, <1>3, <1>4 DEF EditorType
  <1>. QED  BY <1>1, <1>5

-----------------------------------------------------------------------------
(* What a step does, whichever key it is. *)
Turns ==
  \/ KilledHere(Tokens, ed, ed') /\ run' = RunAfter("kill", ed')
  \/ Yanked(Tokens, ed, ed') /\ run' = RunAfter("yank", ed')
  \/ Popped(Tokens, ed, ed') /\ run' = RunAfter("pop", ed')
  \/ /\ Undone(ed, ed') \/ Redone(ed, ed')
     /\ ed' \in EditorType(Tokens) /\ ed'.last = "none" /\ run'.is = "none"
  \/ ed' = ed /\ (run' = run \/ (ed.last \notin {"kill", "yank"} /\ run'.is = "none"))
  \/ \E i \in 0..Len(ed.text) : ed' = [ed EXCEPT !.at = i] /\ run' = RunAfter("host", ed')

Effect ==
  /\ world' \in Worlds /\ pasted' \in PastedType /\ Kept'
  /\ \/ Plainly(Tokens, ed, ed') /\ run'.is = "none"
     \/ Turns

(* A command that is neither kill nor yank leaves no run. *)
LEMMA NoRunIs ==
  /\ NoRun.is = "none"
  /\ \A cmd, e : e.last \notin {"kill", "yank"} => RunAfter(cmd, e).is = "none"
  BY DEF NoRun, RunAfter

(* An edit that ends the run has an effect the invariant knows. *)
LEMMA PlainEffect ==
  ASSUME EditorInv, NEW cmd, NEW f, Plainly(Tokens, ed, f), f.pastes = ed.pastes,
         Press(cmd, f), UNCHANGED pasted
  PROVE  Effect
  <1>1. ed' = f /\ world' = world /\ pasted' = pasted /\ run' = RunAfter(cmd, f)  BY DEF Press
  <1>2. run'.is = "none"  BY <1>1, NoRunIs DEF Plainly
  <1>3. Plainly(Tokens, ed, ed')  BY <1>1
  <1>4. Kept'  BY <1>1 DEF EditorInv, Kept
  <1>. QED  BY <1>1, <1>2, <1>3, <1>4 DEF Effect, EditorInv

(* A step of a run has an effect the invariant knows. *)
LEMMA TurnEffect ==
  ASSUME EditorInv, Turns, ed'.pastes = ed.pastes, UNCHANGED <<pasted, world>>
  PROVE  Effect
  <1>1. Kept'  BY DEF EditorInv, Kept
  <1>. QED  BY <1>1 DEF Effect, EditorInv

(* A key that changes nothing. *)
LEMMA IdleEffect ==
  ASSUME EditorInv, NEW cmd, cmd \notin {"kill", "host"}, ed.last = "none" \/ cmd # "yank" \/ ed.ring = <<>>,
         Press(cmd, ed), UNCHANGED pasted
  PROVE  Effect
  <1>1. ed' = ed /\ world' = world /\ run' = RunAfter(cmd, ed)  BY DEF Press
  <1>2. run' = run \/ (ed.last \notin {"kill", "yank"} /\ run'.is = "none")
    <2>1. CASE ed.last \notin {"kill", "yank"}  BY <2>1, <1>1, NoRunIs
    <2>2. CASE ed.last \in {"kill", "yank"}
      <3>1. cmd # "yank"  BY <2>2 DEF EditorInv, Marked
      <3>. QED  BY <2>2, <3>1, <1>1 DEF RunAfter
    <2>. QED  BY <2>1, <2>2
  <1>3. Turns  BY <1>1, <1>2 DEF Turns
  <1>. QED  BY <1>1, <1>3, TurnEffect

(* The letters and drafts of a world are made of tokens. *)
LEMMA WorldFits ==
  ASSUME world \in Worlds
  PROVE  /\ world.letters \in SUBSET Tokens
         /\ \A d \in world.drafts \cup {<<>>} : d \in Seq(Tokens)
         /\ NL \in Tokens /\ Bodies \in SUBSET Tokens
  <1>1. world.letters \in SUBSET Plain /\ world.drafts \in SUBSET Seq(Plain)
    BY EditorAssumption DEF EditorAssumption
  <1>2. Plain \in SUBSET Tokens /\ Bodies \in SUBSET Tokens /\ NL \in Plain  BY DEF Tokens, Plain
  <1>3. \A d \in Seq(Plain) : d \in Seq(Tokens)  BY <1>2, EditorGrows
  <1>4. <<>> \in Seq(Tokens)  BY EmptySeq
  <1>. QED  BY <1>1, <1>2, <1>3, <1>4

(* A large paste is kept under the number its marker has. *)
LEMMA PasteEffect ==
  ASSUME EditorInv, PastesLarge
  PROVE  Effect
  <1> DEFINE a  == Len(pasted.as)
             k  == pasted.sent + a + 1
             n  == Len(ed.pastes) + 1
             f  == PasteLarge(ed, k)
             as == Append(pasted.as, n)
  <1>1. /\ pasted \in PastedType /\ ed \in EditorType(Tokens) /\ Marked(ed) /\ world \in Worlds
        /\ Kept
    BY DEF EditorInv
  <1>2. /\ ed.pastes \in Seq(Nat) /\ pasted.sent \in Nat /\ pasted.as \in Seq(Nat)
        /\ a \in Nat /\ k \in Nat /\ n \in Nat
    <2>1. ed.pastes \in Seq(Nat) /\ pasted.sent \in Nat /\ pasted.as \in Seq(Nat)
      BY <1>1, EditorFacts DEF PastedType
    <2>. QED  BY <2>1
  <1>3. ed' = f /\ world' = world /\ run' = RunAfter("paste", f)  BY DEF PastesLarge, Press
  <1>4. Marker(n, k) \in Seq(Tokens)  BY <1>2, MarkerFits
  <1>5. Plainly(Tokens, ed, f) /\ f.pastes = Append(ed.pastes, k)
    <2> HIDE DEF k
    <2>. QED  BY <1>1, <1>2, <1>4, PasteLargeKeeps
  <1>6. /\ Len(f.pastes) = n /\ f.pastes[n] = k
        /\ \A i \in 1..Len(ed.pastes) : f.pastes[i] = ed.pastes[i]
    <2> HIDE DEF k, f
    <2>. QED  BY <1>2, <1>5, AppendProperties
  <1> HIDE DEF f
  <1>7. pasted' = [pasted EXCEPT !.as = as]
    <2>1. pasted' = [pasted EXCEPT !.as = Append(@, Len(ed'.pastes))]  BY DEF PastesLarge
    <2>. QED  BY <2>1, <1>3, <1>6
  <1>8. /\ as \in Seq(Nat) /\ Len(as) = a + 1 /\ as[a + 1] = n
        /\ \A x \in 1..a : as[x] = pasted.as[x]
    BY <1>2, AppendProperties
  <1> HIDE DEF as
  <1>9. pasted' \in PastedType /\ pasted'.as = as /\ pasted'.sent = pasted.sent
    BY <1>1, <1>7, <1>8 DEF PastedType
  <1>10. Kept'
    <2>0. n = Len(ed.pastes) + 1 /\ Len(ed.pastes) \in Nat /\ k = pasted.sent + (a + 1)
      BY <1>2
    <2>a. \A x \in 1..a : x \in DOMAIN pasted.as  BY <1>2
    <2> HIDE DEF a, k, n
    <2>1. ASSUME NEW x \in 1..a + 1
          PROVE  as[x] \in 1..n /\ f.pastes[as[x]] = pasted.sent + x
      <3>1. CASE x = a + 1
        <4>1. n \in 1..n  BY <2>0
        <4>. QED  BY <3>1, <4>1, <1>6, <1>8, <2>0
      <3>2. CASE x # a + 1
        <4>1. x \in 1..a /\ x \in DOMAIN pasted.as  BY <3>2, <2>a, <1>2
        <4>2. pasted.as[x] \in 1..Len(ed.pastes) /\ ed.pastes[pasted.as[x]] = pasted.sent + x
          BY <4>1, <1>1 DEF Kept
        <4>3. pasted.as[x] \in 1..n  BY <4>2, <2>0
        <4>. QED  BY <4>1, <4>2, <4>3, <1>6, <1>8
      <3>. QED  BY <3>1, <3>2
    <2>2. DOMAIN as = 1..a + 1  BY <1>8
    <2>3. Kept' <=> \A x \in DOMAIN pasted'.as :
                      pasted'.as[x] \in 1..Len(ed'.pastes) /\ ed'.pastes[pasted'.as[x]] = pasted'.sent + x
      BY DEF Kept
    <2>. QED  BY <1>3, <1>6, <1>9, <2>1, <2>2, <2>3
  <1>11. run'.is = "none"  BY <1>3, <1>5, NoRunIs DEF Plainly
  <1>12. Plainly(Tokens, ed, ed')  BY <1>3, <1>5
  <1>. QED  BY <1>1, <1>3, <1>9, <1>10, <1>11, <1>12 DEF Effect

(* With a submit all texts kept so far are of earlier prompts. *)
LEMMA SubmitEffect ==
  ASSUME EditorInv, Submits
  PROVE  Effect
  <1>1. PICK order \in Orders(ed.pastes) : Press("submit", Submit(ed, order))  BY DEF Submits
  <1> DEFINE f == Submit(ed, order)
             m == pasted.sent + Len(pasted.as)
  <1>2. /\ ed' = f /\ world' = world /\ run' = RunAfter("submit", f)
        /\ pasted' = [sent |-> m, as |-> <<>>]
    BY <1>1 DEF Submits, Press
  <1>3. pasted \in PastedType /\ ed \in EditorType(Tokens) /\ world \in Worlds
    BY DEF EditorInv
  <1>4. Bodies \in SUBSET Tokens  BY <1>3, WorldFits
  <1>5. f \in EditorType(Tokens) /\ f.last = "none" /\ Loaded(f)  BY <1>3, <1>4, SubmitKeeps
  <1> HIDE DEF f
  <1>6. m \in Nat
    <2>1. pasted.sent \in Nat /\ pasted.as \in Seq(Nat)  BY <1>3 DEF PastedType
    <2>. QED  BY <2>1
  <1> HIDE DEF m
  <1>7. pasted' \in PastedType  BY <1>2, <1>6 DEF PastedType
  <1>8. Kept'
    <2>1. pasted'.as = <<>>  BY <1>2
    <2>2. DOMAIN <<>> = {}  OBVIOUS
    <2>. QED  BY <2>1, <2>2 DEF Kept
  <1>9. Plainly(Tokens, ed, ed')  BY <1>2, <1>5 DEF Plainly, Marked
  <1>10. run'.is = "none"  BY <1>2, <1>5, NoRunIs
  <1>. QED  BY <1>2, <1>3, <1>7, <1>8, <1>9, <1>10 DEF Effect

(* Every step has an effect the invariant knows. *)
LEMMA NextEffect ==
  ASSUME EditorInv, [Next]_vars
  PROVE  Effect
  <1>0. ed \in EditorType(Tokens) /\ Marked(ed) /\ world \in Worlds  BY DEF EditorInv
  <1>1. CASE Types
    <2>1. PICK t \in world.letters : Press("type", Type(ed, t))  BY <1>1 DEF Types
    <2>2. t \in Tokens  BY <1>0, WorldFits
    <2>3. Plainly(Tokens, ed, Type(ed, t)) /\ Type(ed, t).pastes = ed.pastes
      BY <1>0, <2>2, TypeKeeps
    <2>. QED  BY <1>1, <2>1, <2>3, PlainEffect DEF Types
  <1>2. CASE Breaks
    <2>1. <<NL>> \in Seq(Tokens)  BY <1>0, WorldFits, OneToken
    <2>2. Plainly(Tokens, ed, NewLine(ed)) /\ NewLine(ed).pastes = ed.pastes
      BY <1>0, <2>1, ResetInsertKeeps DEF NewLine
    <2>. QED  BY <1>2, <2>2, PlainEffect DEF Breaks
  <1>3. CASE Erases
    <2>1. PICK e \in {Backspace(ed), Delete(ed)} : Press("erase", e)  BY <1>3 DEF Erases
    <2>2. Plainly(Tokens, ed, e) /\ e.pastes = ed.pastes  BY <1>0, EraseKeeps
    <2>. QED  BY <1>3, <2>1, <2>2, PlainEffect DEF Erases
  <1>4. ASSUME NEW e \in {ToLineStart(ed), ToLineEnd(ed), WordBackwards(ed), WordForwards(ed)},
               Press("kill", e), UNCHANGED pasted
        PROVE  Effect
    <2>1. KilledHere(Tokens, ed, e)  BY <1>0, KillsAreHere
    <2>2. ed' = e /\ run' = RunAfter("kill", e) /\ world' = world  BY <1>4 DEF Press
    <2>3. e.pastes = ed.pastes  BY <2>1 DEF KilledHere, Killed
    <2>4. Turns  BY <2>1, <2>2 DEF Turns
    <2>. QED  BY <1>4, <2>2, <2>3, <2>4, TurnEffect
  <1>5. CASE KillsLine
    <2>1. PICK e \in {ToLineStart(ed), ToLineEnd(ed)} : Press("kill", e)  BY <1>5 DEF KillsLine
    <2>. QED  BY <1>4, <1>5, <2>1 DEF KillsLine
  <1>6. CASE KillsWord
    <2>1. PICK e \in {WordBackwards(ed), WordForwards(ed)} : Press("kill", e)  BY <1>6 DEF KillsWord
    <2>. QED  BY <1>4, <1>6, <2>1 DEF KillsWord
  <1>7. CASE Yanks
    <2>1. Press("yank", Yank(ed)) /\ UNCHANGED pasted  BY <1>7 DEF Yanks
    <2>2. CASE ed.ring = <<>>
      <3>1. Yank(ed) = ed  BY <2>2 DEF Yank
      <3>2. "yank" \notin {"kill", "host"}  OBVIOUS
      <3>. QED  BY <2>1, <2>2, <3>1, <3>2, IdleEffect
    <2>3. CASE ed.ring # <<>>
      <3>1. Yanked(Tokens, ed, Yank(ed))  BY <1>0, <2>3, YankKeeps
      <3>2. ed' = Yank(ed) /\ run' = RunAfter("yank", ed') /\ world' = world  BY <2>1 DEF Press
      <3>3. ed'.pastes = ed.pastes  BY <3>1, <3>2 DEF Yanked
      <3>4. Turns  BY <3>1, <3>2 DEF Turns
      <3>. QED  BY <2>1, <3>2, <3>3, <3>4, TurnEffect
    <2>. QED  BY <2>2, <2>3
  <1>8. CASE Pops
    <2>1. Press("pop", YankPop(ed)) /\ UNCHANGED pasted  BY <1>8 DEF Pops
    <2>2. CASE YankPop(ed) = ed
      <3>2. "pop" \notin {"kill", "host"} /\ "pop" # "yank"  OBVIOUS
      <3>. QED  BY <2>1, <2>2, <3>2, IdleEffect
    <2>3. CASE YankPop(ed) # ed
      <3>1. Popped(Tokens, ed, YankPop(ed))  BY <1>0, <2>3, YankPopKeeps
      <3>2. ed' = YankPop(ed) /\ run' = RunAfter("pop", ed') /\ world' = world  BY <2>1 DEF Press
      <3>3. ed'.pastes = ed.pastes  BY <3>1, <3>2 DEF Popped
      <3>4. Turns  BY <3>1, <3>2 DEF Turns
      <3>. QED  BY <2>1, <3>2, <3>3, <3>4, TurnEffect
    <2>. QED  BY <2>2, <2>3
  <1>9. ASSUME NEW e, Press("undo", e), UNCHANGED pasted,
               \/ e = ed
               \/ /\ e \in EditorType(Tokens)
                  /\ Undone(ed, e) \/ Redone(ed, e)
                  /\ e.last = "none" /\ e.pastes = ed.pastes
        PROVE  Effect
    <2>1. ed' = e /\ run' = RunAfter("undo", e) /\ world' = world  BY <1>9 DEF Press
    <2>2. CASE e = ed
      <3>2. "undo" \notin {"kill", "host"} /\ "undo" # "yank"  OBVIOUS
      <3>. QED  BY <1>9, <2>2, <3>2, IdleEffect
    <2>3. CASE e # ed
      <3>1. /\ e \in EditorType(Tokens) /\ e.last = "none" /\ e.pastes = ed.pastes
            /\ Undone(ed, e) \/ Redone(ed, e)
        BY <1>9, <2>3
      <3>2. run'.is = "none"  BY <2>1, <3>1, NoRunIs
      <3>3. Turns  BY <2>1, <3>1, <3>2 DEF Turns
      <3>. QED  BY <1>9, <2>1, <3>1, <3>3, TurnEffect
    <2>. QED  BY <2>2, <2>3
  <1>10. CASE Undoes  BY <1>0, <1>9, <1>10, UndoKeeps DEF Undoes
  <1>11. CASE Redoes  BY <1>0, <1>9, <1>11, RedoKeeps DEF Redoes
  <1>12. CASE Moves
    <2>1. PICK e \in Moved(ed) : Press("move", e)  BY <1>12 DEF Moves
    <2>2. Plainly(Tokens, ed, e) /\ e.pastes = ed.pastes  BY <1>0, MoveKeeps
    <2>. QED  BY <1>12, <2>1, <2>2, PlainEffect DEF Moves
  <1>13. CASE Arrows
    <2>1. PICK e \in Up(ed) \cup Down(ed) : Press("arrow", e)  BY <1>13 DEF Arrows
    <2>2. Plainly(Tokens, ed, e) /\ e.pastes = ed.pastes  BY <1>0, ArrowKeeps
    <2>. QED  BY <1>13, <2>1, <2>2, PlainEffect DEF Arrows
  <1>14. CASE PastesSmall
    <2>1. PICK d \in world.drafts : Press("snippet", PasteSmall(ed, d))  BY <1>14 DEF PastesSmall
    <2>2. d \in Seq(Tokens)  BY <1>0, WorldFits
    <2>3. Plainly(Tokens, ed, PasteSmall(ed, d)) /\ PasteSmall(ed, d).pastes = ed.pastes
      BY <1>0, <2>2, ResetInsertKeeps DEF PasteSmall
    <2>. QED  BY <1>14, <2>1, <2>3, PlainEffect DEF PastesSmall
  <1>15. CASE PastesLarge  BY <1>15, PasteEffect
  <1>16. CASE Submits  BY <1>16, SubmitEffect
  <1>17. CASE FollowsUp
    <2>1. PICK order \in Orders(ed.pastes) :
            Trim(Expanded(ed.text, ed.pastes, order)) # <<>> /\ Press("follow", FollowUp(ed, order))
      BY <1>17 DEF FollowsUp
    <2> DEFINE f == FollowUp(ed, order)
    <2>2. f \in EditorType(Tokens) /\ f.last = "none" /\ Loaded(f) /\ f.pastes = ed.pastes
      BY <1>0, <2>1, WorldFits, FollowUpKeeps
    <2>3. Plainly(Tokens, ed, f)  BY <2>2 DEF Plainly, Marked
    <2>. QED  BY <1>17, <2>1, <2>2, <2>3, PlainEffect DEF FollowsUp
  <1>18. CASE HostSetsText
    <2>1. PICK d \in world.drafts \cup {<<>>} : Press("load", SetText(ed, d))
      BY <1>18 DEF HostSetsText
    <2>2. d \in Seq(Tokens)  BY <1>0, WorldFits
    <2>3. Plainly(Tokens, ed, SetText(ed, d)) /\ SetText(ed, d).pastes = ed.pastes
      BY <1>0, <2>2, SetTextKeeps
    <2>. QED  BY <1>18, <2>1, <2>3, PlainEffect DEF HostSetsText
  <1>19. CASE HostSetsCaret
    <2>1. PICK i \in 0..Len(ed.text) : Press("host", [ed EXCEPT !.at = i])
      BY <1>19 DEF HostSetsCaret
    <2>2. ed' = [ed EXCEPT !.at = i] /\ run' = RunAfter("host", ed') /\ world' = world
      BY <2>1 DEF Press
    <2>3. ed'.pastes = ed.pastes  BY <1>0, <2>2 DEF EditorType
    <2>4. Turns  BY <2>2 DEF Turns
    <2>. QED  BY <1>19, <2>2, <2>3, <2>4, TurnEffect DEF HostSetsCaret
  <1>20. CASE UNCHANGED vars
    <2>1. ed' = ed /\ run' = run /\ world' = world /\ pasted' = pasted  BY <1>20 DEF vars
    <2>2. Turns  BY <2>1 DEF Turns
    <2>. QED  BY <2>1, <2>2, TurnEffect
  <1>. QED  BY <1>1, <1>2, <1>3, <1>5, <1>6, <1>7, <1>8, <1>10, <1>11, <1>12, <1>13, <1>14, <1>15,
                <1>16, <1>17, <1>18, <1>19, <1>20 DEF Next

-----------------------------------------------------------------------------
(* Runs of kills, and of a yank and its pops. *)
Between(e, s) == SubSeq(e.text, 1, e.at) \o s \o SubSeq(e.text, e.at + 1, Len(e.text))

(* What an insertion makes of the text and the caret. *)
LEMMA InsertText ==
  ASSUME NEW R, NEW e \in EditorType(R) \cup RunType(R), NEW s
  PROVE  Insert(e, s).text = Between(e, s) /\ Insert(e, s).at = e.at + Len(s)
  BY DEF Insert, Between, EditorType, RunType

(* Yanking after a kill gives the text before it, or before the run it goes on
   with. *)
LEMMA KillComesBack ==
  ASSUME NEW R, NEW e \in EditorType(R), Marked(e), NEW i \in 0..Len(e.text), NEW j \in i..Len(e.text),
         NEW backward \in BOOLEAN, e.at = IF backward THEN j ELSE i,
         NEW f, i # j, Killed(R, e, f, i, j, backward)
  PROVE  Insert(f, Last(f.ring)).text =
           IF e.last = "kill" THEN Insert(e, Last(e.ring)).text ELSE e.text
  <1> DEFINE n == Len(e.text)
             a == SubSeq(e.text, 1, i)
             m == SubSeq(e.text, i + 1, j)
             z == SubSeq(e.text, j + 1, n)
             l == Last(e.ring)
  <1>0. e.text \in Seq(R) /\ n \in Nat /\ e.ring \in Seq(Seq(R)) /\ j \in 0..n
    <2>1. e.text \in Seq(R) /\ n \in Nat /\ e.ring \in Seq(Seq(R))  BY EditorFacts
    <2>2. j \in 0..n  BY <2>1
    <2>. QED  BY <2>1, <2>2
  <1>1. a \in Seq(R) /\ Len(a) = i  BY <1>0, Front1
  <1>2. m \in Seq(R)  BY <1>0, Middle
  <1>3. z \in Seq(R)
    <2>1. n \in j..n  BY <1>0
    <2>. QED  BY <1>0, <2>1, Middle
  <1>4. a \o m = SubSeq(e.text, 1, j) /\ m \o z = SubSeq(e.text, i + 1, n) /\ (a \o m) \o z = e.text
    BY <1>0, CutTwice
  <1>5. /\ f \in EditorType(R) /\ f.text = a \o z /\ f.at = i
        /\ Last(f.ring) = IF e.last = "kill" /\ e.ring # <<>>
                          THEN IF backward THEN m \o l ELSE l \o m ELSE m
    BY DEF Killed
  <1>6. e.last = "kill" => e.ring # <<>> /\ l \in Seq(R)
    <2>1. e.last = "kill" => e.ring # <<>>  BY DEF Marked
    <2>. QED  BY <1>0, <2>1, RingParts
  <1>7. Insert(e, l).text = SubSeq(e.text, 1, e.at) \o l \o SubSeq(e.text, e.at + 1, n)
    BY InsertText DEF Between
  <1> HIDE DEF a, m, z, l, n
  <1>8. \A s : Insert(f, s).text = a \o s \o z
    <2> TAKE s
    <2>1. Insert(f, s).text = Between(f, s)  BY <1>5, InsertText
    <2>2. SubSeq(a \o z, 1, Len(a)) = a /\ SubSeq(a \o z, Len(a) + 1, Len(a \o z)) = z
      BY <1>1, <1>3, Halves
    <2>. QED  BY <1>1, <1>5, <2>1, <2>2 DEF Between
  <1>9. CASE e.last # "kill"  BY <1>4, <1>5, <1>8, <1>9
  <1>10. CASE e.last = "kill" /\ backward
    <2>1. Insert(f, Last(f.ring)).text = (a \o (m \o l)) \o z  BY <1>5, <1>6, <1>8, <1>10
    <2>2. Insert(e, l).text = ((a \o m) \o l) \o z  BY <1>4, <1>7, <1>10 DEF z
    <2>3. l \in Seq(R)  BY <1>6, <1>10
    <2>4. (a \o m) \o l = a \o (m \o l)  BY SMTT(40), <1>1, <1>2, <2>3, ConcatAssociative
    <2>. QED  BY <1>10, <2>1, <2>2, <2>4 DEF l
  <1>11. CASE e.last = "kill" /\ ~backward
    <2>1. Insert(f, Last(f.ring)).text = (a \o (l \o m)) \o z  BY <1>5, <1>6, <1>8, <1>11
    <2>2. Insert(e, l).text = (a \o l) \o (m \o z)  BY <1>4, <1>7, <1>11 DEF a
    <2>3. l \in Seq(R)  BY <1>6, <1>11
    <2>4. (a \o l) \o m = a \o (l \o m)  BY SMTT(40), <1>1, <1>2, <2>3, ConcatAssociative
    <2> DEFINE x == a \o l
    <2>5. x \in Seq(R)  BY <1>1, <2>3, ConcatProperties
    <2>6. (x \o m) \o z = x \o (m \o z)
      <3> HIDE DEF x
      <3>. QED  BY <1>2, <1>3, <2>5, ConcatAssociative
    <2>. QED  BY <1>11, <2>1, <2>2, <2>4, <2>6 DEF l
  <1>. QED  BY <1>9, <1>10, <1>11

(* A yank that is taken out again leaves the text it was put in. *)
LEMMA YankTakenOut ==
  ASSUME NEW R, NEW e \in EditorType(R), NEW r \in RunType(R), NEW l \in Seq(R),
         e.text = Insert(r, l).text, e.at = Insert(r, l).at
  PROVE  Cut(e, r.at, e.at).text = r.text /\ Cut(e, r.at, e.at).at = r.at
  <1> DEFINE a == SubSeq(r.text, 1, r.at)
             b == SubSeq(r.text, r.at + 1, Len(r.text))
  <1>0. /\ r.text \in Seq(R) /\ r.at \in Nat /\ Len(r.text) \in Nat /\ r.at \in 0..Len(r.text)
        /\ Len(l) \in Nat /\ Len(r.text) \in r.at..Len(r.text)
    <2>1. r.text \in Seq(R) /\ r.at \in Nat /\ r.at <= Len(r.text)  BY DEF RunType
    <2>2. Len(r.text) \in Nat /\ Len(l) \in Nat  BY <2>1, LenProperties
    <2>. QED  BY <2>1, <2>2
  <1>1. a \in Seq(R) /\ Len(a) = r.at  BY <1>0, Front1
  <1>2. b \in Seq(R)  BY <1>0, Middle
  <1>3. a \o b = r.text  BY <1>0, CutOnce
  <1>4. e.text = (a \o l) \o b /\ e.at = r.at + Len(l)  BY InsertText DEF Between
  <1> HIDE DEF a, b
  <1>5. a \o l \in Seq(R) /\ Len(a \o l) = r.at + Len(l) /\ l \o b \in Seq(R)  BY <1>1, <1>2, ConcatProperties
  <1> DEFINE x == a \o l
  <1>6. SubSeq(e.text, e.at + 1, Len(e.text)) = b
    <2>1. x \in Seq(R) /\ Len(x) = e.at /\ e.text = x \o b  BY <1>4, <1>5
    <2> HIDE DEF x
    <2>2. SubSeq(x \o b, Len(x) + 1, Len(x \o b)) = b  BY <1>2, <2>1, Halves
    <2>. QED  BY <2>1, <2>2
  <1> HIDE DEF x
  <1>7. SubSeq(e.text, 1, r.at) = a
    <2>1. (a \o l) \o b = a \o (l \o b)  BY <1>1, <1>2, ConcatAssociative
    <2>. QED  BY <1>1, <1>4, <1>5, <2>1, Halves
  <1>8. /\ Cut(e, r.at, e.at).text = SubSeq(e.text, 1, r.at) \o SubSeq(e.text, e.at + 1, Len(e.text))
        /\ Cut(e, r.at, e.at).at = r.at
    BY DEF Cut, EditorType
  <1>. QED  BY <1>3, <1>6, <1>7, <1>8

(* The entry stands in the text where the yank put it. *)
LEMMA YankStandsHere ==
  ASSUME NEW R, NEW e \in EditorType(R), NEW r \in RunType(R), NEW l \in Seq(R), l = Last(e.ring),
         e.text = Insert(r, l).text, e.at = Insert(r, l).at
  PROVE  r.at \in YankStarts(e)
  <1> DEFINE a == SubSeq(r.text, 1, r.at)
             b == SubSeq(r.text, r.at + 1, Len(r.text))
  <1>0. /\ r.text \in Seq(R) /\ r.at \in Nat /\ Len(r.text) \in Nat /\ r.at \in 0..Len(r.text)
        /\ Len(l) \in Nat /\ Len(r.text) \in r.at..Len(r.text)
    <2>1. r.text \in Seq(R) /\ r.at \in Nat /\ r.at <= Len(r.text)  BY DEF RunType
    <2>2. Len(r.text) \in Nat /\ Len(l) \in Nat  BY <2>1, LenProperties
    <2>. QED  BY <2>1, <2>2
  <1>1. a \in Seq(R) /\ Len(a) = r.at  BY <1>0, Front1
  <1>2. b \in Seq(R)  BY <1>0, Middle
  <1>3. e.text = (a \o l) \o b /\ e.at = r.at + Len(l)  BY InsertText DEF Between
  <1> HIDE DEF a, b
  <1> DEFINE x == a \o l
  <1>s. l \in Seq(R)  OBVIOUS
  <1>4. /\ x \in Seq(R) /\ Len(x) = Len(a) + Len(l)
        /\ SubSeq(x, Len(a) + 1, Len(x)) = l
    <2>1. a \o l \in Seq(R) /\ Len(a \o l) = Len(a) + Len(l)  BY <1>1, <1>s, ConcatProperties
    <2>2. SubSeq(a \o l, Len(a) + 1, Len(a \o l)) = l  BY <1>1, <1>s, Halves
    <2>. QED  BY <2>1, <2>2
  <1>5. x \in Seq(R) /\ Len(x) = r.at + Len(l) /\ SubSeq(x, r.at + 1, Len(x)) = l
    BY ONLY <1>1, <1>4
  <1> HIDE DEF x
  <1>6. SubSeq(x \o b, 1, Len(x)) = x /\ x \o b \in Seq(R) /\ Len(x \o b) = Len(x) + Len(b)
    BY ZenonT(60), <1>2, <1>5, Halves
  <1>7. e.text = x \o b /\ e.at = Len(x)  BY <1>3, <1>5 DEF x
  <1>8. SubSeq(e.text, r.at + 1, e.at) = l
    <2> DEFINE s == SubSeq(e.text, r.at + 1, e.at)  t == SubSeq(x, r.at + 1, Len(x))
    <2>1. e.text \in Seq(R) /\ e.at \in 0..Len(e.text) /\ r.at \in 0..Len(e.text)
          /\ e.at \in r.at..Len(e.text)
      <3>1. Len(b) \in Nat /\ Len(x) \in Nat  BY <1>2, <1>5, LenProperties
      <3>. QED  BY <3>1, <1>0, <1>5, <1>6, <1>7
    <2>2. /\ s \in Seq(R) /\ Len(s) = e.at - r.at
          /\ \A k \in 1..e.at - r.at : s[k] = e.text[r.at + k]
      BY <2>1, Middle
    <2>3. /\ t \in Seq(R) /\ Len(t) = Len(x) - r.at
          /\ \A k \in 1..Len(x) - r.at : t[k] = x[r.at + k]
      <3>1. r.at \in 0..Len(x) /\ Len(x) \in r.at..Len(x)  BY <1>0, <1>5
      <3>. QED  BY <1>5, <3>1, Middle
    <2>4. \A k \in 1..Len(x) : e.text[k] = x[k]
      <3>1. Len(x) \in 0..Len(e.text)  BY <1>7, <2>1
      <3>2. \A k \in 1..Len(x) : SubSeq(e.text, 1, Len(x))[k] = e.text[k]
        BY <2>1, <3>1, Front1
      <3>. QED  BY <3>2, <1>6, <1>7
    <2> HIDE DEF s, t
    <2>5. \A k \in 1..Len(x) - r.at : s[k] = t[k]
      <3> TAKE k \in 1..Len(x) - r.at
      <3>1. r.at + k \in 1..Len(x)  BY <1>0, <1>5
      <3>. QED  BY <3>1, <2>2, <2>3, <2>4, <1>7
    <2>6. s = t  BY <2>2, <2>3, <2>5, <1>7, SeqEqual
    <2>. QED  BY <2>6, <1>5 DEF s, t
  <1>9. r.at \in 0..e.at  BY <1>0, <1>3
  <1>10. Alike(l, l)  BY DEF Alike
  <1>. QED  BY <1>8, <1>9, <1>10 DEF YankStarts

(* The line breaks of a text are some of its offsets. *)
LEMMA LineBreaksFit ==
  ASSUME NEW R, NEW s \in Seq(R)
  PROVE  /\ LineBreaks(s) \in SUBSET (1..Len(s)) /\ IsFiniteSet(LineBreaks(s))
         /\ Cardinality(LineBreaks(s)) \in Nat
         /\ Cardinality(LineBreaks(s)) = 0 <=> LineBreaks(s) = {}
  <1>1. LineBreaks(s) \in SUBSET (1..Len(s)) /\ Len(s) \in Nat  BY DEF LineBreaks
  <1>2. IsFiniteSet(1..Len(s))  BY <1>1, FS_Interval
  <1>3. IsFiniteSet(LineBreaks(s))  BY <1>1, <1>2, FS_Subset
  <1>. QED  BY <1>1, <1>3, FS_CardinalityType, FS_EmptySet

(* Two places where the entry could have been put are the same. *)
LEMMA YankStartsOrdered ==
  ASSUME NEW R, NEW e \in EditorType(R), NEW l \in Seq(R), l = Last(e.ring),
         NEW i \in YankStarts(e), NEW j \in YankStarts(e), i <= j
  PROVE  i = j
  <1> DEFINE s == SubSeq(e.text, i + 1, e.at)
             t == SubSeq(e.text, j + 1, e.at)
             A == LineBreaks(s)  B == LineBreaks(t)  C == LineBreaks(l)  d == j - i
  <1>0. /\ e.text \in Seq(R) /\ e.at \in 0..Len(e.text) /\ Len(e.text) \in Nat
        /\ i \in 0..e.at /\ j \in 0..e.at
    BY EditorFacts DEF YankStarts
  <1>1. /\ s \in Seq(R) /\ Len(s) = e.at - i
        /\ \A k \in 1..e.at - i : s[k] = e.text[i + k]
    <2>1. i \in 0..Len(e.text) /\ e.at \in i..Len(e.text)  BY <1>0
    <2>. QED  BY <1>0, <2>1, Middle
  <1>2. /\ t \in Seq(R) /\ Len(t) = e.at - j
        /\ \A k \in 1..e.at - j : t[k] = e.text[j + k]
    <2>1. j \in 0..Len(e.text) /\ e.at \in j..Len(e.text)  BY <1>0
    <2>. QED  BY <1>0, <2>1, Middle
  <1>3. Alike(s, l) /\ Alike(t, l)  BY DEF YankStarts
  <1> HIDE DEF s, t
  <1>4. d \in Nat /\ i + d = j  BY <1>0
  <1>5. CASE C = {}
    <2>1. s = l /\ t = l  BY <1>3, <1>5 DEF Alike
    <2>2. e.at - i = e.at - j  BY <2>1, <1>1, <1>2
    <2>. QED  BY <2>2, <1>0
  <1>6. CASE C # {}
    <2>1. /\ A \in SUBSET (1..Len(s)) /\ IsFiniteSet(A) /\ (Cardinality(A) = 0 <=> A = {})
          /\ B \in SUBSET (1..Len(t)) /\ IsFiniteSet(B) /\ (Cardinality(B) = 0 <=> B = {})
          /\ (Cardinality(C) = 0 <=> C = {}) /\ Cardinality(A) = Cardinality(C)
          /\ Cardinality(B) = Cardinality(C)
      BY <1>1, <1>2, <1>3, LineBreaksFit DEF Alike
    <2>2. A # {} /\ B # {}  BY <1>6, <2>1
    <2>3. \A b \in B : b + d \in A
      <3> TAKE b \in B
      <3>1. b \in 1..e.at - j /\ t[b] = NL  BY <1>2, <2>1 DEF LineBreaks
      <3>2. b + d \in 1..e.at - i /\ i + (b + d) = j + b  BY <1>0, <3>1
      <3>3. s[b + d] = NL  BY <3>1, <3>2, <1>1, <1>2
      <3>. QED  BY <3>2, <3>3, <1>1 DEF LineBreaks
    <2> DEFINE f == [b \in B |-> b + d]
    <2>4. f \in Injection(B, A)
      <3>1. f \in [B -> A]  BY <2>3
      <3>2. \A b, c \in B : b + d = c + d => b = c  BY <2>1, <1>4, <1>2, <1>0
      <3>. QED  BY <3>1, <3>2 DEF Injection, IsInjective
    <2>5. f \in Surjection(B, A)  BY <2>1, <2>4, FS_Injection
    <2>6. \A a \in A : \E b \in B : a = b + d  BY <2>5 DEF Surjection
    <2> DEFINE m == Min(B)
    <2>7. m \in B /\ \A b \in B : m <= b
      <3>1. B \in SUBSET Nat  BY <2>1, <1>2, <1>0
      <3> HIDE DEF B
      <3>. QED  BY <3>1, <2>2, MinFits
    <2> HIDE DEF m
    <2>8. Min(A) = m + d
      <3>1. A \in SUBSET Nat /\ B \in SUBSET Nat  BY <2>1, <1>2, <1>1, <1>0
      <3>2. m + d \in A  BY <2>3, <2>7
      <3>3. \A a \in A : m + d <= a
        <4> TAKE a \in A
        <4>1. PICK b \in B : a = b + d  BY <2>6
        <4>2. m <= b /\ m \in Nat /\ b \in Nat  BY <2>7, <3>1
        <4>. QED  BY <4>1, <4>2, <1>4
      <3> HIDE DEF A
      <3>. QED  BY <3>1, <3>2, <3>3, MinIs
    <2>9. SubSeq(s, 1, Min(A)) = SubSeq(t, 1, Min(B))  BY <1>3, <1>6 DEF Alike
    <2>10. m \in 0..Len(t) /\ m + d \in 0..Len(s)
      <3>1. m + d \in A  BY <2>3, <2>7
      <3>. QED  BY <2>1, <2>7, <3>1
    <2>11. Len(SubSeq(s, 1, m + d)) = m + d /\ Len(SubSeq(t, 1, m)) = m
      BY <1>1, <1>2, <2>10, Front1
    <2>12. m + d = m  BY <2>8, <2>9, <2>11 DEF m
    <2>13. m \in Nat  BY <2>10, <1>2, <1>0
    <2>. QED  BY <2>12, <2>13, <1>0, <1>4
  <1>. QED  BY <1>5, <1>6

(* A run that starts remembers the text it starts from. *)
LEMMA RunStarts ==
  ASSUME NEW R, NEW e \in EditorType(R), NEW is
  PROVE  LET r == [is |-> is, text |-> e.text, at |-> e.at]
         IN  /\ r.is = is /\ r.text = e.text /\ r.at = e.at
             /\ is = "yank" => r \in RunType(R)
  BY EditorFacts DEF RunType

(* A kill starts a run of kills or goes on with it. *)
LEMMA KillKeepsRun ==
  ASSUME NEW R, ed \in EditorType(R), Marked(ed), RunIs(R, run, ed),
         NEW i \in 0..Len(ed.text), NEW j \in i..Len(ed.text), NEW backward \in BOOLEAN,
         ed.at = IF backward THEN j ELSE i,
         Killed(R, ed, ed', i, j, backward), run' = RunAfter("kill", ed')
  PROVE  RunIs(R, run', ed') /\ Marked(ed')
  <1>1. CASE i = j
    <2>1. ed'.last = ed.last /\ ed'.ring = ed.ring /\ ed'.at = ed.at  BY <1>1 DEF Killed
    <2>2. ed'.text = ed.text
      <3>1. ed.text \in Seq(R)  BY EditorFacts
      <3>. QED  BY <1>1, <3>1, CutOnce DEF Killed
    <2>3. Marked(ed')
      <3>1. ed'.undo # <<>> /\ ed'.redo = <<>>  BY DEF Killed
      <3>. QED  BY <2>1, <3>1 DEF Marked
    <2>4. \A s : Insert(ed', s).text = Insert(ed, s).text
      <3> TAKE s
      <3>1. ed' \in EditorType(R)  BY DEF Killed
      <3>. QED  BY ZenonT(40), <2>1, <2>2, <3>1, InsertText DEF Between
    <2>5. CASE ed.last \in {"kill", "yank"}
      <3>1. run' = run  BY <2>1, <2>5 DEF RunAfter
      <3>2. RunIs(R, run, ed')  BY <2>1, <2>2, <2>4 DEF RunIs
      <3>. QED  BY <2>3, <3>1, <3>2
    <2>6. CASE ed.last \notin {"kill", "yank"}
      <3>1. run'.is = "none"  BY <2>1, <2>6, NoRunIs
      <3>. QED  BY <2>3, <3>1 DEF RunIs
    <2>. QED  BY <2>5, <2>6
  <1>2. CASE i # j
    <2>1. ed'.last = "kill" /\ ed'.ring # <<>>  BY <1>2 DEF Killed
    <2>2. Marked(ed')  BY <2>1 DEF Marked
    <2>3. Insert(ed', Last(ed'.ring)).text =
            IF ed.last = "kill" THEN Insert(ed, Last(ed.ring)).text ELSE ed.text
      BY <1>2, KillComesBack
    <2>4. CASE ed.last = "kill"
      <3>1. run' = run  BY <2>1, <2>4 DEF RunAfter
      <3>2. RunIs(R, run, ed')  BY <2>1, <2>3, <2>4 DEF RunIs
      <3>. QED  BY <2>2, <3>1, <3>2
    <2>5. CASE ed.last # "kill"
      <3>1. run' = [is |-> "kill", text |-> ed.text, at |-> ed.at]  BY <2>1, <2>5 DEF RunAfter
      <3>2. run'.is = "kill" /\ run'.text = ed.text  BY <3>1
      <3>. QED  BY <2>1, <2>2, <2>3, <2>5, <3>2 DEF RunIs
    <2>. QED  BY <2>4, <2>5
  <1>. QED  BY <1>1, <1>2

(* Editors, and a run, with the same text and caret. *)
LEMMA InsertsAlike ==
  ASSUME NEW R, NEW e \in EditorType(R), NEW f \in EditorType(R) \cup RunType(R), NEW s,
         f.text = e.text, f.at = e.at
  PROVE  Insert(f, s).text = Insert(e, s).text /\ Insert(f, s).at = Insert(e, s).at
  <1>1. Insert(f, s).text = Between(f, s) /\ Insert(f, s).at = f.at + Len(s)  BY InsertText
  <1>2. Insert(e, s).text = Between(e, s) /\ Insert(e, s).at = e.at + Len(s)  BY InsertText
  <1>3. Between(f, s) = Between(e, s)  BY DEF Between
  <1>. QED  BY <1>1, <1>2, <1>3

(* A yank starts a run of yanks. *)
LEMMA YankStartsRun ==
  ASSUME NEW R, ed \in EditorType(R), Yanked(R, ed, ed'), run' = RunAfter("yank", ed')
  PROVE  RunIs(R, run', ed') /\ Marked(ed')
  <1> DEFINE r == [is |-> "yank", text |-> ed.text, at |-> ed.at]
             l == Last(ed.ring)
  <1>1. ed'.last = "yank" /\ ed'.ring = ed.ring /\ ed.ring # <<>>  BY DEF Yanked
  <1>2. ed'.text = Insert(ed, l).text /\ ed'.at = Insert(ed, l).at  BY DEF Yanked
  <1>3. run' = r  BY <1>1 DEF RunAfter
  <1>4. r.is = "yank" /\ r.text = ed.text /\ r.at = ed.at /\ r \in RunType(R)  BY RunStarts
  <1> HIDE DEF r, l
  <1>5. Insert(r, l).text = Insert(ed, l).text /\ Insert(r, l).at = Insert(ed, l).at
    BY <1>4, InsertsAlike
  <1>6. Marked(ed')  BY <1>1 DEF Marked
  <1>. QED  BY <1>1, <1>2, <1>3, <1>4, <1>5, <1>6 DEF RunIs, l

(* A yank-pop goes on with a run of yanks. *)
LEMMA PopKeepsRun ==
  ASSUME NEW R, ed \in EditorType(R), Marked(ed), RunIs(R, run, ed), Popped(R, ed, ed'), run' = RunAfter("pop", ed')
  PROVE  RunIs(R, run', ed') /\ Marked(ed')
  <1>1. ed'.last = "yank" /\ ed.last = "yank" /\ ed'.ring # <<>>  BY DEF Popped
  <1>2. Marked(ed')  BY <1>1 DEF Marked
  <1>3. run' = run  BY <1>1 DEF RunAfter
  <1>4. CASE ed'.ring = ed.ring /\ ed'.text = ed.text /\ ed'.at = ed.at
    <2>1. RunIs(R, run, ed')  BY <1>1, <1>4 DEF RunIs
    <2>. QED  BY <1>2, <1>3, <2>1
  <1>5. CASE ~(ed'.ring = ed.ring /\ ed'.text = ed.text /\ ed'.at = ed.at)
    <2> DEFINE l == Last(ed.ring)
               n == Last(ed'.ring)
    <2>a. PICK start \in YankStarts(ed) :
            /\ ed'.text = Insert(Cut(ed, start, ed.at), n).text
            /\ ed'.at = Insert(Cut(ed, start, ed.at), n).at
      BY <1>5 DEF Popped
    <2> DEFINE c == Cut(ed, start, ed.at)
    <2>1. start \in 0..ed.at /\ ed'.text = Insert(c, n).text /\ ed'.at = Insert(c, n).at
      BY <2>a DEF YankStarts
    <2>2. ed.at \in 0..Len(ed.text) /\ ed.at \in Nat /\ Len(ed.text) \in Nat  BY EditorFacts
    <2>3. start \in 0..Len(ed.text) /\ ed.at \in start..Len(ed.text)  BY <2>1, <2>2
    <2>4. c \in EditorType(R)  BY <2>3, CutKeeps
    <2>5. run.is = "yank" => ed'.text = Insert(run, n).text /\ ed'.at = Insert(run, n).at
      <3> SUFFICES ASSUME run.is = "yank"
                   PROVE  ed'.text = Insert(run, n).text /\ ed'.at = Insert(run, n).at
        OBVIOUS
      <3>1. run \in RunType(R) /\ ed.text = Insert(run, l).text /\ ed.at = Insert(run, l).at
        BY DEF RunIs
      <3>2. l \in Seq(R)
        <4>1. ed.ring \in Seq(Seq(R))  BY EditorFacts
        <4>2. ed.ring # <<>>  BY <1>1 DEF Marked
        <4>. QED  BY <4>1, <4>2, RingParts
      <3>3. /\ Cut(ed, run.at, ed.at).text = run.text /\ Cut(ed, run.at, ed.at).at = run.at
        BY <3>1, <3>2, YankTakenOut
      <3>4. start = run.at
        <4>1. run.at \in YankStarts(ed)  BY <3>1, <3>2, YankStandsHere
        <4>2. start \in 0..ed.at /\ run.at \in 0..ed.at  BY <2>1, <4>1 DEF YankStarts
        <4>3. start <= run.at \/ run.at <= start  BY <4>2, <2>2
        <4>. QED  BY <2>a, <3>2, <4>1, <4>3, YankStartsOrdered
      <3>5. c.text = run.text /\ c.at = run.at  BY <3>3, <3>4
      <3> HIDE DEF c, n
      <3>6. Insert(c, n).text = Insert(run, n).text /\ Insert(c, n).at = Insert(run, n).at
        <4>1. run \in EditorType(R) \cup RunType(R) /\ c \in EditorType(R)  BY <2>4, <3>1
        <4>2. Insert(run, n).text = Insert(c, n).text /\ Insert(run, n).at = Insert(c, n).at
          BY <3>5, <4>1, InsertsAlike
        <4>. QED  BY <4>2
      <3>. QED  BY <2>1, <3>6
    <2>6. RunIs(R, run, ed')  BY <1>1, <2>5 DEF RunIs
    <2>. QED  BY <1>2, <1>3, <2>6
  <1>. QED  BY <1>4, <1>5

(* The steps of a run keep the editor typed and the run true. *)
LEMMA TurnKeeps ==
  ASSUME EditorInv, Turns
  PROVE  ed' \in EditorType(Tokens) /\ Marked(ed') /\ RunIs(Tokens, run', ed')
  <1>0. ed \in EditorType(Tokens) /\ Marked(ed) /\ RunIs(Tokens, run, ed)  BY DEF EditorInv
  <1>a. ed.at \in Nat /\ Len(ed.text) \in Nat /\ ed.at \in 0..Len(ed.text)  BY <1>0, EditorFacts
  <1>1. CASE KilledHere(Tokens, ed, ed') /\ run' = RunAfter("kill", ed')
    <2>1. ASSUME NEW i \in 0..ed.at, Killed(Tokens, ed, ed', i, ed.at, TRUE)
          PROVE  ed' \in EditorType(Tokens) /\ Marked(ed') /\ RunIs(Tokens, run', ed')
      <3>1. i \in 0..Len(ed.text) /\ ed.at \in i..Len(ed.text)  BY <1>a
      <3>2. ed.at = IF TRUE THEN ed.at ELSE i  OBVIOUS
      <3>3. RunIs(Tokens, run', ed') /\ Marked(ed')  BY <1>0, <1>1, <2>1, <3>1, <3>2, KillKeepsRun
      <3>. QED  BY <2>1, <3>3 DEF Killed
    <2>2. ASSUME NEW j \in ed.at..Len(ed.text), Killed(Tokens, ed, ed', ed.at, j, FALSE)
          PROVE  ed' \in EditorType(Tokens) /\ Marked(ed') /\ RunIs(Tokens, run', ed')
      <3>1. ed.at = IF FALSE THEN j ELSE ed.at  OBVIOUS
      <3>2. RunIs(Tokens, run', ed') /\ Marked(ed')  BY <1>0, <1>1, <1>a, <2>2, <3>1, KillKeepsRun
      <3>. QED  BY <2>2, <3>2 DEF Killed
    <2>. QED  BY <1>1, <2>1, <2>2 DEF KilledHere
  <1>2. CASE Yanked(Tokens, ed, ed') /\ run' = RunAfter("yank", ed')
    BY <1>0, <1>2, YankStartsRun DEF Yanked
  <1>3. CASE Popped(Tokens, ed, ed') /\ run' = RunAfter("pop", ed')
    BY <1>0, <1>3, PopKeepsRun DEF Popped
  <1>4. CASE ed' \in EditorType(Tokens) /\ ed'.last = "none" /\ run'.is = "none"
    BY <1>4 DEF Marked, RunIs
  <1>5. CASE ed' = ed /\ (run' = run \/ (ed.last \notin {"kill", "yank"} /\ run'.is = "none"))
    <2>1. CASE run' = run  BY <1>0, <1>5, <2>1
    <2>2. CASE ed.last \notin {"kill", "yank"} /\ run'.is = "none"
      <3>1. RunIs(Tokens, run', ed)  BY <2>2 DEF RunIs
      <3>. QED  BY <1>0, <1>5, <3>1
    <2>. QED  BY <1>5, <2>1, <2>2
  <1>6. CASE \E i \in 0..Len(ed.text) : ed' = [ed EXCEPT !.at = i] /\ run' = RunAfter("host", ed')
    <2>1. PICK i \in 0..Len(ed.text) : ed' = [ed EXCEPT !.at = i] /\ run' = RunAfter("host", ed')
      BY <1>6
    <2>2. i \in Nat /\ i <= Len(ed.text)  BY <1>a
    <2>3. ed' \in EditorType(Tokens)  BY <1>0, <2>1, <2>2 DEF EditorType
    <2>4. ed'.last = ed.last /\ ed'.undo = ed.undo /\ ed'.redo = ed.redo /\ ed'.ring = ed.ring
      BY <1>0, <2>1 DEF EditorType
    <2>5. Marked(ed')  BY <1>0, <2>4 DEF Marked
    <2>6. CASE ed'.last \in {"kill", "yank"}
      <3>1. run' = [is |-> "broken"]  BY <2>1, <2>6 DEF RunAfter
      <3>2. run'.is = "broken"  BY <3>1
      <3>. QED  BY <2>3, <2>5, <2>6, <3>2 DEF RunIs
    <2>7. CASE ed'.last \notin {"kill", "yank"}
      <3>1. run'.is = "none"  BY <2>1, <2>7, NoRunIs
      <3>. QED  BY <2>3, <2>5, <3>1 DEF RunIs
    <2>. QED  BY <2>6, <2>7
  <1>. QED  BY <1>1, <1>2, <1>3, <1>4, <1>5, <1>6 DEF Turns

(* Every known effect keeps the invariant. *)
LEMMA EditorKept ==
  ASSUME EditorInv, Effect
  PROVE  EditorInv'
  <1>1. world' \in Worlds /\ pasted' \in PastedType /\ Kept'  BY DEF Effect
  <1>2. CASE Plainly(Tokens, ed, ed') /\ run'.is = "none"
    <2>1. ed' \in EditorType(Tokens) /\ Marked(ed') /\ ed'.last \notin {"kill", "yank"}
      BY <1>2 DEF Plainly
    <2>2. RunIs(Tokens, run', ed')  BY <1>2, <2>1 DEF RunIs
    <2>. QED  BY <1>1, <2>1, <2>2 DEF EditorInv, Marked
  <1>3. CASE Turns
    <2>1. ed' \in EditorType(Tokens) /\ Marked(ed') /\ RunIs(Tokens, run', ed')  BY <1>3, TurnKeeps
    <2>. QED  BY <1>1, <2>1 DEF EditorInv, Marked
  <1>. QED  BY <1>2, <1>3 DEF Effect

(* A new editor satisfies the invariant. *)
LEMMA EditorStarts ==
  ASSUME Init
  PROVE  EditorInv
  <1>1. PICK d \in world.drafts \cup {<<>>} : ed = SetText(New, d)  BY DEF Init
  <1>2. world \in Worlds /\ pasted = [sent |-> 0, as |-> <<>>] /\ run = NoRun  BY DEF Init
  <1>3. pasted \in PastedType /\ Kept
    <2>1. <<>> \in Seq(Nat) /\ DOMAIN <<>> = {} /\ pasted.as = <<>>  BY <1>2
    <2>. QED  BY <1>2, <2>1 DEF PastedType, Kept
  <1>4. New \in EditorType(Tokens)
    <2>1. \A S : <<>> \in Seq(S)  BY EmptySeq
    <2>2. Len(<<>>) = 0  BY EmptySeq
    <2>3. MaxUndo \in Nat /\ MaxEntries \in Nat /\ MaxHistory \in Nat
      BY EditorAssumption DEF EditorAssumption
    <2>4. /\ New.text = <<>> /\ New.at = 0 /\ New.undo = <<>> /\ New.redo = <<>> /\ New.ring = <<>>
          /\ New.history = <<>> /\ New.index = 0
      BY DEF New
    <2>5. 0 <= Len(New.text) /\ New.index <= Len(New.history) /\ Len(New.undo) + Len(New.redo) <= MaxUndo
          /\ Len(New.ring) <= MaxEntries /\ Len(New.history) <= MaxHistory
      BY <2>2, <2>3, <2>4
    <2> DEFINE R == Tokens
    <2> HIDE DEF R
    <2>6. New \in [text : Seq(R), at : Nat, undo : Seq(SnapType(R)), redo : Seq(SnapType(R)),
                   last : {"none", "type", "kill", "yank"}, ring : Seq(Seq(R)), history : Seq(Seq(R)),
                   index : Nat, scratch : Seq(R), pastes : Seq(Nat)]
      BY <2>1 DEF New
    <2>. QED  BY <2>4, <2>5, <2>6 DEF EditorType, R
  <1>5. d \in Seq(Tokens)  BY <1>2, WorldFits
  <1>6. Plainly(Tokens, New, ed)  BY <1>1, <1>4, <1>5, SetTextKeeps
  <1>8. ed \in EditorType(Tokens) /\ Marked(ed) /\ ed.last \notin {"kill", "yank"}
    BY <1>6 DEF Plainly
  <1>9. RunIs(Tokens, run, ed)  BY <1>2, <1>8, NoRunIs DEF RunIs
  <1>. QED  BY <1>2, <1>3, <1>8, <1>9 DEF EditorInv

(* The editor's state is as its keys leave it, always. *)
THEOREM EditorCorrect == Spec => []EditorInv
  <1>1. Init => EditorInv  BY EditorStarts
  <1>2. EditorInv /\ [Next]_vars => EditorInv'  BY NextEffect, EditorKept
  <1>. QED  BY <1>1, <1>2, PTL DEF Spec

-----------------------------------------------------------------------------
(* After any run of kills a yank would put the text back; after a yank and *)
(* any number of pops just one entry stands where the yank began.          *)
THEOREM YanksUndoKills == Spec => []KillsComeBack
  <1>1. EditorInv => KillsComeBack  BY DEF EditorInv, RunIs, KillsComeBack, Snap
  <1>. QED  BY <1>1, EditorCorrect, PTL

-----------------------------------------------------------------------------
-----------------------------------------------------------------------------
(* Cutting a text around a marker. *)
Around3(s, A, m, B) == A \in Seq(Tokens) /\ B \in Seq(Tokens) /\ s = A \o (m \o B)

LEMMA AroundMarker ==
  ASSUME NEW s \in Seq(Tokens), NEW i \in 0..Len(s), NEW n \in Nat, n < Radix, NEW k \in Nat,
         Stands(s, i, Marker(n, k)), NEW A, NEW B, A = SubSeq(s, 1, i),
         B = SubSeq(s, i + Len(Marker(n, k)) + 1, Len(s))
  PROVE  Around3(s, A, Marker(n, k), B)
  <1> DEFINE m == Marker(n, k)  j == i + 7  v == m \o B
  <1>1. MarkerAt(n, k, m)  BY MarkerIs
  <1>2. \A q \in DOMAIN m : i + q <= Len(s) /\ s[i + q] = m[q]  BY DEF Stands
  <1> HIDE DEF m
  <1>3. m \in Seq(Tokens) /\ Len(m) = 7 /\ DOMAIN m = 1..7  BY <1>1 DEF MarkerAt
  <1>4. j \in i..Len(s) /\ j \in 0..Len(s) /\ j - i = 7 /\ Len(s) \in j..Len(s)
    <2>1. 7 \in 1..7  OBVIOUS
    <2>2. i + 7 <= Len(s)  BY <1>2, <1>3, <2>1
    <2>. QED  BY <2>2
  <1>5. B = SubSeq(s, j + 1, Len(s))
    <2>1. B = SubSeq(s, i + Len(m) + 1, Len(s))  BY DEF m
    <2>. QED  BY <1>3, <2>1
  <1> HIDE DEF j
  <1>6. A \in Seq(Tokens)  BY Front1
  <1>7. B \in Seq(Tokens)  BY <1>4, <1>5, Middle
  <1>8. SubSeq(s, i + 1, j) = m
    <2> DEFINE p == SubSeq(s, i + 1, j)
    <2>1. /\ p \in Seq(Tokens) /\ Len(p) = 7 /\ \A q \in 1..7 : p[q] = s[i + q]
      <3>1. /\ p \in Seq(Tokens) /\ Len(p) = j - i /\ \A q \in 1..j - i : p[q] = s[i + q]
        BY <1>4, Middle
      <3>. QED  BY <1>4, <3>1
    <2> HIDE DEF p
    <2>2. \A q \in 1..7 : p[q] = m[q]  BY <2>1, <1>2, <1>3
    <2>3. p = m  BY <2>1, <2>2, <1>3, SeqEqual
    <2>. QED  BY <2>3 DEF p
  <1>9. s = (A \o m) \o B
    <2>1. (SubSeq(s, 1, i) \o SubSeq(s, i + 1, j)) \o SubSeq(s, j + 1, Len(s)) = s
      BY <1>4, CutTwice
    <2>2. A = SubSeq(s, 1, i)  OBVIOUS
    <2>. QED  BY ONLY <2>1, <2>2, <1>5, <1>8
  <1>10. (A \o m) \o B = A \o (m \o B)  BY ONLY <1>3, <1>6, <1>7, ConcatAssociative
  <1>. QED  BY ONLY <1>6, <1>7, <1>9, <1>10 DEF m, Around3

LEMMA KeptExpand ==
  ASSUME EditorInv
  PROVE  MarkersExpand
  <1>1. ed.text \in Seq(Tokens) /\ ed.pastes \in Seq(Nat)  BY EditorFacts DEF EditorInv
  <1> DEFINE s == ed.text  kept == ed.pastes
  <1>2. pasted.sent \in Nat /\ pasted.as \in Seq(Nat)  BY DEF EditorInv, PastedType
  <1>3. /\ \A x \in DOMAIN pasted.as :
             pasted.as[x] \in 1..Len(kept) /\ kept[pasted.as[x]] = pasted.sent + x
    BY DEF EditorInv, Kept
  <1>4. SUFFICES ASSUME Len(ed.pastes) < Radix, NEW x \in DOMAIN pasted.as,
                        NEW i \in 0..Len(ed.text),
                        Stands(ed.text, i, Marker(pasted.as[x], pasted.sent + x)),
                        WellClosed(SubSeq(ed.text, 1, i)), NEW order \in Orders(ed.pastes)
                 PROVE  Expanded(ed.text, ed.pastes, order)
                          = Expanded(SubSeq(ed.text, 1, i), ed.pastes, order)
                            \o << Body(pasted.sent + x) >>
                            \o Expanded(SubSeq(ed.text,
                                               i + Len(Marker(pasted.as[x], pasted.sent + x)) + 1,
                                               Len(ed.text)), ed.pastes, order)
    BY Zenon DEF MarkersExpand
  <1> DEFINE N == pasted.as[x]  k == pasted.sent + x  A == SubSeq(s, 1, i)
             B == SubSeq(s, i + Len(Marker(N, k)) + 1, Len(s))
  <1>5. s \in Seq(Tokens) /\ kept \in Seq(Nat) /\ N \in 1..Len(kept) /\ kept[N] = k
    BY <1>1, <1>3, <1>4
  <1>6. k \in Nat
    <2>1. x \in Nat  BY <1>2
    <2>. QED  BY <1>2, <2>1
  <1>7. Len(kept) < Radix /\ Stands(s, i, Marker(N, k)) /\ WellClosed(A) /\ i \in 0..Len(s)
    BY <1>4
  <1>o. order \in Orders(kept)  OBVIOUS
  <1> HIDE DEF s, kept, N, k
  <1>8. N \in Nat /\ N < Radix
    <2>1. Radix \in Nat /\ Len(kept) \in Nat  BY <1>5, EditorAssumption DEF EditorAssumption
    <2>. QED  BY <1>5, <1>7, <2>1
  <1>9. Around3(s, A, Marker(N, k), B)  BY <1>5, <1>6, <1>7, <1>8, AroundMarker, Zenon
  <1> HIDE DEF A, B
  <1>a. A \in Seq(Tokens) /\ B \in Seq(Tokens)  BY <1>9 DEF Around3
  <1>b. s = A \o (Marker(N, k) \o B)  BY <1>9, Zenon DEF Around3
  <1>10. Closed(A)  BY <1>7, <1>a, WellClosedIs
  <1>11. Expanded(s, kept, order)
           = Expanded(A, kept, order) \o (<< Body(k) >> \o Expanded(B, kept, order))
    <2>1. SentAround(A, N, k, B, kept, order)
      BY <1>o, <1>5, <1>6, <1>7, <1>a, <1>10, MarkerSent, Zenon
    <2>. QED  BY ONLY <2>1, <1>b, Zenon DEF SentAround
  <1> DEFINE a == Expanded(A, kept, order)  b == << Body(k) >>  c == Expanded(B, kept, order)
  <1>12. a \in Seq(Tokens) /\ b \in Seq(Tokens) /\ c \in Seq(Tokens)
    <2>1. Bodies \in SUBSET Tokens  BY DEF Tokens
    <2>2. b \in Seq(Tokens)  BY <1>6, BodyIs DEF BodyAt
    <2>. QED  BY <1>o, <1>5, <1>a, <2>1, <2>2, ExpandedTyped
  <1> HIDE DEF a, b, c
  <1>13. (a \o b) \o c = a \o (b \o c)  BY <1>12, ConcatAssociative
  <1>. QED  BY <1>11, <1>13, Zenon DEF a, b, c, s, kept, A, B, N, k

(* "ExpandedText expands [Paste #N] markers to their stored content"       *)
(* (editor.go), with fewer than Radix texts kept: a marker that stands *)
(* in the prompt as it was put there is sent as its own text, whichever    *)
(* order the kept texts are visited in and whatever was cut up around it,  *)
(* and what is before and behind it as if it stood alone, if every opening *)
(* before it has a "]" before the next.                                    *)
THEOREM MarkersKeepTheirText == Spec => []MarkersExpand
  <1>1. EditorInv => MarkersExpand  BY KeptExpand
  <1>. QED  BY <1>1, EditorCorrect, PTL

-----------------------------------------------------------------------------
(* The line of versions that undo and redo walk along. *)
Versions(e) == Texts(e.undo) \o <<e.text>> \o Reverse(Texts(e.redo))

(* Its versions: what can be undone, the text, what can be redone. *)
IsLine(R, e, v) ==
  /\ v \in Seq(Seq(R)) /\ Len(v) = Len(e.undo) + 1 + Len(e.redo)
  /\ \A i \in 1..Len(e.undo) : v[i] = e.undo[i].text
  /\ v[Len(e.undo) + 1] = e.text
  /\ \A k \in 1..Len(e.redo) : v[Len(e.undo) + 1 + k] = e.redo[Len(e.redo) + 1 - k].text

(* The texts of a stack of versions are a sequence of texts. *)
LEMMA TextsFit ==
  ASSUME NEW R, NEW stack \in Seq(SnapType(R))
  PROVE  /\ Texts(stack) \in Seq(Seq(R)) /\ Len(Texts(stack)) = Len(stack) /\ Len(stack) \in Nat
         /\ \A i \in 1..Len(stack) : Texts(stack)[i] = stack[i].text
  <1> DEFINE n == Len(stack)
  <1>1. n \in Nat /\ DOMAIN stack = 1..n /\ stack \in [1..n -> SnapType(R)]  BY LenProperties
  <1>2. \A i \in 1..n : stack[i].text \in Seq(R)  BY <1>1 DEF SnapType
  <1>3. Texts(stack) \in [1..n -> Seq(R)]  BY <1>1, <1>2 DEF Texts
  <1>4. \A i \in 1..n : Texts(stack)[i] = stack[i].text  BY <1>1 DEF Texts
  <1>5. Texts(stack) \in Seq(Seq(R)) /\ Len(Texts(stack)) = n
    <2> HIDE DEF n
    <2>. QED  BY <1>1, <1>3
  <1>. QED  BY <1>1, <1>4, <1>5

(* The versions of an editor are its undo stack, its text and its redo stack,
   newest first. *)
LEMMA VersionsAre ==
  ASSUME NEW R, NEW e \in EditorType(R)
  PROVE  IsLine(R, e, Versions(e))
  <1> DEFINE a == Texts(e.undo)  b == Texts(e.redo)  m == <<e.text>>  c == Reverse(b)
             p == Len(e.undo)    q == Len(e.redo)    S == Seq(R)
             x == a \o m         v == x \o c
  <1>0. e.text \in S /\ e.undo \in Seq(SnapType(R)) /\ e.redo \in Seq(SnapType(R))  BY EditorFacts
  <1>1. a \in Seq(S) /\ Len(a) = p /\ p \in Nat /\ \A i \in 1..p : a[i] = e.undo[i].text
    BY <1>0, TextsFit
  <1>2. b \in Seq(S) /\ Len(b) = q /\ q \in Nat /\ \A i \in 1..q : b[i] = e.redo[i].text
    BY <1>0, TextsFit
  <1>3. m \in Seq(S) /\ Len(m) = 1 /\ m[1] = e.text  BY <1>0
  <1>4. c \in Seq(S) /\ Len(c) = q /\ \A k \in 1..q : c[k] = b[q + 1 - k]
    <2>1. c \in Seq(S)  BY <1>2, ReverseFits
    <2> HIDE DEF b, q
    <2>2. Len(c) = q /\ \A k \in 1..q : c[k] = b[q - k + 1]  BY <1>2 DEF Reverse
    <2>3. \A k \in 1..q : q - k + 1 = q + 1 - k  BY <1>2
    <2>. QED  BY <2>1, <2>2, <2>3
  <1> HIDE DEF a, b, c, m, S, p, q
  <1>5. /\ x \in Seq(S) /\ Len(x) = p + 1
        /\ \A i \in 1..p : x[i] = a[i]
        /\ x[p + 1] = e.text
    <2>1. x \in Seq(S) /\ Len(x) = p + 1 /\ \A i \in 1..p + 1 : x[i] = IF i <= p THEN a[i] ELSE m[i - p]
      BY SMTT(40), <1>1, <1>3, ConcatProperties
    <2> HIDE DEF x
    <2>2. x[p + 1] = m[1]
      <3>1. p + 1 \in 1..p + 1 /\ ~(p + 1 <= p) /\ (p + 1) - p = 1  BY <1>1
      <3>. QED  BY <2>1, <3>1
    <2>3. \A i \in 1..p : x[i] = a[i]  BY <1>1, <2>1
    <2>. QED  BY <1>3, <2>1, <2>2, <2>3
  <1> HIDE DEF x
  <1>6. /\ v \in Seq(S) /\ Len(v) = p + 1 + q
        /\ \A i \in 1..p + 1 : v[i] = x[i]
        /\ \A k \in 1..q : v[p + 1 + k] = c[k]
    <2> DEFINE w == p + 1
    <2>1. x \in Seq(S) /\ Len(x) = w /\ w \in Nat  BY <1>1, <1>5
    <2> HIDE DEF w
    <2>2. v \in Seq(S) /\ Len(v) = w + q /\ \A i \in 1..w + q : v[i] = IF i <= w THEN x[i] ELSE c[i - w]
      BY <1>4, <2>1, ConcatProperties
    <2> HIDE DEF v
    <2>3. \A i \in 1..w : v[i] = x[i]  BY <1>2, <2>1, <2>2
    <2>4. \A k \in 1..q : v[w + k] = c[k]
      <3> TAKE k \in 1..q
      <3>1. w + k \in 1..w + q /\ ~(w + k <= w) /\ (w + k) - w = k  BY <1>2, <2>1
      <3>. QED  BY <2>2, <3>1
    <2>. QED  BY <2>2, <2>3, <2>4 DEF w
  <1>7. Versions(e) = v  BY DEF Versions, v, x, a, m, c, b
  <1> HIDE DEF v
  <1>8. \A i \in 1..p : v[i] = e.undo[i].text  BY SMTT(40), <1>1, <1>5, <1>6
  <1>9. v[p + 1] = e.text
    <2>1. p + 1 \in 1..p + 1  BY <1>1
    <2>. QED  BY <1>5, <1>6, <2>1
  <1>10. \A k \in 1..q : v[p + 1 + k] = e.redo[q + 1 - k].text
    <2> TAKE k \in 1..q
    <2>1. q + 1 - k \in 1..q  BY <1>2
    <2>. QED  BY <1>2, <1>4, <1>6, <2>1
  <1>. QED  BY <1>6, <1>7, <1>8, <1>9, <1>10 DEF IsLine, p, q, S

-----------------------------------------------------------------------------
(* Steps along the line. *)
LEMMA SameFront ==
  ASSUME NEW S, NEW v \in Seq(S), NEW w \in Seq(S), NEW n \in 0..Len(v), n <= Len(w),
         \A i \in 1..n : v[i] = w[i]
  PROVE  SubSeq(v, 1, n) = SubSeq(w, 1, n)
  <1>1. Len(v) \in Nat /\ Len(w) \in Nat  BY LenProperties
  <1>2. n \in 0..Len(w)  BY <1>1
  <1>3. /\ SubSeq(v, 1, n) \in Seq(S) /\ Len(SubSeq(v, 1, n)) = n
        /\ \A i \in 1..n : SubSeq(v, 1, n)[i] = v[i]
    BY Front1
  <1>4. /\ SubSeq(w, 1, n) \in Seq(S) /\ Len(SubSeq(w, 1, n)) = n
        /\ \A i \in 1..n : SubSeq(w, 1, n)[i] = w[i]
    BY <1>2, Front1
  <1>. QED  BY <1>3, <1>4, SeqEqual

(* An edit: a version more, or the oldest forgotten. *)
Edits(v, h, w, g) ==
  \/ h <= MaxUndo /\ g = h + 1 /\ Len(w) = g /\ SubSeq(w, 1, h) = SubSeq(v, 1, h)
  \/ h = MaxUndo + 1 /\ g = h /\ Len(w) = g /\ SubSeq(w, 1, h - 1) = SubSeq(v, 2, h)

(* An edit drops what was ahead on the line and adds one version. *)
LEMMA EditsLine ==
  ASSUME NEW R, NEW e \in EditorType(R), NEW f \in EditorType(R), Edited(e, f),
         NEW v, IsLine(R, e, v), NEW w, IsLine(R, f, w)
  PROVE  Edits(v, Len(e.undo) + 1, w, Len(f.undo) + 1)
  <1> DEFINE p == Len(e.undo)  q == Len(e.redo)  T == SnapType(R)  S == Seq(R)
  <1>0. /\ e.undo \in Seq(T) /\ p \in Nat /\ q \in Nat /\ p <= MaxUndo /\ MaxUndo \in Nat \ {0}
        /\ e.text \in Seq(R) /\ Len(e.text) \in Nat
    BY EditorFacts
  <1>1. PICK at \in 0..Len(e.text) :
          f.undo = Pushed(e.undo, [text |-> e.text, at |-> at], MaxUndo) /\ f.redo = <<>>
    BY DEF Edited
  <1> DEFINE s == [text |-> e.text, at |-> at]
  <1>2. s \in T /\ s.text = e.text  BY <1>0 DEF SnapType
  <1> HIDE DEF s, T
  <1>3. /\ v \in Seq(S) /\ Len(v) = p + 1 + q /\ \A i \in 1..p : v[i] = e.undo[i].text
        /\ v[p + 1] = e.text
    BY DEF IsLine
  <1>4. /\ w \in Seq(S) /\ Len(w) = Len(f.undo) + 1
        /\ \A i \in 1..Len(f.undo) : w[i] = f.undo[i].text
    <2>1. Len(f.redo) = 0 /\ Len(f.undo) \in Nat  BY <1>1, EmptySeq, EditorFacts
    <2>. QED  BY <2>1 DEF IsLine
  <1>5. CASE p < MaxUndo
    <2>1. f.undo = Append(e.undo, s)  BY <1>0, <1>1, <1>5 DEF Pushed, s
    <2>2. /\ Len(f.undo) = p + 1 /\ \A i \in 1..p : f.undo[i] = e.undo[i]
          /\ f.undo[p + 1] = s
      BY <1>0, <1>2, <2>1, AppendProperties
    <2> HIDE DEF p, q, S
    <2>3. \A i \in 1..p + 1 : w[i] = v[i]
      <3> TAKE i \in 1..p + 1
      <3>1. CASE i = p + 1  BY <1>0, <1>2, <1>3, <1>4, <2>2, <3>1
      <3>2. CASE i # p + 1
        <4>1. i \in 1..p /\ i \in 1..p + 1  BY <1>0, <3>2
        <4>. QED  BY <4>1, <1>3, <1>4, <2>2
      <3>. QED  BY <3>1, <3>2
    <2>4. p + 1 \in 0..Len(w) /\ p + 1 <= Len(v)  BY <1>0, <1>3, <1>4, <2>2
    <2>5. SubSeq(w, 1, p + 1) = SubSeq(v, 1, p + 1)  BY <1>3, <1>4, <2>3, <2>4, SameFront
    <2>6. p + 1 <= MaxUndo  BY <1>0, <1>5
    <2>. QED  BY <1>4, <2>2, <2>5, <2>6 DEF Edits, p
  <1>6. CASE p = MaxUndo
    <2> DEFINE t == Tail(e.undo)
    <2>1. f.undo = Append(t, s)  BY <1>1, <1>6 DEF Pushed, s
    <2>2. t \in Seq(T) /\ Len(t) = p - 1 /\ \A i \in 1..p - 1 : t[i] = e.undo[i + 1]
      BY <1>0, <1>6, EmptySeq, HeadTailProperties
    <2> HIDE DEF t
    <2>3. /\ Len(f.undo) = p /\ \A i \in 1..p - 1 : f.undo[i] = t[i]
          /\ f.undo[p] = s
      <3>1. Len(f.undo) = (p - 1) + 1 /\ \A i \in 1..p - 1 : f.undo[i] = t[i]
        BY <1>2, <2>1, <2>2, AppendProperties
      <3>2. f.undo[(p - 1) + 1] = s  BY <1>2, <2>1, <2>2, AppendProperties
      <3>3. (p - 1) + 1 = p  BY <1>0
      <3>. QED  BY <3>1, <3>2, <3>3
    <2> HIDE DEF p, q, S
    <2>4. \A i \in 1..p : w[i] = v[1 + i]
      <3> TAKE i \in 1..p
      <3>1. CASE i = p  BY <1>0, <1>2, <1>3, <1>4, <2>3, <3>1
      <3>2. CASE i # p
        <4>1. i \in 1..p - 1 /\ i + 1 \in 1..p /\ 1 + i = i + 1  BY <1>0, <3>2
        <4>2. w[i] = f.undo[i].text /\ f.undo[i] = e.undo[i + 1]  BY <4>1, <1>4, <2>2, <2>3
        <4>3. v[i + 1] = e.undo[i + 1].text  BY <4>1, <1>3
        <4>. QED  BY <4>1, <4>2, <4>3
      <3>. QED  BY <3>1, <3>2
    <2>5. /\ SubSeq(w, 1, p) \in Seq(S) /\ Len(SubSeq(w, 1, p)) = p
          /\ \A i \in 1..p : SubSeq(w, 1, p)[i] = w[i]
      <3>1. p \in 0..Len(w)  BY <1>0, <1>4, <2>3
      <3>. QED  BY <1>4, <3>1, Front1
    <2>6. /\ SubSeq(v, 2, p + 1) \in Seq(S) /\ Len(SubSeq(v, 2, p + 1)) = p
          /\ \A i \in 1..p : SubSeq(v, 2, p + 1)[i] = v[1 + i]
      <3>1. 1 \in 0..Len(v) /\ p + 1 \in 1..Len(v) /\ (p + 1) - 1 = p /\ 1 + 1 = 2  BY <1>0, <1>3
      <3> DEFINE y == p + 1
      <3> HIDE DEF y
      <3>2. /\ SubSeq(v, 1 + 1, y) \in Seq(S) /\ Len(SubSeq(v, 1 + 1, y)) = y - 1
            /\ \A i \in 1..y - 1 : SubSeq(v, 1 + 1, y)[i] = v[1 + i]
        BY <1>3, <3>1, Middle DEF y
      <3>3. y - 1 = p  BY <3>1 DEF y
      <3>. QED  BY <3>1, <3>2, <3>3 DEF y
    <2>7. SubSeq(w, 1, p) = SubSeq(v, 2, p + 1)  BY <2>4, <2>5, <2>6, SeqEqual
    <2>8. p + 1 = MaxUndo + 1 /\ (p + 1) - 1 = p  BY <1>0, <1>6
    <2>. QED  BY <1>4, <2>3, <2>7, <2>8 DEF Edits, p
  <1>7. p < MaxUndo \/ p = MaxUndo  BY <1>0
  <1>. QED  BY <1>5, <1>6, <1>7

(* The line does not change when a state goes from one stack to the other. *)
LEMMA SameLine ==
  ASSUME NEW R, NEW e \in EditorType(R), NEW f \in EditorType(R), e.undo # <<>>,
         f.undo = Front(e.undo), f.text = Last(e.undo).text,
         NEW s \in SnapType(R), s.text = e.text, f.redo = Append(e.redo, s),
         NEW v, IsLine(R, e, v), NEW w, IsLine(R, f, w)
  PROVE  w = v /\ Len(f.undo) + 1 = Len(e.undo) /\ Len(e.undo) \in Nat
  <1> DEFINE p == Len(e.undo)  q == Len(e.redo)  S == Seq(R)  T == SnapType(R)
  <1>0. e.undo \in Seq(T) /\ e.redo \in Seq(T) /\ q \in Nat  BY EditorFacts
  <1>1. p \in Nat \ {0} /\ Len(f.undo) = p - 1 /\ \A i \in 1..p - 1 : f.undo[i] = e.undo[i]
    BY <1>0, RingParts
  <1>2. Last(e.undo) = e.undo[p]  BY DEF Last
  <1>3. /\ Len(f.redo) = q + 1 /\ \A k \in 1..q : f.redo[k] = e.redo[k]
        /\ f.redo[q + 1] = s
    BY <1>0, AppendProperties
  <1>4. /\ v \in Seq(S) /\ Len(v) = p + 1 + q /\ \A i \in 1..p : v[i] = e.undo[i].text
        /\ v[p + 1] = e.text /\ \A k \in 1..q : v[p + 1 + k] = e.redo[q + 1 - k].text
    BY DEF IsLine
  <1>5. /\ w \in Seq(S) /\ Len(w) = (p - 1) + 1 + (q + 1)
        /\ \A i \in 1..p - 1 : w[i] = f.undo[i].text
        /\ w[(p - 1) + 1] = f.text
        /\ \A k \in 1..q + 1 : w[(p - 1) + 1 + k] = f.redo[(q + 1) + 1 - k].text
    BY <1>1, <1>3 DEF IsLine
  <1>6. (p - 1) + 1 = p  BY <1>1
  <1> HIDE DEF p, q, S, T
  <1>7. Len(w) = Len(v) /\ Len(v) = p + 1 + q  BY <1>0, <1>1, <1>4, <1>5
  <1>8. \A i \in 1..p + 1 + q : w[i] = v[i]
    <2> TAKE i \in 1..p + 1 + q
    <2>1. CASE i \in 1..p - 1
      <3>1. i \in 1..p  BY <1>1, <2>1
      <3>. QED  BY ZenonT(40), <2>1, <3>1, <1>1, <1>4, <1>5
    <2>2. CASE i = p
      <3>1. p \in 1..p  BY <1>1
      <3>. QED  BY <2>2, <3>1, <1>2, <1>4, <1>5, <1>6
    <2>3. CASE i = p + 1
      <3>1. 1 \in 1..q + 1 /\ (q + 1) + 1 - 1 = q + 1  BY <1>0
      <3>2. w[p + 1] = f.redo[q + 1].text  BY <3>1, <1>5, <1>6
      <3>. QED  BY <2>3, <3>2, <1>3, <1>4
    <2>4. CASE i > p + 1
      <3> DEFINE k == i - (p + 1)
      <3>1. k \in 1..q /\ k + 1 \in 1..q + 1 /\ p + 1 + k = i /\ p + (k + 1) = i
            /\ (q + 1) + 1 - (k + 1) = q + 1 - k /\ q + 1 - k \in 1..q
        BY <1>0, <1>1, <2>4
      <3> HIDE DEF k
      <3>2. v[i] = e.redo[q + 1 - k].text  BY <3>1, <1>4
      <3> DEFINE j == k + 1
      <3>3. j \in 1..q + 1 /\ p + j = i /\ (q + 1) + 1 - j = q + 1 - k  BY <3>1
      <3> HIDE DEF j
      <3>4. w[(p - 1) + 1 + j] = f.redo[(q + 1) + 1 - j].text  BY <3>3, <1>5
      <3>5. w[i] = f.redo[q + 1 - k].text  BY <3>3, <3>4, <1>6
      <3>. QED  BY <3>1, <3>2, <3>5, <1>3
    <2>. QED  BY <1>0, <1>1, <2>1, <2>2, <2>3, <2>4
  <1>9. w = v  BY <1>4, <1>5, <1>7, <1>8, SeqEqual
  <1>. QED  BY <1>1, <1>6, <1>9 DEF p

(* Appending is undone by Front and Last. *)
LEMMA AppendParts ==
  ASSUME NEW S, NEW s \in Seq(S), NEW x \in S
  PROVE  Append(s, x) # <<>> /\ s = Front(Append(s, x)) /\ x = Last(Append(s, x))
  <1> DEFINE a == Append(s, x)  n == Len(s)
  <1>1. /\ a \in Seq(S) /\ a # <<>> /\ Len(a) = n + 1 /\ n \in Nat
        /\ \A i \in 1..n : a[i] = s[i]
        /\ a[n + 1] = x
    BY AppendProperties, LenProperties
  <1> HIDE DEF a
  <1>2. /\ Front(a) \in Seq(S) /\ Len(Front(a)) = n /\ \A i \in 1..n : Front(a)[i] = a[i]
    <2>1. /\ Front(a) \in Seq(S) /\ Len(Front(a)) = Len(a) - 1
          /\ \A i \in 1..Len(a) - 1 : Front(a)[i] = a[i]
      BY <1>1, RingParts
    <2>2. Len(a) - 1 = n  BY <1>1
    <2>. QED  BY <2>1, <2>2
  <1>3. s = Front(a)  BY <1>1, <1>2, SeqEqual
  <1>4. x = Last(a)  BY <1>1 DEF Last
  <1>. QED  BY <1>1, <1>3, <1>4 DEF a

(* A non-empty sequence is its Front with its Last. *)
LEMMA PartsJoin ==
  ASSUME NEW S, NEW s \in Seq(S), s # <<>>
  PROVE  s = Append(Front(s), Last(s))
  <1> DEFINE f == Front(s)  x == Last(s)  n == Len(s)
  <1>1. /\ x \in S /\ f \in Seq(S) /\ Len(f) = n - 1 /\ n \in Nat \ {0}
        /\ \A k \in 1..n - 1 : f[k] = s[k]
    BY RingParts
  <1>2. s[n] = x  BY DEF Last
  <1> HIDE DEF f, x
  <1>3. /\ Append(f, x) \in Seq(S) /\ Len(Append(f, x)) = (n - 1) + 1
        /\ \A k \in 1..n - 1 : Append(f, x)[k] = f[k]
        /\ Append(f, x)[(n - 1) + 1] = x
    BY <1>1, AppendProperties
  <1>4. (n - 1) + 1 = n  BY <1>1
  <1>5. \A k \in 1..n : Append(f, x)[k] = s[k]
    <2> TAKE k \in 1..n
    <2>1. CASE k = n  BY <2>1, <1>2, <1>3, <1>4
    <2>2. CASE k # n
      <3>1. k \in 1..n - 1  BY <1>1, <2>2
      <3>. QED  BY <3>1, <1>1, <1>3
    <2>. QED  BY <2>1, <2>2
  <1>6. s = Append(f, x)  BY <1>3, <1>4, <1>5, SeqEqual
  <1>. QED  BY <1>6 DEF f, x

(* Every key is a step along the line, or leaves it. *)
LEMMA LineStep ==
  ASSUME EditorInv, Effect, EditorInv'
  PROVE  [Line!Next]_(Line!vars)
  <1> DEFINE v == Versions(ed)  w == Versions(ed)'  h == Len(ed.undo) + 1  g == Len(ed'.undo) + 1
             R == Tokens
  <1>0. /\ ed \in EditorType(R) /\ ed' \in EditorType(R) /\ Marked(ed)
    BY DEF EditorInv, Marked
  <1> HIDE DEF R
  <1>1. IsLine(R, ed, v) /\ IsLine(R, ed', w)
    <2>1. w = Versions(ed')  BY DEF Versions, Texts, Reverse
    <2>. QED  BY <1>0, <2>1, VersionsAre
  <1>2. h = Len(ed.undo) + 1 /\ g = Len(ed'.undo) + 1 /\ v = Versions(ed) /\ w = Versions(ed)'
    OBVIOUS
  <1>h. h = Len(ed.undo) + 1 /\ g = Len(ed'.undo) + 1  OBVIOUS
  <1>3. Line!vars = <<v, h>> /\ (Line!vars)' = <<w, g>>
    BY DEF Line!vars, Versions
  <1>n. Len(ed.undo) \in Nat /\ Len(ed'.undo) \in Nat /\ MaxUndo \in Nat \ {0}  BY <1>0, EditorFacts
  <1> HIDE DEF v, w, h, g
  <1>4. Line!Next <=>
          \/ Len(w) = 1 /\ g = 1
          \/ Edits(v, h, w, g)
          \/ /\ h = Len(v) /\ h > 1 /\ g = h /\ Len(w) = h
             /\ SubSeq(w, 1, h - 1) = SubSeq(v, 1, h - 1)
          \/ h > 1 /\ g = h - 1 /\ w = v
          \/ h < Len(v) /\ g = h + 1 /\ w = v
    BY <1>2 DEF Line!Next, Line!Load, Line!Edit, Line!TypeOn, Line!Undo, Line!Redo, Edits, Versions
  <1>5. CASE Same(ed, ed')
    <2>1. w = v /\ g = h
      <3>1. ed'.text = ed.text /\ ed'.undo = ed.undo /\ ed'.redo = ed.redo  BY <1>5 DEF Same
      <3>2. g = h  BY <3>1, <1>2
      <3>3. Versions(ed)' = Versions(ed)  BY <3>1 DEF Versions, Texts, Reverse
      <3>. QED  BY <3>2, <3>3, <1>2
    <2>. QED  BY <1>3, <2>1
  <1>6. CASE Edited(ed, ed')
    <2>1. Edits(v, h, w, g)  BY <1>0, <1>1, <1>2, <1>6, EditsLine
    <2>. QED  BY <1>4, <2>1
  <1>7. CASE TypedOn(ed, ed')
    <2> DEFINE p == Len(ed.undo)
    <2>1. ed.undo # <<>> /\ ed.redo = <<>> /\ ed'.undo = ed.undo /\ ed'.redo = ed.redo
      BY <1>0, <1>7 DEF TypedOn, Marked
    <2>2. Len(ed.redo) = 0 /\ p \in Nat \ {0}
      <3>1. ed.undo \in Seq(SnapType(R))  BY <1>0, EditorFacts
      <3>. QED  BY <2>1, <3>1, EmptySeq
    <2>3. h = p + 1 /\ g = p + 1  BY <1>2, <2>1
    <2>4. /\ v \in Seq(Seq(R)) /\ Len(v) = p + 1 /\ \A i \in 1..p : v[i] = ed.undo[i].text
          /\ w \in Seq(Seq(R)) /\ Len(w) = p + 1 /\ \A i \in 1..p : w[i] = ed.undo[i].text
      BY <1>1, <2>1, <2>2 DEF IsLine
    <2> HIDE DEF p
    <2>5. SubSeq(w, 1, p) = SubSeq(v, 1, p)
      <3>1. p \in 0..Len(w) /\ p <= Len(v) /\ \A i \in 1..p : w[i] = v[i]  BY <2>2, <2>4
      <3>. QED  BY <2>4, <3>1, SameFront
    <2>6. h > 1 /\ h - 1 = p  BY <2>2, <2>3
    <2>. QED  BY <1>4, <2>3, <2>4, <2>5, <2>6
  <1>8. CASE Loaded(ed')
    <2>1. Len(ed'.undo) = 0 /\ Len(ed'.redo) = 0  BY <1>8, EmptySeq DEF Loaded
    <2>2. Len(w) = 1 /\ g = 1  BY <1>1, <1>2, <2>1 DEF IsLine
    <2>. QED  BY <1>4, <2>2
  <1>9. CASE Undone(ed, ed')
    <2>1. Snap(ed) \in SnapType(R) /\ Snap(ed).text = ed.text  BY <1>0, SnapFits DEF Snap
    <2>2. w = v /\ Len(ed'.undo) + 1 = Len(ed.undo)  BY <1>0, <1>1, <1>9, <2>1, SameLine DEF Undone
    <2>3. h > 1 /\ g = h - 1  BY <1>2, <1>n, <2>2
    <2>. QED  BY <1>4, <2>2, <2>3
  <1>10. CASE Redone(ed, ed')
    <2> DEFINE x == Snap(ed)  y == Last(ed.redo)
    <2>1. x \in SnapType(R) /\ x.text = ed.text  BY <1>0, SnapFits DEF Snap
    <2>2. /\ ed.undo \in Seq(SnapType(R)) /\ ed.redo \in Seq(SnapType(R))
          /\ ed.redo # <<>> /\ ed'.redo = Front(ed.redo) /\ ed'.undo = Append(ed.undo, x)
          /\ ed'.text = y.text
      BY <1>0, <1>10, EditorFacts DEF Redone
    <2>3. y \in SnapType(R) /\ ed.redo = Append(Front(ed.redo), y)  BY <2>2, RingParts, PartsJoin
    <2> HIDE DEF x, y
    <2>4. ed'.undo # <<>> /\ ed.undo = Front(ed'.undo) /\ x = Last(ed'.undo)  BY <2>1, <2>2, AppendParts
    <2>5. ed.text = Last(ed'.undo).text /\ ed.redo = Append(ed'.redo, y)  BY <2>1, <2>2, <2>3, <2>4
    <2>a. ed'.undo # <<>> /\ ed.undo = Front(ed'.undo) /\ ed.text = Last(ed'.undo).text
      BY <2>4, <2>5
    <2>b. y \in SnapType(R) /\ y.text = ed'.text /\ ed.redo = Append(ed'.redo, y)
      BY <2>2, <2>3, <2>5
    <2>6. v = w /\ Len(ed.undo) + 1 = Len(ed'.undo)
      BY ONLY <1>0, <1>1, <2>a, <2>b, SameLine
    <2>7. g = h + 1  BY <1>2, <1>n, <2>6
    <2>8. h < Len(v)
      <3>1. Len(w) = Len(ed'.undo) + 1 + Len(ed'.redo) /\ Len(ed'.redo) \in Nat
        BY <1>0, <1>1, EditorFacts DEF IsLine
      <3>2. Len(v) = Len(ed'.undo) + 1 + Len(ed'.redo)  BY <2>6, <3>1
      <3>3. h = Len(ed.undo) + 1  BY <1>h
      <3> DEFINE a == Len(ed.undo)  b == Len(ed'.undo)  c == Len(ed'.redo)
      <3>4. a \in Nat /\ b \in Nat /\ c \in Nat  BY <1>n, <3>1
      <3>5. h = a + 1 /\ a + 1 = b /\ Len(v) = b + 1 + c  BY <2>6, <3>2, <3>3
      <3> HIDE DEF a, b, c
      <3>. QED  BY <3>4, <3>5
    <2>. QED  BY <1>4, <2>6, <2>7, <2>8
  <1>11. CASE Turns
    <2>1. CASE KilledHere(Tokens, ed, ed')
      <3>1. Edited(ed, ed')  BY <2>1 DEF KilledHere, Killed
      <3>. QED  BY <1>6, <3>1
    <2>2. CASE Yanked(Tokens, ed, ed')
      <3>1. Edited(ed, ed')  BY <2>2 DEF Yanked
      <3>. QED  BY <1>6, <3>1
    <2>3. CASE Popped(Tokens, ed, ed')
      <3>1. Edited(ed, ed')  BY <2>3 DEF Popped
      <3>. QED  BY <1>6, <3>1
    <2>4. CASE ed' = ed
      <3>1. Same(ed, ed')  BY <2>4 DEF Same
      <3>. QED  BY <1>5, <3>1
    <2>5. CASE \E i \in 0..Len(ed.text) : ed' = [ed EXCEPT !.at = i] /\ run' = RunAfter("host", ed')
      <3>1. PICK i \in 0..Len(ed.text) : ed' = [ed EXCEPT !.at = i]  BY <2>5
      <3>2. Same(ed, ed')  BY <1>0, <3>1 DEF Same, EditorType
      <3>. QED  BY <1>5, <3>2
    <2>. QED  BY <1>9, <1>10, <1>11, <2>1, <2>2, <2>3, <2>4, <2>5 DEF Turns
  <1>12. CASE Plainly(Tokens, ed, ed')  BY <1>5, <1>6, <1>7, <1>8, <1>12 DEF Plainly
  <1>. QED  BY <1>11, <1>12 DEF Effect

(* The editor's two stacks and its text are a line that UndoLine allows:   *)
(* undo and redo walk along it, every other key that changes the text cuts *)
(* off what lies ahead.                                                    *)
THEOREM UndoIsALine == Spec => KeepsUndoLine
  <1>1. Init => Line!Init
    <2> SUFFICES ASSUME Init PROVE Line!Init  OBVIOUS
    <2>1. PICK d \in world.drafts \cup {<<>>} : ed = SetText(New, d)  BY DEF Init
    <2>2. ed.undo = <<>> /\ ed.redo = <<>>  BY <2>1 DEF SetText, Load, Reset, New
    <2>3. EditorInv  BY EditorStarts
    <2>4. IsLine(Tokens, ed, Versions(ed))  BY <2>3, VersionsAre DEF EditorInv
    <2>5. Len(ed.undo) = 0 /\ Len(ed.redo) = 0  BY <2>2, EmptySeq
    <2>6. Len(Versions(ed)) = 1 /\ Len(ed.undo) + 1 = 1  BY <2>4, <2>5 DEF IsLine
    <2>. QED  BY <2>6 DEF Line!Init, Versions
  <1>2. EditorInv /\ EditorInv' /\ [Next]_vars => [Line!Next]_(Line!vars)  BY NextEffect, LineStep
  <1>. QED  BY <1>1, <1>2, EditorCorrect, PTL DEF Spec, KeepsUndoLine, Line!Spec
=============================================================================
