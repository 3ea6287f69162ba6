------------------------- MODULE TerminalInputProofs -------------------------
(***************************************************************************)
(* What the terminal input bridge keeps for every queue limit and every    *)
(* number of keys and messages.  One fact about the handlers carries the   *)
(* proof: whatever happens, a handler releases a front part of the line of *)
(* held keys ("Releases") and leaves the rest of it as it was.             *)
(***************************************************************************)
EXTENDS TerminalInput, TLAPS, SequenceTheorems

Typed(b) == b \in BridgeType /\ Len(b.queue) <= MaxTerminalInputQueue
Timed(b) == (b.armed <=> b.inFlight # None) /\ (b.queue # <<>> => b.inFlight # None)

(* The handler that turns b into c applies the first n keys of the line.   *)
Releases(b, line, c, n) ==
  /\ n \in 0..Len(line)
  /\ Len(c.out) = Len(b.out) + n
  /\ \A i \in 1..Len(b.out) : c.out[i] = b.out[i]
  /\ \A i \in 1..n : c.out[Len(b.out) + i].ev = line[i].ev /\ c.out[Len(b.out) + i].held
  /\ Len(Held(c)) = Len(line) - n
  /\ \A k \in 1..Len(Held(c)) : Held(c)[k] = line[n + k]

(* What c applied beyond b, it applied as it was typed. *)
Plain(b, c) == \A i \in Len(b.out) + 1 .. Len(c.out) : c.out[i].how = "plain"

(* The key "ev" is the last of c's line, or applied out of the line.       *)
Joins(b, ev, c) ==
  /\ c.out = b.out
  /\ Len(Held(c)) = Len(Held(b)) + 1
  /\ \A k \in 1..Len(Held(b)) : Held(c)[k] = Held(b)[k]
  /\ Held(c)[Len(Held(b)) + 1].ev = ev
Skips(b, ev, c) ==
  /\ c.out = Append(b.out, [ev |-> ev, id |-> 0, how |-> "plain", held |-> FALSE])
  /\ Held(c) = Held(b)

(* The keys 1..t are where they belong: each applied or held, exactly once *)
(* because there are t places; those held are in the order they were       *)
(* typed, and behind all that were held before.                            *)
InLine(b, t) ==
  LET h == Held(b)
  IN  /\ Len(b.out) + Len(h) = t
      /\ \A k \in 1..t : \/ \E i \in 1..Len(b.out) : b.out[i].ev = k
                         \/ \E j \in 1..Len(h) : h[j].ev = k
      /\ \A i \in 1..Len(b.out) : b.out[i].ev \in 1..t
      /\ \A j \in 1..Len(h) : h[j].ev \in 1..t
      /\ \A j, k \in 1..Len(h) : j < k => h[j].ev < h[k].ev
      /\ \A i, j \in 1..Len(b.out) :
           i < j /\ b.out[i].held /\ b.out[j].held => b.out[i].ev < b.out[j].ev
      /\ \A i \in 1..Len(b.out), k \in 1..Len(h) : b.out[i].held => b.out[i].ev < h[k].ev

(* Keys swallowed or replaced were the peer's answer.                      *)
Attested(b, s) ==
  \A i \in 1..Len(b.out) : b.out[i].how # "plain" => <<b.out[i].id, b.out[i].how>> \in s

-----------------------------------------------------------------------------
(* The shape of the line of held keys. *)
LEMMA HeldShape ==
  ASSUME NEW b \in BridgeType
  PROVE  /\ Held(b) \in Seq(Item)
         /\ b.inFlight = None => Held(b) = b.queue
         /\ b.inFlight # None =>
              /\ b.inFlight \in Item
              /\ Len(Held(b)) = Len(b.queue) + 1
              /\ Held(b)[1] = b.inFlight
              /\ \A k \in 1..Len(b.queue) : Held(b)[k + 1] = b.queue[k]
<1> DEFINE q == b.queue
<1>1. q \in Seq(Item) /\ b.inFlight \in Item \cup {None}  BY DEF BridgeType
<1>2. CASE b.inFlight = None
  <2>1. Held(b) = q  BY <1>1, <1>2 DEF Held
  <2> QED  BY <1>1, <1>2, <2>1
<1>3. CASE b.inFlight # None
  <2>1. b.inFlight \in Item  BY <1>1, <1>3
  <2>2. Held(b) = <<b.inFlight>> \o q  BY <1>3 DEF Held
  <2>3. <<b.inFlight>> \in Seq(Item)  BY <2>1
  <2> HIDE DEF q
  <2>4. /\ Held(b) \in Seq(Item)
        /\ Len(Held(b)) = Len(q) + 1
        /\ Held(b)[1] = b.inFlight
        /\ \A k \in 1..Len(q) : Held(b)[k + 1] = q[k]
    BY <1>1, <2>1, <2>2, <2>3
  <2> QED  BY <1>3, <2>1, <2>4 DEF q
<1> QED  BY <1>2, <1>3

(* Keys applied as they were typed, one after another. *)
LEMMA OriginalsShape ==
  ASSUME NEW b \in BridgeType, NEW items \in Seq(Item)
  PROVE  LET s == b.out \o Originals(items)
         IN  /\ s \in Seq(Applied)
             /\ Len(s) = Len(b.out) + Len(items)
             /\ \A i \in 1..Len(b.out) : s[i] = b.out[i]
             /\ \A i \in 1..Len(items) : s[Len(b.out) + i] = Routed(items[i], "plain")
<1> DEFINE r == Originals(items)
<1>1. b.out \in Seq(Applied)  BY DEF BridgeType
<1>2. \A i \in 1..Len(items) : Routed(items[i], "plain") \in Applied
  <2> TAKE i \in 1..Len(items)
  <2>1. items[i] \in Item  OBVIOUS
  <2> QED  BY <2>1 DEF Routed, Applied, Item
<1>3. /\ r \in Seq(Applied) /\ Len(r) = Len(items)
      /\ \A i \in 1..Len(items) : r[i] = Routed(items[i], "plain")
  <2>1. Len(items) \in Nat  OBVIOUS
  <2> QED  BY <1>2, <2>1 DEF Originals
<1> HIDE DEF r
<1>4. /\ b.out \o r \in Seq(Applied)
      /\ Len(b.out \o r) = Len(b.out) + Len(r)
      /\ \A i \in 1..Len(b.out) : (b.out \o r)[i] = b.out[i]
      /\ \A i \in 1..Len(r) : (b.out \o r)[Len(b.out) + i] = r[i]
  BY SMTT(40), <1>1, <1>3
<1> QED  BY <1>3, <1>4 DEF r

(* A handler that leaves the line alone. *)
LEMMA NothingReleased ==
  ASSUME NEW b \in BridgeType, NEW d \in BridgeType, d.out = b.out, Held(d) = Held(b)
  PROVE  Releases(b, Held(b), d, 0) /\ Plain(b, d)
<1> DEFINE h == Held(b)
<1>1. Len(b.out) \in Nat /\ Len(h) \in Nat  BY HeldShape DEF BridgeType
<1>2. Plain(b, d)  BY <1>1 DEF Plain
<1>3. Len(h) - 0 = Len(h) /\ 0 \in 0..Len(h) /\ Len(b.out) + 0 = Len(b.out) /\ 1..0 = {}
  BY <1>1
<1>4. \A k \in 1..Len(h) : h[k] = h[0 + k]
  <2> TAKE k \in 1..Len(h)
  <2>1. 0 + k = k  OBVIOUS
  <2> QED  BY <2>1
<1> HIDE DEF h
<1> QED  BY <1>2, <1>3, <1>4 DEF Releases, h

(* One handler calls another: what both release, in turn. *)
LEMMA ReleasesInTurn ==
  ASSUME NEW b \in BridgeType, NEW c \in BridgeType, NEW d \in BridgeType,
         NEW line \in Seq(Item), NEW n, NEW m,
         Releases(b, line, c, n), Releases(c, Held(c), d, m)
  PROVE  Releases(b, line, d, n + m)
<1>1. n \in Nat /\ m \in Nat /\ n <= Len(line) /\ Len(line) \in Nat
  BY HeldShape DEF Releases
<1>2. Len(b.out) \in Nat /\ Len(c.out) \in Nat /\ Len(d.out) \in Nat
  BY DEF BridgeType
<1>3. /\ Len(c.out) = Len(b.out) + n
      /\ Len(Held(c)) = Len(line) - n
      /\ Len(d.out) = Len(c.out) + m
      /\ Len(Held(d)) = Len(Held(c)) - m /\ m <= Len(Held(c))
  BY HeldShape DEF Releases
<1>4. /\ \A i \in 1..Len(b.out) : c.out[i] = b.out[i]
      /\ \A i \in 1..n : c.out[Len(b.out) + i].ev = line[i].ev /\ c.out[Len(b.out) + i].held
      /\ \A k \in 1..Len(Held(c)) : Held(c)[k] = line[n + k]
  BY DEF Releases
<1>5. /\ \A i \in 1..Len(c.out) : d.out[i] = c.out[i]
      /\ \A i \in 1..m : d.out[Len(c.out) + i].ev = Held(c)[i].ev /\ d.out[Len(c.out) + i].held
      /\ \A k \in 1..Len(Held(d)) : Held(d)[k] = Held(c)[m + k]
  BY DEF Releases
<1> DEFINE lb == Len(b.out)  lc == Len(c.out)  ld == Len(d.out)
           hc == Held(c)     hd == Held(d)     co == c.out  do == d.out
<1> HIDE DEF lb, lc, ld, hc, hd, co, do
<1>6. \A i \in 1..lb : do[i] = b.out[i]
  <2> TAKE i \in 1..lb
  <2>1. i \in 1..lc  BY <1>1, <1>2, <1>3 DEF lb, lc
  <2> QED  BY <1>4, <1>5, <2>1 DEF lb, lc, do
<1>7. \A i \in 1..(n + m) : do[lb + i].ev = line[i].ev /\ do[lb + i].held
  <2> TAKE i \in 1..(n + m)
  <2>1. CASE i <= n
    <3>1. i \in 1..n /\ lb + i \in 1..lc  BY <1>1, <1>2, <1>3, <2>1 DEF lb, lc
    <3>2. do[lb + i] = co[lb + i]  BY <1>5, <3>1 DEF lc, do, co
    <3> QED  BY <1>4, <3>1, <3>2 DEF lb, co
  <2>2. CASE i > n
    <3> DEFINE j == i - n
    <3>1. j \in 1..m /\ lc + j = lb + i /\ n + j = i  BY <1>1, <1>2, <1>3, <2>2 DEF lb, lc
    <3>2. j \in 1..Len(hc)  BY <1>1, <1>3, <3>1 DEF hc
    <3> HIDE DEF j
    <3>3. do[lc + j].ev = hc[j].ev /\ do[lc + j].held  BY <1>5, <3>1 DEF lc, do, hc
    <3>4. hc[j] = line[n + j]  BY <1>4, <3>2 DEF hc
    <3> QED  BY <3>1, <3>3, <3>4
  <2> QED  BY <1>1, <2>1, <2>2
<1>8. \A k \in 1..Len(hd) : hd[k] = line[(n + m) + k]
  <2> TAKE k \in 1..Len(hd)
  <2>1. m + k \in 1..Len(hc) /\ n + (m + k) = (n + m) + k  BY <1>1, <1>3 DEF hc, hd
  <2>2. hd[k] = hc[m + k]  BY <1>5 DEF hc, hd
  <2>3. hc[m + k] = line[n + (m + k)]  BY <1>4, <2>1 DEF hc
  <2> QED  BY <2>1, <2>2, <2>3
<1>9. ld = lb + (n + m) /\ n + m \in 0..Len(line) /\ Len(hd) = Len(line) - (n + m)
  <2>1. ld = lc + m /\ lc = lb + n /\ lb \in Nat  BY <1>2, <1>3 DEF lb, lc, ld
  <2>2. Len(hd) = Len(hc) - m /\ Len(hc) = Len(line) - n /\ m <= Len(hc)  BY <1>3 DEF hc, hd
  <2> QED  BY <1>1, <2>1, <2>2
<1> QED  BY <1>6, <1>7, <1>8, <1>9 DEF Releases, lb, ld, hd, do

(* What two handlers apply as typed, one after the other, is applied as typed. *)
LEMMA PlainInTurn ==
  ASSUME NEW b \in BridgeType, NEW c \in BridgeType, NEW d \in BridgeType,
         NEW line, NEW n,
         Releases(c, line, d, n), Plain(b, c), Plain(c, d)
  PROVE  Plain(b, d)
<1>1. Len(b.out) \in Nat /\ Len(c.out) \in Nat /\ Len(d.out) \in Nat  BY DEF BridgeType
<1>2. \A i \in 1..Len(c.out) : d.out[i] = c.out[i]  BY DEF Releases
<1> SUFFICES ASSUME NEW i \in Len(b.out) + 1 .. Len(d.out)  PROVE d.out[i].how = "plain"
  BY DEF Plain
<1>3. CASE i <= Len(c.out)
  <2>1. i \in Len(b.out) + 1 .. Len(c.out) /\ i \in 1..Len(c.out)  BY <1>1, <1>3
  <2> QED  BY <1>2, <2>1 DEF Plain
<1>4. CASE i > Len(c.out)
  <2>1. i \in Len(c.out) + 1 .. Len(d.out)  BY <1>1, <1>4
  <2> QED  BY <2>1 DEF Plain
<1> QED  BY <1>1, <1>3, <1>4

(* Drain releases the whole line, once nothing is in flight. *)
LEMMA DrainReleases ==
  ASSUME NEW b, Typed(b), b.inFlight = None, ~b.armed
  PROVE  /\ Typed(Drain(b)) /\ Timed(Drain(b))
         /\ Releases(b, Held(b), Drain(b), Len(Held(b)))
         /\ Plain(b, Drain(b))
<1> DEFINE c == Drain(b)
<1>1. b \in BridgeType /\ b.queue \in Seq(Item) /\ b.out \in Seq(Applied)  BY DEF Typed, BridgeType
<1>2. Held(b) = b.queue  BY <1>1, HeldShape
<1> DEFINE o == b.out \o Originals(b.queue)
<1>3. c = [b EXCEPT !.queue = <<>>, !.out = o]  BY DEF Drain
<1>4. /\ o \in Seq(Applied) /\ Len(o) = Len(b.out) + Len(b.queue)
      /\ \A i \in 1..Len(b.out) : o[i] = b.out[i]
      /\ \A i \in 1..Len(b.queue) : o[Len(b.out) + i] = Routed(b.queue[i], "plain")
  BY <1>1, OriginalsShape
<1> HIDE DEF c, o
<1>5. c \in BridgeType /\ c.queue = <<>> /\ c.inFlight = None /\ ~c.armed /\ c.out = o
  <2>1. <<>> \in Seq(Item)  OBVIOUS
  <2> QED  BY <1>1, <1>3, <1>4, <2>1 DEF BridgeType
<1>6. Typed(c) /\ Timed(c)
  BY <1>5, BridgeAssumption DEF Typed, Timed
<1>7. Held(c) = <<>>  BY <1>5, HeldShape
<1> DEFINE n == Len(b.queue)  lb == Len(b.out)
<1>8. Releases(b, b.queue, c, n)
  <2>1. n \in Nat /\ lb \in Nat  BY <1>1
  <2>2. \A i \in 1..n : o[lb + i].ev = b.queue[i].ev /\ o[lb + i].held
    <3> TAKE i \in 1..n
    <3>1. o[lb + i] = [ev |-> b.queue[i].ev, id |-> b.queue[i].id, how |-> "plain", held |-> TRUE]
      BY <1>4 DEF Routed
    <3> QED  BY <3>1
  <2>3. Len(Held(c)) = 0 /\ 1..Len(Held(c)) = {}  BY <1>7
  <2> HIDE DEF n, lb
  <2>4. n \in 0..n /\ n - n = 0  BY <2>1
  <2>5. Len(c.out) = lb + n /\ n = Len(b.queue) /\ lb = Len(b.out)  BY <1>4, <1>5 DEF n, lb
  <2>6. \A i \in 1..lb : o[i] = b.out[i]  BY <1>4 DEF lb
  <2> QED  BY <1>5, <2>2, <2>3, <2>4, <2>5, <2>6 DEF Releases
<1>9. Plain(b, c)
  <2> SUFFICES ASSUME NEW i \in lb + 1 .. Len(c.out)  PROVE c.out[i].how = "plain"
    BY DEF Plain
  <2>1. lb \in Nat /\ n \in Nat  BY <1>1
  <2>2. Len(c.out) = lb + n  BY <1>4, <1>5
  <2> HIDE DEF lb, n
  <2>3. i - lb \in 1..n /\ lb + (i - lb) = i  BY <2>1, <2>2
  <2>4. o[lb + (i - lb)] = Routed(b.queue[i - lb], "plain")  BY <1>4, <2>3 DEF lb, n
  <2> QED  BY <1>5, <2>3, <2>4 DEF Routed
<1> QED  BY <1>2, <1>6, <1>8, <1>9 DEF c

(* The first key of the line is applied and the rest stays. *)
LEMMA FirstReleased ==
  ASSUME NEW b \in BridgeType, NEW c \in BridgeType, NEW line \in Seq(Item), NEW how,
         line # <<>>,
         c.out = Append(b.out, Routed(line[1], how)),
         Len(Held(c)) = Len(line) - 1,
         \A k \in 1..Len(Held(c)) : Held(c)[k] = line[k + 1]
  PROVE  /\ Releases(b, line, c, 1)
         /\ c.out[Len(b.out) + 1] = Routed(line[1], how)
         /\ how = "plain" => Plain(b, c)
<1> DEFINE lb == Len(b.out)  o == c.out
<1>1. b.out \in Seq(Applied) /\ lb \in Nat  BY DEF BridgeType
<1>2. Len(line) \in Nat /\ Len(line) >= 1  OBVIOUS
<1>3. /\ Len(o) = lb + 1 /\ o[lb + 1] = Routed(line[1], how)
      /\ \A i \in 1..lb : o[i] = b.out[i]
  BY <1>1
<1>4. \A i \in 1..1 : o[lb + i].ev = line[i].ev /\ o[lb + i].held
  <2>1. o[lb + 1].ev = line[1].ev /\ o[lb + 1].held  BY <1>3 DEF Routed
  <2> HIDE DEF o, lb
  <2> QED  BY <2>1
<1>5. 1 \in 0..Len(line)  BY <1>2
<1>6. \A k \in 1..Len(Held(c)) : Held(c)[k] = line[1 + k]
  <2> TAKE k \in 1..Len(Held(c))
  <2>1. k + 1 = 1 + k  OBVIOUS
  <2> QED  BY <2>1
<1> HIDE DEF lb, o
<1>7. Releases(b, line, c, 1)  BY <1>3, <1>4, <1>5, <1>6 DEF Releases, lb, o
<1>8. how = "plain" => Plain(b, c)
  <2> SUFFICES ASSUME how = "plain", NEW i \in lb + 1 .. Len(o)  PROVE o[i].how = "plain"
    BY DEF Plain, lb, o
  <2>1. i = lb + 1  BY <1>1, <1>3
  <2> QED  BY <1>3, <2>1 DEF Routed
<1> QED  BY <1>3, <1>7, <1>8 DEF lb, o

(* The next key of the line is sent and stays the first of it. *)
LEMMA AskReleases ==
  ASSUME NEW b, Typed(b), b.inFlight = None, b.queue # <<>>
  PROVE  LET c == Ask([b EXCEPT !.queue = Tail(@)], Head(b.queue))
         IN  /\ Typed(c) /\ Timed(c)
             /\ Releases(b, Held(b), c, 0)
             /\ c.out = b.out /\ c.active = b.active
<1> DEFINE q == b.queue  c == Ask([b EXCEPT !.queue = Tail(@)], Head(q))
<1>1. b \in BridgeType /\ q \in Seq(Item) /\ Len(q) <= MaxTerminalInputQueue  BY DEF Typed, BridgeType
<1>2. /\ Tail(q) \in Seq(Item) /\ Head(q) \in Item /\ Len(Tail(q)) = Len(q) - 1
      /\ Len(q) \in Nat /\ Head(q) = q[1]
      /\ \A k \in 1..Len(Tail(q)) : Tail(q)[k] = q[k + 1]
  BY <1>1
<1>3. Head(q).id \in Nat /\ Head(q) # None  BY <1>2, BridgeAssumption DEF Item
<1>4. /\ c.inFlight = Head(q) /\ c.queue = Tail(q) /\ c.armed = TRUE
      /\ c.out = b.out /\ c.active = b.active /\ c \in BridgeType
  BY <1>1, <1>2, <1>3 DEF Ask, BridgeType
<1> HIDE DEF c
<1>5. Typed(c) /\ Timed(c)
  <2>1. Len(c.queue) <= MaxTerminalInputQueue  BY <1>1, <1>2, <1>4, BridgeAssumption
  <2> QED  BY <1>3, <1>4, <2>1 DEF Typed, Timed
<1>6. Held(b) = q  BY <1>1, HeldShape
<1>7. Len(Held(c)) = Len(q) /\ \A k \in 1..Len(Held(c)) : Held(c)[k] = q[k]
  <2>1. /\ Len(Held(c)) = Len(Tail(q)) + 1 /\ Held(c)[1] = Head(q)
        /\ \A k \in 1..Len(Tail(q)) : Held(c)[k + 1] = Tail(q)[k]
    <3>1. c.inFlight # None /\ c \in BridgeType  BY <1>3, <1>4
    <3>2. /\ Len(Held(c)) = Len(c.queue) + 1 /\ Held(c)[1] = c.inFlight
          /\ \A k \in 1..Len(c.queue) : Held(c)[k + 1] = c.queue[k]
      BY <3>1, HeldShape
    <3> QED  BY <1>4, <3>2
  <2> SUFFICES ASSUME NEW k \in 1..Len(q)  PROVE Held(c)[k] = q[k]
    BY <1>2, <2>1
  <2>2. CASE k = 1  BY <1>2, <2>1, <2>2
  <2>3. CASE k > 1
    <3>1. k - 1 \in 1..Len(Tail(q)) /\ (k - 1) + 1 = k  BY <1>2, <2>3
    <3> QED  BY <1>2, <2>1, <3>1
  <2> QED  BY <2>2, <2>3
<1>8. Releases(b, q, c, 0)
  <2>1. 0 \in 0..Len(q) /\ 1..0 = {} /\ Len(q) - 0 = Len(q)  BY <1>2
  <2>2. Len(b.out) \in Nat /\ Len(b.out) + 0 = Len(b.out)  BY <1>1 DEF BridgeType
  <2>3. \A k \in 1..Len(Held(c)) : Held(c)[k] = q[0 + k]
    <3> TAKE k \in 1..Len(Held(c))
    <3>1. 0 + k = k  OBVIOUS
    <3> QED  BY <1>7, <3>1
  <2> HIDE DEF q
  <2> QED  BY <1>4, <1>7, <2>1, <2>2, <2>3 DEF Releases
<1> QED  BY <1>4, <1>5, <1>6, <1>8 DEF c

(* Pump sends the next key, or, when it cannot, releases the whole line. *)
LEMMA PumpReleases ==
  ASSUME NEW b, Typed(b), b.inFlight = None, ~b.armed
  PROVE  /\ Typed(Pump(b)) /\ Timed(Pump(b)) /\ Plain(b, Pump(b))
         /\ \E n \in Nat : Releases(b, Held(b), Pump(b), n)
<1>1. /\ b \in BridgeType /\ b.queue \in Seq(Item) /\ b.out \in Seq(Applied)
      /\ Len(b.queue) <= MaxTerminalInputQueue /\ Held(b) = b.queue
  BY HeldShape DEF Typed, BridgeType
<1>2. CASE b.queue = <<>>
  <2>1. Pump(b) = b  BY <1>2 DEF Pump
  <2>2. Timed(b)  BY <1>2 DEF Timed
  <2>3. Len(b.out) \in Nat  BY <1>1
  <2>4. Plain(b, b)  BY <2>3 DEF Plain
  <2>5. Releases(b, Held(b), b, 0)  BY <1>1, <1>2, <2>3 DEF Releases
  <2> QED  BY <2>1, <2>2, <2>4, <2>5
<1>3. CASE b.queue # <<>> /\ open
  <2> DEFINE c == Ask([b EXCEPT !.queue = Tail(@)], Head(b.queue))
  <2>1. Pump(b) = c  BY <1>3 DEF Pump
  <2>2. Typed(c) /\ Timed(c) /\ Releases(b, Held(b), c, 0) /\ c.out = b.out
    BY <1>3, AskReleases
  <2> HIDE DEF c
  <2>3. Plain(b, c)
    <3>1. Len(b.out) \in Nat  BY <1>1
    <3> QED  BY <2>2, <3>1 DEF Plain
  <2> QED  BY <2>1, <2>2, <2>3
<1>4. CASE b.queue # <<>> /\ ~open
  <2> DEFINE q == b.queue  o == Append(b.out, Routed(Head(q), "plain"))
             c == [b EXCEPT !.queue = Tail(q), !.out = o]
  <2>1. Pump(b) = Drain(c)  BY <1>4 DEF Pump
  <2>2. /\ Tail(q) \in Seq(Item) /\ Head(q) \in Item /\ Len(Tail(q)) = Len(q) - 1
        /\ Head(q) = q[1] /\ \A k \in 1..Len(Tail(q)) : Tail(q)[k] = q[k + 1]
    BY <1>1, <1>4
  <2>3. o \in Seq(Applied)
    <3>1. Routed(Head(q), "plain") \in Applied  BY <2>2 DEF Routed, Applied, Item
    <3> QED  BY <1>1, <3>1
  <2> HIDE DEF o
  <2>4. c \in BridgeType /\ c.queue = Tail(q) /\ c.out = o /\ c.inFlight = None /\ ~c.armed
    BY <1>1, <2>2, <2>3 DEF BridgeType
  <2> HIDE DEF c
  <2>5. Typed(c)  BY <1>1, <2>2, <2>4, BridgeAssumption DEF Typed
  <2>6. Held(c) = Tail(q)  BY <2>4, HeldShape
  <2>7. Releases(b, q, c, 1) /\ Plain(b, c)
    <3>1. q # <<>> /\ q \in Seq(Item)  BY <1>1, <1>4
    <3>2. c.out = Append(b.out, Routed(q[1], "plain"))  BY <2>2, <2>4 DEF o
    <3>3. Len(Held(c)) = Len(q) - 1 /\ \A k \in 1..Len(Held(c)) : Held(c)[k] = q[k + 1]
      BY <2>2, <2>6
    <3> HIDE DEF q
    <3> QED  BY <1>1, <2>4, <3>1, <3>2, <3>3, FirstReleased
  <2>8. Typed(Drain(c)) /\ Timed(Drain(c)) /\ Releases(c, Held(c), Drain(c), Len(Held(c))) /\ Plain(c, Drain(c))
    BY <2>4, <2>5, DrainReleases
  <2>9. Drain(c) \in BridgeType /\ Len(Held(c)) \in Nat  BY <2>2, <2>6, <2>8 DEF Typed
  <2>10. Releases(b, q, Drain(c), 1 + Len(Held(c)))
    BY <1>1, <2>4, <2>7, <2>8, <2>9, ReleasesInTurn
  <2>11. Plain(b, Drain(c))  BY <1>1, <2>4, <2>7, <2>8, <2>9, PlainInTurn
  <2>12. 1 + Len(Held(c)) \in Nat  BY <2>9
  <2> QED  BY <1>1, <2>1, <2>8, <2>10, <2>11, <2>12
<1> QED  BY <1>2, <1>3, <1>4

(* Settle releases the key in flight, and what Pump or Drain release then. *)
LEMMA SettleReleases ==
  ASSUME NEW b, Typed(b), b.inFlight # None, NEW how \in Verdicts \cup {"plain"}, how # "pass"
  PROVE  LET c == Settle(b, how)
         IN  /\ Typed(c) /\ Timed(c)
             /\ \E n \in Nat : Releases(b, Held(b), c, n)
             /\ \A i \in Len(b.out) + 1 .. Len(c.out) :
                  c.out[i].how # "plain" => c.out[i].how = how /\ c.out[i].id = b.inFlight.id
<1> DEFINE q == b.queue  f == b.inFlight  o == Append(b.out, Routed(f, how))
           c == [b EXCEPT !.inFlight = None, !.armed = FALSE, !.out = o]
           d == Settle(b, how)
<1>1. /\ b \in BridgeType /\ q \in Seq(Item) /\ b.out \in Seq(Applied) /\ f \in Item
      /\ Len(q) <= MaxTerminalInputQueue
  BY DEF Typed, BridgeType
<1>2. o \in Seq(Applied)
  <2>1. Routed(f, how) \in Applied  BY <1>1 DEF Routed, Applied, Item, Verdicts
  <2> QED  BY <1>1, <2>1
<1>3. d = IF b.active THEN Pump(c) ELSE Drain(c)  BY DEF Settle
<1> HIDE DEF o
<1>4. c \in BridgeType /\ c.queue = q /\ c.out = o /\ c.inFlight = None /\ ~c.armed
  BY <1>1, <1>2 DEF BridgeType
<1> HIDE DEF c, d
<1>5. Typed(c) /\ Held(c) = q  BY <1>1, <1>4, HeldShape DEF Typed
<1>6. /\ Held(b) \in Seq(Item) /\ Len(Held(b)) = Len(q) + 1 /\ Held(b)[1] = f
      /\ Held(b) # <<>> /\ \A k \in 1..Len(q) : Held(b)[k + 1] = q[k]
  <2>1. /\ Held(b) \in Seq(Item) /\ Len(Held(b)) = Len(q) + 1 /\ Held(b)[1] = f
        /\ \A k \in 1..Len(q) : Held(b)[k + 1] = q[k]
    BY <1>1, HeldShape
  <2>2. Len(q) \in Nat  BY <1>1
  <2> QED  BY <2>1, <2>2
<1>7. /\ Releases(b, Held(b), c, 1)
      /\ c.out[Len(b.out) + 1] = Routed(f, how)
  <2>1. c.out = Append(b.out, Routed(Held(b)[1], how))  BY <1>4, <1>6 DEF o
  <2>2. Len(Held(c)) = Len(Held(b)) - 1 /\ \A k \in 1..Len(Held(c)) : Held(c)[k] = Held(b)[k + 1]
    <3>1. Len(q) \in Nat  BY <1>1
    <3> QED  BY <1>5, <1>6, <3>1
  <2> HIDE DEF q, f
  <2> QED  BY ZenonT(40), <1>1, <1>4, <1>6, <2>1, <2>2, FirstReleased
<1>8. /\ Typed(d) /\ Timed(d) /\ Plain(c, d)
      /\ \E m \in Nat : Releases(c, Held(c), d, m)
  <2>1. CASE b.active  BY <1>3, <1>4, <1>5, <2>1, PumpReleases
  <2>2. CASE ~b.active
    <3>1. Len(Held(c)) \in Nat  BY <1>1, <1>5
    <3> QED  BY <1>3, <1>4, <1>5, <2>2, <3>1, DrainReleases
  <2> QED  BY <2>1, <2>2
<1>9. PICK m \in Nat : Releases(c, Held(c), d, m)  BY <1>8
<1>10. d \in BridgeType  BY <1>8 DEF Typed
<1>11. Releases(b, Held(b), d, 1 + m)  BY <1>1, <1>4, <1>6, <1>7, <1>9, <1>10, ReleasesInTurn
<1>12. ASSUME NEW i \in Len(b.out) + 1 .. Len(d.out), d.out[i].how # "plain"
       PROVE  d.out[i].how = how /\ d.out[i].id = f.id
  <2>1. Len(b.out) \in Nat /\ Len(d.out) \in Nat /\ Len(c.out) = Len(b.out) + 1
    BY <1>1, <1>7, <1>10 DEF Releases, BridgeType
  <2>2. CASE i = Len(b.out) + 1
    <3>1. i \in 1..Len(c.out)  BY <2>1, <2>2
    <3>2. d.out[i] = c.out[i]  BY <1>9, <3>1 DEF Releases
    <3>3. d.out[i] = Routed(f, how)  BY <1>7, <2>2, <3>2
    <3> QED  BY <3>3 DEF Routed
  <2>3. CASE i # Len(b.out) + 1
    <3>1. i \in Len(c.out) + 1 .. Len(d.out)  BY <2>1, <2>3
    <3> QED  BY <1>8, <1>12, <3>1 DEF Plain
  <2> QED  BY <2>2, <2>3
<1>13. 1 + m \in Nat  OBVIOUS
<1> QED  BY <1>8, <1>11, <1>12, <1>13 DEF d

(* FailOpen releases the whole line. *)
LEMMA FailOpenReleases ==
  ASSUME NEW b, Typed(b)
  PROVE  LET c == FailOpen(b)
         IN  /\ Typed(c) /\ Timed(c) /\ Plain(b, c) /\ c.inFlight = None /\ ~c.active
             /\ Releases(b, Held(b), c, Len(Held(b)))
<1> DEFINE c == FailOpen(b)  h == Held(b)  o == b.out \o Originals(h)
<1>1. b \in BridgeType /\ h \in Seq(Item) /\ b.out \in Seq(Applied)  BY HeldShape DEF Typed, BridgeType
<1>2. c = [b EXCEPT !.active = FALSE, !.armed = FALSE, !.inFlight = None, !.queue = <<>>, !.out = o]
  BY DEF FailOpen
<1>3. /\ o \in Seq(Applied) /\ Len(o) = Len(b.out) + Len(h)
      /\ \A i \in 1..Len(b.out) : o[i] = b.out[i]
      /\ \A i \in 1..Len(h) : o[Len(b.out) + i] = Routed(h[i], "plain")
  BY <1>1, OriginalsShape
<1> HIDE DEF c, o
<1>4. /\ c \in BridgeType /\ c.queue = <<>> /\ c.inFlight = None /\ ~c.armed /\ ~c.active /\ c.out = o
  <2>1. <<>> \in Seq(Item)  OBVIOUS
  <2> QED  BY <1>1, <1>2, <1>3, <2>1 DEF BridgeType
<1>5. Typed(c) /\ Timed(c) /\ Held(c) = <<>>
  BY <1>4, HeldShape, BridgeAssumption DEF Typed, Timed
<1> DEFINE n == Len(h)  lb == Len(b.out)
<1>6. n \in Nat /\ lb \in Nat  BY <1>1
<1> HIDE DEF h
<1>7. \A i \in 1..n : o[lb + i].ev = h[i].ev /\ o[lb + i].held /\ o[lb + i].how = "plain"
  <2> TAKE i \in 1..n
  <2>1. o[lb + i] = [ev |-> h[i].ev, id |-> h[i].id, how |-> "plain", held |-> TRUE]
    BY <1>3 DEF Routed
  <2> QED  BY <2>1
<1>8. Releases(b, h, c, n)
  <2>1. Len(Held(c)) = 0 /\ 1..Len(Held(c)) = {}  BY <1>5
  <2>2. n \in 0..n /\ n - n = 0  BY <1>6
  <2>3. Len(c.out) = lb + n  BY <1>3, <1>4
  <2>4. \A i \in 1..lb : o[i] = b.out[i]  BY <1>3
  <2> QED  BY <1>4, <1>7, <2>1, <2>2, <2>3, <2>4 DEF Releases
<1>9. Plain(b, c)
  <2> SUFFICES ASSUME NEW i \in lb + 1 .. Len(c.out)  PROVE c.out[i].how = "plain"
    BY DEF Plain
  <2>1. Len(c.out) = lb + n  BY <1>3, <1>4
  <2> HIDE DEF lb, n
  <2>2. i - lb \in 1..n /\ lb + (i - lb) = i  BY <1>6, <2>1
  <2> QED  BY <1>4, <1>7, <2>2
<1> QED  BY <1>4, <1>5, <1>8, <1>9 DEF c, h

(* A key applied at once leaves the line, and whatever it is timed by, alone. *)
LEMMA LocalSkips ==
  ASSUME NEW b, Typed(b), Timed(b), NEW ev \in Nat
  PROVE  LET c == Local(b, ev)
         IN  Typed(c) /\ Timed(c) /\ Plain(b, c) /\ Skips(b, ev, c)
<1> DEFINE a == [ev |-> ev, id |-> 0, how |-> "plain", held |-> FALSE]  o == Append(b.out, a)
           c == Local(b, ev)
<1>1. b \in BridgeType /\ b.out \in Seq(Applied) /\ Len(b.out) \in Nat  BY DEF Typed, BridgeType
<1>2. a \in Applied /\ a.how = "plain"  BY DEF Applied
<1> HIDE DEF a
<1>3. o \in Seq(Applied) /\ Len(o) = Len(b.out) + 1 /\ o[Len(b.out) + 1] = a  BY <1>1, <1>2
<1>4. c = [b EXCEPT !.out = o]  BY DEF Local, a
<1> HIDE DEF o, c
<1>5. c \in BridgeType /\ c.out = o /\ c.queue = b.queue /\ c.inFlight = b.inFlight /\ c.armed = b.armed
  BY <1>1, <1>3, <1>4 DEF BridgeType
<1>6. Typed(c) /\ Timed(c) /\ Held(c) = Held(b)  BY <1>5 DEF Typed, Timed, Held
<1>7. Plain(b, c)
  <2> SUFFICES ASSUME NEW i \in Len(b.out) + 1 .. Len(c.out)  PROVE c.out[i].how = "plain"
    BY DEF Plain
  <2>1. i = Len(b.out) + 1  BY <1>1, <1>3, <1>5
  <2> QED  BY <1>2, <1>3, <1>5, <2>1
<1> QED  BY <1>5, <1>6, <1>7 DEF c, o, a, Skips

(* A key typed joins the line or is applied at once, perhaps after the     *)
(* whole line; while the core subscribes it never passes a held one.       *)
LEMMA ForwardedEffect ==
  ASSUME NEW b, Typed(b), Timed(b), NEW ev \in Nat
  PROVE  LET c == Forwarded(b, ev)
         IN  /\ Typed(c) /\ Timed(c)
             /\ \E d \in BridgeType, n \in Nat :
                  /\ Releases(b, Held(b), d, n) /\ Plain(b, d) /\ Plain(d, c)
                  /\ \/ Joins(d, ev, c) /\ n = 0
                     \/ Skips(d, ev, c) /\ (b.active => Held(c) = <<>>)
<1> DEFINE item == [id |-> b.seq + 1, ev |-> ev]  e == [b EXCEPT !.seq = @ + 1]
           c == Forwarded(b, ev)
<1>1. /\ b \in BridgeType /\ b.queue \in Seq(Item) /\ b.seq \in Nat /\ Len(b.out) \in Nat
      /\ Len(b.queue) <= MaxTerminalInputQueue /\ Len(b.queue) \in Nat
  BY DEF Typed, BridgeType
<1>2. item \in Item /\ item # None /\ item.ev = ev  BY <1>1, BridgeAssumption DEF Item
<1>3. /\ e \in BridgeType /\ e.queue = b.queue /\ e.out = b.out /\ e.inFlight = b.inFlight
      /\ e.armed = b.armed /\ e.active = b.active
  BY SMTT(40), <1>1 DEF BridgeType
<1>4. c = IF ~b.active THEN Local(b, ev)
          ELSE IF b.inFlight = None THEN (IF open THEN Ask(e, item) ELSE Local(e, ev))
          ELSE IF ~Full(b) THEN [e EXCEPT !.queue = Append(@, item)]
          ELSE Local(FailOpen(e), ev)
  BY DEF Forwarded
<1> HIDE DEF item, e, c
<1>5. Typed(e) /\ Timed(e) /\ Held(e) = Held(b)  BY <1>1, <1>3 DEF Typed, Timed, Held
<1>6. /\ Held(b) \in Seq(Item) /\ Len(Held(b)) \in Nat
      /\ \A d \in BridgeType : d.out = b.out /\ Held(d) = Held(b) => Releases(b, Held(b), d, 0) /\ Plain(b, d)
  BY <1>1, HeldShape, NothingReleased
<1>7. CASE ~b.active
  <2>1. Typed(c) /\ Timed(c) /\ Plain(b, c) /\ Skips(b, ev, c)  BY <1>4, <1>7, LocalSkips
  <2>2. Releases(b, Held(b), b, 0) /\ Plain(b, b)  BY <1>1, <1>6
  <2> QED  BY <1>1, <1>7, <2>1, <2>2 DEF c
<1>8. CASE b.active /\ b.inFlight = None /\ ~open
  <2>1. Typed(c) /\ Timed(c) /\ Plain(e, c) /\ Skips(e, ev, c)  BY <1>4, <1>5, <1>8, LocalSkips
  <2>2. Releases(b, Held(b), e, 0) /\ Plain(b, e)  BY <1>3, <1>5, <1>6
  <2>3. Held(c) = <<>>
    <3>1. b.queue = <<>>  BY <1>8 DEF Timed
    <3> QED  BY <1>1, <1>5, <1>8, <2>1, <3>1, HeldShape DEF Skips
  <2> QED  BY <1>3, <2>1, <2>2, <2>3 DEF c
<1>9. CASE b.active /\ b.inFlight = None /\ open
  <2>1. c = [e EXCEPT !.inFlight = item, !.armed = TRUE, !.sent = @ \cup {item.id}]
    BY <1>4, <1>9 DEF Ask
  <2>2. item.id \in Nat  BY <1>2 DEF Item
  <2>3. /\ c \in BridgeType /\ c.inFlight = item /\ c.armed /\ c.queue = b.queue /\ c.out = b.out
    BY <1>2, <1>3, <2>1, <2>2 DEF BridgeType
  <2>4. Typed(c) /\ Timed(c)  BY <1>1, <1>2, <2>3 DEF Typed, Timed
  <2>5. b.queue = <<>> /\ Held(b) = <<>>
    <3>1. b.queue = <<>>  BY <1>9 DEF Timed
    <3> QED  BY <1>1, <1>9, <3>1, HeldShape
  <2>6. Len(Held(c)) = 1 /\ Held(c)[1] = item
    <3>1. c.inFlight # None /\ Len(c.queue) = 0  BY <1>2, <2>3, <2>5
    <3>2. Len(Held(c)) = Len(c.queue) + 1 /\ Held(c)[1] = c.inFlight  BY <2>3, <3>1, HeldShape
    <3> QED  BY <2>3, <3>1, <3>2
  <2>7. Joins(b, ev, c)
    <3>1. Len(Held(b)) = 0 /\ 1..Len(Held(b)) = {} /\ Len(Held(b)) + 1 = 1  BY <2>5
    <3> QED  BY <1>2, <2>3, <2>6, <3>1 DEF Joins
  <2>8. Releases(b, Held(b), b, 0) /\ Plain(b, b)  BY <1>1, <1>6
  <2>9. Plain(b, c)  BY <1>1, <2>3 DEF Plain
  <2> QED  BY <1>1, <2>4, <2>7, <2>8, <2>9 DEF c
<1>10. CASE b.active /\ b.inFlight # None /\ ~Full(b)
  <2> DEFINE q == Append(b.queue, item)
  <2>1. /\ q \in Seq(Item) /\ Len(q) = Len(b.queue) + 1 /\ q[Len(b.queue) + 1] = item
        /\ \A k \in 1..Len(b.queue) : q[k] = b.queue[k]
    BY <1>1, <1>2
  <2>2. Len(q) <= MaxTerminalInputQueue  BY <1>1, <1>10, <2>1, BridgeAssumption DEF Full
  <2>3. c = [e EXCEPT !.queue = q]  BY <1>3, <1>4, <1>10
  <2> HIDE DEF q
  <2>4. /\ c \in BridgeType /\ c.inFlight = b.inFlight /\ c.armed = b.armed /\ c.queue = q /\ c.out = b.out
    BY <1>3, <2>1, <2>3 DEF BridgeType
  <2>5. Typed(c) /\ Timed(c)  BY <1>10, <2>2, <2>4 DEF Typed, Timed
  <2>6. /\ Len(Held(b)) = Len(b.queue) + 1 /\ Held(b)[1] = b.inFlight
        /\ \A k \in 1..Len(b.queue) : Held(b)[k + 1] = b.queue[k]
    BY <1>1, <1>10, HeldShape
  <2>7. /\ Len(Held(c)) = Len(q) + 1 /\ Held(c)[1] = b.inFlight
        /\ \A k \in 1..Len(q) : Held(c)[k + 1] = q[k]
    <3>1. c.inFlight # None  BY <1>10, <2>4
    <3>2. /\ Len(Held(c)) = Len(c.queue) + 1 /\ Held(c)[1] = c.inFlight
          /\ \A k \in 1..Len(c.queue) : Held(c)[k + 1] = c.queue[k]
      BY <2>4, <3>1, HeldShape
    <3> QED  BY <2>4, <3>2
  <2>8. Joins(b, ev, c)
    <3>1. Len(Held(c)) = Len(Held(b)) + 1  BY <2>1, <2>6, <2>7
    <3>2. Held(c)[Len(Held(b)) + 1] = item
      <4>1. Len(b.queue) + 1 \in 1..Len(q)  BY <1>1, <2>1
      <4> QED  BY <2>1, <2>6, <2>7, <4>1
    <3>3. ASSUME NEW k \in 1..Len(Held(b))  PROVE Held(c)[k] = Held(b)[k]
      <4>1. CASE k = 1  BY <2>6, <2>7, <4>1
      <4>2. CASE k # 1
        <5>1. k - 1 \in 1..Len(b.queue) /\ k - 1 \in 1..Len(q) /\ (k - 1) + 1 = k  BY <1>1, <2>1, <2>6, <4>2
        <5> QED  BY <2>1, <2>6, <2>7, <5>1
      <4> QED  BY <4>1, <4>2
    <3> QED  BY <1>2, <2>4, <3>1, <3>2, <3>3 DEF Joins
  <2>9. Releases(b, Held(b), b, 0) /\ Plain(b, b)  BY <1>1, <1>6
  <2>10. Plain(b, c)  BY <1>1, <2>4 DEF Plain
  <2> QED  BY <1>1, <2>5, <2>8, <2>9, <2>10 DEF c
<1>11. CASE b.active /\ b.inFlight # None /\ Full(b)
  <2> DEFINE d == FailOpen(e)
  <2>1. c = Local(d, ev)  BY <1>4, <1>11
  <2>2. /\ Typed(d) /\ Timed(d) /\ Plain(e, d) /\ d.inFlight = None
        /\ Releases(e, Held(e), d, Len(Held(e)))
    BY <1>5, FailOpenReleases
  <2> HIDE DEF d
  <2>3. Typed(c) /\ Timed(c) /\ Plain(d, c) /\ Skips(d, ev, c)  BY <2>1, <2>2, LocalSkips
  <2>4. Releases(b, Held(b), d, Len(Held(b))) /\ Plain(b, d)
    BY <1>3, <1>5, <2>2 DEF Releases, Plain
  <2>5. Held(c) = <<>>
    <3>1. d \in BridgeType /\ d.queue = <<>>  BY <2>2 DEF Typed, Timed
    <3> QED  BY <2>2, <2>3, <3>1, HeldShape DEF Skips
  <2>6. d \in BridgeType  BY <2>2 DEF Typed
  <2> QED  BY <1>6, <2>3, <2>4, <2>5, <2>6 DEF c
<1> QED  BY <1>7, <1>8, <1>9, <1>10, <1>11

-----------------------------------------------------------------------------
(* Releasing a front part of the line, joining it and passing it keep it.  *)
LEMMA ReleasesKeepsLine ==
  ASSUME NEW b \in BridgeType, NEW c \in BridgeType, NEW t \in Nat, NEW n,
         InLine(b, t), Releases(b, Held(b), c, n)
  PROVE  InLine(c, t)
<1> DEFINE h == Held(b)  g == Held(c)  o == b.out  p == c.out  lo == Len(o)  lh == Len(h)
<1>1. lo \in Nat /\ lh \in Nat /\ n \in 0..lh  BY HeldShape DEF Releases, BridgeType
<1>2. /\ lo + lh = t
      /\ \A k \in 1..t : (\E i \in 1..lo : o[i].ev = k) \/ (\E j \in 1..lh : h[j].ev = k)
      /\ \A i \in 1..lo : o[i].ev \in 1..t
      /\ \A j \in 1..lh : h[j].ev \in 1..t
      /\ \A j, k \in 1..lh : j < k => h[j].ev < h[k].ev
      /\ \A i, j \in 1..lo : i < j /\ o[i].held /\ o[j].held => o[i].ev < o[j].ev
      /\ \A i \in 1..lo, k \in 1..lh : o[i].held => o[i].ev < h[k].ev
  BY DEF InLine
<1>3. /\ Len(p) = lo + n /\ Len(g) = lh - n
      /\ \A i \in 1..lo : p[i] = o[i]
      /\ \A i \in 1..n : p[lo + i].ev = h[i].ev /\ p[lo + i].held
      /\ \A k \in 1..(lh - n) : g[k] = h[n + k]
  BY DEF Releases
<1> HIDE DEF h, g, o, p, lo, lh
<1>4. \A i \in 1..(lo + n) : i \notin 1..lo => i - lo \in 1..n /\ i - lo \in 1..lh /\ p[i].ev = h[i - lo].ev
  <2> TAKE i \in 1..(lo + n)
  <2> HAVE i \notin 1..lo
  <2>1. i - lo \in 1..n /\ i - lo \in 1..lh /\ lo + (i - lo) = i  BY <1>1
  <2> QED  BY <1>3, <2>1
<1>5. \A k \in 1..(lh - n) : n + k \in 1..lh  BY <1>1
<1>6. \A k \in 1..t : (\E i \in 1..(lo + n) : p[i].ev = k) \/ (\E j \in 1..(lh - n) : g[j].ev = k)
  <2> TAKE k \in 1..t
  <2>1. CASE \E i \in 1..lo : o[i].ev = k
    <3>1. PICK i \in 1..lo : o[i].ev = k  BY <2>1
    <3>2. i \in 1..(lo + n)  BY <1>1
    <3> QED  BY <1>3, <3>1, <3>2
  <2>2. CASE \E j \in 1..lh : h[j].ev = k
    <3>1. PICK j \in 1..lh : h[j].ev = k  BY <2>2
    <3>2. CASE j <= n
      <4>1. j \in 1..n /\ lo + j \in 1..(lo + n)  BY <1>1, <3>2
      <4> QED  BY <1>3, <3>1, <4>1
    <3>3. CASE j > n
      <4>1. j - n \in 1..(lh - n) /\ n + (j - n) = j  BY <1>1, <3>3
      <4> QED  BY <1>3, <3>1, <4>1
    <3> QED  BY <1>1, <3>2, <3>3
  <2> QED  BY <1>2, <2>1, <2>2
<1>7. \A i \in 1..(lo + n) : p[i].ev \in 1..t  BY <1>2, <1>3, <1>4
<1>8. \A j \in 1..(lh - n) : g[j].ev \in 1..t  BY <1>2, <1>3, <1>5
<1>9. \A j, k \in 1..(lh - n) : j < k => g[j].ev < g[k].ev
  <2> TAKE j, k \in 1..(lh - n)
  <2> HAVE j < k
  <2>1. n + j \in 1..lh /\ n + k \in 1..lh /\ n + j < n + k  BY <1>1
  <2> QED  BY <1>2, <1>3, <2>1
<1>10. \A i, j \in 1..(lo + n) : i < j /\ p[i].held /\ p[j].held => p[i].ev < p[j].ev
  <2> TAKE i, j \in 1..(lo + n)
  <2> HAVE i < j /\ p[i].held /\ p[j].held
  <2>1. CASE j \in 1..lo
    <3>1. i \in 1..lo  BY <1>1, <2>1
    <3> QED  BY <1>2, <1>3, <2>1, <3>1
  <2>2. CASE i \in 1..lo /\ j \notin 1..lo  BY <1>2, <1>3, <1>4, <2>2
  <2>3. CASE i \notin 1..lo /\ j \notin 1..lo
    <3>1. i - lo < j - lo  BY <1>1
    <3>2. i - lo \in 1..lh /\ j - lo \in 1..lh /\ p[i].ev = h[i - lo].ev /\ p[j].ev = h[j - lo].ev
      BY <1>4, <2>3
    <3> QED  BY <1>2, <3>1, <3>2
  <2> QED  BY <1>1, <2>1, <2>2, <2>3
<1>11. \A i \in 1..(lo + n), k \in 1..(lh - n) : p[i].held => p[i].ev < g[k].ev
  <2> TAKE i \in 1..(lo + n), k \in 1..(lh - n)
  <2> HAVE p[i].held
  <2>1. n + k \in 1..lh /\ g[k] = h[n + k]  BY <1>3, <1>5
  <2>2. CASE i \in 1..lo  BY <1>2, <1>3, <2>1, <2>2
  <2>3. CASE i \notin 1..lo
    <3>1. i - lo \in 1..lh /\ p[i].ev = h[i - lo].ev  BY <1>4, <2>3
    <3>2. i - lo < n + k  BY <1>1
    <3> QED  BY <1>2, <2>1, <3>1, <3>2
  <2> QED  BY <2>2, <2>3
<1>12. (lo + n) + (lh - n) = t  BY <1>1, <1>2
<1> QED  BY <1>3, <1>6, <1>7, <1>8, <1>9, <1>10, <1>11, <1>12 DEF InLine, g, p

(* The newest key at the end of the line. *)
LEMMA JoinsKeepsLine ==
  ASSUME NEW b \in BridgeType, NEW c \in BridgeType, NEW t \in Nat,
         InLine(b, t), Joins(b, t + 1, c)
  PROVE  InLine(c, t + 1)
<1> DEFINE h == Held(b)  g == Held(c)  o == b.out  p == c.out  lo == Len(o)  lh == Len(h)
<1>1. lo \in Nat /\ lh \in Nat  BY HeldShape DEF BridgeType
<1>2. /\ lo + lh = t
      /\ \A k \in 1..t : (\E i \in 1..lo : o[i].ev = k) \/ (\E j \in 1..lh : h[j].ev = k)
      /\ \A i \in 1..lo : o[i].ev \in 1..t
      /\ \A j \in 1..lh : h[j].ev \in 1..t
      /\ \A j, k \in 1..lh : j < k => h[j].ev < h[k].ev
      /\ \A i, j \in 1..lo : i < j /\ o[i].held /\ o[j].held => o[i].ev < o[j].ev
      /\ \A i \in 1..lo, k \in 1..lh : o[i].held => o[i].ev < h[k].ev
  BY DEF InLine
<1>3. /\ p = o /\ Len(g) = lh + 1
      /\ \A k \in 1..lh : g[k] = h[k]
      /\ g[lh + 1].ev = t + 1
  BY DEF Joins
<1> HIDE DEF h, g, o, p, lo, lh
<1>4. \A k \in 1..(lh + 1) : k \in 1..lh \/ k = lh + 1  BY <1>1
<1>5. /\ \A k \in 1..(t + 1) : k \in 1..t \/ k = t + 1
      /\ \A k \in 1..t : k < t + 1 /\ k \in 1..(t + 1)
      /\ t + 1 \in 1..(t + 1) /\ lh + 1 \in 1..(lh + 1) /\ 1..lh \subseteq 1..(lh + 1)
  BY <1>1
<1>6. \A k \in 1..(t + 1) : (\E i \in 1..lo : o[i].ev = k) \/ (\E j \in 1..(lh + 1) : g[j].ev = k)
  <2> TAKE k \in 1..(t + 1)
  <2>1. CASE k = t + 1  BY <1>3, <1>5, <2>1
  <2>2. CASE k \in 1..t  BY <1>2, <1>3, <1>5, <2>2
  <2> QED  BY <1>5, <2>1, <2>2
<1>7. \A i \in 1..lo : o[i].ev \in 1..(t + 1)  BY <1>2, <1>5
<1>8. \A j \in 1..(lh + 1) : g[j].ev \in 1..(t + 1)  BY <1>2, <1>3, <1>4, <1>5
<1>9. \A j, k \in 1..(lh + 1) : j < k => g[j].ev < g[k].ev
  <2> TAKE j, k \in 1..(lh + 1)
  <2> HAVE j < k
  <2>1. j \in 1..lh  BY <1>1
  <2>2. CASE k \in 1..lh  BY <1>2, <1>3, <2>1, <2>2
  <2>3. CASE k = lh + 1
    <3>1. g[j].ev \in 1..t /\ g[k].ev = t + 1  BY <1>2, <1>3, <2>1, <2>3
    <3> QED  BY <1>5, <3>1
  <2> QED  BY <1>4, <2>2, <2>3
<1>10. \A i \in 1..lo, k \in 1..(lh + 1) : o[i].held => o[i].ev < g[k].ev
  <2> TAKE i \in 1..lo, k \in 1..(lh + 1)
  <2> HAVE o[i].held
  <2>1. CASE k \in 1..lh  BY <1>2, <1>3, <2>1
  <2>2. CASE k = lh + 1  BY <1>2, <1>3, <1>5, <2>2
  <2> QED  BY <1>4, <2>1, <2>2
<1>11. lo + (lh + 1) = t + 1  BY <1>1, <1>2
<1> QED  BY <1>2, <1>3, <1>6, <1>7, <1>8, <1>9, <1>10, <1>11 DEF InLine, g, o, p, lo

(* The newest key applied at once. *)
LEMMA SkipsKeepsLine ==
  ASSUME NEW b \in BridgeType, NEW c \in BridgeType, NEW t \in Nat,
         InLine(b, t), Skips(b, t + 1, c)
  PROVE  InLine(c, t + 1)
<1> DEFINE h == Held(b)  o == b.out  p == c.out  lo == Len(o)  lh == Len(h)
           a == [ev |-> t + 1, id |-> 0, how |-> "plain", held |-> FALSE]
<1>1. lo \in Nat /\ lh \in Nat /\ o \in Seq(Applied)  BY HeldShape DEF BridgeType
<1>2. /\ lo + lh = t
      /\ \A k \in 1..t : (\E i \in 1..lo : o[i].ev = k) \/ (\E j \in 1..lh : h[j].ev = k)
      /\ \A i \in 1..lo : o[i].ev \in 1..t
      /\ \A j \in 1..lh : h[j].ev \in 1..t
      /\ \A j, k \in 1..lh : j < k => h[j].ev < h[k].ev
      /\ \A i, j \in 1..lo : i < j /\ o[i].held /\ o[j].held => o[i].ev < o[j].ev
      /\ \A i \in 1..lo, k \in 1..lh : o[i].held => o[i].ev < h[k].ev
  BY DEF InLine
<1>3. a.ev = t + 1 /\ ~a.held  OBVIOUS
<1> HIDE DEF a
<1>4. Held(c) = h /\ Len(p) = lo + 1 /\ p[lo + 1] = a /\ \A i \in 1..lo : p[i] = o[i]
  BY <1>1 DEF Skips, a
<1> HIDE DEF h, o, p, lo, lh
<1>5. \A i \in 1..(lo + 1) : i \in 1..lo \/ i = lo + 1  BY <1>1
<1>6. /\ \A k \in 1..(t + 1) : k \in 1..t \/ k = t + 1
      /\ \A k \in 1..t : k \in 1..(t + 1)
      /\ t + 1 \in 1..(t + 1) /\ lo + 1 \in 1..(lo + 1) /\ 1..lo \subseteq 1..(lo + 1)
  BY <1>1
<1>7. \A k \in 1..(t + 1) : (\E i \in 1..(lo + 1) : p[i].ev = k) \/ (\E j \in 1..lh : h[j].ev = k)
  <2> TAKE k \in 1..(t + 1)
  <2>1. CASE k = t + 1  BY <1>3, <1>4, <1>6, <2>1
  <2>2. CASE k \in 1..t  BY <1>2, <1>4, <1>6, <2>2
  <2> QED  BY <1>6, <2>1, <2>2
<1>8. \A i \in 1..(lo + 1) : p[i].ev \in 1..(t + 1)  BY <1>2, <1>3, <1>4, <1>5, <1>6
<1>9. \A j \in 1..lh : h[j].ev \in 1..(t + 1)  BY <1>2, <1>6
<1>10. \A i, j \in 1..(lo + 1) : i < j /\ p[i].held /\ p[j].held => p[i].ev < p[j].ev
  BY <1>2, <1>3, <1>4, <1>5
<1>11. \A i \in 1..(lo + 1), k \in 1..lh : p[i].held => p[i].ev < h[k].ev
  BY <1>2, <1>3, <1>4, <1>5
<1>12. (lo + 1) + lh = t + 1  BY <1>1, <1>2
<1> QED  BY <1>2, <1>4, <1>7, <1>8, <1>9, <1>10, <1>11, <1>12 DEF InLine, h, p, lh

(* What is released and not as typed was the peer's answer. *)
LEMMA ReleasesKeepsAttested ==
  ASSUME NEW b \in BridgeType, NEW c \in BridgeType, NEW n, NEW s,
         Attested(b, s), Releases(b, Held(b), c, n),
         \A i \in Len(b.out) + 1 .. Len(c.out) :
           c.out[i].how # "plain" => <<c.out[i].id, c.out[i].how>> \in s
  PROVE  Attested(c, s)
<1>1. Len(b.out) \in Nat /\ Len(c.out) \in Nat  BY DEF BridgeType
<1> SUFFICES ASSUME NEW i \in 1..Len(c.out), c.out[i].how # "plain"
             PROVE  <<c.out[i].id, c.out[i].how>> \in s
  BY DEF Attested
<1>2. CASE i \in 1..Len(b.out)
  <2>1. c.out[i] = b.out[i]  BY <1>2 DEF Releases
  <2> QED  BY <1>2, <2>1 DEF Attested
<1>3. CASE i \in Len(b.out) + 1 .. Len(c.out)  BY <1>3
<1> QED  BY <1>1, <1>2, <1>3

-----------------------------------------------------------------------------
(* The inductive invariant: the line is in order, no answer is on its way  *)
(* that was not given.                                                     *)
IInv ==
  /\ Typed(bridge) /\ Timed(bridge)
  /\ InLine(bridge, typed)
  /\ Attested(bridge, said)
  /\ typed \in Nat /\ open \in BOOLEAN /\ inbox \in Seq(Message) /\ spoken \in Nat
  /\ \A i \in 1..Len(inbox) :
       inbox[i].type = "result" => <<inbox[i].id, inbox[i].verdict>> \in said

(* Nothing is held, applied or said at first. *)
LEMMA InitIInv == Init => IInv
<1> SUFFICES ASSUME Init PROVE IInv  OBVIOUS
<1>1. /\ bridge.active = FALSE /\ bridge.seq = 0 /\ bridge.inFlight = None /\ bridge.queue = <<>>
      /\ bridge.armed = FALSE /\ bridge.out = <<>> /\ bridge \in BridgeType
  <2>1. <<>> \in Seq(Item) /\ <<>> \in Seq(Applied)  OBVIOUS
  <2> QED  BY <2>1 DEF Init, BridgeType
<1>2. Held(bridge) = <<>>  BY <1>1, HeldShape
<1>3. InLine(bridge, 0)  BY <1>1, <1>2 DEF InLine
<1>4. Typed(bridge) /\ Timed(bridge) /\ Attested(bridge, said)
  BY <1>1, BridgeAssumption DEF Typed, Timed, Attested
<1> QED  BY <1>3, <1>4 DEF IInv, Init

(* What a frame of the peer, or the timer, does to the line.               *)
LEMMA HandlerEffect ==
  ASSUME IInv, HandleFrame \/ Timeout
  PROVE  /\ Typed(bridge') /\ Timed(bridge') /\ Attested(bridge', said)
         /\ \E n \in Nat : Releases(bridge, Held(bridge), bridge', n)
<1> DEFINE b == bridge  c == bridge'
<1>1. b \in BridgeType /\ Len(Held(b)) \in Nat /\ Typed(b) /\ Timed(b) /\ Attested(b, said)
  BY HeldShape DEF IInv, Typed
<1>2. ASSUME Typed(c), Timed(c), Plain(b, c), NEW n \in Nat, Releases(b, Held(b), c, n)
      PROVE  /\ Typed(c) /\ Timed(c) /\ Attested(c, said)
             /\ \E k \in Nat : Releases(b, Held(b), c, k)
  <2>1. c \in BridgeType  BY <1>2 DEF Typed
  <2> QED  BY <1>1, <1>2, <2>1, ReleasesKeepsAttested DEF Plain
<1>3. ASSUME b.inFlight # None, NEW how \in Verdicts \cup {"plain"}, how # "pass", c = Settle(b, how),
             how # "plain" => <<b.inFlight.id, how>> \in said
      PROVE  /\ Typed(c) /\ Timed(c) /\ Attested(c, said)
             /\ \E k \in Nat : Releases(b, Held(b), c, k)
  <2> HIDE DEF c
  <2>1. /\ Typed(c) /\ Timed(c) /\ \E n \in Nat : Releases(b, Held(b), c, n)
        /\ \A i \in Len(b.out) + 1 .. Len(c.out) :
             c.out[i].how # "plain" => c.out[i].how = how /\ c.out[i].id = b.inFlight.id
    BY <1>1, <1>3, SettleReleases
  <2>2. PICK n \in Nat : Releases(b, Held(b), c, n)  BY <2>1
  <2>3. \A i \in Len(b.out) + 1 .. Len(c.out) :
          c.out[i].how # "plain" => <<c.out[i].id, c.out[i].how>> \in said
    BY <1>3, <2>1
  <2>4. c \in BridgeType  BY <2>1 DEF Typed
  <2> QED  BY <1>1, <2>1, <2>2, <2>3, <2>4, ReleasesKeepsAttested
<1>4. ASSUME c = b
      PROVE  /\ Typed(c) /\ Timed(c) /\ Attested(c, said)
             /\ \E k \in Nat : Releases(b, Held(b), c, k)
  <2>1. Releases(b, Held(b), b, 0)  BY <1>1, NothingReleased
  <2> QED  BY <1>1, <1>4, <2>1
<1>5. CASE Timeout
  <2>1. c = FailOpen(b)  BY <1>5 DEF Timeout
  <2>2. Typed(c) /\ Timed(c) /\ Plain(b, c) /\ Releases(b, Held(b), c, Len(Held(b)))
    BY <1>1, <2>1, FailOpenReleases
  <2> QED  BY <1>1, <1>2, <2>2
<1>6. CASE HandleFrame
  <2> DEFINE m == Head(inbox)
  <2>1. m = inbox[1] /\ 1 \in 1..Len(inbox) /\ m \in Message
    BY <1>6 DEF HandleFrame, IInv
  <2> HIDE DEF m
  <2>2. CASE m.type = "subscription"
    <3> DEFINE e == [b EXCEPT !.active = m.active]
    <3>1. c = Subscribed(b, m.active)  BY <1>6, <2>2 DEF HandleFrame, m
    <3>2. m.active \in BOOLEAN  BY <2>1, <2>2 DEF Message
    <3>3. /\ e \in BridgeType /\ e.out = b.out /\ e.queue = b.queue /\ e.inFlight = b.inFlight /\ e.armed = b.armed
      BY <1>1, <3>2 DEF BridgeType
    <3>4. c = IF b.active /\ ~m.active /\ b.inFlight = None THEN Drain(e) ELSE e  BY <3>1 DEF Subscribed
    <3> HIDE DEF e
    <3>5. Typed(e) /\ Timed(e) /\ Held(e) = Held(b)  BY <1>1, <3>3 DEF Typed, Timed, Held
    <3>6. Releases(b, Held(b), e, 0) /\ Plain(b, e)  BY <1>1, <3>3, <3>5, NothingReleased
    <3>7. CASE b.active /\ ~m.active /\ b.inFlight = None
      <4>1. e.inFlight = None /\ ~e.armed  BY <1>1, <3>3, <3>7 DEF Timed
      <4>2. Typed(c) /\ Timed(c) /\ Releases(e, Held(e), c, Len(Held(e))) /\ Plain(e, c)
        BY <3>4, <3>5, <3>7, <4>1, DrainReleases
      <4>3. Releases(b, Held(b), c, Len(Held(b))) /\ Plain(b, c)
        BY <3>3, <3>5, <4>2 DEF Releases, Plain
      <4> QED  BY <1>1, <1>2, <4>2, <4>3
    <3>8. CASE ~(b.active /\ ~m.active /\ b.inFlight = None)  BY <1>2, <3>4, <3>5, <3>6, <3>8
    <3> QED  BY <3>7, <3>8
  <2>3. CASE m.type = "result"
    <3>1. c = Answered(b, m.id, m.verdict)  BY <1>6, <2>3 DEF HandleFrame, m
    <3>2. m.verdict \in Verdicts /\ <<m.id, m.verdict>> \in said
      BY <2>1, <2>3 DEF Message, IInv
    <3>3. CASE b.inFlight = None \/ b.inFlight.id # m.id  BY <1>4, <3>1, <3>3 DEF Answered
    <3>4. CASE b.inFlight # None /\ b.inFlight.id = m.id
      <4> DEFINE how == IF m.verdict = "pass" THEN "plain" ELSE m.verdict
      <4>1. c = Settle(b, how)  BY <3>1, <3>4 DEF Answered
      <4>2. how \in Verdicts \cup {"plain"} /\ how # "pass"  BY <3>2
      <4>3. how # "plain" => <<b.inFlight.id, how>> \in said  BY <3>2, <3>4
      <4> HIDE DEF how
      <4> QED  BY <1>3, <3>4, <4>1, <4>2, <4>3
    <3> QED  BY <3>3, <3>4
  <2>4. CASE m.type = "malformed"
    <3>1. c = Malformed(b)  BY <1>6, <2>4 DEF HandleFrame, m
    <3>2. CASE b.inFlight = None  BY <1>4, <3>1, <3>2 DEF Malformed
    <3>3. CASE b.inFlight # None
      <4>1. c = Settle(b, "plain")  BY <3>1, <3>3 DEF Malformed
      <4>2. "plain" # "pass"  OBVIOUS
      <4> QED  BY <1>3, <3>3, <4>1, <4>2
    <3> QED  BY <3>2, <3>3
  <2> QED  BY <2>1, <2>2, <2>3, <2>4 DEF Message
<1> QED  BY <1>5, <1>6

(* What a key typed does to the line.                                      *)
LEMMA TypeKeyEffect ==
  ASSUME IInv, TypeKey
  PROVE  /\ Typed(bridge') /\ Timed(bridge')
         /\ InLine(bridge', typed + 1) /\ Attested(bridge', said)
<1> DEFINE b == bridge  c == bridge'
<1>1. /\ b \in BridgeType /\ Typed(b) /\ Timed(b) /\ Attested(b, said) /\ InLine(b, typed)
      /\ typed \in Nat /\ typed + 1 \in Nat
  BY DEF IInv, Typed
<1>2. c = Forwarded(b, typed + 1)  BY DEF TypeKey
<1> HIDE DEF c
<1>3. /\ Typed(c) /\ Timed(c)
      /\ \E d \in BridgeType, n \in Nat :
           /\ Releases(b, Held(b), d, n) /\ Plain(b, d) /\ Plain(d, c)
           /\ \/ Joins(d, typed + 1, c) /\ n = 0
              \/ Skips(d, typed + 1, c) /\ (b.active => Held(c) = <<>>)
  BY <1>1, <1>2, ForwardedEffect
<1>4. PICK d \in BridgeType, n \in Nat :
        /\ Releases(b, Held(b), d, n) /\ Plain(b, d) /\ Plain(d, c)
        /\ Joins(d, typed + 1, c) \/ Skips(d, typed + 1, c)
  BY <1>3
<1>5. c \in BridgeType  BY <1>3 DEF Typed
<1>6. InLine(d, typed) /\ Attested(d, said)
  BY <1>1, <1>4, ReleasesKeepsLine, ReleasesKeepsAttested DEF Plain
<1>7. InLine(c, typed + 1)  BY <1>1, <1>4, <1>5, <1>6, JoinsKeepsLine, SkipsKeepsLine
<1>8. Attested(c, said)
  <2>1. Len(d.out) \in Nat /\ Len(c.out) \in Nat /\ d.out \in Seq(Applied)  BY <1>5 DEF BridgeType
  <2>2. \A i \in 1..Len(d.out) : c.out[i] = d.out[i]
    <3>1. CASE Joins(d, typed + 1, c)  BY <3>1 DEF Joins
    <3>2. CASE Skips(d, typed + 1, c)  BY <2>1, <3>2 DEF Skips
    <3> QED  BY <1>4, <3>1, <3>2
  <2> SUFFICES ASSUME NEW i \in 1..Len(c.out), c.out[i].how # "plain"
               PROVE  <<c.out[i].id, c.out[i].how>> \in said
    BY DEF Attested
  <2>3. i \notin Len(d.out) + 1 .. Len(c.out)  BY <1>4 DEF Plain
  <2>4. i \in 1..Len(d.out)  BY <2>1, <2>3
  <2> QED  BY <1>6, <2>2, <2>4 DEF Attested
<1> QED  BY <1>3, <1>7, <1>8 DEF c

(* Every step of the loop, the peer, the user and the clock keeps the invariant. *)
LEMMA StepIInv == IInv /\ [Next]_vars => IInv'
<1> SUFFICES ASSUME IInv, [Next]_vars PROVE IInv'  OBVIOUS
<1> DEFINE Attests(box, s) ==
      \A i \in 1..Len(box) : box[i].type = "result" => <<box[i].id, box[i].verdict>> \in s
<1>1. CASE HandleFrame \/ Timeout
  <2>1. /\ Typed(bridge') /\ Timed(bridge') /\ Attested(bridge', said)
        /\ \E n \in Nat : Releases(bridge, Held(bridge), bridge', n)
    BY <1>1, HandlerEffect
  <2>2. bridge \in BridgeType /\ bridge' \in BridgeType /\ InLine(bridge, typed) /\ typed \in Nat
    BY <2>1 DEF IInv, Typed
  <2>3. InLine(bridge', typed)  BY <2>1, <2>2, ReleasesKeepsLine
  <2>4. UNCHANGED <<typed, said, spoken, open>>  BY <1>1 DEF HandleFrame, Timeout
  <2>5. inbox' \in Seq(Message) /\ Attests(inbox', said)
    <3>1. CASE Timeout  BY <3>1 DEF Timeout, IInv
    <3>2. CASE HandleFrame
      <4>1. inbox \in Seq(Message) /\ inbox # <<>> /\ inbox' = Tail(inbox)  BY <3>2 DEF HandleFrame, IInv
      <4>2. /\ inbox' \in Seq(Message) /\ Len(inbox') = Len(inbox) - 1 /\ Len(inbox) \in Nat
            /\ \A i \in 1..Len(inbox') : inbox'[i] = inbox[i + 1]
        BY <4>1
      <4>3. \A i \in 1..Len(inbox') : i + 1 \in 1..Len(inbox)  BY <4>2
      <4> QED  BY <4>2, <4>3 DEF IInv
    <3> QED  BY <1>1, <3>1, <3>2
  <2> HIDE DEF Attests
  <2>6. said' = said /\ typed' = typed /\ spoken' = spoken /\ open' = open  BY <2>4
  <2> QED  BY <2>1, <2>3, <2>5, <2>6 DEF IInv, Attests
<1>2. CASE TypeKey
  <2>1. /\ Typed(bridge') /\ Timed(bridge')
        /\ InLine(bridge', typed + 1) /\ Attested(bridge', said)
    BY <1>2, TypeKeyEffect
  <2>2. typed' = typed + 1 /\ open' = open /\ inbox' = inbox /\ said' = said /\ spoken' = spoken
    BY <1>2 DEF TypeKey
  <2>3. typed + 1 \in Nat  BY DEF IInv
  <2> QED  BY <2>1, <2>2, <2>3 DEF IInv
<1>3. CASE Disconnect \/ UNCHANGED vars
  BY <1>3 DEF Disconnect, vars, IInv
<1>4. ASSUME NEW m \in Message, Say(m), said \subseteq said',
             m.type = "result" => <<m.id, m.verdict>> \in said'
      PROVE  IInv'
  <2>1. UNCHANGED <<bridge, typed, open>> /\ spoken' = spoken + 1 /\ inbox' = Append(inbox, m)
    BY <1>4 DEF Say
  <2>2. spoken' \in Nat /\ inbox' \in Seq(Message)  BY <2>1 DEF IInv
  <2>3. Attested(bridge, said')  BY <1>4 DEF IInv, Attested
  <2>4. Attests(inbox', said')
    <3>1. Len(inbox') = Len(inbox) + 1 /\ Len(inbox) \in Nat /\ inbox'[Len(inbox) + 1] = m
          /\ \A i \in 1..Len(inbox) : inbox'[i] = inbox[i]
      BY <2>1 DEF IInv
    <3>2. \A i \in 1..Len(inbox') : i \in 1..Len(inbox) \/ i = Len(inbox) + 1  BY <3>1
    <3>3. Attests(inbox, said)  BY DEF IInv
    <3> QED  BY <1>4, <3>1, <3>2, <3>3
  <2> HIDE DEF Attests
  <2>5. bridge' = bridge /\ typed' = typed /\ open' = open  BY <2>1
  <2> QED  BY <2>2, <2>3, <2>4, <2>5 DEF IInv, Attests
<1>5. CASE PeerAnswers
  <2>1. PICK id \in bridge.sent, verdict \in Verdicts :
          /\ Say([type |-> "result", id |-> id, verdict |-> verdict])
          /\ said' = said \cup {<<id, verdict>>}
    BY <1>5 DEF PeerAnswers
  <2> DEFINE m == [type |-> "result", id |-> id, verdict |-> verdict]
  <2>2. id \in Nat  BY DEF IInv, Typed, BridgeType
  <2>3. m \in Message /\ m.id = id /\ m.verdict = verdict  BY <2>2 DEF Message
  <2> HIDE DEF m
  <2>4. said \subseteq said' /\ <<m.id, m.verdict>> \in said'  BY <2>1, <2>3
  <2>5. Say(m)  BY <2>1 DEF m
  <2> QED  BY <1>4, <2>3, <2>4, <2>5
<1>6. CASE PeerSubscribes
  <2>1. PICK active \in BOOLEAN : Say([type |-> "subscription", active |-> active]) /\ said' = said
    BY <1>6 DEF PeerSubscribes
  <2> DEFINE m == [type |-> "subscription", active |-> active]
  <2>2. m \in Message /\ m.type # "result"  BY DEF Message
  <2> HIDE DEF m
  <2>3. Say(m)  BY <2>1 DEF m
  <2> QED  BY <1>4, <2>1, <2>2, <2>3
<1>7. CASE PeerBabbles
  <2> DEFINE m == [type |-> "malformed"]
  <2>1. m \in Message /\ m.type # "result"  BY DEF Message
  <2> HIDE DEF m
  <2>2. Say(m) /\ said' = said  BY <1>7 DEF PeerBabbles, m
  <2> QED  BY <1>4, <2>1, <2>2
<1> QED  BY <1>1, <1>2, <1>3, <1>5, <1>6, <1>7 DEF Next

(* The line of held keys is in order in every state of the bridge (terminal_input.go). *)
THEOREM LineIsKept == Spec => []IInv
<1> QED  BY InitIInv, StepIInv, PTL DEF Spec

-----------------------------------------------------------------------------
(* The bridge's variables have their types, and its queue never outgrows   *)
(* protocol.MaxTerminalInputQueue.                                         *)
THEOREM BridgeTypeCorrect == Spec => []TypeOK
<1>1. IInv => TypeOK  BY DEF IInv, Typed, TypeOK
<1> QED  BY <1>1, LineIsKept, PTL

(* Whatever is held waits for an answer a timer runs for (armTerminal-     *)
(* InputTimeout after every send, disarm after every release).             *)
THEOREM HeldAlwaysTimed == Spec => []HeldIsTimed
<1>1. IInv => HeldIsTimed  BY DEF IInv, Timed, HeldIsTimed
<1> QED  BY <1>1, LineIsKept, PTL

(* Every key typed is applied once or held once: no path of results, late  *)
(* answers, failed sends, timeouts and overflows loses or doubles one.     *)
THEOREM KeysAreHandledOnce == Spec => []EachKeyOnce
<1>1. IInv => EachKeyOnce
  <2> SUFFICES ASSUME IInv PROVE EachKeyOnce  OBVIOUS
  <2> DEFINE h == Held(bridge)  o == bridge.out  lo == Len(o)  lh == Len(h)
             a == [i \in 1..lo |-> o[i].ev]  b == [i \in 1..lh |-> h[i].ev]
  <2>1. /\ o \in Seq(Applied) /\ h \in Seq(Item) /\ lo \in Nat /\ lh \in Nat
    BY HeldShape DEF IInv, Typed, BridgeType
  <2>2. /\ lo + lh = typed
        /\ \A k \in 1..typed : (\E i \in 1..lo : o[i].ev = k) \/ (\E j \in 1..lh : h[j].ev = k)
    BY DEF IInv, InLine
  <2>3. \A i \in 1..lo : o[i].ev \in Nat
    <3> TAKE i \in 1..lo
    <3>1. o[i] \in Applied  BY <2>1
    <3> QED  BY <3>1 DEF Applied
  <2>4. \A i \in 1..lh : h[i].ev \in Nat
    <3> TAKE i \in 1..lh
    <3>1. h[i] \in Item  BY <2>1
    <3> QED  BY <3>1 DEF Item
  <2>5. KeysHandled(bridge) = a \o b  BY DEF KeysHandled
  <2> HIDE DEF h, o, lo, lh
  <2>6. /\ a \in Seq(Nat) /\ Len(a) = lo /\ \A i \in 1..lo : a[i] = o[i].ev
        /\ b \in Seq(Nat) /\ Len(b) = lh /\ \A i \in 1..lh : b[i] = h[i].ev
    BY <2>1, <2>3, <2>4
  <2> HIDE DEF a, b
  <2>7. /\ Len(a \o b) = lo + lh
        /\ \A i \in 1..lo : (a \o b)[i] = a[i]
        /\ \A i \in 1..lh : (a \o b)[lo + i] = b[i]
    <3>1. /\ Len(a \o b) = Len(a) + Len(b)
          /\ \A i \in 1..Len(a) + Len(b) : (a \o b)[i] = IF i <= Len(a) THEN a[i] ELSE b[i - Len(a)]
      BY <2>6, ConcatProperties
    <3>2. \A i \in 1..lo : i \in 1..(lo + lh) /\ i <= lo  BY <2>1
    <3>3. \A i \in 1..lh : lo + i \in 1..(lo + lh) /\ ~(lo + i <= lo) /\ (lo + i) - lo = i  BY <2>1
    <3> QED  BY SMTT(40), <2>6, <3>1, <3>2, <3>3
  <2>8. \A k \in 1..typed : \E i \in 1..Len(a \o b) : (a \o b)[i] = k
    <3> TAKE k \in 1..typed
    <3>1. CASE \E i \in 1..lo : o[i].ev = k
      <4>1. PICK i \in 1..lo : o[i].ev = k  BY <3>1
      <4>2. i \in 1..Len(a \o b)  BY <2>1, <2>7
      <4>3. (a \o b)[i] = k  BY <2>6, <2>7, <4>1
      <4> QED  BY <4>2, <4>3
    <3>2. CASE \E j \in 1..lh : h[j].ev = k
      <4>1. PICK j \in 1..lh : h[j].ev = k  BY <3>2
      <4>2. lo + j \in 1..Len(a \o b)  BY <2>1, <2>7
      <4>3. (a \o b)[lo + j] = k  BY <2>6, <2>7, <4>1
      <4> QED  BY <4>2, <4>3
    <3> QED  BY <2>2, <3>1, <3>2
  <2> QED  BY <2>2, <2>5, <2>7, <2>8 DEF EachKeyOnce
<1> QED  BY <1>1, LineIsKept, PTL

(* "replay every held event in FIFO order": held keys are applied in the   *)
(* order they were typed, across results, failures and timeouts.           *)
THEOREM HeldKeysInOrder == Spec => []HeldInOrder
<1>1. IInv => HeldInOrder  BY DEF IInv, InLine, HeldInOrder
<1> QED  BY <1>1, LineIsKept, PTL

(* Both together: the way through the core loses, doubles and shuffles     *)
(* no key that was typed.                                                  *)
THEOREM KeysOnce == Spec => []KeysOnceInOrder
<1> QED  BY KeysAreHandledOnce, HeldKeysInOrder, PTL DEF KeysOnceInOrder

(* No late, doubled or reordered answer touches a key it was not for.      *)
THEOREM VerdictsAreForTheKey == Spec => []VerdictIsForTheKey
<1>1. IInv => VerdictIsForTheKey  BY DEF IInv, Attested, VerdictIsForTheKey
<1> QED  BY <1>1, LineIsKept, PTL

(* While the core subscribes, no key is applied before an earlier one that *)
(* stays held, not even when the queue overflows or a send fails.          *)
THEOREM NobodyIsOvertaken == Spec => NobodyOvertakes
<1> DEFINE Step == bridge.active =>
             \A i \in Len(bridge.out) + 1 .. Len(bridge'.out), k \in 1..Len(Held(bridge')) :
               bridge'.out[i].ev < Held(bridge')[k].ev
<1>1. IInv /\ [Next]_vars => [Step]_vars
  <2> SUFFICES ASSUME IInv, Next, bridge.active PROVE Step  BY DEF Step
  <2> DEFINE b == bridge  c == bridge'  h == Held(b)
  <2>1. /\ b \in BridgeType /\ InLine(b, typed) /\ typed \in Nat /\ Len(b.out) \in Nat /\ Len(h) \in Nat
        /\ Typed(b) /\ Timed(b)
    BY HeldShape DEF IInv, Typed, BridgeType
  <2>2. CASE HandleFrame \/ Timeout
    <3>1. PICK n \in Nat : Releases(b, h, c, n)  BY <2>2, HandlerEffect
    <3>2. /\ n <= Len(h) /\ Len(c.out) = Len(b.out) + n /\ Len(Held(c)) = Len(h) - n
          /\ \A i \in 1..n : c.out[Len(b.out) + i].ev = h[i].ev
          /\ \A k \in 1..Len(Held(c)) : Held(c)[k] = h[n + k]
      BY <2>1, <3>1 DEF Releases
    <3>3. \A j, k \in 1..Len(h) : j < k => h[j].ev < h[k].ev  BY <2>1 DEF InLine
    <3> HIDE DEF h
    <3> SUFFICES ASSUME NEW i \in Len(b.out) + 1 .. Len(c.out), NEW k \in 1..Len(Held(c))
                 PROVE  c.out[i].ev < Held(c)[k].ev
      BY DEF Step
    <3>4. i - Len(b.out) \in 1..n /\ Len(b.out) + (i - Len(b.out)) = i  BY <2>1, <3>2
    <3>5. c.out[i].ev = h[i - Len(b.out)].ev /\ Held(c)[k] = h[n + k]  BY <3>2, <3>4
    <3>6. /\ i - Len(b.out) \in 1..Len(h) /\ n + k \in 1..Len(h) /\ i - Len(b.out) < n + k
      BY <2>1, <3>2, <3>4
    <3> QED  BY <3>3, <3>5, <3>6
  <2>3. CASE TypeKey
    <3>1. c = Forwarded(b, typed + 1) /\ typed + 1 \in Nat  BY <2>1, <2>3 DEF TypeKey
    <3> HIDE DEF c
    <3>2. /\ Typed(c)
          /\ \E d \in BridgeType, n \in Nat :
               /\ Releases(b, Held(b), d, n) /\ Plain(b, d) /\ Plain(d, c)
               /\ \/ Joins(d, typed + 1, c) /\ n = 0
                  \/ Skips(d, typed + 1, c) /\ (b.active => Held(c) = <<>>)
      BY <2>1, <3>1, ForwardedEffect
    <3>3. Len(c.out) = Len(b.out) \/ Held(c) = <<>>
      <4>1. PICK d \in BridgeType, n \in Nat :
              /\ Releases(b, Held(b), d, n)
              /\ \/ Joins(d, typed + 1, c) /\ n = 0
                 \/ Skips(d, typed + 1, c) /\ (b.active => Held(c) = <<>>)
        BY <3>2
      <4>2. CASE Held(c) = <<>>  BY <4>2
      <4>3. CASE Joins(d, typed + 1, c) /\ n = 0
        <5>1. c.out = d.out /\ Len(d.out) = Len(b.out) + 0  BY <4>1, <4>3 DEF Joins, Releases
        <5> QED  BY <2>1, <5>1
      <4> QED  BY <4>1, <4>2, <4>3
    <3> SUFFICES ASSUME NEW i \in Len(b.out) + 1 .. Len(c.out), NEW k \in 1..Len(Held(c))
                 PROVE  FALSE
      BY DEF Step, c
    <3>4. Len(c.out) \in Nat  BY <3>2 DEF Typed, BridgeType
    <3>5. CASE Len(c.out) = Len(b.out)  BY <2>1, <3>4, <3>5
    <3>6. CASE Held(c) = <<>>
      <4>1. Len(Held(c)) = 0  BY <3>6
      <4> QED  BY <4>1
    <3> QED  BY <3>3, <3>5, <3>6
  <2>4. CASE Disconnect \/ PeerAnswers \/ PeerSubscribes \/ PeerBabbles
    <3>1. bridge' = bridge  BY <2>4 DEF Disconnect, PeerAnswers, PeerSubscribes, PeerBabbles, Say
    <3>2. Len(b.out) + 1 .. Len(c.out) = {}  BY <2>1, <3>1
    <3> QED  BY <3>2 DEF Step
  <2> QED  BY <2>2, <2>3, <2>4 DEF Next
<1> QED  BY <1>1, LineIsKept, PTL DEF Spec, NobodyOvertakes, Step
=============================================================================
