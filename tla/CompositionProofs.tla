-------------------------- MODULE CompositionProofs --------------------------
EXTENDS Composition, SequenceTheorems, FiniteSetTheorems, WellFoundedInduction, TLAPS

-----------------------------------------------------------------------------
(* What the variables may hold. *)
Pictures    == {NoImage} \cup (Nat \X Nat)
Specs       == [key : Nat, group : Groups, body : Seq({1, 2}), image : Pictures]
BlockStates == [key : Nat, built : BOOLEAN, lines : Seq(Rows), width : Nat, spec : Specs \cup {None},
                sep : Nat, start : Nat]
Transcripts == [blocks : Seq(BlockStates), lines : Seq(Rows), width : Nat, valid : BOOLEAN, floor : Nat,
                gen : Nat, claim : Nat]
Containers  == [id : Nat, valid : BOOLEAN, width : Nat, lines : Seq(Rows), gens : Seq(Nat), stable : Nat,
                committed : Nat]
Children    == [rows : Seq(Rows), gen : Nat]
Components  == [pic : Nat, width : Nat, text : BOOLEAN]
Made        == UNION {[keys -> Components] : keys \in SUBSET Nat}
ImageStates == [planned : Nat, onTerminal : Nat, transmitted : SUBSET Nat, made : Made]
Passes      == [im : ImageStates, seen : Seq(Nat), sends : Seq(Nat \X Nat)]

Stores      == UNION {[keys -> Nat] : keys \in SUBSET Nat}
Prepared    == [rows : Seq(Rows), valid : Nat]
Engines     == [prep : Prepared, width : Nat]

TypeOK ==
  /\ world \in Worlds /\ specs \in Seq(Specs) /\ hide \in BOOLEAN /\ t \in Transcripts /\ root \in Containers
  /\ header \in Children /\ editor \in Children /\ cols \in Cols /\ full \in BOOLEAN
  /\ dirty \in BOOLEAN /\ pending \in Requests \cup {None} /\ engine \in Engines
  /\ composed \in Seq(Rows) /\ drawn \in Seq(Rows) /\ missed \in BOOLEAN /\ changes \in Nat
  /\ images \in ImageStates /\ asked \in Nat /\ store \in Stores /\ muddled \in BOOLEAN

-----------------------------------------------------------------------------
(* The recursive functions, unfolded.                                      *)

(* What holds of 0 and passes on to the next number holds up to n.         *)
LEMMA UpTo ==
  ASSUME NEW n \in Nat, NEW S, 0 \in S, \A i \in 1..n : i - 1 \in S => i \in S
  PROVE  \A i \in 0..n : i \in S
  <1> DEFINE Bad == {i \in 0..n : i \notin S}
  <1> SUFFICES ASSUME Bad # {} PROVE FALSE  OBVIOUS
  <1>1. PICK m \in Bad : \A y \in Bad : <<y, m>> \notin OpToRel(<, Nat)
    <2>1. Bad \subseteq Nat  OBVIOUS
    <2> HIDE DEF Bad
    <2>. QED  BY <2>1, NatLessThanWellFounded, WFMin
  <1>2. \A a, b \in Nat : a < b => <<a, b>> \in OpToRel(<, Nat)  BY DEF OpToRel
  <1>3. m # 0 /\ m \in 1..n  OBVIOUS
  <1>4. m - 1 \in Nat /\ m \in Nat /\ m - 1 < m  BY <1>3
  <1>5. m - 1 \notin Bad  BY <1>1, <1>2, <1>4
  <1>6. m - 1 \in S  BY <1>3, <1>5
  <1>. QED  BY <1>3, <1>6

LEMMA LayoutUnfolds ==
  ASSUME NEW tr, NEW width, NEW pass, specs \in Seq(Specs)
  PROVE  LET upTo == Layout(tr, width, pass)
             base == [at |-> 0, above |-> None, blocks |-> <<>>, lines |-> <<>>, pass |-> pass]
         IN  /\ upTo[0] = base
             /\ \A i \in 1..Len(specs) : upTo[i] = Laid(tr, width, upTo[i - 1], i)
  <1> DEFINE n == Len(specs)
             base == [at |-> 0, above |-> None, blocks |-> <<>>, lines |-> <<>>, pass |-> pass]
             Next1(acc, i) == Laid(tr, width, acc, i)
             S == {k \in Nat : \E f : f = [i \in 0..k |-> IF i = 0 THEN base ELSE Next1(f[i - 1], i)]}
  <1>0. n \in Nat  OBVIOUS
  <1> HIDE DEF base, Next1, n
  <1>1. 0 \in S
    <2> DEFINE f == [i \in 0..0 |-> base]
    <2>1. f = [i \in 0..0 |-> IF i = 0 THEN base ELSE Next1(f[i - 1], i)]  OBVIOUS
    <2>. QED  BY <2>1
  <1>2. ASSUME NEW m \in 1..n, m - 1 \in S PROVE m \in S
    <2> DEFINE k == m - 1
    <2>0. k \in Nat /\ m = k + 1  BY <1>0
    <2> HIDE DEF k
    <2>1. PICK g : g = [i \in 0..k |-> IF i = 0 THEN base ELSE Next1(g[i-1], i)] BY <1>2 DEF k
    <2> DEFINE h == [i \in 0..k+1 |-> IF i = k+1 THEN Next1(g[k], k+1) ELSE g[i]]
    <2>2. h = [i \in 0..k+1 |-> IF i = 0 THEN base ELSE Next1(h[i-1], i)]
      <3> SUFFICES ASSUME NEW i \in 0..k+1 PROVE h[i] = IF i = 0 THEN base ELSE Next1(h[i-1], i) OBVIOUS
      <3>1. CASE i = k+1 BY <2>0, <3>1
      <3>2. CASE i # k+1 
         <4>1. i \in 0..k /\ (i # 0 => i-1 \in 0..k) BY <2>0, <3>2
         <4>2. g[i] = IF i = 0 THEN base ELSE Next1(g[i-1], i) BY <4>1, <2>1
         <4>3. i # 0 => h[i-1] = g[i-1] BY <4>1, <2>0
         <4> QED BY <4>1, <4>2, <4>3, <3>2, <2>0
      <3> QED BY <3>1, <3>2
    <2>3. k + 1 \in Nat  BY <2>0
    <2>. QED BY <2>0, <2>2, <2>3
  <1>3. n \in S
    <2>1. \A i \in 0..n : i \in S
      <3> HIDE DEF S
      <3>. QED  BY <1>0, <1>1, <1>2, UpTo
    <2> HIDE DEF S
    <2>. QED  BY <1>0, <2>1
  <1>4. Layout(tr, width, pass) = [i \in 0..n |-> IF i = 0 THEN base ELSE Next1(Layout(tr, width, pass)[i - 1], i)]
    BY <1>3 DEF Layout, base, Next1, n
  <1> DEFINE L == Layout(tr, width, pass)
  <1> HIDE DEF L
  <1>5. L = [i \in 0..n |-> IF i = 0 THEN base ELSE Next1(L[i - 1], i)]  BY <1>4 DEF L
  <1>6. L[0] = base /\ \A i \in 1..n : L[i] = Next1(L[i - 1], i)  BY <1>0, <1>5
  <1>. QED  BY <1>6 DEF L, base, Next1, n

-----------------------------------------------------------------------------
(* Rows. *)

Tags == Groups \cup {"", "header", "editor", "caption", "graphic", "image"}

LEMMA RowIs ==
  ASSUME NEW tag \in Tags, NEW a \in Nat, NEW b \in Nat, NEW c \in Nat, NEW d \in Nat
  PROVE  <<tag, a, b, c, d>> \in Rows
  <1>1. Rows = Tags \X Nat \X Nat \X Nat \X Nat  BY DEF Rows, Tags
  <1>. QED  BY <1>1

LEMMA TextRows ==
  ASSUME NEW spec \in Specs, NEW width \in Nat, NEW hidden \in BOOLEAN
  PROVE  /\ BlockRows(spec, width, hidden) \in Seq(Rows)
         /\ \A i \in DOMAIN BlockRows(spec, width, hidden) : ~IsImage(BlockRows(spec, width, hidden)[i])
         /\ spec.group # "model" => Len(BlockRows(spec, width, hidden)) = Len(spec.body)
  <1> DEFINE all == [i \in DOMAIN spec.body |-> <<spec.group, spec.key, i, spec.body[i], width>>]
             n   == Len(spec.body)
  <1>0. spec.body \in Seq({1, 2}) /\ spec.group \in Groups /\ spec.key \in Nat  BY DEF Specs
  <1>1. n \in Nat /\ DOMAIN spec.body = 1..n /\ \A i \in 1..n : spec.body[i] \in Nat  BY <1>0
  <1>2. ASSUME NEW i \in 1..n PROVE all[i] \in Rows /\ ~IsImage(all[i])
    <2>1. all[i] = <<spec.group, spec.key, i, spec.body[i], width>>  BY <1>1
    <2>2. spec.body[i] \in Nat /\ i \in Nat  BY <1>1
    <2>3. all[i] \in Rows
      <3>1. spec.group \in Tags  BY <1>0 DEF Tags
      <3> HIDE DEF all
      <3>. QED  BY <1>0, <2>1, <2>2, <3>1, RowIs
    <2>4. all[i][1] = spec.group
      <3> HIDE DEF all
      <3>. QED  BY <2>1
    <2>. QED  BY <1>0, <2>3, <2>4 DEF IsImage, Groups
  <1>3. all \in Seq(Rows) /\ Len(all) = n
    <2>1. all \in [1..n -> Rows]  BY <1>1, <1>2
    <2> HIDE DEF all
    <2>. QED  BY <1>1, <2>1
  <1>4. BlockRows(spec, width, hidden) = IF hidden /\ spec.group = "model" THEN Tail(all) ELSE all
    BY DEF BlockRows
  <1> HIDE DEF all
  <1>5. CASE hidden /\ spec.group = "model"
    <2>1. BlockRows(spec, width, hidden) = Tail(all)  BY <1>4, <1>5
    <2>2. CASE all = <<>>  
      <3>1. Tail(all) = <<>>  BY <2>2, <1>3 DEF Tail
      <3>2. <<>> \in Seq(Rows) /\ DOMAIN (<<>>) = {}  OBVIOUS
      <3>. QED  BY <3>1, <3>2, <2>1, <1>5, Zenon
    <2>3. CASE all # <<>>
      <3>1. Tail(all) \in Seq(Rows) /\ Len(Tail(all)) = n - 1 /\ \A i \in 1..(n - 1) : Tail(all)[i] = all[i + 1]
        BY <2>3, <1>3, HeadTailProperties
      <3>2. \A i \in 1..(n - 1) : i + 1 \in 1..n  BY <1>1
      <3>3. DOMAIN Tail(all) = 1..(n - 1)  BY <3>1, <1>1
      <3>. QED  BY <3>1, <3>2, <3>3, <2>1, <1>2, <1>5
    <2>. QED  BY <2>2, <2>3
  <1>6. CASE ~(hidden /\ spec.group = "model")  BY <1>1, <1>2, <1>3, <1>4, <1>6
  <1>. QED  BY <1>5, <1>6

LEMMA SeparatorIsANumber ==
  ASSUME NEW above, NEW group PROVE Separator(above, group) \in Nat
  BY DEF Separator

LEMMA BlankRows ==
  ASSUME NEW n \in Nat
  PROVE  LET b == [i \in 1..n |-> Blank] IN b \in Seq(Rows) /\ Len(b) = n /\ \A i \in 1..n : b[i] = Blank /\ ~IsImage(b[i])
  <1>1. Blank \in Rows  BY DEF Blank, Rows
  <1>2. ~IsImage(Blank)  BY DEF Blank, IsImage
  <1>. QED  BY <1>1, <1>2

(* A component that is rendered keeps its picture. *)
LEMMA ComponentFits ==
  ASSUME NEW im \in ImageStates, NEW key \in Nat, NEW pic \in Nat
  PROVE  /\ Component(im, key, pic) \in Components
         /\ key \in DOMAIN im.made => Component(im, key, pic) = im.made[key]
         /\ key \notin DOMAIN im.made => Component(im, key, pic) = [pic |-> pic, width |-> 0, text |-> FALSE]
  <1>1. PICK keys \in SUBSET Nat : im.made \in [keys -> Components]  BY DEF ImageStates, Made
  <1>2. [pic |-> pic, width |-> 0, text |-> FALSE] \in Components  BY DEF Components
  <1>. QED  BY <1>1, <1>2 DEF Component

(* Its data is sent unless it shows as text, is cached, or was sent.       *)
Sending(pass, key, pic, width) ==
  LET c == Component(pass.im, key, pic)
  IN  ~(c.width = width /\ c.text = Suppressed(pass)) /\ ~Suppressed(pass) /\ key \notin pass.im.transmitted

Marked(c, width, text) == [c EXCEPT !.width = width, !.text = text]

Renders(pass, key, pic, width, r) ==
  /\ r.im.planned = pass.im.planned /\ r.im.onTerminal = pass.im.onTerminal
  /\ r.im.transmitted = (IF Sending(pass, key, pic, width) THEN pass.im.transmitted \cup {key} ELSE pass.im.transmitted)
  /\ DOMAIN r.im.made = DOMAIN pass.im.made \cup {key}
  /\ r.im.made[key] = Marked(Component(pass.im, key, pic), width, Suppressed(pass))
  /\ \A k \in DOMAIN pass.im.made \ {key} : r.im.made[k] = pass.im.made[k]
  /\ r.seen = Append(pass.seen, key)
  /\ r.sends = (IF Sending(pass, key, pic, width) THEN Append(pass.sends, <<key, Component(pass.im, key, pic).pic>>)
                ELSE pass.sends)

LEMMA RenderedImage ==
  ASSUME NEW pass \in Passes, NEW key \in Nat, NEW pic \in Nat, NEW width \in Nat
  PROVE  /\ RenderImage(pass, key, pic, width) \in Passes
         /\ Renders(pass, key, pic, width, RenderImage(pass, key, pic, width))
  <1> DEFINE c    == Component(pass.im, key, pic)
             text == Suppressed(pass)
             send == ~(c.width = width /\ c.text = text) /\ ~text /\ key \notin pass.im.transmitted
             r    == RenderImage(pass, key, pic, width)
             done == [c EXCEPT !.width = width, !.text = text]
             made == [k \in DOMAIN pass.im.made \cup {key} |-> IF k = key THEN done ELSE pass.im.made[k]]
             sent == IF send THEN pass.im.transmitted \cup {key} ELSE pass.im.transmitted
  <1>0. pass.im \in ImageStates /\ pass.seen \in Seq(Nat) /\ pass.sends \in Seq(Nat \X Nat)  BY DEF Passes
  <1>1. PICK keys \in SUBSET Nat : pass.im.made \in [keys -> Components]  BY <1>0 DEF ImageStates, Made
  <1>2. c \in Components  BY <1>0, ComponentFits
  <1>3. text \in BOOLEAN  BY DEF Suppressed
  <1>4. done \in Components  BY <1>2, <1>3 DEF Components
  <1>5. r = [im    |-> [pass.im EXCEPT !.made = made, !.transmitted = sent],
             seen  |-> Append(pass.seen, key),
             sends |-> IF send THEN Append(pass.sends, <<key, c.pic>>) ELSE pass.sends]
    BY DEF RenderImage
  <1> HIDE DEF done, text, c
  <1>6. /\ DOMAIN made = keys \cup {key} /\ made[key] = done
        /\ \A k \in keys \ {key} : made[k] = pass.im.made[k]
    BY <1>1
  <1>7. made \in [keys \cup {key} -> Components]
    BY <1>1, <1>4
  <1>8. keys \cup {key} \in SUBSET Nat /\ sent \in SUBSET Nat  BY <1>0 DEF ImageStates
  <1> HIDE DEF made, sent
  <1> DEFINE with == [pass.im EXCEPT !.made = made, !.transmitted = sent]
  <1>9. /\ with \in ImageStates
        /\ with.planned = pass.im.planned /\ with.onTerminal = pass.im.onTerminal
        /\ with.made = made /\ with.transmitted = sent
    <2>1. made \in Made  BY <1>7, <1>8 DEF Made
    <2>2. with = [pass.im EXCEPT !.made = made, !.transmitted = sent]  OBVIOUS
    <2> HIDE DEF with
    <2>. QED  BY <1>0, <2>1, <2>2, <1>8 DEF ImageStates
  <1> HIDE DEF with
  <1>10. <<key, c.pic>> \in Nat \X Nat  BY <1>2 DEF Components
  <1>11. Append(pass.seen, key) \in Seq(Nat) /\ Append(pass.sends, <<key, c.pic>>) \in Seq(Nat \X Nat)
    BY <1>0, <1>10, AppendProperties
  <1>12. r \in Passes  BY <1>0, <1>5, <1>9, <1>11 DEF Passes, with
  <1>13. /\ r.im.planned = pass.im.planned /\ r.im.onTerminal = pass.im.onTerminal
         /\ r.im.transmitted = sent /\ r.im.made = made
    <2>1. r.im = with  BY <1>5 DEF with
    <2> HIDE DEF r
    <2>. QED  BY <2>1, <1>9
  <1>14. DOMAIN pass.im.made = keys  BY <1>1
  <1>15. Sending(pass, key, pic, width) = send  BY DEF Sending, text, c
  <1>16. r.seen = Append(pass.seen, key) /\ r.sends = (IF send THEN Append(pass.sends, <<key, c.pic>>) ELSE pass.sends)
    BY <1>5
  <1> HIDE DEF r
  <1>17. /\ r.im.transmitted = (IF send THEN pass.im.transmitted \cup {key} ELSE pass.im.transmitted)
         /\ DOMAIN r.im.made = DOMAIN pass.im.made \cup {key} /\ r.im.made[key] = done
         /\ \A k \in DOMAIN pass.im.made \ {key} : r.im.made[k] = pass.im.made[k]
    BY <1>6, <1>13, <1>14 DEF sent
  <1> HIDE DEF send
  <1>18. done = Marked(c, width, text)  BY DEF done, Marked
  <1>19. Renders(pass, key, pic, width, r)  BY <1>13, <1>15, <1>16, <1>17, <1>18 DEF Renders, text, c
  <1>. QED  BY <1>12, <1>19 DEF r

LEMMA ImageRowIs ==
  ASSUME NEW pass \in Passes, NEW key \in Nat, NEW pic \in Nat, NEW width \in Nat
  PROVE  LET row == ImageRow(pass, key, pic, width)
         IN  /\ row \in Rows /\ IsImage(row) /\ row[5] = width
             /\ row[1] = "graphic" => ~Suppressed(pass) /\ row[2] = key
  <1>1. Component(pass.im, key, pic).pic \in Nat
    <2>1. pass.im \in ImageStates  BY DEF Passes
    <2>. QED  BY <2>1, ComponentFits DEF Components
  <1>2. {"caption", "graphic"} \subseteq Tags /\ 0 \in Nat  BY DEF Tags
  <1>. QED  BY <1>1, <1>2, RowIs DEF ImageRow, IsImage

-----------------------------------------------------------------------------
(* What laying one block out below others makes: it is kept as it was, or  *)
(* laid out anew from its inputs, and then its image is rendered.          *)
Kept(tr, block, spec, width) ==
  block.built /\ block.width = width /\ (block.spec = spec \/ (tr.valid /\ tr.claim > 0))

LaidOut(lines, acc, spec, width) ==
  lines = BlockRows(spec, width, hide)
          \o (IF spec.image = NoImage THEN <<>> ELSE <<ImageRow(acc.pass, spec.image[1], spec.image[2], width)>>)

ShownBy(acc, spec, width) ==
  IF spec.image = NoImage THEN acc.pass ELSE RenderImage(acc.pass, spec.image[1], spec.image[2], width)

Layouts(i) == {acc \in [at : Nat, above : {None} \cup Groups, blocks : Seq(BlockStates), lines : Seq(Rows), pass : Passes] :
                 Len(acc.blocks) = i}

LaysOut(tr, width, acc, i, r) ==
  \E lines \in Seq(Rows), sep \in Nat, now \in BlockStates :
    /\ r.above = (IF lines = <<>> THEN acc.above ELSE specs[i].group)
    /\ sep = (IF lines = <<>> THEN 0 ELSE Separator(acc.above, specs[i].group))
    /\ r.lines = acc.lines \o [n \in 1..sep |-> Blank] \o lines
    /\ r.blocks = Append(acc.blocks, now)
    /\ now.built /\ now.lines = lines /\ now.width = width
    /\ \/ /\ Kept(tr, tr.blocks[i], specs[i], width) /\ lines = tr.blocks[i].lines
          /\ now.spec = tr.blocks[i].spec /\ r.pass = acc.pass
       \/ /\ now.spec = specs[i] /\ LaidOut(lines, acc, specs[i], width)
          /\ r.pass = ShownBy(acc, specs[i], width)

LEMMA LaidIs ==
  ASSUME specs \in Seq(Specs), hide \in BOOLEAN, NEW tr \in Transcripts, Len(tr.blocks) = Len(specs),
         NEW width \in Nat, NEW i \in 1..Len(specs), NEW acc \in Layouts(i - 1)
  PROVE  Laid(tr, width, acc, i) \in Layouts(i) /\ LaysOut(tr, width, acc, i, Laid(tr, width, acc, i))
  <1> DEFINE block == tr.blocks[i]
             spec  == specs[i]
             before == IF block.lines = <<>> THEN 0 ELSE Separator(acc.above, spec.group)
             kept  == \/ Replays(tr, block, acc.at + before, before, width)
                      \/ block.built /\ block.width = width /\ block.spec = spec
             fresh == ~kept /\ spec.image # NoImage
             image == IF fresh THEN <<ImageRow(acc.pass, spec.image[1], spec.image[2], width)>> ELSE <<>>
             lines == IF kept THEN block.lines ELSE BlockRows(spec, width, hide) \o image
             sep   == IF lines = <<>> THEN 0 ELSE Separator(acc.above, spec.group)
             now   == [key |-> spec.key, built |-> TRUE, lines |-> lines, width |-> width,
                       spec |-> IF kept THEN block.spec ELSE spec, sep |-> sep, start |-> acc.at + sep]
             pass == IF fresh THEN RenderImage(acc.pass, spec.image[1], spec.image[2], width) ELSE acc.pass
             r    == [at |-> acc.at + sep + Len(lines),
                      above |-> IF lines = <<>> THEN acc.above ELSE spec.group,
                      blocks |-> Append(acc.blocks, now),
                      pass |-> pass,
                      lines |-> acc.lines \o [n \in 1..sep |-> Blank] \o lines]
  <1>1. Laid(tr, width, acc, i) = r  BY DEF Laid
  <1>2. spec \in Specs /\ block \in BlockStates
    <2>1. specs \in Seq(Specs) /\ tr.blocks \in Seq(BlockStates) /\ i \in 1..Len(tr.blocks)
      BY DEF Transcripts
    <2>. QED  BY <2>1
  <1>3. /\ acc.at \in Nat /\ acc.above \in {None} \cup Groups /\ acc.blocks \in Seq(BlockStates)
        /\ acc.lines \in Seq(Rows) /\ acc.pass \in Passes /\ Len(acc.blocks) = i - 1
    BY DEF Layouts
  <1>4. kept => Kept(tr, block, spec, width)  BY Zenon DEF Replays, Kept
  <1> HIDE DEF block, spec
  <1> HIDE DEF kept
  <1>5. fresh => /\ spec.image[1] \in Nat /\ spec.image[2] \in Nat
    BY <1>2 DEF Specs, Pictures
  <1>6. image \in Seq(Rows) /\ pass \in Passes
    <2>1. CASE fresh
      <3>1. /\ ImageRow(acc.pass, spec.image[1], spec.image[2], width) \in Rows
            /\ RenderImage(acc.pass, spec.image[1], spec.image[2], width) \in Passes
        BY <2>1, <1>3, <1>5, ImageRowIs, RenderedImage, ZenonT(60)
      <3>. QED  BY <2>1, <3>1
    <2>2. CASE ~fresh  BY <2>2, <1>3
    <2>. QED  BY <2>1, <2>2
  <1>7. BlockRows(spec, width, hide) \in Seq(Rows) /\ block.lines \in Seq(Rows) /\ block.spec \in Specs \cup {None}
        /\ spec.key \in Nat /\ spec.group \in Groups
    BY <1>2, TextRows DEF Specs, BlockStates
  <1> HIDE DEF image, pass
  <1>8. lines \in Seq(Rows)  BY <1>6, <1>7, ConcatProperties
  <1>9. sep \in Nat /\ Len(lines) \in Nat  BY <1>8, SeparatorIsANumber
  <1>10. ~kept => LaidOut(lines, acc, spec, width) /\ pass = ShownBy(acc, spec, width)
    BY DEF LaidOut, ShownBy, image, pass
  <1>11. kept => pass = acc.pass /\ lines = block.lines  BY DEF pass
  <1>12. acc.lines \o [n \in 1..sep |-> Blank] \o lines \in Seq(Rows)
    BY <1>3, <1>8, <1>9, BlankRows, ConcatProperties
  <1> HIDE DEF lines, sep
  <1>13. now \in BlockStates  BY <1>2, <1>3, <1>7, <1>8, <1>9, SMTT(40) DEF BlockStates
  <1>14. /\ now.built /\ now.lines = lines /\ now.width = width /\ now.spec = (IF kept THEN block.spec ELSE spec)
    OBVIOUS
  <1> HIDE DEF now
  <1>15. Append(acc.blocks, now) \in Seq(BlockStates) /\ Len(Append(acc.blocks, now)) = i
    BY <1>3, <1>13, AppendProperties
  <1>16. r \in Layouts(i)
    BY <1>3, <1>6, <1>7, <1>9, <1>12, <1>15, SMTT(40) DEF Layouts
  <1>17. /\ r.above = (IF lines = <<>> THEN acc.above ELSE spec.group)
         /\ r.lines = acc.lines \o [n \in 1..sep |-> Blank] \o lines
         /\ r.blocks = Append(acc.blocks, now) /\ r.pass = pass
    OBVIOUS
  <1>18. sep = (IF lines = <<>> THEN 0 ELSE Separator(acc.above, spec.group))  BY DEF sep
  <1> HIDE DEF r
  <1>19. \/ /\ Kept(tr, block, spec, width) /\ lines = block.lines
            /\ now.spec = block.spec /\ r.pass = acc.pass
         \/ /\ now.spec = spec /\ LaidOut(lines, acc, spec, width)
            /\ r.pass = ShownBy(acc, spec, width)
    BY <1>4, <1>10, <1>11, <1>14, <1>17
  <1>20. LaysOut(tr, width, acc, i, r)
    BY <1>8, <1>9, <1>13, <1>14, <1>17, <1>18, <1>19 DEF LaysOut, block, spec
  <1>. QED  BY <1>1, <1>16, <1>20

-----------------------------------------------------------------------------
(* Rows with every image alike. *)
Plain(rows) == [i \in DOMAIN rows |-> AnyImage(rows[i])]

LEMMA AnyImageIsARow ==
  ASSUME NEW row \in Rows
  PROVE  /\ AnyImage(row) \in Rows
         /\ IsImage(row) => AnyImage(row) = <<"image", 0, 0, 0, row[5]>>
         /\ ~IsImage(row) => AnyImage(row) = row
  <1>1. row[5] \in Nat  BY DEF Rows
  <1>2. "image" \in Tags /\ 0 \in Nat  BY DEF Tags
  <1>3. <<"image", 0, 0, 0, row[5]>> \in Rows  BY <1>1, <1>2, RowIs
  <1>. QED  BY <1>3 DEF AnyImage

LEMMA PlainRows ==
  ASSUME NEW rows \in Seq(Rows)
  PROVE  /\ Plain(rows) \in Seq(Rows) /\ Len(Plain(rows)) = Len(rows)
         /\ \A i \in 1..Len(rows) : Plain(rows)[i] = AnyImage(rows[i])
         /\ (Plain(rows) = <<>>) <=> (rows = <<>>)
  <1>1. \A i \in 1..Len(rows) : AnyImage(rows[i]) \in Rows  BY AnyImageIsARow
  <1>2. Plain(rows) = [i \in 1..Len(rows) |-> AnyImage(rows[i])]  BY DEF Plain
  <1>3. Plain(rows) \in Seq(Rows) /\ Len(Plain(rows)) = Len(rows)  BY <1>1, <1>2
  <1>4. \A i \in 1..Len(rows) : Plain(rows)[i] = AnyImage(rows[i])  BY <1>2
  <1>5. (Plain(rows) = <<>>) <=> (rows = <<>>)  BY <1>3, EmptySeq
  <1>. QED  BY <1>3, <1>4, <1>5

LEMMA PlainConcat ==
  ASSUME NEW f \in Seq(Rows), NEW g \in Seq(Rows)
  PROVE  Plain(f \o g) = Plain(f) \o Plain(g)
  <1>1. f \o g \in Seq(Rows) /\ Len(f \o g) = Len(f) + Len(g)  BY ConcatProperties
  <1>2. /\ Plain(f) \in Seq(Rows) /\ Len(Plain(f)) = Len(f)
        /\ Plain(g) \in Seq(Rows) /\ Len(Plain(g)) = Len(g)
        /\ Plain(f \o g) \in Seq(Rows) /\ Len(Plain(f \o g)) = Len(f) + Len(g)
    BY <1>1, PlainRows
  <1>3. Plain(f) \o Plain(g) \in Seq(Rows) /\ Len(Plain(f) \o Plain(g)) = Len(f) + Len(g)
    BY <1>2, ConcatProperties
  <1>4. ASSUME NEW i \in 1..(Len(f) + Len(g)) PROVE Plain(f \o g)[i] = (Plain(f) \o Plain(g))[i]
    <2>1. Plain(f \o g)[i] = AnyImage((f \o g)[i])  BY <1>1, PlainRows
    <2>2. CASE i <= Len(f)
      <3>1. i \in 1..Len(f)  BY <2>2
      <3>2. (f \o g)[i] = f[i] /\ (Plain(f) \o Plain(g))[i] = Plain(f)[i]  BY <1>2, <2>2, ConcatProperties
      <3>3. Plain(f)[i] = AnyImage(f[i])  BY <3>1, PlainRows
      <3>. QED  BY <2>1, <3>2, <3>3
    <2>3. CASE i > Len(f)
      <3>1. i - Len(f) \in 1..Len(g)  BY <2>3
      <3>2. (f \o g)[i] = g[i - Len(f)] /\ (Plain(f) \o Plain(g))[i] = Plain(g)[i - Len(f)]
        BY <1>2, <2>3, ConcatProperties
      <3>3. Plain(g)[i - Len(f)] = AnyImage(g[i - Len(f)])  BY <3>1, PlainRows
      <3>. QED  BY <2>1, <3>2, <3>3
    <2>4. i <= Len(f) \/ i > Len(f)  OBVIOUS
    <2>. QED  BY <2>2, <2>3, <2>4, Zenon
  <1>. QED  BY <1>2, <1>3, <1>4, SeqEqual

LEMMA PlainText ==
  ASSUME NEW rows \in Seq(Rows), \A i \in DOMAIN rows : ~IsImage(rows[i])
  PROVE  Plain(rows) = rows
  <1>1. \A i \in 1..Len(rows) : Plain(rows)[i] = rows[i]  BY PlainRows, AnyImageIsARow
  <1>2. Plain(rows) \in Seq(Rows) /\ Len(Plain(rows)) = Len(rows)  BY PlainRows
  <1>. QED  BY <1>1, <1>2, SeqEqual

(* A block laid out anew shows what is wanted. *)
LEMMA LaidOutIsWanted ==
  ASSUME NEW spec \in Specs, hide \in BOOLEAN, NEW width \in Nat, NEW acc, acc.pass \in Passes,
         NEW lines, LaidOut(lines, acc, spec, width)
  PROVE  Plain(lines) = Wanted(spec, width, hide)
  <1> DEFINE text == BlockRows(spec, width, hide)
  <1>1. text \in Seq(Rows) /\ Plain(text) = text  BY TextRows, PlainText
  <1>2. CASE spec.image = NoImage
    <2>1. lines = text \o <<>> /\ Wanted(spec, width, hide) = text \o <<>>  BY <1>2 DEF LaidOut, Wanted
    <2> HIDE DEF text
    <2>. QED  BY <1>1, <2>1, ConcatEmptySeq
  <1>3. CASE spec.image # NoImage
    <2> DEFINE row == ImageRow(acc.pass, spec.image[1], spec.image[2], width)
    <2>1. lines = text \o <<row>> /\ Wanted(spec, width, hide) = text \o <<<<"image", 0, 0, 0, width>>>>
      BY <1>3 DEF LaidOut, Wanted
    <2>2. spec.image[1] \in Nat /\ spec.image[2] \in Nat  BY <1>3 DEF Specs, Pictures
    <2>3. row \in Rows /\ IsImage(row) /\ row[5] = width
      <3> DEFINE pass == acc.pass  key == spec.image[1]  pic == spec.image[2]
      <3>1. pass \in Passes /\ key \in Nat /\ pic \in Nat /\ row = ImageRow(pass, key, pic, width)  BY <2>2
      <3> HIDE DEF row, pass, key, pic
      <3>. QED  BY <3>1, ImageRowIs
    <2>4. AnyImage(row) = <<"image", 0, 0, 0, width>>  BY <2>3, AnyImageIsARow
    <2> HIDE DEF text, row
    <2>5. <<row>> \in Seq(Rows) /\ Plain(<<row>>) = <<AnyImage(row)>>
      <3> DEFINE one == <<row>>  any == <<AnyImage(row)>>
      <3>1. one \in Seq(Rows) /\ Len(one) = 1 /\ one[1] = row  BY <2>3
      <3>2. any \in Seq(Rows) /\ Len(any) = 1 /\ any[1] = AnyImage(row)  BY <2>3, AnyImageIsARow
      <3> HIDE DEF one, any
      <3>3. Plain(one) \in Seq(Rows) /\ Len(Plain(one)) = 1 /\ Plain(one)[1] = AnyImage(row)
        BY <3>1, PlainRows
      <3>4. \A i \in 1..1 : Plain(one)[i] = any[i]  BY <3>2, <3>3
      <3>5. Plain(one) = any  BY <3>2, <3>3, <3>4, SeqEqual
      <3>. QED  BY <3>1, <3>5 DEF one, any
    <2>. QED  BY <1>1, <2>1, <2>4, <2>5, PlainConcat
  <1>. QED  BY <1>2, <1>3

LEMMA BlocksUnfold ==
  ASSUME specs \in Seq(Specs)
  PROVE  /\ Blocks[0] = [above |-> None, rows |-> <<>>]
         /\ \A i \in 1..Len(specs) :
              Blocks[i] = Below(Blocks[i - 1], Wanted(specs[i], cols, hide), specs[i].group)
  <1> DEFINE n == Len(specs)
             base == [above |-> None, rows |-> <<>>]
             Next1(acc, i) == Below(acc, Wanted(specs[i], cols, hide), specs[i].group)
             S == {k \in Nat : \E f : f = [i \in 0..k |-> IF i = 0 THEN base ELSE Next1(f[i - 1], i)]}
  <1>0. n \in Nat  OBVIOUS
  <1> HIDE DEF base, Next1, n
  <1>1. 0 \in S
    <2> DEFINE f == [i \in 0..0 |-> base]
    <2>1. f = [i \in 0..0 |-> IF i = 0 THEN base ELSE Next1(f[i - 1], i)]  OBVIOUS
    <2>. QED  BY <2>1
  <1>2. ASSUME NEW m \in 1..n, m - 1 \in S PROVE m \in S
    <2> DEFINE k == m - 1
    <2>0. k \in Nat /\ m = k + 1  BY <1>0
    <2> HIDE DEF k
    <2>1. PICK g : g = [i \in 0..k |-> IF i = 0 THEN base ELSE Next1(g[i - 1], i)]  BY <1>2 DEF k
    <2> DEFINE h == [i \in 0..k + 1 |-> IF i = k + 1 THEN Next1(g[k], k + 1) ELSE g[i]]
    <2>2. h = [i \in 0..k + 1 |-> IF i = 0 THEN base ELSE Next1(h[i - 1], i)]
      <3> SUFFICES ASSUME NEW i \in 0..k + 1 PROVE h[i] = IF i = 0 THEN base ELSE Next1(h[i - 1], i)  OBVIOUS
      <3>1. CASE i = k + 1  BY <2>0, <3>1
      <3>2. CASE i # k + 1
        <4>1. i \in 0..k /\ (i # 0 => i - 1 \in 0..k)  BY <2>0, <3>2
        <4>2. g[i] = IF i = 0 THEN base ELSE Next1(g[i - 1], i)  BY <4>1, <2>1
        <4>3. i # 0 => h[i - 1] = g[i - 1]  BY <4>1, <2>0
        <4>. QED  BY <4>1, <4>2, <4>3, <3>2, <2>0
      <3>. QED  BY <3>1, <3>2
    <2>3. k + 1 \in Nat  BY <2>0
    <2>. QED  BY <2>0, <2>2, <2>3
  <1>3. n \in S
    <2>1. \A i \in 0..n : i \in S
      <3> HIDE DEF S
      <3>. QED  BY <1>0, <1>1, <1>2, UpTo
    <2> HIDE DEF S
    <2>. QED  BY <1>0, <2>1
  <1>4. Blocks = [i \in 0..n |-> IF i = 0 THEN base ELSE Next1(Blocks[i - 1], i)]
    BY <1>3 DEF Blocks, base, Next1, n
  <1>5. Blocks[0] = base /\ \A i \in 1..n : Blocks[i] = Next1(Blocks[i - 1], i)  BY <1>0, <1>4
  <1>. QED  BY <1>5 DEF base, Next1, n

-----------------------------------------------------------------------------
(* A block that is built shows its inputs; where rows may have been        *)
(* committed, or a draw may say so, these are the inputs of now.           *)
Known(blocks) ==
  \A i \in DOMAIN blocks :
    blocks[i].built => blocks[i].spec \in Specs /\ Plain(blocks[i].lines) = Wanted(blocks[i].spec, blocks[i].width, hide)

Matching(blocks) ==
  \A i \in DOMAIN blocks : blocks[i].built => i \in DOMAIN specs /\ blocks[i].spec = specs[i]

LEMMA Synced ==
  ASSUME specs \in Seq(Specs), NEW tr \in Transcripts
  PROVE  LET s == SyncBlocks(tr)
         IN  /\ s \in Transcripts /\ Len(s.blocks) = Len(specs)
             /\ s.lines = tr.lines /\ s.width = tr.width /\ s.floor = tr.floor /\ s.gen = tr.gen
             /\ s.claim = tr.claim /\ (s.valid => tr.valid)
             /\ Known(tr.blocks) => Known(s.blocks)
             /\ Matching(tr.blocks) => Matching(s.blocks)
             /\ \A i \in DOMAIN specs : s.blocks[i].built => i \in DOMAIN tr.blocks /\ s.blocks[i] = tr.blocks[i]
  <1> DEFINE aligned == [i \in DOMAIN specs |->
                           IF i \in DOMAIN tr.blocks /\ tr.blocks[i].key = specs[i].key THEN tr.blocks[i]
                           ELSE Unbuilt(specs[i].key)]
             same    == \A i \in DOMAIN specs : i \in DOMAIN tr.blocks /\ tr.blocks[i].key = specs[i].key
             s       == SyncBlocks(tr)
  <1>0. tr.blocks \in Seq(BlockStates) /\ DOMAIN specs = 1..Len(specs) /\ Len(specs) \in Nat
    BY DEF Transcripts
  <1>1. ASSUME NEW i \in DOMAIN specs
        PROVE  /\ aligned[i] \in BlockStates
               /\ aligned[i].built => i \in DOMAIN tr.blocks /\ aligned[i] = tr.blocks[i]
    <2>0. specs[i] \in Specs  BY <1>0
    <2>1. specs[i].key \in Nat  BY <2>0 DEF Specs
    <2>2. Unbuilt(specs[i].key) \in BlockStates /\ ~Unbuilt(specs[i].key).built  BY <2>1 DEF Unbuilt, BlockStates
    <2>3. i \in DOMAIN tr.blocks => tr.blocks[i] \in BlockStates  BY <1>0
    <2>. QED  BY <2>2, <2>3
  <1>2. aligned \in Seq(BlockStates) /\ Len(aligned) = Len(specs) /\ DOMAIN aligned = DOMAIN specs
    <2>1. aligned \in [1..Len(specs) -> BlockStates]  BY <1>0, <1>1
    <2> HIDE DEF aligned
    <2>. QED  BY <1>0, <2>1
  <1>3. s = [tr EXCEPT !.blocks = aligned, !.valid = tr.valid /\ same]  BY DEF SyncBlocks
  <1> HIDE DEF s
  <1>4. same \in BOOLEAN  OBVIOUS
  <1> HIDE DEF aligned, same
  <1>5. /\ s \in Transcripts /\ s.blocks = aligned /\ s.valid = (tr.valid /\ same)
        /\ s.lines = tr.lines /\ s.width = tr.width /\ s.floor = tr.floor /\ s.gen = tr.gen /\ s.claim = tr.claim
    BY <1>2, <1>3, <1>4 DEF Transcripts
  <1>6. Known(tr.blocks) => Known(aligned)  BY <1>1, <1>2 DEF Known
  <1>7. Matching(tr.blocks) => Matching(aligned)  BY <1>1, <1>2 DEF Matching
  <1>8. \A i \in DOMAIN specs : aligned[i].built => i \in DOMAIN tr.blocks /\ aligned[i] = tr.blocks[i]
    BY <1>1
  <1>. QED  BY <1>2, <1>5, <1>6, <1>7, <1>8 DEF s

Apart(n) == [m \in 1..n |-> Blank]

(* The layout shows what is wanted, whatever blocks it kept. *)
LEMMA LayoutIsCurrent ==
  ASSUME specs \in Seq(Specs), hide \in BOOLEAN, cols \in Nat,
         NEW tr \in Transcripts, Len(tr.blocks) = Len(specs), Known(tr.blocks),
         tr.valid /\ tr.claim > 0 => Matching(tr.blocks), NEW pass \in Passes
  PROVE  \A i \in 0..Len(specs) :
           LET acc == Layout(tr, cols, pass)[i]
           IN  /\ acc \in Layouts(i)
               /\ acc.above = Blocks[i].above /\ Plain(acc.lines) = Blocks[i].rows
               /\ Known(acc.blocks)
               /\ \A j \in DOMAIN acc.blocks : acc.blocks[j].built /\ acc.blocks[j].spec = specs[j]
  <1> DEFINE n == Len(specs)
             L == Layout(tr, cols, pass)
             P(i) == /\ L[i] \in Layouts(i)
                     /\ L[i].above = Blocks[i].above /\ Plain(L[i].lines) = Blocks[i].rows
                     /\ Known(L[i].blocks)
                     /\ \A j \in DOMAIN L[i].blocks : L[i].blocks[j].built /\ L[i].blocks[j].spec = specs[j]
             S == {i \in 0..n : P(i)}
  <1>0. n \in Nat  OBVIOUS
  <1>1. /\ L[0] = [at |-> 0, above |-> None, blocks |-> <<>>, lines |-> <<>>, pass |-> pass]
        /\ \A i \in 1..n : L[i] = Laid(tr, cols, L[i - 1], i)
    BY LayoutUnfolds
  <1>2. /\ Blocks[0] = [above |-> None, rows |-> <<>>]
        /\ \A i \in 1..n : Blocks[i] = Below(Blocks[i - 1], Wanted(specs[i], cols, hide), specs[i].group)
    BY BlocksUnfold
  <1> HIDE DEF L
  <1>3. P(0)
    <2>1. <<>> \in Seq(BlockStates) /\ <<>> \in Seq(Rows) /\ Len(<<>>) = 0 /\ DOMAIN (<<>>) = {}  OBVIOUS
    <2>2. Plain(<<>>) = <<>>  BY <2>1, PlainRows
    <2>3. L[0] \in Layouts(0)  BY <1>1, <2>1 DEF Layouts
    <2>. QED  BY <1>1, <1>2, <2>1, <2>2, <2>3 DEF Known
  <1>4. ASSUME NEW i \in 1..n, P(i - 1) PROVE P(i)
    <2> DEFINE acc == L[i - 1]
    <2>0. acc \in Layouts(i - 1) /\ L[i] = Laid(tr, cols, acc, i)  BY <1>1, <1>4
    <2> HIDE DEF acc
    <2>1. L[i] \in Layouts(i)  BY <2>0, LaidIs
    <2> DEFINE got == L[i]
    <2>. LaysOut(tr, cols, acc, i, got)  BY <2>0, LaidIs
    <2>2. PICK lines \in Seq(Rows), sep \in Nat, now \in BlockStates :
                  /\ L[i].above = (IF lines = <<>> THEN acc.above ELSE specs[i].group)
                  /\ sep = (IF lines = <<>> THEN 0 ELSE Separator(acc.above, specs[i].group))
                  /\ L[i].lines = acc.lines \o [m \in 1..sep |-> Blank] \o lines
                  /\ L[i].blocks = Append(acc.blocks, now)
                  /\ now.built /\ now.lines = lines /\ now.width = cols
                  /\ \/ /\ Kept(tr, tr.blocks[i], specs[i], cols) /\ lines = tr.blocks[i].lines
                        /\ now.spec = tr.blocks[i].spec /\ L[i].pass = acc.pass
                     \/ /\ now.spec = specs[i] /\ LaidOut(lines, acc, specs[i], cols)
                        /\ L[i].pass = ShownBy(acc, specs[i], cols)
      BY Zenon DEF LaysOut
    <2>3. specs[i] \in Specs /\ i \in DOMAIN tr.blocks /\ tr.blocks[i] \in BlockStates
      BY DEF Transcripts
    <2>4. now.spec = specs[i] /\ Plain(lines) = Wanted(specs[i], cols, hide)
      <3>1. CASE Kept(tr, tr.blocks[i], specs[i], cols) /\ lines = tr.blocks[i].lines /\ now.spec = tr.blocks[i].spec
        <4>1. tr.blocks[i].built /\ tr.blocks[i].width = cols  BY <3>1 DEF Kept
        <4>2. tr.blocks[i].spec = specs[i]  BY <3>1, <4>1, <2>3 DEF Kept, Matching
        <4>3. Plain(tr.blocks[i].lines) = Wanted(specs[i], cols, hide)  BY <4>1, <4>2, <2>3 DEF Known
        <4>. QED  BY <3>1, <4>2, <4>3
      <3>2. CASE now.spec = specs[i] /\ LaidOut(lines, acc, specs[i], cols)
        <4>1. acc.pass \in Passes  BY <2>0 DEF Layouts
        <4>. QED  BY <3>2, <4>1, <2>3, LaidOutIsWanted
      <3>. QED  BY <2>2, <3>1, <3>2
    <2> DEFINE blanks == [m \in 1..sep |-> Blank]  wanted == Wanted(specs[i], cols, hide)
    <2>5. acc.above = Blocks[i - 1].above /\ Plain(acc.lines) = Blocks[i - 1].rows  BY <1>4 DEF acc
    <2>6. lines = <<>> <=> wanted = <<>>  BY <2>4, PlainRows
    <2>7. Blocks[i] = Below(Blocks[i - 1], wanted, specs[i].group)  BY <1>2
    <2>8. acc.lines \in Seq(Rows) /\ acc.blocks \in Seq(BlockStates) /\ Len(acc.blocks) = i - 1
      BY <2>0 DEF Layouts
    <2>9. blanks \in Seq(Rows) /\ Plain(blanks) = blanks  BY BlankRows, PlainText
    <2>10. Plain(L[i].lines) = Blocks[i - 1].rows \o blanks \o wanted
      <3> HIDE DEF blanks, wanted
      <3>1. acc.lines \o blanks \in Seq(Rows)  BY <2>8, <2>9, ConcatProperties
      <3>2. Plain(acc.lines \o blanks) = Blocks[i - 1].rows \o blanks  BY <2>5, <2>8, <2>9, PlainConcat
      <3>3. Plain((acc.lines \o blanks) \o lines) = Blocks[i - 1].rows \o blanks \o wanted
        BY <3>1, <3>2, <2>4, PlainConcat DEF wanted
      <3>. QED  BY <3>3, <2>2 DEF blanks
    <2>11. L[i].above = Blocks[i].above /\ Plain(L[i].lines) = Blocks[i].rows
      <3>1. CASE wanted = <<>>
        <4>1. Blocks[i] = Blocks[i - 1]  BY <3>1, <2>7 DEF Below
        <4>2. sep = 0 /\ L[i].above = acc.above  BY <3>1, <2>2, <2>6
        <4>3. blanks = <<>>  BY <4>2, <2>9, BlankRows, EmptySeq
        <4>4. Blocks[i - 1].rows \in Seq(Rows)  BY <2>5, <2>8, PlainRows
        <4> HIDE DEF blanks, wanted
        <4>5. Blocks[i - 1].rows \o blanks = Blocks[i - 1].rows  BY <4>3, <4>4, ConcatEmptySeq
        <4>6. Blocks[i - 1].rows \o blanks \o wanted = Blocks[i - 1].rows
          BY <4>5, <4>4, <3>1, ConcatEmptySeq
        <4>. QED  BY <4>1, <4>2, <4>6, <2>5, <2>10
      <3>2. CASE wanted # <<>>
        <4> DEFINE whole == Blocks[i - 1].rows
                            \o Apart(Separator(Blocks[i - 1].above, specs[i].group)) \o wanted
        <4>1. Blocks[i] = [above |-> specs[i].group, rows |-> whole]  BY <3>2, <2>7 DEF Below, Apart
        <4>2. sep = Separator(Blocks[i - 1].above, specs[i].group) /\ L[i].above = specs[i].group
          BY <3>2, <2>2, <2>5, <2>6
        <4>3. blanks = Apart(Separator(Blocks[i - 1].above, specs[i].group))  BY <4>2 DEF Apart
        <4> HIDE DEF wanted, blanks
        <4>4. whole = Blocks[i - 1].rows \o blanks \o wanted  BY <4>3, Zenon
        <4> HIDE DEF whole
        <4>5. Blocks[i].rows = whole /\ Blocks[i].above = specs[i].group  BY <4>1
        <4>. QED  BY <4>2, <4>4, <4>5, <2>10
      <3>. QED  BY <3>1, <3>2
    <2>12. /\ L[i].blocks \in Seq(BlockStates) /\ DOMAIN L[i].blocks = 1..i /\ L[i].blocks[i] = now
           /\ \A j \in 1..(i - 1) : j \in DOMAIN acc.blocks /\ L[i].blocks[j] = acc.blocks[j]
      BY <2>2, <2>8, AppendProperties, SMTT(40)
    <2>13. /\ Known(acc.blocks)
           /\ \A j \in DOMAIN acc.blocks : acc.blocks[j].built /\ acc.blocks[j].spec = specs[j]
      BY <1>4 DEF acc
    <2>14. now.spec \in Specs /\ Plain(now.lines) = Wanted(now.spec, now.width, hide)  BY <2>2, <2>3, <2>4
    <2>15. Known(L[i].blocks)
      <3> SUFFICES ASSUME NEW j \in 1..i
                   PROVE  /\ L[i].blocks[j].spec \in Specs
                          /\ Plain(L[i].blocks[j].lines) = Wanted(L[i].blocks[j].spec, L[i].blocks[j].width, hide)
        BY <2>12 DEF Known
      <3>1. CASE j = i  BY <3>1, <2>12, <2>14
      <3>2. CASE j # i
        <4>1. j \in 1..(i - 1)  BY <3>2
        <4>. QED  BY <4>1, <2>12, <2>13 DEF Known
      <3>. QED  BY <3>1, <3>2
    <2>16. \A j \in DOMAIN L[i].blocks : L[i].blocks[j].built /\ L[i].blocks[j].spec = specs[j]
      <3> SUFFICES ASSUME NEW j \in 1..i PROVE L[i].blocks[j].built /\ L[i].blocks[j].spec = specs[j]
        BY <2>12
      <3>1. CASE j = i  BY <3>1, <2>12, <2>2, <2>4
      <3>2. CASE j # i
        <4>1. j \in 1..(i - 1)  BY <3>2
        <4>. QED  BY <4>1, <2>12, <2>13
      <3>. QED  BY <3>1, <3>2
    <2>. QED  BY <2>1, <2>11, <2>15, <2>16
  <1>5. \A i \in 0..n : i \in S
    <2>1. 0 \in S  BY <1>0, <1>3
    <2>2. ASSUME NEW i \in 1..n, i - 1 \in S PROVE i \in S
      <3>1. P(i - 1) /\ i \in 0..n  BY <2>2
      <3>2. P(i)  BY <3>1, <1>4
      <3>. QED  BY <3>1, <3>2
    <2> HIDE DEF S, n
    <2>. QED  BY <1>0, <2>1, <2>2, UpTo
  <1>6. \A i \in 0..n : P(i)  BY <1>5
  <1>. QED  BY <1>6 DEF L

-----------------------------------------------------------------------------
(* Every block but an answer shows a row, and a conversation begins with   *)
(* one: there are no rows only where there are no blocks.                  *)
Started ==
  /\ specs # <<>> => specs[1].group # "model"
  /\ \A i \in DOMAIN specs : specs[i].body # <<>>

LEMMA BelowFits ==
  ASSUME NEW acc, acc.rows \in Seq(Rows), NEW rows \in Seq(Rows), NEW group
  PROVE  /\ Below(acc, rows, group).rows \in Seq(Rows)
         /\ Len(Below(acc, rows, group).rows) >= Len(acc.rows) + Len(rows)
  <1> DEFINE k == Separator(acc.above, group)  blanks == [n \in 1..k |-> Blank]
  <1>1. CASE rows = <<>>
    <2>1. Below(acc, rows, group) = acc /\ Len(rows) = 0 /\ Len(acc.rows) \in Nat  BY <1>1 DEF Below
    <2>. QED  BY <2>1
  <1>2. CASE rows # <<>>
    <2>1. k \in Nat  BY SeparatorIsANumber
    <2>2. blanks \in Seq(Rows) /\ Len(blanks) = k
      <3> HIDE DEF k
      <3>. QED  BY <2>1, BlankRows
    <2> DEFINE whole == acc.rows \o blanks \o rows
    <2>3. Below(acc, rows, group) = [above |-> group, rows |-> whole]  BY <1>2 DEF Below
    <2> HIDE DEF k, blanks
    <2>4. acc.rows \o blanks \in Seq(Rows) /\ Len(acc.rows \o blanks) = Len(acc.rows) + k
      BY <2>2, ConcatProperties
    <2>5. whole \in Seq(Rows) /\ Len(whole) = Len(acc.rows) + k + Len(rows)
      BY <2>2, <2>4, ConcatProperties
    <2> HIDE DEF whole
    <2>6. Len(acc.rows) \in Nat /\ Len(rows) \in Nat  OBVIOUS
    <2>. QED  BY <2>1, <2>3, <2>5, <2>6
  <1>. QED  BY <1>1, <1>2

LEMMA WantedFits ==
  ASSUME NEW spec \in Specs, hide \in BOOLEAN, NEW width \in Nat
  PROVE  /\ Wanted(spec, width, hide) \in Seq(Rows)
         /\ spec.group # "model" /\ spec.body # <<>> => Wanted(spec, width, hide) # <<>>
  <1> DEFINE text == BlockRows(spec, width, hide)
             image == IF spec.image = NoImage THEN <<>> ELSE <<<<"image", 0, 0, 0, width>>>>
  <1>1. text \in Seq(Rows) /\ (spec.group # "model" => Len(text) = Len(spec.body))  BY TextRows
  <1>2. "image" \in Tags /\ 0 \in Nat  BY DEF Tags
  <1>3. <<"image", 0, 0, 0, width>> \in Rows  BY <1>2, RowIs
  <1>4. image \in Seq(Rows)  BY <1>3
  <1>5. Wanted(spec, width, hide) = text \o image  BY DEF Wanted
  <1>6. spec.body \in Seq({1, 2})  BY DEF Specs
  <1> HIDE DEF text, image
  <1>7. text \o image \in Seq(Rows) /\ Len(text \o image) = Len(text) + Len(image)
    BY <1>1, <1>4, ConcatProperties
  <1>8. spec.body # <<>> => Len(spec.body) > 0  BY <1>6, EmptySeq
  <1>9. Len(image) \in Nat  BY <1>4
  <1>10. text \o image = <<>> => Len(text \o image) = 0  OBVIOUS
  <1>. QED  BY <1>1, <1>5, <1>7, <1>8, <1>9, <1>10

LEMMA BlocksShow ==
  ASSUME specs \in Seq(Specs), hide \in BOOLEAN, cols \in Nat, Started
  PROVE  /\ Blocks[Len(specs)].rows \in Seq(Rows)
         /\ Blocks[Len(specs)].rows = <<>> => specs = <<>>
         /\ specs = <<>> => Blocks[Len(specs)].rows = <<>>
  <1> DEFINE n == Len(specs)
             S == {i \in 0..n : Blocks[i].rows \in Seq(Rows) /\ (i > 0 => Len(Blocks[i].rows) > 0)}
  <1>0. n \in Nat /\ (specs = <<>> => n = 0) /\ (specs # <<>> => n > 0)  BY EmptySeq
  <1>1. /\ Blocks[0] = [above |-> None, rows |-> <<>>]
        /\ \A i \in 1..n : Blocks[i] = Below(Blocks[i - 1], Wanted(specs[i], cols, hide), specs[i].group)
    BY BlocksUnfold
  <1>2. 0 \in S
    <2>1. Blocks[0].rows = <<>>  BY <1>1
    <2>2. <<>> \in Seq(Rows)  OBVIOUS
    <2>3. Blocks[0].rows \in Seq(Rows)  BY <2>1, <2>2, Zenon
    <2>4. 0 \in 0..n /\ ~(0 > 0)  BY <1>0
    <2>. QED  BY <2>3, <2>4
  <1>3. ASSUME NEW i \in 1..n, i - 1 \in S PROVE i \in S
    <2> DEFINE wanted == Wanted(specs[i], cols, hide)
    <2>0. specs[i] \in Specs  OBVIOUS
    <2>1. wanted \in Seq(Rows) /\ (specs[i].group # "model" /\ specs[i].body # <<>> => wanted # <<>>)
      BY <2>0, WantedFits
    <2> DEFINE acc == Blocks[i - 1]
    <2>2. acc.rows \in Seq(Rows) /\ (i - 1 > 0 => Len(acc.rows) > 0) /\ i - 1 \in 0..n  BY <1>3
    <2>3. Blocks[i] = Below(acc, wanted, specs[i].group)  BY <1>1
    <2> HIDE DEF acc, wanted
    <2>4. /\ Blocks[i].rows \in Seq(Rows)
          /\ Len(Blocks[i].rows) >= Len(acc.rows) + Len(wanted)
      BY <2>1, <2>2, <2>3, BelowFits
    <2>5. Len(acc.rows) \in Nat /\ Len(wanted) \in Nat /\ Len(Blocks[i].rows) \in Nat  BY <2>1, <2>2, <2>4
    <2>6. Len(Blocks[i].rows) > 0
      <3>1. CASE i = 1
        <4>1. wanted # <<>>  BY <2>1, <3>1, <1>0 DEF Started
        <4>2. Len(wanted) > 0  BY <4>1, <2>1, EmptySeq
        <4>. QED  BY <4>2, <2>4, <2>5
      <3>2. CASE i # 1  BY <3>2, <2>2, <2>4, <2>5
      <3>. QED  BY <3>1, <3>2
    <2>. QED  BY <2>4, <2>6
  <1>4. \A i \in 0..n : i \in S
    <2> HIDE DEF S, n
    <2>. QED  BY <1>0, <1>2, <1>3, UpTo
  <1>5. n \in S  BY <1>0, <1>4
  <1>6. Blocks[n].rows = <<>> => Len(Blocks[n].rows) = 0  OBVIOUS
  <1>. QED  BY <1>0, <1>1, <1>5, <1>6

(* How far two sequences of rows agree.                                    *)
Agree(f, g, n) == n <= Len(f) /\ n <= Len(g) /\ \A i \in 1..n : f[i] = g[i]

LEMMA CommonIs ==
  ASSUME NEW f \in Seq(Rows), NEW g \in Seq(Rows)
  PROVE  /\ Common(f, g) \in Nat /\ Agree(f, g, Common(f, g))
         /\ \A n \in Nat : Agree(f, g, n) => n <= Common(f, g)
  <1> DEFINE m == Least(Len(f), Len(g))
             S == {n \in 1..m : \A i \in 1..n : f[i] = g[i]}
             Out == (1..(m + 1)) \ S
  <1>0. m \in Nat /\ m <= Len(f) /\ m <= Len(g) /\ (m = Len(f) \/ m = Len(g))  BY DEF Least
  <1>1. PICK q \in Out : \A y \in Out : <<y, q>> \notin OpToRel(<, Nat)
    <2>1. Out \subseteq Nat /\ m + 1 \in Out  BY <1>0
    <2> HIDE DEF Out
    <2>. QED  BY <2>1, NatLessThanWellFounded, WFMin
  <1>2. \A a, b \in Nat : a < b => <<a, b>> \in OpToRel(<, Nat)  BY DEF OpToRel
  <1>3. \A y \in 1..(q - 1) : y \in S
    <2> SUFFICES ASSUME NEW y \in 1..(q - 1) PROVE y \in S  OBVIOUS
    <2>1. q \in Nat /\ y \in Nat /\ y < q /\ y \in 1..(m + 1)  BY <1>0
    <2>. QED  BY <1>1, <1>2, <2>1
  <1>4. \A y \in S : y < q
    <2> SUFFICES ASSUME NEW y \in S, y >= q PROVE FALSE  BY <1>0
    <2>1. q \in 1..m /\ \A i \in 1..q : f[i] = g[i]  BY <1>0
    <2>. QED  BY <2>1
  <1>5. S = 1..(q - 1)
    <2>1. \A y \in S : y \in 1..(q - 1)  BY <1>0, <1>4
    <2>. QED  BY <2>1, <1>3
  <1>6. q \in Nat /\ q >= 1 /\ q <= m + 1  BY <1>0
  <1>7. Cardinality(1..(q - 1)) = q - 1
    <2>1. q - 1 \in Nat /\ 1 \in Int /\ q - 1 \in Int  BY <1>6
    <2>2. Cardinality(1..(q - 1)) = IF 1 > q - 1 THEN 0 ELSE (q - 1) - 1 + 1  BY <2>1, FS_Interval
    <2>. QED  BY <2>1, <2>2
  <1>8. Common(f, g) = q - 1  BY <1>5, <1>7 DEF Common
  <1>9. Agree(f, g, q - 1)
    <2>1. q - 1 = 0 \/ q - 1 \in 1..(q - 1)  BY <1>6
    <2>2. ASSUME q - 1 \in 1..(q - 1) PROVE \A i \in 1..(q - 1) : f[i] = g[i]
      <3>1. q - 1 \in S
        <4> HIDE DEF S
        <4>. QED  BY <1>5, <2>2
      <3>. QED  BY <3>1
    <2>. QED  BY <2>1, <2>2, <1>0, <1>6 DEF Agree
  <1>10. ASSUME NEW n \in Nat, Agree(f, g, n) PROVE n <= q - 1
    <2>1. n = 0 \/ n \in S  BY <1>10, <1>0 DEF Agree
    <2>. QED  BY <2>1, <1>4, <1>6
  <1>. QED  BY <1>6, <1>8, <1>9, <1>10

LEMMA SpliceIs ==
  ASSUME NEW f \in Seq(Rows), NEW g \in Seq(Rows), NEW n \in Nat, Agree(f, g, n)
  PROVE  SubSeq(f, 1, n) \o SubSeq(g, n + 1, Len(g)) = g
  <1> DEFINE a == SubSeq(f, 1, n)  b == SubSeq(g, n + 1, Len(g))
  <1>0. n <= Len(f) /\ n <= Len(g) /\ Len(f) \in Nat /\ Len(g) \in Nat /\ \A i \in 1..n : f[i] = g[i]  BY DEF Agree
  <1>1. a \in Seq(Rows) /\ Len(a) = n /\ \A i \in 1..n : a[i] = f[i]  BY <1>0, SubSeqProperties
  <1>2. b \in Seq(Rows) /\ Len(b) = Len(g) - n /\ \A i \in 1..(Len(g) - n) : b[i] = g[n + i]
    <2>1. b \in Seq(Rows) /\ Len(b) = (IF n + 1 <= Len(g) THEN Len(g) - (n + 1) + 1 ELSE 0)
          /\ \A i \in 1..Len(b) : b[i] = g[(n + 1) + i - 1]
      BY <1>0, SubSeqProperties
    <2>2. Len(b) = Len(g) - n  BY <1>0, <2>1
    <2>3. \A i \in 1..(Len(g) - n) : (n + 1) + i - 1 = n + i  BY <1>0
    <2> HIDE DEF b
    <2>. QED  BY <2>1, <2>2, <2>3
  <1> HIDE DEF a, b
  <1>3. a \o b \in Seq(Rows) /\ Len(a \o b) = Len(g)  BY <1>0, <1>1, <1>2, ConcatProperties
  <1>4. ASSUME NEW i \in 1..Len(g) PROVE (a \o b)[i] = g[i]
    <2>1. CASE i <= n
      <3>1. (a \o b)[i] = a[i]  BY <2>1, <1>0, <1>1, <1>2, ConcatProperties
      <3>. QED  BY <3>1, <2>1, <1>0, <1>1
    <2>2. CASE i > n
      <3>1. (a \o b)[i] = b[i - n]  BY <2>2, <1>0, <1>1, <1>2, ConcatProperties
      <3>2. i - n \in 1..(Len(g) - n) /\ n + (i - n) = i  BY <2>2, <1>0
      <3>. QED  BY <3>1, <3>2, <1>2
    <2>3. i <= n \/ i > n  BY <1>0
    <2>. QED  BY <2>1, <2>2, <2>3, Zenon
  <1>5. a \o b = g  BY <1>3, <1>4, SeqEqual
  <1>. QED  BY <1>5 DEF a, b

LEMMA StableRowsUnfold ==
  ASSUME NEW kids, Len(kids) = 3
  PROVE  LET s3 == IF Whole(kids[3]) THEN kids[3].n + 0 ELSE Reported(kids[3])
             s2 == IF Whole(kids[2]) THEN kids[2].n + s3 ELSE Reported(kids[2])
             s1 == IF Whole(kids[1]) THEN kids[1].n + s2 ELSE Reported(kids[1])
         IN  StableRows(kids) = s1
  <1> DEFINE s3 == IF Whole(kids[3]) THEN kids[3].n + 0 ELSE Reported(kids[3])
             s2 == IF Whole(kids[2]) THEN kids[2].n + s3 ELSE Reported(kids[2])
             s1 == IF Whole(kids[1]) THEN kids[1].n + s2 ELSE Reported(kids[1])
             Step(f, i) == IF i > Len(kids) THEN 0
                           ELSE IF Whole(kids[i]) THEN kids[i].n + f[i + 1] ELSE Reported(kids[i])
             from == CHOOSE f : f = [i \in 1..Len(kids) + 1 |-> Step(f, i)]
             g == [i \in 1..Len(kids) + 1 |-> IF i = 4 THEN 0 ELSE IF i = 3 THEN s3 ELSE IF i = 2 THEN s2 ELSE s1]
  <1>1. g = [i \in 1..Len(kids) + 1 |-> Step(g, i)]
    <2> HIDE DEF s1, s2, s3
    <2>1. g[1] = s1 /\ g[2] = s2 /\ g[3] = s3 /\ g[4] = 0  OBVIOUS
    <2>2. Step(g, 4) = 0  OBVIOUS
    <2>3. Step(g, 3) = s3 /\ Step(g, 2) = s2 /\ Step(g, 1) = s1  BY <2>1 DEF s1, s2, s3
    <2> HIDE DEF Step
    <2>4. \A i \in 1..Len(kids) + 1 : i = 1 \/ i = 2 \/ i = 3 \/ i = 4  OBVIOUS
    <2>5. \A i \in 1..Len(kids) + 1 : g[i] = Step(g, i)
      <3> SUFFICES ASSUME NEW i \in 1..Len(kids) + 1 PROVE g[i] = Step(g, i)  OBVIOUS
      <3> HIDE DEF g
      <3>. QED  BY <2>1, <2>2, <2>3, <2>4
    <2>. QED  BY <2>5
  <1>2. from = [i \in 1..Len(kids) + 1 |-> Step(from, i)]
    <2> HIDE DEF g, Step
    <2>. QED  BY <1>1
  <1>3. StableRows(kids) = from[1]  BY DEF StableRows
  <1> HIDE DEF from
  <1>4. from[4] = 0  BY <1>2
  <1>5. from[3] = s3  BY <1>2, <1>4
  <1>6. from[2] = s2
    <2> HIDE DEF s3
    <2>. QED  BY <1>2, <1>5
  <1>7. from[1] = s1
    <2> HIDE DEF s2
    <2>. QED  BY <1>2, <1>6
  <1>. QED  BY <1>3, <1>7

(* The transcript rendered: its rows are those wanted, its report those it *)
(* has kept, and a generation seen before shows the same rows.             *)
LEMMA Rendered ==
  ASSUME specs \in Seq(Specs), hide \in BOOLEAN, cols \in Nat, NEW tr \in Transcripts, Known(tr.blocks),
         tr.claim > 0 => Matching(tr.blocks), tr.floor = Len(tr.lines), NEW pass \in Passes
  PROVE  LET r == TranscriptRender(tr, cols, pass)
         IN  /\ r.t \in Transcripts /\ r.pass \in Passes /\ r.t.valid
             /\ Plain(r.t.lines) = Blocks[Len(specs)].rows
             /\ Known(r.t.blocks) /\ Matching(r.t.blocks)
             /\ r.t.gen >= tr.gen
             /\ r.t.gen = tr.gen => r.t.lines = <<>> \/ (tr.valid /\ r.t.lines = tr.lines)
             /\ r.t.floor = 0 \/ (tr.valid /\ Agree(tr.lines, r.t.lines, r.t.floor))
  <1> DEFINE checked == [tr EXCEPT !.valid = tr.valid /\ tr.width = cols]
             synced == SyncBlocks(checked)
             n      == Len(specs)
             laid   == Layout(synced, cols, pass)[n]
             stable == IF synced.valid THEN Common(tr.lines, laid.lines) ELSE 0
             same   == laid.lines = <<>> \/ (synced.valid /\ tr.lines = laid.lines)
             floor  == IF laid.lines = <<>> THEN 0 ELSE Least(tr.floor, stable)
             gen    == IF same THEN tr.gen ELSE tr.gen + 1
             after  == [tr EXCEPT !.blocks = laid.blocks, !.lines = laid.lines, !.width = cols, !.valid = TRUE,
                                  !.floor = floor, !.gen = gen]
             r      == TranscriptRender(tr, cols, pass)
  <1>1. r = [t |-> after, pass |-> laid.pass]  BY DEF TranscriptRender
  <1>2. /\ checked \in Transcripts /\ checked.blocks = tr.blocks /\ checked.lines = tr.lines
        /\ checked.claim = tr.claim /\ (checked.valid => tr.valid)
    BY DEF Transcripts
  <1> HIDE DEF checked
  <1>3. /\ synced \in Transcripts /\ Len(synced.blocks) = Len(specs) /\ synced.claim = tr.claim
        /\ (synced.valid => tr.valid) /\ Known(synced.blocks) /\ (Matching(tr.blocks) => Matching(synced.blocks))
    BY <1>2, Synced
  <1> HIDE DEF synced
  <1>4. synced.valid /\ synced.claim > 0 => Matching(synced.blocks)  BY <1>3
  <1>5. n \in 0..Len(specs)  OBVIOUS
  <1>6. /\ laid \in Layouts(n) /\ Plain(laid.lines) = Blocks[n].rows /\ Known(laid.blocks)
        /\ \A j \in DOMAIN laid.blocks : laid.blocks[j].built /\ laid.blocks[j].spec = specs[j]
    BY <1>3, <1>4, <1>5, LayoutIsCurrent
  <1> HIDE DEF laid
  <1>7. laid.blocks \in Seq(BlockStates) /\ laid.lines \in Seq(Rows) /\ laid.pass \in Passes /\ Len(laid.blocks) = n
    BY <1>6 DEF Layouts
  <1>8. tr.lines \in Seq(Rows) /\ tr.floor \in Nat /\ tr.gen \in Nat  BY DEF Transcripts
  <1>9. /\ Common(tr.lines, laid.lines) \in Nat /\ Agree(tr.lines, laid.lines, Common(tr.lines, laid.lines))
    BY <1>7, <1>8, CommonIs
  <1>10. floor \in Nat /\ (floor = 0 \/ (tr.valid /\ Agree(tr.lines, laid.lines, floor)))
    <2>1. CASE laid.lines = <<>> \/ ~synced.valid
      <3>1. floor = 0  BY <2>1, <1>8 DEF Least
      <3>. QED  BY <3>1
    <2>2. CASE laid.lines # <<>> /\ synced.valid
      <3>1. floor = Common(tr.lines, laid.lines)  BY <2>2, <1>8, <1>9 DEF Least, Agree
      <3>. QED  BY <3>1, <2>2, <1>3, <1>9
    <2>. QED  BY <2>1, <2>2
  <1>11. gen \in Nat /\ gen >= tr.gen /\ (gen = tr.gen => laid.lines = <<>> \/ (tr.valid /\ laid.lines = tr.lines))
    BY <1>3, <1>8
  <1> HIDE DEF floor, gen
  <1>12. /\ after \in Transcripts /\ after.blocks = laid.blocks /\ after.lines = laid.lines /\ after.valid
         /\ after.floor = floor /\ after.gen = gen
    BY <1>7, <1>10, <1>11 DEF Transcripts
  <1> HIDE DEF after
  <1>13. Matching(laid.blocks)
    <2>1. DOMAIN laid.blocks = DOMAIN specs  BY <1>7
    <2>. QED  BY <1>6, <2>1 DEF Matching
  <1>14. r.t = after /\ r.pass = laid.pass  BY <1>1
  <1> HIDE DEF r
  <1>. QED  BY <1>6, <1>7, <1>10, <1>11, <1>12, <1>13, <1>14 DEF r

(* The container composed over the rendered transcript: whatever of its    *)
(* memo it kept, the frame is the children's rows, and it has rows in      *)
(* common with the one before as far as the report says.                   *)
Remembers(c, tr) ==
  /\ Len(c.gens) = 3
  /\ \E A, B, C \in Seq(Rows) :
       /\ c.lines = A \o B \o C
       /\ c.gens[1] = header.gen => A = header.rows
       /\ c.gens[2] = tr.gen => B = tr.lines
       /\ c.gens[3] = editor.gen => C = editor.rows
       /\ Agree(B, tr.lines, tr.floor)

LEMMA Paired ==
  ASSUME NEW A \in Seq(Rows), NEW B \in Seq(Rows)
  PROVE  /\ A \o B \in Seq(Rows) /\ Len(A \o B) = Len(A) + Len(B)
         /\ \A i \in 1..Len(A) : (A \o B)[i] = A[i]
         /\ \A i \in 1..Len(B) : (A \o B)[Len(A) + i] = B[i]
  <1> DEFINE AB == A \o B
  <1>0. Len(A) \in Nat /\ Len(B) \in Nat  OBVIOUS
  <1>1. /\ AB \in Seq(Rows) /\ Len(AB) = Len(A) + Len(B)
        /\ \A i \in 1..(Len(A) + Len(B)) : AB[i] = IF i <= Len(A) THEN A[i] ELSE B[i - Len(A)]
    BY ConcatProperties
  <1> HIDE DEF AB
  <1>2. \A i \in 1..Len(A) : AB[i] = A[i]  BY <1>0, <1>1
  <1>3. ASSUME NEW i \in 1..Len(B) PROVE AB[Len(A) + i] = B[i]
    <2>1. Len(A) + i \in 1..(Len(A) + Len(B)) /\ ~(Len(A) + i <= Len(A)) /\ (Len(A) + i) - Len(A) = i
      BY <1>0
    <2>. QED  BY <2>1, <1>1
  <1>. QED  BY <1>1, <1>2, <1>3 DEF AB

LEMMA Joined ==
  ASSUME NEW A \in Seq(Rows), NEW B \in Seq(Rows), NEW C \in Seq(Rows)
  PROVE  /\ A \o B \o C \in Seq(Rows)
         /\ Len(A \o B \o C) = Len(A) + Len(B) + Len(C)
         /\ \A i \in 1..Len(A) : (A \o B \o C)[i] = A[i]
         /\ \A i \in 1..Len(B) : (A \o B \o C)[Len(A) + i] = B[i]
         /\ \A i \in 1..Len(C) : (A \o B \o C)[Len(A) + Len(B) + i] = C[i]
  <1> DEFINE D == A \o B  E == D \o C
  <1>0. Len(A) \in Nat /\ Len(B) \in Nat /\ Len(C) \in Nat  OBVIOUS
  <1>1. /\ D \in Seq(Rows) /\ Len(D) = Len(A) + Len(B)
        /\ \A i \in 1..Len(A) : D[i] = A[i]
        /\ \A i \in 1..Len(B) : D[Len(A) + i] = B[i]
    BY Paired
  <1> HIDE DEF D
  <1>2. /\ E \in Seq(Rows) /\ Len(E) = Len(D) + Len(C)
        /\ \A i \in 1..Len(D) : E[i] = D[i]
        /\ \A i \in 1..Len(C) : E[Len(D) + i] = C[i]
    BY <1>1, Paired
  <1> HIDE DEF E
  <1>3. ASSUME NEW i \in 1..Len(A) PROVE E[i] = A[i]
    <2>1. i \in 1..Len(D)  BY <1>0, <1>1
    <2>. QED  BY <2>1, <1>1, <1>2
  <1>4. ASSUME NEW i \in 1..Len(B) PROVE E[Len(A) + i] = B[i]
    <2>1. Len(A) + i \in 1..Len(D)  BY <1>0, <1>1
    <2>. QED  BY <2>1, <1>1, <1>2
  <1>. QED  BY <1>1, <1>2, <1>3, <1>4 DEF E, D

LEMMA Composes ==
  ASSUME header \in Children, editor \in Children, NEW c \in Containers, NEW tr \in Transcripts,
         c.valid => Remembers(c, tr), NEW width \in Nat
  PROVE  LET r   == Compose(c, tr, width)
             all == header.rows \o tr.lines \o editor.rows
         IN  /\ r \in Containers /\ r.valid /\ r.id = c.id /\ r.committed = c.committed
             /\ r.gens = <<header.gen, tr.gen, editor.gen>> /\ r.lines = all
             /\ r.stable \in Nat /\ (r.stable = 0 \/ (c.valid /\ Agree(all, c.lines, r.stable)))
  <1> DEFINE gens   == <<header.gen, tr.gen, editor.gen>>
             valid  == c.valid /\ c.width = width
             Kid(rows, i, report) == [n |-> Len(rows), same |-> gens[i] = c.gens[i], report |-> report]
             k1 == Kid(header.rows, 1, None)  k2 == Kid(tr.lines, 2, tr.floor)  k3 == Kid(editor.rows, 3, None)
             all    == header.rows \o tr.lines \o editor.rows
             kept   == StableRows(<<k1, k2, k3>>)
             rows   == IF ~valid THEN 0 ELSE kept
             stable == Least(rows, Least(Len(all), Len(c.lines)))
             hit    == valid /\ gens = c.gens
             lines  == IF hit THEN c.lines
                       ELSE SubSeq(c.lines, 1, stable) \o SubSeq(all, stable + 1, Len(all))
             report == IF hit THEN rows ELSE stable
             r      == Compose(c, tr, width)
  <1>1. r = [c EXCEPT !.valid = TRUE, !.width = width, !.gens = gens, !.lines = lines, !.stable = report]
    BY DEF Compose
  <1>2. /\ header.rows \in Seq(Rows) /\ tr.lines \in Seq(Rows) /\ editor.rows \in Seq(Rows)
        /\ header.gen \in Nat /\ tr.gen \in Nat /\ editor.gen \in Nat
        /\ tr.floor \in Nat /\ c.lines \in Seq(Rows) /\ c.gens \in Seq(Nat)
    BY DEF Children, Transcripts, Containers
  <1>3. None \notin Nat  BY NoneAssumption
  <1>4. gens \in Seq(Nat) /\ gens[1] = header.gen /\ gens[2] = tr.gen /\ gens[3] = editor.gen  BY <1>2
  <1>5. all \in Seq(Rows)  BY <1>2, Joined
  <1> DEFINE n1 == Len(header.rows)  n2 == Len(tr.lines)  n3 == Len(editor.rows)
  <1>6. n1 \in Nat /\ n2 \in Nat /\ n3 \in Nat /\ Len(all) = n1 + n2 + n3 /\ Len(c.lines) \in Nat
    BY <1>2, Joined
  <1> HIDE DEF all, n1, n2, n3
  <1>7. valid => kept \in Nat /\ Agree(all, c.lines, kept) /\ (hit => c.lines = all)
    <2> SUFFICES ASSUME valid PROVE kept \in Nat /\ Agree(all, c.lines, kept) /\ (hit => c.lines = all)
      OBVIOUS
    <2> DEFINE s3 == IF Whole(k3) THEN k3.n + 0 ELSE Reported(k3)
               s2 == IF Whole(k2) THEN k2.n + s3 ELSE Reported(k2)
               s1 == IF Whole(k1) THEN k1.n + s2 ELSE Reported(k1)
    <2>1. kept = s1
      <3> DEFINE kids == <<k1, k2, k3>>
      <3>1. Len(kids) = 3 /\ kids[1] = k1 /\ kids[2] = k2 /\ kids[3] = k3  OBVIOUS
      <3> HIDE DEF k1, k2, k3, kids
      <3>2. StableRows(kids) = s1  BY <3>1, StableRowsUnfold
      <3>. QED  BY <3>2 DEF kids
    <2>2. PICK A, B, C \in Seq(Rows) :
            /\ c.lines = A \o B \o C
            /\ c.gens[1] = header.gen => A = header.rows
            /\ c.gens[2] = tr.gen => B = tr.lines
            /\ c.gens[3] = editor.gen => C = editor.rows
            /\ Agree(B, tr.lines, tr.floor)
      BY DEF Remembers
    <2>3. s3 = (IF c.gens[3] = editor.gen THEN n3 ELSE 0)
      <3>1. k3.n = n3 /\ k3.same = (c.gens[3] = editor.gen) /\ k3.report = None  BY <1>4 DEF n3
      <3>2. Whole(k3) = (c.gens[3] = editor.gen) /\ Reported(k3) = 0  BY <3>1 DEF Whole, Reported
      <3>3. k3.n + 0 = n3  BY <3>1, <1>6
      <3> HIDE DEF k3
      <3>. QED  BY <3>2, <3>3
    <2>4. s2 = (IF c.gens[2] = tr.gen /\ tr.floor >= n2 THEN n2 + s3 ELSE tr.floor)
      <3>1. tr.floor <= n2  BY <2>2 DEF Agree, n2
      <3>2. k2.n = n2 /\ k2.same = (c.gens[2] = tr.gen) /\ k2.report = tr.floor  BY <1>4 DEF n2
      <3>3. tr.floor # None  BY <1>2, <1>3
      <3>4. Whole(k2) = (c.gens[2] = tr.gen /\ tr.floor >= n2)  BY <3>2, <3>3 DEF Whole
      <3>5. Reported(k2) = tr.floor  BY <3>1, <3>2, <3>3, <1>2, <1>6 DEF Reported, Least
      <3> HIDE DEF k2, s3
      <3>. QED  BY <3>2, <3>4, <3>5
    <2>5. s1 = (IF c.gens[1] = header.gen THEN n1 + s2 ELSE 0)
      <3>1. k1.n = n1 /\ k1.same = (c.gens[1] = header.gen) /\ k1.report = None  BY <1>4 DEF n1
      <3>2. Whole(k1) = (c.gens[1] = header.gen) /\ Reported(k1) = 0  BY <3>1 DEF Whole, Reported
      <3> HIDE DEF k1, s2
      <3>. QED  BY <3>1, <3>2
    <2> HIDE DEF s1, s2, s3
    <2>6. /\ Len(c.lines) = Len(A) + Len(B) + Len(C)
          /\ \A i \in 1..Len(A) : c.lines[i] = A[i]
          /\ \A i \in 1..Len(B) : c.lines[Len(A) + i] = B[i]
      BY <2>2, Joined
    <2>7. /\ \A i \in 1..n1 : all[i] = header.rows[i]
          /\ \A i \in 1..n2 : all[n1 + i] = tr.lines[i]
      <3> DEFINE X == header.rows  Y == tr.lines  Z == editor.rows
      <3>1. X \in Seq(Rows) /\ Y \in Seq(Rows) /\ Z \in Seq(Rows)  BY <1>2
      <3> HIDE DEF X, Y, Z
      <3>2. /\ \A i \in 1..Len(X) : (X \o Y \o Z)[i] = X[i]
            /\ \A i \in 1..Len(Y) : (X \o Y \o Z)[Len(X) + i] = Y[i]
        BY <3>1, Joined
      <3>. QED  BY <3>2 DEF X, Y, Z, all, n1, n2
    <2>8. Len(A) \in Nat /\ Len(B) \in Nat /\ Len(C) \in Nat  OBVIOUS
    <2>9. hit => c.lines = all
      <3> SUFFICES ASSUME hit PROVE c.lines = all  OBVIOUS
      <3>1. c.gens[1] = header.gen /\ c.gens[2] = tr.gen /\ c.gens[3] = editor.gen  BY <1>4
      <3>2. A = header.rows /\ B = tr.lines /\ C = editor.rows  BY <3>1, <2>2
      <3>. QED  BY <3>2, <2>2, Zenon DEF all
    <2> HIDE DEF all, kept, hit, gens, k1, k2, k3
    <2>10. CASE c.gens[1] # header.gen
      <3>1. kept = 0  BY <2>10, <2>1, <2>5
      <3>. QED  BY <3>1, <1>6, <2>9 DEF Agree
    <2>11. CASE c.gens[1] = header.gen /\ ~(c.gens[2] = tr.gen /\ tr.floor >= n2)
      <3>1. kept = n1 + tr.floor  BY <2>11, <2>1, <2>4, <2>5
      <3>2. A = header.rows /\ Len(A) = n1 /\ tr.floor <= Len(B) /\ tr.floor <= n2 /\ \A i \in 1..tr.floor : B[i] = tr.lines[i]
        BY <2>2, <2>11 DEF Agree, n1, n2
      <3>3. kept \in Nat /\ kept <= Len(all) /\ kept <= Len(c.lines)
        <4>1. tr.floor \in Nat  BY <1>2
        <4> DEFINE f == tr.floor
        <4>2. f \in Nat /\ f <= Len(B) /\ f <= n2 /\ kept = n1 + f /\ Len(A) = n1  BY <4>1, <3>1, <3>2
        <4> HIDE DEF f
        <4>. QED  BY <4>2, <1>6, <2>6, <2>8
      <3>4. ASSUME NEW i \in 1..kept PROVE all[i] = c.lines[i]
        <4>1. CASE i <= n1
          <5>1. i \in 1..n1 /\ n1 = Len(A)  BY <4>1, <3>2, <1>6 DEF n1
          <5>. QED  BY <5>1, <3>2, <2>6, <2>7
        <4>2. CASE i > n1
          <5>1. PICK j \in 1..tr.floor : i = n1 + j
            <6>1. i - n1 \in 1..tr.floor /\ i = n1 + (i - n1)  BY <4>2, <3>1, <1>2, <1>6
            <6>. QED  BY <6>1
          <5>2. j \in 1..n2 /\ j \in 1..Len(B) /\ n1 = Len(A)  BY <3>2, <1>2, <1>6, <2>8 DEF n1
          <5>3. all[n1 + j] = tr.lines[j] /\ c.lines[n1 + j] = B[j] /\ B[j] = tr.lines[j]
            BY <5>2, <3>2, <2>6, <2>7
          <5>. QED  BY <5>1, <5>3
        <4>3. i <= n1 \/ i > n1  BY <1>6
        <4>. QED  BY <4>1, <4>2, <4>3, Zenon
      <3>. QED  BY <3>3, <3>4, <2>9 DEF Agree
    <2>12. CASE c.gens[1] = header.gen /\ c.gens[2] = tr.gen /\ tr.floor >= n2 /\ c.gens[3] = editor.gen
      <3>1. c.lines = all
        <4>1. A = header.rows /\ B = tr.lines /\ C = editor.rows  BY <2>12, <2>2
        <4>. QED  BY <4>1, <2>2, Zenon DEF all
      <3>2. kept = Len(all)  BY <2>12, <2>1, <2>3, <2>4, <2>5, <1>6
      <3>. QED  BY <3>1, <3>2, <1>6 DEF Agree
    <2>13. CASE c.gens[1] = header.gen /\ c.gens[2] = tr.gen /\ tr.floor >= n2 /\ c.gens[3] # editor.gen
      <3>1. kept = n1 + n2  BY <2>13, <2>1, <2>3, <2>4, <2>5, <1>6
      <3>2. A = header.rows /\ B = tr.lines /\ Len(A) = n1 /\ Len(B) = n2  BY <2>2, <2>13 DEF n1, n2
      <3>3. kept \in Nat /\ kept <= Len(all) /\ kept <= Len(c.lines)  BY <3>1, <3>2, <1>6, <2>6, <2>8
      <3>4. ASSUME NEW i \in 1..kept PROVE all[i] = c.lines[i]
        <4>1. CASE i <= n1  BY <4>1, <3>2, <2>6, <2>7
        <4>2. CASE i > n1
          <5>1. PICK j \in 1..n2 : i = n1 + j
            <6>1. i - n1 \in 1..n2 /\ i = n1 + (i - n1)  BY <4>2, <3>1, <1>6
            <6>. QED  BY <6>1
          <5>2. all[n1 + j] = tr.lines[j] /\ c.lines[n1 + j] = tr.lines[j]  BY <3>2, <2>6, <2>7
          <5>. QED  BY <5>1, <5>2
        <4>3. i <= n1 \/ i > n1  BY <1>6
        <4>. QED  BY <4>1, <4>2, <4>3, Zenon
      <3>. QED  BY <3>3, <3>4, <2>9 DEF Agree
    <2>. QED  BY <2>10, <2>11, <2>12, <2>13, Zenon
  <1> HIDE DEF kept, all, gens
  <1>8. stable \in Nat /\ (stable = 0 \/ (valid /\ stable = kept))
    <2>1. CASE valid
      <3>1. kept \in Nat /\ kept <= Len(all) /\ kept <= Len(c.lines)  BY <2>1, <1>7 DEF Agree
      <3>2. Len(all) \in Nat  BY <1>5
      <3>. QED  BY <3>1, <3>2, <2>1, <1>6 DEF Least
    <2>2. CASE ~valid
      <3>1. Len(all) \in Nat  BY <1>5
      <3>. QED  BY <3>1, <2>2, <1>6 DEF Least
    <2>. QED  BY <2>1, <2>2
  <1>9. report \in Nat /\ (report = 0 \/ (c.valid /\ Agree(all, c.lines, report)))
    <2>1. CASE hit  BY <2>1, <1>7
    <2>2. CASE ~hit  BY <2>2, <1>7, <1>8
    <2>. QED  BY <2>1, <2>2
  <1>10. Agree(c.lines, all, stable)
    <2>1. CASE stable = 0  BY <2>1, <1>5, <1>6 DEF Agree
    <2>2. CASE valid /\ stable = kept  BY <2>2, <1>7 DEF Agree
    <2>. QED  BY <2>1, <2>2, <1>8
  <1>11. lines = all
    <2>1. CASE hit  BY <2>1, <1>7
    <2>2. CASE ~hit
      <3> HIDE DEF stable
      <3>1. SubSeq(c.lines, 1, stable) \o SubSeq(all, stable + 1, Len(all)) = all
        BY <1>2, <1>5, <1>8, <1>10, SpliceIs
      <3>. QED  BY <3>1, <2>2
    <2>. QED  BY <2>1, <2>2
  <1> HIDE DEF lines, report
  <1>12. /\ r \in Containers /\ r.valid /\ r.id = c.id /\ r.committed = c.committed
         /\ r.gens = gens /\ r.lines = all /\ r.stable = report
    BY <1>1, <1>4, <1>5, <1>9, <1>11 DEF Containers
  <1>. QED  BY <1>9, <1>12 DEF gens, all, r

-----------------------------------------------------------------------------
(* The types of what the budget and the terminal make.                     *)

LEMMA MaxIs ==
  ASSUME NEW n \in Nat, NEW S \in SUBSET (1..n), S # {}
  PROVE  Max(S) \in S
  <1> DEFINE Over == {b \in 0..n : \A y \in S : y <= b}
  <1>1. PICK m \in Over : \A y \in Over : <<y, m>> \notin OpToRel(<, Nat)
    <2>1. Over \subseteq Nat /\ n \in Over  OBVIOUS
    <2> HIDE DEF Over
    <2>. QED  BY <2>1, NatLessThanWellFounded, WFMin
  <1>2. \A a, b \in Nat : a < b => <<a, b>> \in OpToRel(<, Nat)  BY DEF OpToRel
  <1>3. m \in S
    <2> SUFFICES ASSUME m \notin S PROVE FALSE  OBVIOUS
    <2>1. PICK y \in S : TRUE  OBVIOUS
    <2>2. m \in Nat /\ m # 0 /\ m - 1 \in 0..n  BY <2>1
    <2>3. \A x \in S : x <= m - 1  OBVIOUS
    <2>4. m - 1 \in Over /\ m - 1 < m /\ m - 1 \in Nat  BY <2>2, <2>3
    <2>. QED  BY <1>1, <1>2, <2>2, <2>4
  <1>4. \E x \in S : \A y \in S : x >= y  BY <1>3
  <1>. QED  BY <1>4 DEF Max

SentKeys(sends) == {sends[n][1] : n \in DOMAIN sends}

LEMMA LoadedIs ==
  ASSUME NEW s \in Stores, NEW sends \in Seq(Nat \X Nat)
  PROVE  /\ DOMAIN Loaded(s, sends) = DOMAIN s \cup SentKeys(sends)
         /\ \A k \in DOMAIN s \ SentKeys(sends) : Loaded(s, sends)[k] = s[k]
         /\ \A k \in SentKeys(sends) :
              \E n \in DOMAIN sends : sends[n][1] = k /\ Loaded(s, sends)[k] = sends[n][2]
  <1> DEFINE keys    == {sends[n][1] : n \in DOMAIN sends}
             At(k)   == {n \in DOMAIN sends : sends[n][1] = k}
             Sent(k) == Max(At(k))
             l       == [k \in DOMAIN s \cup keys |-> IF k \in keys THEN sends[Sent(k)][2] ELSE s[k]]
  <1>1. Loaded(s, sends) = l  BY DEF Loaded
  <1>2. ASSUME NEW k \in keys PROVE Sent(k) \in DOMAIN sends /\ sends[Sent(k)][1] = k
    <2>1. At(k) # {} /\ At(k) \subseteq 1..Len(sends) /\ Len(sends) \in Nat  OBVIOUS
    <2>2. Sent(k) \in At(k)
      <3> HIDE DEF At
      <3>. QED  BY <2>1, MaxIs
    <2>. QED  BY <2>2
  <1> HIDE DEF keys, Sent
  <1>3. /\ DOMAIN l = DOMAIN s \cup keys
        /\ \A k \in DOMAIN s \ keys : l[k] = s[k]
        /\ \A k \in keys : l[k] = sends[Sent(k)][2]
    OBVIOUS
  <1> HIDE DEF l
  <1>4. \A k \in keys : \E n \in DOMAIN sends : sends[n][1] = k /\ l[k] = sends[n][2]  BY <1>2, <1>3
  <1>. QED  BY <1>1, <1>3, <1>4 DEF keys, SentKeys

LEMMA StoresFit ==
  ASSUME NEW s \in Stores, NEW sends \in Seq(Nat \X Nat), NEW keys
  PROVE  Loaded(s, sends) \in Stores /\ Deleted(s, keys) \in Stores
  <1>1. PICK ks \in SUBSET Nat : s \in [ks -> Nat]  BY DEF Stores
  <1> DEFINE sent == SentKeys(sends)  l == Loaded(s, sends)
  <1>2. /\ DOMAIN l = ks \cup sent
        /\ \A k \in ks \ sent : l[k] = s[k]
        /\ \A k \in sent : \E n \in DOMAIN sends : sends[n][1] = k /\ l[k] = sends[n][2]
    <2>1. DOMAIN s = ks  BY <1>1
    <2>2. /\ DOMAIN l = DOMAIN s \cup sent
          /\ \A k \in DOMAIN s \ sent : l[k] = s[k]
          /\ \A k \in sent : \E n \in DOMAIN sends : sends[n][1] = k /\ l[k] = sends[n][2]
      BY LoadedIs
    <2> HIDE DEF l, sent
    <2>. QED  BY <2>1, <2>2
  <1>3. \A n \in DOMAIN sends : sends[n][1] \in Nat /\ sends[n][2] \in Nat  OBVIOUS
  <1>4. sent \subseteq Nat  BY <1>3 DEF SentKeys
  <1>5. \A k \in ks \cup sent : l[k] \in Nat
    <2> HIDE DEF l, sent
    <2>. QED  BY <1>1, <1>2, <1>3
  <1>6. l = [k \in DOMAIN l |-> l[k]]  BY DEF Loaded
  <1>7. l \in [ks \cup sent -> Nat] /\ ks \cup sent \in SUBSET Nat
    <2> HIDE DEF l, sent
    <2>. QED  BY <1>2, <1>4, <1>5, <1>6
  <1>8. l \in Stores
    <2> HIDE DEF l, sent
    <2>. QED  BY <1>7 DEF Stores
  <1>9. Deleted(s, keys) \in [ks \ keys -> Nat] /\ ks \ keys \in SUBSET Nat  BY <1>1 DEF Deleted
  <1>10. Deleted(s, keys) \in Stores  BY <1>9 DEF Stores
  <1>. QED  BY <1>8, <1>10

LEMMA PassesFit ==
  ASSUME NEW im \in ImageStates, NEW pass \in Passes
  PROVE  /\ BeginPass(im) \in Passes /\ ClearImages(im) \in ImageStates
         /\ EndPass(pass) \in ImageStates /\ Purged(pass) \subseteq Nat
  <1>0. pass.im \in ImageStates /\ pass.seen \in Seq(Nat) /\ Cap \in Nat  BY CapIsNatural DEF Passes
  <1>1. <<>> \in Seq(Nat) /\ <<>> \in Seq(Nat \X Nat)  OBVIOUS
  <1>2. BeginPass(im) \in Passes  BY <1>1 DEF BeginPass, Passes
  <1>3. NoComponents \in Made
    <2>1. NoComponents \in [{} -> Components]  BY DEF NoComponents
    <2>2. {} \in SUBSET Nat  OBVIOUS
    <2>. QED  BY <2>1, <2>2 DEF Made
  <1>4. ClearImages(im) \in ImageStates  BY <1>3 DEF ClearImages, ImageStates
  <1>5. Purged(pass) \subseteq Nat  BY <1>0 DEF Purged
  <1>6. StillSent(pass) \in SUBSET Nat  BY <1>0 DEF StillSent, ImageStates
  <1>7. Desired(Len(pass.seen)) \in Nat  BY <1>0 DEF Desired
  <1> DEFINE desired == Desired(Len(pass.seen))
             shown   == IF Resets(pass.im) THEN pass.im.planned ELSE pass.im.onTerminal
             least   == IF shown < desired THEN shown ELSE desired
             after   == [pass.im EXCEPT !.planned = desired, !.onTerminal = least, !.transmitted = StillSent(pass)]
  <1>8. EndPass(pass) = after  BY DEF EndPass
  <1>9. shown \in Nat  BY <1>0 DEF ImageStates
  <1> HIDE DEF desired, shown
  <1>10. desired \in Nat  BY <1>7 DEF desired
  <1>11. least \in Nat  BY <1>9, <1>10
  <1> HIDE DEF least
  <1>12. after \in ImageStates  BY <1>0, <1>6, <1>10, <1>11 DEF ImageStates
  <1>. QED  BY <1>2, <1>4, <1>5, <1>8, <1>12

LEMMA MergedFits ==
  ASSUME NEW prev \in Requests \cup {None}, NEW req \in Requests
  PROVE  /\ Merged(prev, req) \in Requests
         /\ Merged(prev, req).frame = req.frame /\ Merged(prev, req).root = req.root
         /\ Merged(prev, req).full = req.full /\ Merged(prev, req).width = req.width
         /\ prev = None => Merged(prev, req) = req
         /\ prev # None => /\ Merged(prev, req).stable = Least(req.stable, prev.stable)
                           /\ Merged(prev, req).sends = prev.sends \o req.sends
                           /\ Merged(prev, req).purges = req.purges \cup prev.purges
  <1>1. CASE prev = None  BY <1>1 DEF Merged
  <1>2. CASE prev # None
    <2>1. prev \in Requests  BY <1>2
    <2> DEFINE sends == prev.sends \o req.sends  stable == Least(req.stable, prev.stable)
               purges == req.purges \cup prev.purges
               m == [req EXCEPT !.stable = stable, !.sends = sends, !.purges = purges]
    <2>2. Merged(prev, req) = m  BY <1>2 DEF Merged
    <2>3. prev.sends \in Seq(Nat \X Nat) /\ req.sends \in Seq(Nat \X Nat)  BY <2>1 DEF Requests
    <2>4. sends \in Seq(Nat \X Nat)  BY <2>3, ConcatProperties
    <2>5. stable \in Nat /\ purges \in SUBSET Nat  BY <2>1 DEF Requests, Least
    <2> HIDE DEF sends, stable, purges
    <2>6. /\ m \in Requests /\ m.frame = req.frame /\ m.root = req.root /\ m.full = req.full /\ m.width = req.width
          /\ m.stable = stable /\ m.sends = sends /\ m.purges = purges
      BY <2>4, <2>5 DEF Requests
    <2> HIDE DEF m
    <2>. QED  BY <1>2, <2>2, <2>6 DEF sends, stable, purges
  <1>. QED  BY <1>1, <1>2

LEMMA PreparedFits ==
  ASSUME NEW prep \in Prepared, NEW frame \in Seq(Rows), NEW n \in Nat
  PROVE  /\ PrepareFrame(prep, frame) \in Prepared /\ Reset(prep) \in Prepared
         /\ InvalidateTo(prep, n) \in Prepared
  <1>1. Reset(prep) \in Prepared  BY DEF Reset, Prepared
  <1>2. InvalidateTo(prep, n) \in Prepared  BY DEF InvalidateTo, Prepared, Least
  <1> DEFINE room  == IF Len(prep.rows) < Len(frame) THEN [i \in DOMAIN frame |-> Blank] ELSE prep.rows
             start == Least(prep.valid, Len(frame))
             rows  == [i \in DOMAIN room |-> IF i > start /\ i <= Len(frame) THEN frame[i] ELSE room[i]]
  <1>3. PrepareFrame(prep, frame) = [rows |-> rows, valid |-> Len(frame)]  BY DEF PrepareFrame
  <1>4. prep.rows \in Seq(Rows) /\ prep.valid \in Nat /\ Len(frame) \in Nat  BY DEF Prepared
  <1>5. start \in Nat  BY <1>4 DEF Least
  <1>6. room \in Seq(Rows)
    <2>1. [i \in 1..Len(frame) |-> Blank] \in Seq(Rows)  BY <1>4, BlankRows
    <2>2. DOMAIN frame = 1..Len(frame)  OBVIOUS
    <2>. QED  BY <1>4, <2>1, <2>2
  <1> HIDE DEF room, start
  <1>7. \A i \in 1..Len(room) : room[i] \in Rows /\ i \in Nat  BY <1>6
  <1>8. \A i \in 1..Len(room) : i <= Len(frame) => frame[i] \in Rows  BY <1>4
  <1>9. rows \in [1..Len(room) -> Rows] /\ Len(room) \in Nat  BY <1>6, <1>7, <1>8
  <1>10. rows \in Seq(Rows)
    <2> HIDE DEF rows
    <2>. QED  BY <1>9
  <1> HIDE DEF rows
  <1>11. [rows |-> rows, valid |-> Len(frame)] \in Prepared  BY <1>4, <1>10 DEF Prepared
  <1>. QED  BY <1>1, <1>2, <1>3, <1>11

-----------------------------------------------------------------------------
(* The inductive invariant.                                                *)

(* Neither header nor editor shows an image.                               *)
Imageless == \A c \in {header, editor} : \A i \in DOMAIN c.rows : ~IsImage(c.rows[i])

(* The reports: the root's memo is the frame composed last, the transcript *)
(* has reported all its rows, and what a request calls stable is so since  *)
(* the frame drawn last.                                                   *)
HintInv ==
  /\ root.valid => root.lines = composed
  /\ t.floor = Len(t.lines)
  /\ pending # None => /\ pending.frame = composed /\ pending.root <= root.id
                       /\ ~missed => Agree(composed, drawn, pending.stable)
  /\ pending = None /\ ~missed => drawn = composed

(* The root's memo: a part for each child, whose rows it is while the      *)
(* child's generation is the one remembered.                               *)
Memo(A, B, C) ==
  /\ root.lines = A \o B \o C
  /\ root.gens[1] = header.gen => A = header.rows
  /\ root.gens[3] = editor.gen => C = editor.rows
  /\ t.valid => B = t.lines
  /\ specs = <<>> => B = <<>>

MemoInv ==
  root.valid =>
    /\ Len(root.gens) = 3
    /\ root.gens[1] <= header.gen /\ root.gens[2] = t.gen /\ root.gens[3] <= editor.gen
    /\ \E A, B, C \in Seq(Rows) : Memo(A, B, C)

(* The blocks: where rows may have been committed, the blocks that are     *)
(* built have the inputs of now.                                           *)
KeptInv ==
  /\ Known(t.blocks)
  /\ root.committed > 0 \/ (pending # None /\ pending.root = root.id) => Matching(t.blocks)

Inv == TypeOK /\ Started /\ Imageless /\ HintInv /\ MemoInv /\ KeptInv /\ FrameIsCurrent

-----------------------------------------------------------------------------
(* Forgetting.                                                             *)

LEMMA Invalidated ==
  ASSUME NEW tr \in Transcripts
  PROVE  LET v == TranscriptInvalidate(tr)
         IN  /\ v \in Transcripts /\ ~v.valid /\ v.lines = <<>> /\ v.floor = 0 /\ v.gen = tr.gen
             /\ \A i \in DOMAIN v.blocks : ~v.blocks[i].built /\ v.blocks[i].lines = <<>>
  <1> DEFINE blocks == [i \in DOMAIN tr.blocks |-> [tr.blocks[i] EXCEPT !.built = FALSE, !.lines = <<>>, !.width = 0]]
             v == [tr EXCEPT !.blocks = blocks, !.valid = FALSE, !.lines = <<>>, !.floor = 0]
  <1>1. TranscriptInvalidate(tr) = v  BY DEF TranscriptInvalidate
  <1>2. tr.blocks \in Seq(BlockStates) /\ Len(tr.blocks) \in Nat /\ DOMAIN tr.blocks = 1..Len(tr.blocks)
    BY DEF Transcripts
  <1>3. <<>> \in Seq(Rows)  OBVIOUS
  <1>4. ASSUME NEW i \in 1..Len(tr.blocks)
        PROVE  blocks[i] \in BlockStates /\ ~blocks[i].built /\ blocks[i].lines = <<>>
    <2>1. tr.blocks[i] \in BlockStates  BY <1>2
    <2>2. blocks[i] = [tr.blocks[i] EXCEPT !.built = FALSE, !.lines = <<>>, !.width = 0]  BY <1>2
    <2> HIDE DEF blocks
    <2> DEFINE old == tr.blocks[i]  new == [old EXCEPT !.built = FALSE, !.lines = <<>>, !.width = 0]
    <2>3. old \in BlockStates /\ blocks[i] = new  BY <2>1, <2>2
    <2> HIDE DEF old
    <2>4. new \in BlockStates /\ ~new.built /\ new.lines = <<>>  BY <2>3, <1>3 DEF BlockStates
    <2>. QED  BY <2>3, <2>4
  <1>5. blocks \in [1..Len(tr.blocks) -> BlockStates]  BY <1>2, <1>4
  <1>6. blocks \in Seq(BlockStates) /\ DOMAIN blocks = 1..Len(tr.blocks)
    <2> HIDE DEF blocks
    <2>. QED  BY <1>2, <1>5
  <1> HIDE DEF blocks
  <1>7. v \in Transcripts /\ ~v.valid /\ v.lines = <<>> /\ v.floor = 0 /\ v.gen = tr.gen /\ v.blocks = blocks
    BY <1>3, <1>6 DEF Transcripts
  <1> HIDE DEF v
  <1>. QED  BY <1>1, <1>4, <1>6, <1>7

LEMMA NewRootFits ==
  ASSUME NEW id \in Nat
  PROVE  NewRoot(id) \in Containers /\ ~NewRoot(id).valid /\ NewRoot(id).id = id /\ NewRoot(id).committed = 0
  <1>1. <<>> \in Seq(Rows) /\ <<>> \in Seq(Nat)  OBVIOUS
  <1>. QED  BY <1>1 DEF NewRoot, Containers

LEMMA Forgotten ==
  ASSUME NEW c \in Containers
  PROVE  ForgetMemo(c) \in Containers /\ ~ForgetMemo(c).valid /\ ForgetMemo(c).id = c.id
         /\ ForgetMemo(c).committed = c.committed
  <1>1. NewRoot(c.id) \in Containers /\ ~NewRoot(c.id).valid /\ NewRoot(c.id).id = c.id
    BY NewRootFits DEF Containers
  <1>2. c.committed \in Nat  BY DEF Containers
  <1>. QED  BY <1>1, <1>2 DEF ForgetMemo, Containers

LEMMA ChildRows ==
  ASSUME NEW n \in Nat, NEW v \in Nat, NEW width \in Nat
  PROVE  /\ EditorRows(n, v, width) \in Seq(Rows) /\ HeaderRows(n, v) \in Seq(Rows)
         /\ \A i \in DOMAIN EditorRows(n, v, width) : ~IsImage(EditorRows(n, v, width)[i])
         /\ \A i \in DOMAIN HeaderRows(n, v) : ~IsImage(HeaderRows(n, v)[i])
  <1>1. {"editor", "header"} \subseteq Tags /\ 0 \in Nat  BY DEF Tags
  <1>2. \A i \in 1..n : <<"editor", 0, i, v, width>> \in Rows /\ <<"header", 0, i, v, 0>> \in Rows
    BY <1>1, RowIs
  <1>3. EditorRows(n, v, width) = [i \in 1..n |-> <<"editor", 0, i, v, width>>]
        /\ HeaderRows(n, v) = [i \in 1..n |-> <<"header", 0, i, v, 0>>]
    BY DEF EditorRows, HeaderRows
  <1>4. EditorRows(n, v, width) \in [1..n -> Rows] /\ HeaderRows(n, v) \in [1..n -> Rows]  BY <1>2, <1>3
  <1>. QED  BY <1>3, <1>4 DEF IsImage

-----------------------------------------------------------------------------
(* The changes.                                                            *)

(* What the conversation is made of. *)
LEMMA BlockFits ==
  ASSUME NEW n \in Nat, NEW v \in {1, 2}, NEW group \in Groups, NEW image \in Pictures
  PROVE  Block(n, group, <<v>>, image) \in Specs /\ Block(n, group, <<v>>, image).body # <<>>
         /\ Block(n, group, <<v>>, image).group = group /\ Block(n, group, <<v>>, image).image = image
  <1>1. <<v>> \in Seq({1, 2}) /\ <<v>> # <<>>  OBVIOUS
  <1>. QED  BY <1>1 DEF Block, Specs

LEMMA PromptFits ==
  ASSUME NEW v \in {1, 2}
  PROVE  Prompt(v) \in Seq(Specs) /\ Len(Prompt(v)) = 1 /\ Prompt(v)[1].group = "user" /\ Prompt(v)[1].body # <<>>
         /\ Prompt(v)[1].image = NoImage
  <1>1. NoImage \in Pictures /\ "user" \in Groups  BY DEF Pictures, Groups
  <1> DEFINE b == Block(1, "user", <<v>>, NoImage)
  <1>2. b \in Specs /\ b.group = "user" /\ b.body # <<>> /\ b.image = NoImage  BY <1>1, BlockFits
  <1>3. Prompt(v) = <<b>>  BY DEF Prompt
  <1> HIDE DEF b
  <1>. QED  BY <1>2, <1>3

LEMMA CardFits ==
  ASSUME NEW n \in Nat
  PROVE  Card(n) \in Specs /\ Card(n).group = "card" /\ Card(n).body # <<>> /\ Card(n).image = <<n, n>>
  <1>1. <<n, n>> \in Pictures /\ "card" \in Groups  BY DEF Pictures, Groups
  <1>. QED  BY <1>1, BlockFits DEF Card, CardImage

LEMMA SyncedSpecs ==
  ASSUME specs \in Seq(Specs), Started, Streams \/ Grows \/ Replaced
  PROVE  specs' \in Seq(Specs) /\ Started'
  <1>0. DOMAIN specs = 1..Len(specs) /\ Len(specs) \in Nat /\ \A i \in 1..Len(specs) : specs[i] \in Specs  OBVIOUS
  <1>1. CASE Streams
    <2>1. PICK i \in DOMAIN specs :
            LET body == specs[i].body
            IN  \/ specs' = [specs EXCEPT ![i].body = Append(body, 1)]
                \/ \E k \in DOMAIN body : specs' = [specs EXCEPT ![i].body[k] = 3 - @]
      BY <1>1 DEF Streams
    <2>2. specs[i] \in Specs /\ specs[i].body \in Seq({1, 2}) /\ specs[i].body # <<>>
      BY <1>0, <2>1 DEF Specs, Started
    <2>3. PICK body \in Seq({1, 2}) : body # <<>> /\ specs' = [specs EXCEPT ![i].body = body]
      <3>1. CASE specs' = [specs EXCEPT ![i].body = Append(specs[i].body, 1)]
        <4>1. Append(specs[i].body, 1) \in Seq({1, 2}) /\ Len(Append(specs[i].body, 1)) = Len(specs[i].body) + 1
          BY <2>2, AppendProperties
        <4>2. Len(specs[i].body) \in Nat /\ Len(<<>>) = 0  BY <2>2
        <4>3. Append(specs[i].body, 1) # <<>>  BY <4>1, <4>2
        <4>. QED  BY <3>1, <4>1, <4>3
      <3>2. ASSUME NEW k \in DOMAIN specs[i].body, specs' = [specs EXCEPT ![i].body[k] = 3 - @]
            PROVE  \E body \in Seq({1, 2}) : body # <<>> /\ specs' = [specs EXCEPT ![i].body = body]
        <4> DEFINE body == [specs[i].body EXCEPT ![k] = 3 - @]
        <4>1. specs' = [specs EXCEPT ![i].body = body]  BY <3>2
        <4>2. specs[i].body[k] \in {1, 2}  BY <2>2, <3>2
        <4>3. body \in Seq({1, 2}) /\ Len(body) = Len(specs[i].body)
          <5>1. 3 - specs[i].body[k] \in {1, 2}  BY <4>2
          <5>. QED  BY <5>1, <2>2, <3>2, ExceptSeq
        <4>4. body # <<>>
          <5>1. Len(specs[i].body) # 0  BY <2>2, EmptySeq
          <5> HIDE DEF body
          <5>. QED  BY <4>3, <5>1
        <4> HIDE DEF body
        <4>. QED  BY <4>1, <4>3, <4>4
      <3>. QED  BY <2>1, <3>1, <3>2
    <2> DEFINE new == [specs[i] EXCEPT !.body = body]
    <2>4. new \in Specs /\ new.body = body /\ new.group = specs[i].group  BY <2>2, <2>3 DEF Specs
    <2>5. specs' = [specs EXCEPT ![i] = new]  BY <2>3
    <2> HIDE DEF new
    <2>6. specs' \in Seq(Specs) /\ Len(specs') = Len(specs) /\ specs'[i] = new
          /\ \A j \in DOMAIN specs : j # i => specs'[j] = specs[j]
      BY <2>1, <2>4, <2>5, <1>0, ExceptSeq
    <2>7. DOMAIN specs' = DOMAIN specs  BY <2>5
    <2>8. specs # <<>> /\ 1 \in DOMAIN specs  BY <2>1, <1>0
    <2>9. \A j \in DOMAIN specs : specs'[j].group = specs[j].group /\ specs'[j].body # <<>>
      BY <2>3, <2>4, <2>6 DEF Started
    <2>. QED  BY <2>6, <2>7, <2>8, <2>9 DEF Started
  <1>2. CASE Grows
    <2> DEFINE n == Len(specs) + 1
    <2>1. PICK new \in Specs : /\ specs' = Append(specs, new) /\ new.body # <<>>
                               /\ specs = <<>> => new.group # "model"
      <3>0. n \in Nat /\ 1 \in {1, 2}  OBVIOUS
      <3>1. ASSUME NEW group \in {"user"} \cup {"model" : i \in DOMAIN specs},
                   specs' = Append(specs, Block(n, group, << 1 >>, NoImage))
            PROVE  \E new \in Specs : /\ specs' = Append(specs, new) /\ new.body # <<>>
                                      /\ specs = <<>> => new.group # "model"
        <4>1. group \in Groups /\ NoImage \in Pictures  BY DEF Groups, Pictures
        <4>2. specs = <<>> => group # "model"  BY <3>1
        <4> DEFINE new == Block(n, group, <<1>>, NoImage)
        <4>3. new \in Specs /\ new.body # <<>> /\ new.group = group  BY <3>0, <4>1, BlockFits
        <4> HIDE DEF new, n
        <4>. QED  BY <3>1, <4>2, <4>3 DEF new
      <3>2. CASE specs' = Append(specs, Card(n))
        <4>1. Card(n) \in Specs /\ Card(n).group = "card" /\ Card(n).body # <<>>  BY <3>0, CardFits
        <4>. QED  BY <3>2, <4>1
      <3>3. CASE specs' = Append(specs, Block(n, "user", <<1>>, MessageImage(n)))
        <4>1. MessageImage(n) \in Pictures /\ "user" \in Groups  BY <3>0 DEF MessageImage, Pictures, Groups
        <4> DEFINE new == Block(n, "user", <<1>>, MessageImage(n))
        <4>2. new \in Specs /\ new.body # <<>> /\ new.group = "user"  BY <3>0, <4>1, BlockFits
        <4> HIDE DEF new, n
        <4>. QED  BY <3>3, <4>2 DEF new
      <3>. QED  BY <1>2, <3>1, <3>2, <3>3 DEF Grows
    <2>2. specs' \in Seq(Specs) /\ Len(specs') = n /\ specs'[n] = new
          /\ \A j \in DOMAIN specs : specs'[j] = specs[j]
      BY <2>1, <1>0, AppendProperties
    <2>3. DOMAIN specs' = 1..n  BY <2>2
    <2>4. \A j \in 1..n : specs'[j].body # <<>>
      <3> SUFFICES ASSUME NEW j \in 1..n PROVE specs'[j].body # <<>>  OBVIOUS
      <3>1. j = n \/ j \in DOMAIN specs  BY <1>0
      <3>. QED  BY <3>1, <2>1, <2>2 DEF Started
    <2>5. specs'[1].group # "model"
      <3>1. CASE specs = <<>>
        <4>1. n = 1  BY <3>1
        <4>. QED  BY <4>1, <3>1, <2>1, <2>2
      <3>2. CASE specs # <<>>
        <4>1. 1 \in DOMAIN specs  BY <3>2, <1>0, EmptySeq
        <4>. QED  BY <4>1, <3>2, <2>2 DEF Started
      <3>. QED  BY <3>1, <3>2
    <2>. QED  BY <2>2, <2>3, <2>4, <2>5 DEF Started
  <1>3. CASE Replaced
    <2>1. CASE specs' = <<>>
      <3>1. <<>> \in Seq(Specs) /\ DOMAIN (<<>>) = {}  OBVIOUS
      <3>. QED  BY <2>1, <3>1 DEF Started
    <2>2. CASE specs' = Prompt(2)
      <3>1. Prompt(2) \in Seq(Specs) /\ Len(Prompt(2)) = 1 /\ Prompt(2)[1].group = "user" /\ Prompt(2)[1].body # <<>>
        BY PromptFits
      <3>2. DOMAIN Prompt(2) = {1}  BY <3>1
      <3>. QED  BY <2>2, <3>1, <3>2 DEF Started
    <2>. QED  BY <1>3, <2>1, <2>2 DEF Replaced
  <1>. QED  BY <1>1, <1>2, <1>3

LEMMA SyncKeeps ==
  ASSUME Inv, Sync PROVE Inv'
  <1> USE DEF Inv
  <1>1. /\ UNCHANGED <<world, pending, engine, composed, drawn, missed, asked, store>>
        /\ UNCHANGED <<hide, t, header, editor, cols, full, images>>
        /\ dirty' = TRUE /\ changes' = changes + 1 /\ root' = NewRoot(root.id + 1)
        /\ (Streams \/ Grows \/ Replaced) /\ muddled' = (muddled \/ Clash(specs'))
    BY DEF Sync, Change, Rebuilt
  <1>2. specs' \in Seq(Specs) /\ Started'  BY <1>1, SyncedSpecs DEF TypeOK
  <1>3. root.id \in Nat  BY DEF TypeOK, Containers
  <1>4. root' \in Containers /\ ~root'.valid /\ root'.id = root.id + 1 /\ root'.committed = 0
    BY <1>1, <1>3, NewRootFits
  <1>5. muddled' \in BOOLEAN  BY <1>1 DEF Clash, TypeOK
  <1>6. TypeOK'  BY <1>1, <1>2, <1>4, <1>5 DEF TypeOK
  <1>7. Imageless'  BY <1>1 DEF Imageless
  <1>8. HintInv'
    <2>1. pending # None => pending.root \in Nat  BY DEF TypeOK, Requests
    <2>. QED  BY <1>1, <1>3, <1>4, <2>1 DEF HintInv
  <1>9. MemoInv'  BY <1>4 DEF MemoInv
  <1>10. KeptInv'
    <2>1. Known(t.blocks)'  BY <1>1 DEF KeptInv, Known, Wanted
    <2>2. pending' # None => pending'.root \in Nat /\ pending'.root <= root.id
      BY <1>1 DEF HintInv, TypeOK, Requests
    <2>3. ~(root'.committed > 0 \/ (pending' # None /\ pending'.root = root'.id))  BY <2>2, <1>3, <1>4
    <2>. QED  BY <2>1, <2>3 DEF KeptInv
  <1>11. FrameIsCurrent'  BY <1>1 DEF FrameIsCurrent
  <1>. QED  BY <1>2, <1>6, <1>7, <1>8, <1>9, <1>10, <1>11

LEMMA ToggleThinkingKeeps ==
  ASSUME Inv, ToggleThinking PROVE Inv'
  <1> USE DEF Inv
  <1>1. /\ UNCHANGED <<world, pending, engine, composed, drawn, missed, asked, store, images, muddled>>
        /\ UNCHANGED <<specs, root, header, editor, cols, full>>
        /\ dirty' = TRUE /\ changes' = changes + 1 /\ hide' = ~hide /\ t' = TranscriptInvalidate(t)
    BY DEF ToggleThinking, Change, Still
  <1>2. /\ t' \in Transcripts /\ ~t'.valid /\ t'.lines = <<>> /\ t'.floor = 0 /\ t'.gen = t.gen
        /\ \A i \in DOMAIN t'.blocks : ~t'.blocks[i].built
    BY <1>1, Invalidated DEF TypeOK
  <1>3. TypeOK'  BY <1>1, <1>2 DEF TypeOK
  <1>4. Started' /\ Imageless'  BY <1>1 DEF Started, Imageless
  <1>5. HintInv'  BY <1>1, <1>2 DEF HintInv
  <1>6. MemoInv'  BY <1>1, <1>2, ZenonT(60) DEF MemoInv, Memo
  <1>7. KeptInv'  BY <1>2 DEF KeptInv, Known, Matching
  <1>8. FrameIsCurrent'  BY <1>1 DEF FrameIsCurrent
  <1>. QED  BY <1>3, <1>4, <1>5, <1>6, <1>7, <1>8

LEMMA ApplyThemeKeeps ==
  ASSUME Inv, ApplyTheme PROVE Inv'
  <1> USE DEF Inv
  <1>1. /\ UNCHANGED <<world, pending, engine, composed, drawn, missed, asked, store, images, muddled>>
        /\ UNCHANGED <<specs, hide, cols, full>>
        /\ dirty' = TRUE /\ changes' = changes + 1 /\ t' = TranscriptInvalidate(t) /\ root' = ForgetMemo(root)
        /\ header' = [rows |-> <<>>, gen |-> header.gen + 1] /\ editor' = [editor EXCEPT !.gen = editor.gen + 1]
    BY DEF ApplyTheme, Change, Still
  <1>2. /\ t' \in Transcripts /\ ~t'.valid /\ t'.lines = <<>> /\ t'.floor = 0 /\ t'.gen = t.gen
        /\ \A i \in DOMAIN t'.blocks : ~t'.blocks[i].built
    BY <1>1, Invalidated DEF TypeOK
  <1>3. root' \in Containers /\ ~root'.valid /\ root'.id = root.id  BY <1>1, Forgotten DEF TypeOK
  <1>4. header.gen \in Nat /\ editor.gen \in Nat /\ <<>> \in Seq(Rows)  BY DEF TypeOK, Children
  <1>5. /\ header' \in Children /\ header'.rows = <<>>
        /\ editor' \in Children /\ editor'.rows = editor.rows
    BY <1>1, <1>4, SMTT(40) DEF TypeOK, Children
  <1>6. TypeOK'  BY <1>1, <1>2, <1>3, <1>5 DEF TypeOK
  <1>7. Started'  BY <1>1 DEF Started
  <1>8. Imageless'  BY <1>5 DEF Imageless
  <1>9. HintInv'  BY <1>1, <1>2, <1>3 DEF HintInv
  <1>10. MemoInv'  BY <1>3 DEF MemoInv
  <1>11. KeptInv'  BY <1>2 DEF KeptInv, Known, Matching
  <1>12. FrameIsCurrent'  BY <1>1 DEF FrameIsCurrent
  <1>. QED  BY <1>6, <1>7, <1>8, <1>9, <1>10, <1>11, <1>12

(* What a change of the header or the editor leaves alone.                 *)
LEMMA ChildKeeps ==
  ASSUME Inv,
         UNCHANGED <<world, pending, engine, composed, drawn, missed, asked, store, muddled>>,
         UNCHANGED <<specs, hide, t, root, full>>,
         dirty' = TRUE, changes' = changes + 1, cols' \in Cols, images' \in ImageStates,
         header' \in Children, editor' \in Children, Imageless',
         header' = header \/ header'.gen = header.gen + 1,
         editor' = editor \/ editor'.gen = editor.gen + 1
  PROVE  Inv'
  <1> USE DEF Inv
  <1>1. TypeOK'  BY DEF TypeOK
  <1>2. Started'  BY DEF Started
  <1>3. HintInv'  BY DEF HintInv
  <1>4. MemoInv'
    <2> SUFFICES ASSUME root.valid
                 PROVE  /\ Len(root.gens) = 3
                        /\ root.gens[1] <= header'.gen /\ root.gens[2] = t.gen /\ root.gens[3] <= editor'.gen
                        /\ \E A, B, C \in Seq(Rows) : Memo(A, B, C)'
      BY DEF MemoInv
    <2>1. /\ Len(root.gens) = 3
          /\ root.gens[1] <= header.gen /\ root.gens[2] = t.gen /\ root.gens[3] <= editor.gen
      BY DEF MemoInv
    <2>2. PICK A, B, C \in Seq(Rows) : Memo(A, B, C)  BY DEF MemoInv
    <2>3. root.gens \in Seq(Nat) /\ header.gen \in Nat /\ editor.gen \in Nat
      BY DEF TypeOK, Containers, Children
    <2>4. root.gens[1] \in Nat /\ root.gens[3] \in Nat  BY <2>1, <2>3, SMTT(40)
    <2>5. root.gens[1] <= header'.gen /\ (root.gens[1] = header'.gen => header' = header)
      BY <2>1, <2>3, <2>4, SMTT(40)
    <2>6. root.gens[3] <= editor'.gen /\ (root.gens[3] = editor'.gen => editor' = editor)
      BY <2>1, <2>3, <2>4, SMTT(40)
    <2>7. Memo(A, B, C)'  BY <2>2, <2>5, <2>6 DEF Memo
    <2>. QED  BY <2>1, <2>5, <2>6, <2>7
  <1>5. KeptInv'  BY DEF KeptInv, Known, Matching, Wanted
  <1>6. FrameIsCurrent'  BY DEF FrameIsCurrent
  <1>. QED  BY <1>1, <1>2, <1>3, <1>4, <1>5, <1>6

LEMMA HeaderResultKeeps ==
  ASSUME Inv, HeaderResult PROVE Inv'
  <1> USE DEF Inv
  <1>1. /\ UNCHANGED <<world, pending, engine, composed, drawn, missed, asked, store, images, muddled>>
        /\ UNCHANGED <<specs, hide, t, root, editor, cols, full>>
        /\ dirty' = TRUE /\ changes' = changes + 1
    BY DEF HeaderResult, Change, Still
  <1>2. PICK n \in 0..1, v \in 1..2 : header' = [rows |-> HeaderRows(n, v), gen |-> header.gen + 1]
    BY DEF HeaderResult
  <1>3. HeaderRows(n, v) \in Seq(Rows) /\ \A i \in DOMAIN HeaderRows(n, v) : ~IsImage(HeaderRows(n, v)[i])
    <2>1. n \in Nat /\ v \in Nat /\ 0 \in Nat  OBVIOUS
    <2>. QED  BY <2>1, ChildRows
  <1>4. header.gen \in Nat  BY DEF TypeOK, Children
  <1> DEFINE rows == HeaderRows(n, v)
  <1> HIDE DEF rows
  <1>5. header' = [rows |-> rows, gen |-> header.gen + 1]  BY <1>2 DEF rows
  <1>6. rows \in Seq(Rows) /\ \A i \in DOMAIN rows : ~IsImage(rows[i])  BY <1>3 DEF rows
  <1>7. header' \in Children /\ header'.gen = header.gen + 1 /\ header'.rows = rows
    BY <1>4, <1>5, <1>6 DEF Children
  <1>8. Imageless'  BY <1>1, <1>6, <1>7 DEF Imageless
  <1>9. editor' \in Children /\ cols' \in Cols /\ images' \in ImageStates  BY <1>1 DEF TypeOK
  <1>. QED  BY <1>1, <1>7, <1>8, <1>9, ChildKeeps

LEMMA TypeKeeps ==
  ASSUME Inv, Type PROVE Inv'
  <1> USE DEF Inv
  <1>1. /\ UNCHANGED <<world, pending, engine, composed, drawn, missed, asked, store, images, muddled>>
        /\ UNCHANGED <<specs, hide, t, root, header, cols, full>>
        /\ dirty' = TRUE /\ changes' = changes + 1
    BY DEF Type, Change, Still
  <1>2. PICK n \in 1..MaxBody, v \in 1..2 : editor' = [rows |-> EditorRows(n, v, cols), gen |-> editor.gen + 1]
    BY DEF Type
  <1>3. EditorRows(n, v, cols) \in Seq(Rows) /\ \A i \in DOMAIN EditorRows(n, v, cols) : ~IsImage(EditorRows(n, v, cols)[i])
    <2>1. n \in Nat /\ v \in Nat /\ cols \in Nat  BY CompositionAssumption DEF TypeOK
    <2>. QED  BY <2>1, ChildRows
  <1>4. editor.gen \in Nat  BY DEF TypeOK, Children
  <1> DEFINE rows == EditorRows(n, v, cols)
  <1> HIDE DEF rows
  <1>5. editor' = [rows |-> rows, gen |-> editor.gen + 1]  BY <1>2 DEF rows
  <1>6. rows \in Seq(Rows) /\ \A i \in DOMAIN rows : ~IsImage(rows[i])  BY <1>3 DEF rows
  <1>7. editor' \in Children /\ editor'.gen = editor.gen + 1 /\ editor'.rows = rows
    BY <1>4, <1>5, <1>6 DEF Children
  <1>8. Imageless'  BY <1>1, <1>6, <1>7 DEF Imageless
  <1>9. header' \in Children /\ cols' \in Cols /\ images' \in ImageStates  BY <1>1 DEF TypeOK
  <1>. QED  BY <1>1, <1>7, <1>8, <1>9, ChildKeeps

LEMMA ResizeKeeps ==
  ASSUME Inv, Resize PROVE Inv'
  <1> USE DEF Inv
  <1> DEFINE rows == [i \in DOMAIN editor.rows |-> [editor.rows[i] EXCEPT ![5] = cols']]
  <1>1. /\ UNCHANGED <<world, pending, engine, composed, drawn, missed, asked, store, muddled>>
        /\ UNCHANGED <<specs, hide, t, root, header, full>>
        /\ dirty' = TRUE /\ changes' = changes + 1 /\ cols' \in Cols /\ images' = ClearImages(images)
        /\ editor' = [rows |-> rows, gen |-> editor.gen + 1]
    BY DEF Resize, Change
  <1>2. editor.rows \in Seq(Rows) /\ editor.gen \in Nat  BY DEF TypeOK, Children
  <1>3. ASSUME NEW i \in 1..Len(editor.rows) PROVE rows[i] \in Rows /\ ~IsImage(rows[i])
    <2> DEFINE row == editor.rows[i]  new == [row EXCEPT ![5] = cols']
    <2>1. row \in Rows /\ ~IsImage(row)  BY <1>2 DEF Imageless
    <2>2. cols' \in Nat  BY <1>1, CompositionAssumption
    <2>3. rows[i] = new  BY <1>2
    <2> HIDE DEF row, rows
    <2>10. Rows = Tags \X Nat \X Nat \X Nat \X Nat  BY DEF Rows, Tags
    <2>4. row = <<row[1], row[2], row[3], row[4], row[5]>>  BY <2>1, <2>10
    <2>5. row[1] \in Tags /\ row[2] \in Nat /\ row[3] \in Nat /\ row[4] \in Nat  BY <2>1 DEF Rows, Tags
    <2>8. new = <<row[1], row[2], row[3], row[4], cols'>>  BY <2>4
    <2>9. <<row[1], row[2], row[3], row[4], cols'>> \in Rows
      <3> DEFINE p1 == row[1]  p2 == row[2]  p3 == row[3]  p4 == row[4]  p5 == cols'
      <3>1. p1 \in Tags /\ p2 \in Nat /\ p3 \in Nat /\ p4 \in Nat /\ p5 \in Nat  BY <2>2, <2>5
      <3> HIDE DEF p1, p2, p3, p4, p5
      <3>2. <<p1, p2, p3, p4, p5>> \in Rows  BY <3>1, RowIs
      <3>. QED  BY <3>2 DEF p1, p2, p3, p4, p5
    <2>6. new \in Rows  BY <2>8, <2>9, Zenon
    <2>7. new[1] = row[1]  BY <2>8
    <2> HIDE DEF new
    <2>. QED  BY <2>1, <2>3, <2>6, <2>7 DEF IsImage
  <1>4. rows \in Seq(Rows) /\ DOMAIN rows = 1..Len(editor.rows)
    <2>1. DOMAIN editor.rows = 1..Len(editor.rows) /\ Len(editor.rows) \in Nat  BY <1>2
    <2>2. rows \in [1..Len(editor.rows) -> Rows]  BY <1>3, <2>1
    <2> HIDE DEF rows
    <2>. QED  BY <2>1, <2>2
  <1> HIDE DEF rows
  <1>5. editor' \in Children /\ editor'.gen = editor.gen + 1 /\ editor'.rows = rows
    BY <1>1, <1>2, <1>4 DEF Children
  <1>6. Imageless'  BY <1>1, <1>3, <1>4, <1>5 DEF Imageless
  <1>7. header' \in Children /\ images' \in ImageStates
    <2>1. images \in ImageStates /\ header \in Children  BY DEF TypeOK
    <2>2. BeginPass(images) \in Passes /\ ClearImages(images) \in ImageStates
      <3>1. <<>> \in Seq(Nat) /\ <<>> \in Seq(Nat \X Nat)  OBVIOUS
      <3>2. BeginPass(images) \in Passes  BY <2>1, <3>1 DEF BeginPass, Passes
      <3>. QED  BY <2>1, <3>2, PassesFit
    <2>. QED  BY <1>1, <2>1, <2>2
  <1>. QED  BY <1>1, <1>5, <1>6, <1>7, ChildKeeps

LEMMA FullscreenKeeps ==
  ASSUME Inv, Fullscreen PROVE Inv'
  <1> USE DEF Inv
  <1>1. /\ UNCHANGED <<world, pending, engine, composed, drawn, missed, asked, store, images, muddled>>
        /\ UNCHANGED <<specs, hide, t, root, header, editor, cols>>
        /\ dirty' = TRUE /\ changes' = changes + 1 /\ full' = ~full
    BY DEF Fullscreen, Change, Still
  <1>2. TypeOK'  BY <1>1 DEF TypeOK
  <1>3. Started' /\ Imageless'  BY <1>1 DEF Started, Imageless
  <1>4. HintInv'  BY <1>1 DEF HintInv
  <1>5. MemoInv'  BY <1>1, ZenonT(60) DEF MemoInv, Memo
  <1>6. KeptInv'  BY <1>1 DEF KeptInv, Known, Matching, Wanted
  <1>7. FrameIsCurrent'  BY <1>1 DEF FrameIsCurrent
  <1>. QED  BY <1>2, <1>3, <1>4, <1>5, <1>6, <1>7

LEMMA ForceRenderKeeps ==
  ASSUME Inv, ForceRender PROVE Inv'
  <1> USE DEF Inv
  <1>1. /\ UNCHANGED <<world, treeVars, pending, engine, composed, drawn, missed, changes, images, store, muddled>>
        /\ dirty' = TRUE /\ asked > 0 /\ asked' = asked - 1
    BY DEF ForceRender
  <1>2. TypeOK'  BY <1>1 DEF TypeOK, treeVars
  <1>3. Started' /\ Imageless'  BY <1>1 DEF Started, Imageless, treeVars
  <1>4. HintInv'  BY <1>1 DEF HintInv, treeVars
  <1>5. MemoInv'  BY <1>1, ZenonT(60) DEF MemoInv, Memo, treeVars
  <1>6. KeptInv'  BY <1>1 DEF KeptInv, Known, Matching, Wanted, treeVars
  <1>7. FrameIsCurrent'  BY <1>1 DEF FrameIsCurrent
  <1>. QED  BY <1>2, <1>3, <1>4, <1>5, <1>6, <1>7

-----------------------------------------------------------------------------
(* The draws.                                                              *)

LEMMA DrawAltKeeps ==
  ASSUME Inv, DrawAlt PROVE Inv'
  <1> USE DEF Inv
  <1>1. /\ UNCHANGED <<world, treeVars, dirty, engine, composed, drawn, changes, images, asked, muddled>>
        /\ pending \in Requests /\ pending' = None /\ missed' = TRUE /\ store' = Loaded(store, pending.sends)
    BY DEF DrawAlt, TypeOK
  <1>2. store' \in Stores
    <2>1. pending.sends \in Seq(Nat \X Nat) /\ store \in Stores  BY <1>1 DEF Requests, TypeOK
    <2>. QED  BY <1>1, <2>1, StoresFit
  <1>3. TypeOK'  BY <1>1, <1>2 DEF TypeOK, treeVars
  <1>4. Started' /\ Imageless'  BY <1>1 DEF Started, Imageless, treeVars
  <1>5. HintInv'  BY <1>1 DEF HintInv, treeVars
  <1>6. MemoInv'  BY <1>1, ZenonT(60) DEF MemoInv, Memo, treeVars
  <1>7. KeptInv'  BY <1>1 DEF KeptInv, Known, Matching, Wanted, treeVars
  <1>8. FrameIsCurrent'
    <2>1. Blocks' = Blocks  BY <1>1 DEF Blocks, treeVars
    <2>. QED  BY <1>1, <2>1 DEF FrameIsCurrent, treeVars
  <1>. QED  BY <1>3, <1>4, <1>5, <1>6, <1>7, <1>8

LEMMA DrawKeeps ==
  ASSUME Inv, Draw PROVE Inv'
  <1> USE DEF Inv
  <1>1. /\ UNCHANGED <<world, specs, hide, t, header, editor, cols, full, dirty, composed, changes, images, asked, muddled>>
        /\ pending # None /\ pending \in Requests /\ pending' = None /\ missed' = FALSE /\ drawn' = pending.frame
    BY DEF Draw, TypeOK
  <1>2. /\ pending.sends \in Seq(Nat \X Nat) /\ pending.frame \in Seq(Rows) /\ pending.stable \in Nat
        /\ pending.width \in Nat /\ store \in Stores
    BY <1>1 DEF Requests, TypeOK
  <1>3. store' \in Stores
    <2>1. \/ store' = Loaded(Deleted(store, pending.purges), pending.sends)
          \/ store' = Deleted(Loaded(store, pending.sends), pending.purges)
      BY DEF Draw
    <2>2. Deleted(store, pending.purges) \in Stores /\ Loaded(store, pending.sends) \in Stores  BY <1>2, StoresFit
    <2>3. /\ Loaded(Deleted(store, pending.purges), pending.sends) \in Stores
          /\ Deleted(Loaded(store, pending.sends), pending.purges) \in Stores
      BY <1>2, <2>2, StoresFit
    <2>. QED  BY <2>1, <2>3
  <1>4. engine' \in Engines
    <2> DEFINE to   == InvalidateTo(engine.prep, pending.stable)
               prep == IF engine.width \notin {0, pending.width} THEN Reset(to) ELSE to
    <2>1. engine' = [prep |-> PrepareFrame(prep, pending.frame), width |-> pending.width]  BY DEF Draw
    <2>2. engine.prep \in Prepared  BY DEF TypeOK, Engines
    <2>3. to \in Prepared  BY <1>2, <2>2, PreparedFits
    <2> HIDE DEF to
    <2>4. Reset(to) \in Prepared  BY <2>3 DEF Reset, Prepared
    <2>5. prep \in Prepared  BY <2>3, <2>4
    <2> HIDE DEF prep
    <2>6. PrepareFrame(prep, pending.frame) \in Prepared  BY <1>2, <2>5, PreparedFits
    <2>. QED  BY <1>2, <2>1, <2>6 DEF Engines
  <1>5. PICK k \in Nat : root' = IF pending.root = root.id THEN [root EXCEPT !.committed = k] ELSE root
    <2>1. Len(pending.frame) \in Nat  BY <1>2
    <2>. QED  BY <2>1 DEF Draw
  <1>6. /\ root' \in Containers /\ root'.id = root.id /\ root'.valid = root.valid /\ root'.lines = root.lines
        /\ root'.gens = root.gens /\ (pending.root # root.id => root' = root)
    BY <1>5 DEF TypeOK, Containers
  <1>7. TypeOK'  BY <1>1, <1>2, <1>3, <1>4, <1>6 DEF TypeOK
  <1>8. Started' /\ Imageless'  BY <1>1 DEF Started, Imageless
  <1>9. HintInv'  BY <1>1, <1>6 DEF HintInv
  <1>10. MemoInv'
    <2>1. \A A, B, C : Memo(A, B, C)' <=> Memo(A, B, C)  BY <1>1, <1>6 DEF Memo
    <2>. QED  BY <1>1, <1>6, <2>1 DEF MemoInv
  <1>11. KeptInv'
    <2>1. Known(t.blocks)' /\ (Matching(t.blocks) => Matching(t.blocks)')
      BY <1>1 DEF KeptInv, Known, Matching, Wanted
    <2>2. root'.committed > 0 => Matching(t.blocks)  BY <1>1, <1>6 DEF KeptInv
    <2>. QED  BY <1>1, <2>1, <2>2 DEF KeptInv
  <1>12. FrameIsCurrent'
    <2>1. Blocks' = Blocks  BY <1>1 DEF Blocks
    <2>. QED  BY <1>1, <2>1 DEF FrameIsCurrent
  <1>. QED  BY <1>7, <1>8, <1>9, <1>10, <1>11, <1>12

-----------------------------------------------------------------------------
(* Painting.                                                               *)
Claimed == [t EXCEPT !.claim = Greatest(0, root.committed - Len(header.rows))]
Show    == TranscriptRender(Claimed, cols, BeginPass(images))
Frame   == Compose(root, Show.t, cols)
Request == [frame |-> Frame.lines, stable |-> Frame.stable, width |-> cols, full |-> full, root |-> Frame.id,
            sends |-> Show.pass.sends, purges |-> Purged(Show.pass)]
Crosses == pending # None /\ \E n \in DOMAIN Show.pass.sends : Show.pass.sends[n][1] \in pending.purges

LEMMA PaintIs ==
  ASSUME Paint
  PROVE  /\ dirty /\ dirty' = FALSE
         /\ t' = TranscriptRead(Show.t) /\ root' = RootRead(Frame) /\ pending' = Merged(pending, Request)
         /\ composed' = Frame.lines /\ images' = EndPass(Show.pass)
         /\ asked' = asked + (IF AsksAgain(Show.pass) THEN 1 ELSE 0)
         /\ muddled' = (muddled \/ Crosses)
         /\ UNCHANGED <<world, specs, hide, header, editor, cols, full, engine, drawn, missed, changes, store>>
  BY DEF Paint, Claimed, Show, Frame, Request, Crosses

(* What a paint makes of the conversation.                                 *)
LEMMA Shows ==
  ASSUME Inv
  PROVE  /\ Claimed \in Transcripts /\ Claimed.blocks = t.blocks /\ Claimed.lines = t.lines
         /\ Claimed.claim > 0 => Matching(t.blocks)
         /\ Show.t \in Transcripts /\ Show.pass \in Passes /\ Show.t.valid
         /\ Plain(Show.t.lines) = Blocks[Len(specs)].rows
         /\ Known(Show.t.blocks) /\ Matching(Show.t.blocks)
         /\ Show.t.lines = <<>> <=> specs = <<>>
         /\ Show.t.gen = t.gen => Show.t.lines = <<>> \/ (t.valid /\ Show.t.lines = t.lines)
         /\ Show.t.floor = 0 \/ (t.valid /\ Agree(t.lines, Show.t.lines, Show.t.floor))
  <1> USE DEF Inv
  <1> DEFINE claim == Greatest(0, root.committed - Len(header.rows))
  <1>1. root.committed \in Nat /\ Len(header.rows) \in Nat  BY DEF TypeOK, Containers, Children
  <1>2. claim \in Nat /\ (claim > 0 => root.committed > 0)  BY <1>1 DEF Greatest
  <1> HIDE DEF claim
  <1>3. /\ Claimed \in Transcripts /\ Claimed.blocks = t.blocks /\ Claimed.lines = t.lines
        /\ Claimed.floor = t.floor /\ Claimed.gen = t.gen /\ Claimed.valid = t.valid /\ Claimed.claim = claim
    BY <1>2 DEF Claimed, claim, TypeOK, Transcripts
  <1>4. Claimed.claim > 0 => Matching(t.blocks)  BY <1>2, <1>3 DEF KeptInv
  <1>5. BeginPass(images) \in Passes
    <2>1. <<>> \in Seq(Nat) /\ <<>> \in Seq(Nat \X Nat)  OBVIOUS
    <2>. QED  BY <2>1 DEF BeginPass, Passes, TypeOK
  <1>6. cols \in Nat /\ specs \in Seq(Specs) /\ hide \in BOOLEAN  BY CompositionAssumption DEF TypeOK
  <1>7. Known(Claimed.blocks) /\ (Claimed.claim > 0 => Matching(Claimed.blocks)) /\ Claimed.floor = Len(Claimed.lines)
    BY <1>3, <1>4 DEF KeptInv, HintInv
  <1>8. /\ Show.t \in Transcripts /\ Show.pass \in Passes /\ Show.t.valid
        /\ Plain(Show.t.lines) = Blocks[Len(specs)].rows
        /\ Known(Show.t.blocks) /\ Matching(Show.t.blocks)
        /\ Show.t.gen = Claimed.gen => Show.t.lines = <<>> \/ (Claimed.valid /\ Show.t.lines = Claimed.lines)
        /\ Show.t.floor = 0 \/ (Claimed.valid /\ Agree(Claimed.lines, Show.t.lines, Show.t.floor))
    BY <1>3, <1>5, <1>6, <1>7, Rendered DEF Show
  <1>9. Show.t.lines = <<>> <=> specs = <<>>
    <2>1. Show.t.lines \in Seq(Rows)  BY <1>8 DEF Transcripts
    <2>2. Plain(Show.t.lines) = <<>> <=> Show.t.lines = <<>>  BY <2>1, PlainRows
    <2>. QED  BY <1>6, <1>8, <2>2, BlocksShow
  <1>. QED  BY <1>3, <1>4, <1>8, <1>9

LEMMA Frames ==
  ASSUME Inv
  PROVE  LET all == header.rows \o Show.t.lines \o editor.rows
         IN  /\ Frame \in Containers /\ Frame.valid /\ Frame.id = root.id /\ Frame.committed = root.committed
             /\ Frame.gens = <<header.gen, Show.t.gen, editor.gen>> /\ Frame.lines = all
             /\ Frame.stable = 0 \/ (root.valid /\ Agree(all, root.lines, Frame.stable))
  <1> USE DEF Inv
  <1>1. Show.t \in Transcripts  BY Shows
  <1>2. root.valid => Remembers(root, Show.t)
    <2> SUFFICES ASSUME root.valid PROVE Remembers(root, Show.t)  OBVIOUS
    <2>1. PICK A, B, C \in Seq(Rows) : Memo(A, B, C)  BY DEF MemoInv
    <2>2. Len(root.gens) = 3 /\ root.gens[2] = t.gen  BY DEF MemoInv
    <2>3. /\ Show.t.lines = <<>> <=> specs = <<>>
          /\ Show.t.gen = t.gen => Show.t.lines = <<>> \/ (t.valid /\ Show.t.lines = t.lines)
          /\ Show.t.floor = 0 \/ (t.valid /\ Agree(t.lines, Show.t.lines, Show.t.floor))
      BY Shows
    <2>4. root.gens[2] = Show.t.gen => B = Show.t.lines  BY <2>1, <2>2, <2>3 DEF Memo
    <2>5. Agree(B, Show.t.lines, Show.t.floor)
      <3>1. CASE Show.t.floor = 0
        <4>1. Len(B) \in Nat /\ Len(Show.t.lines) \in Nat  BY <1>1 DEF Transcripts
        <4>. QED  BY <3>1, <4>1 DEF Agree
      <3>2. CASE t.valid /\ Agree(t.lines, Show.t.lines, Show.t.floor)  BY <3>2, <2>1 DEF Memo
      <3>. QED  BY <2>3, <3>1, <3>2
    <2>. QED  BY <2>1, <2>2, <2>4, <2>5 DEF Remembers, Memo
  <1>3. header \in Children /\ editor \in Children /\ root \in Containers /\ cols \in Nat
    BY CompositionAssumption DEF TypeOK
  <1>. QED  BY <1>1, <1>2, <1>3, Composes, ZenonT(60) DEF Frame

LEMMA PaintKeeps ==
  ASSUME Inv, Paint PROVE Inv'
  <1> USE DEF Inv
  <1> DEFINE all == header.rows \o Show.t.lines \o editor.rows
  <1>1. /\ dirty' = FALSE
        /\ t' = TranscriptRead(Show.t) /\ root' = RootRead(Frame) /\ pending' = Merged(pending, Request)
        /\ composed' = Frame.lines /\ images' = EndPass(Show.pass)
        /\ asked' = asked + (IF AsksAgain(Show.pass) THEN 1 ELSE 0)
        /\ muddled' = (muddled \/ Crosses)
        /\ UNCHANGED <<world, specs, hide, header, editor, cols, full, engine, drawn, missed, changes, store>>
    BY PaintIs
  <1>2. /\ Show.t \in Transcripts /\ Show.pass \in Passes /\ Show.t.valid
        /\ Plain(Show.t.lines) = Blocks[Len(specs)].rows
        /\ Known(Show.t.blocks) /\ Matching(Show.t.blocks)
        /\ Show.t.lines = <<>> <=> specs = <<>>
    BY Shows
  <1>3. /\ Frame \in Containers /\ Frame.valid /\ Frame.id = root.id /\ Frame.committed = root.committed
        /\ Frame.gens = <<header.gen, Show.t.gen, editor.gen>> /\ Frame.lines = all
        /\ Frame.stable = 0 \/ (root.valid /\ Agree(all, root.lines, Frame.stable))
    BY Frames
  <1>4. /\ header.rows \in Seq(Rows) /\ Show.t.lines \in Seq(Rows) /\ editor.rows \in Seq(Rows)
        /\ header.gen \in Nat /\ editor.gen \in Nat /\ Show.t.gen \in Nat
    BY <1>2 DEF TypeOK, Children, Transcripts
  <1>5. all \in Seq(Rows)  BY <1>4, Joined
  <1>6. /\ t' \in Transcripts /\ t'.lines = Show.t.lines /\ t'.blocks = Show.t.blocks /\ t'.valid
        /\ t'.floor = Len(t'.lines) /\ t'.gen = Show.t.gen
    <2> DEFINE tr == Show.t  n == Len(tr.lines)  read == [tr EXCEPT !.floor = n]
    <2>1. tr \in Transcripts /\ tr.valid /\ n \in Nat /\ t' = read  BY <1>1, <1>2, <1>4 DEF TranscriptRead
    <2>2. n = Len(tr.lines)  OBVIOUS
    <2> HIDE DEF tr, n
    <2>3. /\ read \in Transcripts /\ read.lines = tr.lines /\ read.blocks = tr.blocks /\ read.valid
          /\ read.floor = n /\ read.gen = tr.gen
      BY <2>1 DEF Transcripts
    <2> HIDE DEF read
    <2>. QED  BY <2>1, <2>2, <2>3 DEF tr
  <1> HIDE DEF all
  <1>7. /\ root' \in Containers /\ root'.valid /\ root'.id = root.id /\ root'.committed = root.committed
        /\ root'.gens = <<header.gen, Show.t.gen, editor.gen>> /\ root'.lines = all
    <2>1. Len(Frame.lines) \in Nat  BY <1>3, <1>5
    <2>. QED  BY <1>1, <1>3, <2>1 DEF RootRead, Containers
  <1>8. Request \in Requests /\ Request.frame = all /\ Request.stable = Frame.stable /\ Request.root = root.id
    <2>1. Purged(Show.pass) \in SUBSET Nat
      <3>1. images \in ImageStates  BY DEF TypeOK
      <3>. QED  BY <1>2, <3>1, PassesFit
    <2>2. Show.pass.sends \in Seq(Nat \X Nat)  BY <1>2 DEF Passes
    <2>3. Frame.stable \in Nat /\ Frame.id \in Nat /\ cols \in Nat /\ full \in BOOLEAN
      BY <1>3, CompositionAssumption DEF Containers, TypeOK
    <2>. QED  BY <1>3, <1>5, <2>1, <2>2, <2>3 DEF Request, Requests
  <1>9. /\ pending' \in Requests /\ pending'.frame = all /\ pending'.root = root.id
        /\ pending = None => pending'.stable = Request.stable
        /\ pending # None => pending'.stable = Least(Request.stable, pending.stable)
    <2>1. pending \in Requests \cup {None}  BY DEF TypeOK
    <2> DEFINE req == Request
    <2>2. req \in Requests  BY <1>8
    <2> HIDE DEF req
    <2>3. /\ Merged(pending, req) \in Requests
          /\ Merged(pending, req).frame = req.frame /\ Merged(pending, req).root = req.root
          /\ pending = None => Merged(pending, req) = req
          /\ pending # None => Merged(pending, req).stable = Least(req.stable, pending.stable)
      BY <2>1, <2>2, MergedFits
    <2>. QED  BY <1>1, <1>8, <2>3 DEF req
  <1>10. pending' # None  BY <1>9, NoneAssumption
  <1>11. TypeOK'
    <2>1. images' \in ImageStates
      <3>1. images \in ImageStates  BY DEF TypeOK
      <3>. QED  BY <1>1, <1>2, <3>1, PassesFit
    <2>2. asked' \in Nat /\ muddled' \in BOOLEAN  BY <1>1 DEF TypeOK, Crosses
    <2>. QED  BY <1>1, <1>3, <1>5, <1>6, <1>7, <1>9, <2>1, <2>2 DEF TypeOK
  <1>12. Started' /\ Imageless'  BY <1>1 DEF Started, Imageless
  <1>13. composed' = all  BY <1>1, <1>3
  <1>14. HintInv'
    <2>1. ~missed => Agree(all, drawn, pending'.stable)
      <3> SUFFICES ASSUME ~missed PROVE Agree(all, drawn, pending'.stable)  OBVIOUS
      <3>1. Len(all) \in Nat /\ Len(drawn) \in Nat /\ Frame.stable \in Nat /\ (pending # None => pending.stable \in Nat)
        BY <1>3, <1>5 DEF TypeOK, Containers, Requests
      <3>2. Frame.stable = 0 \/ Agree(all, composed, Frame.stable)  BY <1>3 DEF HintInv
      <3>3. CASE pending = None
        <4>1. drawn = composed /\ pending'.stable = Frame.stable  BY <3>3, <1>8, <1>9 DEF HintInv
        <4>. QED  BY <4>1, <3>1, <3>2 DEF Agree
      <3>4. CASE pending # None
        <4>1. Agree(composed, drawn, pending.stable)  BY <3>4 DEF HintInv
        <4>2. pending'.stable = Least(Frame.stable, pending.stable)  BY <3>4, <1>8, <1>9
        <4> DEFINE s == pending'.stable
        <4>3. s \in Nat /\ s <= Frame.stable /\ s <= pending.stable  BY <4>2, <3>1, <3>4 DEF Least
        <4>4. s = 0 \/ (s <= Len(all) /\ \A i \in 1..s : all[i] = composed[i])  BY <4>3, <3>1, <3>2 DEF Agree
        <4>5. s <= Len(drawn) /\ \A i \in 1..s : composed[i] = drawn[i]  BY <4>1, <4>3, <3>1, <3>4 DEF Agree
        <4> HIDE DEF s
        <4>6. Agree(all, drawn, s)  BY <4>3, <4>4, <4>5, <3>1 DEF Agree
        <4>. QED  BY <4>6 DEF s
      <3>. QED  BY <3>3, <3>4
    <2>2. root.id \in Nat  BY DEF TypeOK, Containers
    <2>. QED  BY <1>1, <1>6, <1>7, <1>9, <1>10, <1>13, <2>1, <2>2 DEF HintInv
  <1>15. MemoInv'
    <2>1. PICK A, B, C \in Seq(Rows) : A = header.rows /\ B = Show.t.lines /\ C = editor.rows  BY <1>4
    <2>2. root'.lines = A \o B \o C  BY <1>7, <2>1, Zenon DEF all
    <2>3. specs = <<>> => B = <<>>  BY <1>2, <2>1
    <2>4. Memo(A, B, C)'  BY <1>1, <1>6, <2>1, <2>2, <2>3 DEF Memo
    <2>5. /\ Len(root'.gens) = 3 /\ root'.gens[1] = header.gen /\ root'.gens[2] = Show.t.gen /\ root'.gens[3] = editor.gen
      BY <1>7
    <2>. QED  BY <1>1, <1>4, <1>6, <2>4, <2>5 DEF MemoInv
  <1>16. KeptInv'
    <2>1. Known(t.blocks)' /\ Matching(t.blocks)'  BY <1>1, <1>2, <1>6, ZenonT(60) DEF Known, Matching, Wanted
    <2>. QED  BY <2>1 DEF KeptInv
  <1>17. FrameIsCurrent'
    <2>1. Blocks' = Blocks  BY <1>1 DEF Blocks
    <2>2. Plain(all) = header.rows \o Blocks[Len(specs)].rows \o editor.rows
      <3>1. Plain(header.rows) = header.rows /\ Plain(editor.rows) = editor.rows
        BY <1>4, PlainText DEF Imageless
      <3>2. header.rows \o Show.t.lines \in Seq(Rows)  BY <1>4, ConcatProperties
      <3> DEFINE X == header.rows  Y == Show.t.lines  Z == editor.rows
      <3>3. X \in Seq(Rows) /\ Y \in Seq(Rows) /\ Z \in Seq(Rows) /\ X \o Y \in Seq(Rows)  BY <1>4, <3>2
      <3>4. Plain(X) = X /\ Plain(Z) = Z /\ Plain(Y) = Blocks[Len(specs)].rows  BY <3>1, <1>2
      <3>5. all = X \o Y \o Z  BY DEF all
      <3> HIDE DEF X, Y, Z
      <3>6. Plain(X \o Y) = X \o Blocks[Len(specs)].rows  BY <3>3, <3>4, PlainConcat
      <3>7. Plain((X \o Y) \o Z) = X \o Blocks[Len(specs)].rows \o Z  BY <3>3, <3>4, <3>6, PlainConcat
      <3>. QED  BY <3>5, <3>7 DEF X, Z
    <2>3. [i \in DOMAIN composed' |-> AnyImage(composed'[i])] = Plain(all)  BY <1>13 DEF Plain
    <2>. QED  BY <1>1, <2>1, <2>2, <2>3 DEF FrameIsCurrent
  <1>. QED  BY <1>11, <1>12, <1>14, <1>15, <1>16, <1>17

-----------------------------------------------------------------------------
(* The beginning.                                                          *)
LEMMA FirstSpecs ==
  ASSUME NEW n \in Nat
  PROVE  LET s == Prompt(1) \o [i \in 1..n |-> Card(i + 1)]
         IN  /\ s \in Seq(Specs) /\ Len(s) = n + 1
             /\ s[1].group = "user" /\ \A i \in DOMAIN s : s[i].body # <<>>
             /\ s[1].image = NoImage /\ \A i \in 2..(n + 1) : s[i].image = <<i, i>>
  <1> DEFINE p == Prompt(1)  cards == [i \in 1..n |-> Card(i + 1)]  s == p \o cards
  <1>1. p \in Seq(Specs) /\ Len(p) = 1 /\ p[1].group = "user" /\ p[1].body # <<>> /\ p[1].image = NoImage
    BY PromptFits
  <1>2. ASSUME NEW i \in 1..n
        PROVE  cards[i] \in Specs /\ cards[i].body # <<>> /\ cards[i].image = <<i + 1, i + 1>>
    <2>1. i + 1 \in Nat  OBVIOUS
    <2>2. Card(i + 1) \in Specs /\ Card(i + 1).body # <<>> /\ Card(i + 1).image = <<i + 1, i + 1>>
      BY <2>1, CardFits
    <2>. QED  BY <2>2
  <1>3. cards \in Seq(Specs) /\ Len(cards) = n
    <2>1. cards \in [1..n -> Specs]  BY <1>2
    <2> HIDE DEF cards
    <2>. QED  BY <2>1
  <1> HIDE DEF p, cards
  <1>4. s \in Seq(Specs) /\ Len(s) = n + 1
        /\ \A i \in 1..(n + 1) : s[i] = IF i <= 1 THEN p[i] ELSE cards[i - 1]
    <2>1. s \in Seq(Specs) /\ Len(s) = Len(p) + Len(cards)
          /\ \A i \in 1..(Len(p) + Len(cards)) : s[i] = IF i <= Len(p) THEN p[i] ELSE cards[i - Len(p)]
      BY <1>1, <1>3, ConcatProperties
    <2> HIDE DEF s
    <2>2. Len(p) = 1 /\ Len(cards) = n /\ 1 + n = n + 1  BY <1>1, <1>3
    <2>. QED  BY <2>1, <2>2
  <1> HIDE DEF s
  <1>5. s[1] = p[1]  BY <1>4
  <1>6. ASSUME NEW i \in 2..(n + 1) PROVE s[i].body # <<>> /\ s[i].image = <<i, i>>
    <2>1. i - 1 \in 1..n /\ (i - 1) + 1 = i /\ s[i] = cards[i - 1]  BY <1>4
    <2>. QED  BY <2>1, <1>2
  <1>7. \A i \in DOMAIN s : s[i].body # <<>>
    <2>1. \A i \in DOMAIN s : i = 1 \/ i \in 2..(n + 1)  BY <1>4
    <2>. QED  BY <2>1, <1>1, <1>5, <1>6
  <1>. QED  BY <1>1, <1>4, <1>5, <1>6, <1>7 DEF s, p, cards

LEMMA InitHolds == Init => Inv
  <1> SUFFICES ASSUME Init PROVE Inv  OBVIOUS
  <1>1. world \in Worlds /\ world.cards \in Nat  BY CompositionAssumption DEF Init
  <1>2. specs \in Seq(Specs) /\ Started
    <2> DEFINE n == world.cards
    <2>1. n \in Nat /\ specs = Prompt(1) \o [i \in 1..n |-> Card(i + 1)]  BY <1>1 DEF Init
    <2> HIDE DEF n
    <2>2. /\ specs \in Seq(Specs) /\ specs[1].group = "user" /\ \A i \in DOMAIN specs : specs[i].body # <<>>
      BY <2>1, FirstSpecs
    <2>. QED  BY <2>2 DEF Started
  <1>3. cols \in Cols /\ cols \in Nat  BY CompositionAssumption DEF Init
  <1>4. <<>> \in Seq(Rows) /\ <<>> \in Seq(BlockStates) /\ Len(<<>>) = 0 /\ DOMAIN (<<>>) = {}  OBVIOUS
  <1>5. t \in Transcripts /\ t.blocks = <<>> /\ t.lines = <<>> /\ t.floor = 0  BY <1>4 DEF Init, Transcripts
  <1>6. root \in Containers /\ ~root.valid /\ root.committed = 0  BY NewRootFits DEF Init
  <1>7. /\ HeaderRows(1, 1) \in Seq(Rows) /\ EditorRows(1, 1, cols) \in Seq(Rows)
        /\ \A i \in DOMAIN HeaderRows(1, 1) : ~IsImage(HeaderRows(1, 1)[i])
        /\ \A i \in DOMAIN EditorRows(1, 1, cols) : ~IsImage(EditorRows(1, 1, cols)[i])
    <2>1. 1 \in Nat  OBVIOUS
    <2>. QED  BY <2>1, <1>3, ChildRows
  <1> DEFINE hrows == HeaderRows(1, 1)  erows == EditorRows(1, 1, cols)
  <1> HIDE DEF hrows, erows
  <1>8. /\ header = [rows |-> hrows, gen |-> 1] /\ editor = [rows |-> erows, gen |-> 1]
        /\ hrows \in Seq(Rows) /\ erows \in Seq(Rows)
        /\ \A i \in DOMAIN hrows : ~IsImage(hrows[i])
        /\ \A i \in DOMAIN erows : ~IsImage(erows[i])
    BY <1>7 DEF Init, hrows, erows
  <1>9. header \in Children /\ editor \in Children  BY <1>8 DEF Children
  <1>10. Imageless  BY <1>8 DEF Imageless
  <1>11. images \in ImageStates
    <2>1. NoComponents \in [{} -> Components]  BY DEF NoComponents
    <2>2. {} \in SUBSET Nat  OBVIOUS
    <2>3. NoComponents \in Made  BY <2>1, <2>2 DEF Made
    <2>. QED  BY <2>3 DEF Init, NewImages, ImageStates
  <1>12. store \in Stores
    <2>1. NoComponents \in [{} -> Nat]  BY DEF NoComponents
    <2>2. {} \in SUBSET Nat  OBVIOUS
    <2>. QED  BY <2>1, <2>2 DEF Init, Stores
  <1>13. engine \in Engines  BY <1>4 DEF Init, Engines, Prepared
  <1>14. TypeOK  BY <1>1, <1>2, <1>3, <1>4, <1>5, <1>6, <1>9, <1>11, <1>12, <1>13 DEF Init, TypeOK
  <1>15. HintInv  BY <1>4, <1>5, <1>6 DEF Init, HintInv
  <1>16. MemoInv  BY <1>6 DEF MemoInv
  <1>17. KeptInv  BY <1>4, <1>5 DEF KeptInv, Known, Matching
  <1>18. FrameIsCurrent  BY DEF Init, FrameIsCurrent
  <1>. QED  BY <1>2, <1>10, <1>14, <1>15, <1>16, <1>17, <1>18 DEF Inv

LEMMA StutterKeeps ==
  ASSUME Inv, UNCHANGED vars PROVE Inv'
  <1> USE DEF Inv
  <1>1. UNCHANGED <<world, specs, hide, t, root, header, editor, cols, full, dirty, pending, engine, composed, drawn,
                    missed, changes, images, asked, store, muddled>>
    BY DEF vars, treeVars, mediaVars
  <1>2. TypeOK'  BY <1>1 DEF TypeOK
  <1>3. Started' /\ Imageless'  BY <1>1 DEF Started, Imageless
  <1>4. HintInv'  BY <1>1 DEF HintInv
  <1>5. MemoInv'
    <2>1. \A A, B, C : Memo(A, B, C)' <=> Memo(A, B, C)  BY <1>1 DEF Memo
    <2>. QED  BY <1>1, <2>1 DEF MemoInv
  <1>6. KeptInv'  BY <1>1 DEF KeptInv, Known, Matching, Wanted
  <1>7. FrameIsCurrent'
    <2>1. Blocks' = Blocks  BY <1>1 DEF Blocks
    <2>. QED  BY <1>1, <2>1 DEF FrameIsCurrent
  <1>. QED  BY <1>2, <1>3, <1>4, <1>5, <1>6, <1>7

LEMMA NextKeeps == Inv /\ [Next]_vars => Inv'
  <1> SUFFICES ASSUME Inv, [Next]_vars PROVE Inv'  OBVIOUS
  <1>1. CASE Sync  BY <1>1, SyncKeeps
  <1>2. CASE ToggleThinking  BY <1>2, ToggleThinkingKeeps
  <1>3. CASE ApplyTheme  BY <1>3, ApplyThemeKeeps
  <1>4. CASE HeaderResult  BY <1>4, HeaderResultKeeps
  <1>5. CASE Type  BY <1>5, TypeKeeps
  <1>6. CASE Resize  BY <1>6, ResizeKeeps
  <1>7. CASE Fullscreen  BY <1>7, FullscreenKeeps
  <1>8. CASE Paint  BY <1>8, PaintKeeps
  <1>9. CASE ForceRender  BY <1>9, ForceRenderKeeps
  <1>10. CASE DrawAlt  BY <1>10, DrawAltKeeps
  <1>11. CASE Draw  BY <1>11, DrawKeeps
  <1>12. CASE UNCHANGED vars  BY <1>12, StutterKeeps
  <1>. QED
    BY <1>1, <1>2, <1>3, <1>4, <1>5, <1>6, <1>7, <1>8, <1>9, <1>10, <1>11, <1>12 DEF Next

(* Every variable has its type, and the invariant holds: what the root and *)
(* the transcript remember is what they showed last, as far as the         *)
(* generations and widths they compare say so.                             *)
THEOREM InvHolds == Spec => []Inv
  <1>. QED  BY InitHolds, NextKeeps, PTL DEF Spec

(* The variables keep their types: rows, blocks, containers, requests, the *)
(* budget and the store of the terminal.                                   *)
THEOREM CompositionTypeCorrect == Spec => []TypeOK
  <1>1. Inv => TypeOK  BY DEF Inv
  <1>. QED  BY <1>1, InvHolds, PTL

(* A painted frame is the children's rows as they are to be now, for any   *)
(* number of blocks, rows, changes, widths and worlds, though transcript   *)
(* and root rebuild only what they cannot keep (Transcript.Render,         *)
(* Container.Render).                                                      *)
THEOREM FramesAreCurrent == Spec => []FrameIsCurrent
  <1>1. Inv => FrameIsCurrent  BY DEF Inv
  <1>. QED  BY <1>1, InvHolds, PTL

(* The rows a waiting request calls stable are those of the frame drawn    *)
(* last, however many paints were merged into it (mergeLocked): reports    *)
(* are least common, and every paint reports against the frame before it.  *)
THEOREM HintsFitTheEngine == Spec => []HintFitsTheEngine
  <1>1. Inv => HintFitsTheEngine
    <2> SUFFICES ASSUME Inv, pending # None, ~missed
                 PROVE  Common(pending.frame, drawn) >= pending.stable
      BY DEF HintFitsTheEngine
    <2>1. pending \in Requests /\ drawn \in Seq(Rows)  BY DEF Inv, TypeOK
    <2>2. pending.frame \in Seq(Rows) /\ pending.stable \in Nat  BY <2>1 DEF Requests
    <2>3. Agree(pending.frame, drawn, pending.stable)  BY DEF Inv, HintInv
    <2>4. pending.stable <= Common(pending.frame, drawn) /\ Common(pending.frame, drawn) \in Nat
      BY <2>1, <2>2, <2>3, CommonIs
    <2>. QED  BY <2>2, <2>4
  <1>. QED  BY <1>1, InvHolds, PTL

-----------------------------------------------------------------------------
(* The images.  A pass over the blocks meets those it lays out anew: it    *)
(* shows the first of them as text, as many as planned, and sends what is  *)
(* not transmitted.                                                        *)
Graphic(lines) == lines # <<>> /\ Last(lines)[1] = "graphic"
Early(im, n)   == Cap > 0 /\ n <= im.planned

(* An image is named by the place of its block, and under its own key.     *)
Numbered   == \A i \in DOMAIN specs : specs[i].image # NoImage => specs[i].image[2] = i
OneKeyEach == \A a, b \in ImagesOf(specs) : a[1] = b[1] => a = b

(* Components show the picture of the conversation's image; those that are *)
(* rendered as graphics are believed loaded.                               *)
MadeFor(im)   == \A a \in ImagesOf(specs) : a[1] \in DOMAIN im.made => im.made[a[1]].pic = a[2]
CacheTold(im) == \A k \in DOMAIN im.made : im.made[k].width # 0 /\ ~im.made[k].text => k \in im.transmitted

SeenOf(im, acc, i) ==
  \A n \in DOMAIN acc.pass.seen : \E j \in 1..i :
    /\ specs[j].image # NoImage /\ acc.pass.seen[n] = specs[j].image[1]
    /\ Early(im, n) => ~Graphic(acc.blocks[j].lines)
SentOf(im, acc, i) ==
  /\ acc.pass.im.transmitted = im.transmitted \cup SentKeys(acc.pass.sends)
  /\ \A m \in DOMAIN acc.pass.sends :
       /\ acc.pass.sends[m][1] \notin im.transmitted
       /\ \E j \in 1..i : specs[j].image # NoImage /\ acc.pass.sends[m] = specs[j].image
TextOf(im, acc) ==
  \A n \in DOMAIN acc.pass.seen :
    Early(im, n) => acc.pass.seen[n] \in DOMAIN acc.pass.im.made /\ acc.pass.im.made[acc.pass.seen[n]].text
ShownOf(acc, i) ==
  \A j \in 1..i : Graphic(acc.blocks[j].lines) =>
    /\ specs[j].image # NoImage /\ Last(acc.blocks[j].lines)[2] = specs[j].image[1]
    /\ specs[j].image[1] \in acc.pass.im.transmitted

PassOk(im, acc, i) ==
  /\ acc.pass.im.planned = im.planned /\ acc.pass.im.onTerminal = im.onTerminal
  /\ SeenOf(im, acc, i) /\ SentOf(im, acc, i) /\ TextOf(im, acc) /\ ShownOf(acc, i)
  /\ MadeFor(acc.pass.im) /\ CacheTold(acc.pass.im)

(* A retained block that ends in a graphic names the image of the block it *)
(* was laid out for.                                                       *)
NamesOwn(b, sent) ==
  Graphic(b.lines) => b.spec.image # NoImage /\ Last(b.lines)[2] = b.spec.image[1] /\ b.spec.image[1] \in sent

LEMMA OwnKey ==
  ASSUME specs \in Seq(Specs), Numbered, OneKeyEach, NEW i \in DOMAIN specs, NEW j \in DOMAIN specs,
         specs[i].image # NoImage, specs[j].image # NoImage, specs[i].image[1] = specs[j].image[1]
  PROVE  i = j
  <1>1. specs[i].image \in ImagesOf(specs) /\ specs[j].image \in ImagesOf(specs)  BY DEF ImagesOf
  <1>2. specs[i].image = specs[j].image  BY <1>1 DEF OneKeyEach
  <1>. QED  BY <1>2 DEF Numbered

LEMMA ImageIs ==
  ASSUME NEW spec \in Specs, spec.image # NoImage
  PROVE  spec.image[1] \in Nat /\ spec.image[2] \in Nat /\ spec.image = <<spec.image[1], spec.image[2]>>
  <1>1. spec.image \in Nat \X Nat  BY DEF Specs, Pictures
  <1>. QED  BY <1>1

(* A block laid out anew ends in a graphic only where the budget lets it.  *)
LEMMA LaidOutShows ==
  ASSUME NEW spec \in Specs, hide \in BOOLEAN, NEW width \in Nat, NEW acc, acc.pass \in Passes,
         NEW lines, LaidOut(lines, acc, spec, width), Graphic(lines)
  PROVE  spec.image # NoImage /\ ~Suppressed(acc.pass) /\ Last(lines)[2] = spec.image[1]
  <1> DEFINE text == BlockRows(spec, width, hide)
  <1>1. text \in Seq(Rows) /\ \A i \in DOMAIN text : ~IsImage(text[i])  BY TextRows
  <1>2. CASE spec.image = NoImage
    <2>1. lines = text \o <<>>  BY <1>2 DEF LaidOut
    <2> HIDE DEF text
    <2>2. lines = text  BY <2>1, <1>1, ConcatEmptySeq
    <2>3. text # <<>> /\ Last(text)[1] = "graphic"  BY <2>2 DEF Graphic
    <2>4. Len(text) \in DOMAIN text  BY <2>3, <1>1, EmptySeq
    <2>. QED  BY <2>3, <2>4, <1>1 DEF Last, IsImage
  <1>3. CASE spec.image # NoImage
    <2> DEFINE row == ImageRow(acc.pass, spec.image[1], spec.image[2], width)
    <2>1. lines = text \o <<row>>  BY <1>3 DEF LaidOut
    <2>2. spec.image[1] \in Nat /\ spec.image[2] \in Nat  BY <1>3, ImageIs
    <2>3. row \in Rows /\ (row[1] = "graphic" => ~Suppressed(acc.pass) /\ row[2] = spec.image[1])
      <3> DEFINE pass == acc.pass  key == spec.image[1]  pic == spec.image[2]
      <3>1. pass \in Passes /\ key \in Nat /\ pic \in Nat /\ row = ImageRow(pass, key, pic, width)  BY <2>2
      <3> HIDE DEF row, pass, key, pic
      <3>2. row \in Rows  BY <3>1, ImageRowIs
      <3>3. row[1] = "graphic" => ~Suppressed(pass) /\ row[2] = key  BY <3>1 DEF ImageRow
      <3>. QED  BY <3>2, <3>3 DEF pass, key
    <2> HIDE DEF text, row
    <2> DEFINE one == <<row>>
    <2>4. one \in Seq(Rows) /\ Len(one) = 1 /\ one[1] = row /\ lines = text \o one  BY <2>1, <2>3
    <2> HIDE DEF one
    <2>5. Len(text \o one) = Len(text) + 1 /\ (text \o one)[Len(text) + 1] = one[1]
      <3>1. /\ Len(text \o one) = Len(text) + Len(one)
            /\ \A i \in 1..Len(one) : (text \o one)[Len(text) + i] = one[i]
        BY <2>4, <1>1, Paired
      <3> DEFINE both == text \o one
      <3> HIDE DEF both
      <3>2. Len(both) = Len(text) + Len(one) /\ \A i \in 1..Len(one) : both[Len(text) + i] = one[i]
        BY <3>1 DEF both
      <3>3. Len(both) = Len(text) + 1 /\ both[Len(text) + 1] = one[1]  BY <3>2, <2>4
      <3>. QED  BY <3>3 DEF both
    <2>6. Last(lines) = row  BY <2>4, <2>5 DEF Last
    <2>. QED  BY <1>3, <2>3, <2>6 DEF Graphic
  <1>. QED  BY <1>2, <1>3

LEMMA AppendedIs ==
  ASSUME NEW S, NEW seq \in Seq(S), NEW e \in S
  PROVE  \A n \in DOMAIN Append(seq, e) : \/ n \in DOMAIN seq /\ Append(seq, e)[n] = seq[n]
                                          \/ n = Len(seq) + 1 /\ Append(seq, e)[n] = e
  <1> DEFINE more == Append(seq, e)
  <1>1. more \in Seq(S) /\ Len(more) = Len(seq) + 1 /\ more[Len(seq) + 1] = e
        /\ \A n \in 1..Len(seq) : more[n] = seq[n]
    BY AppendProperties
  <1>2. Len(seq) \in Nat /\ DOMAIN seq = 1..Len(seq)  OBVIOUS
  <1> HIDE DEF more
  <1>3. DOMAIN more = 1..(Len(seq) + 1)  BY <1>1
  <1>4. \A n \in 1..(Len(seq) + 1) : n \in 1..Len(seq) \/ n = Len(seq) + 1  BY <1>2
  <1>5. \A n \in DOMAIN more : (n \in DOMAIN seq /\ more[n] = seq[n]) \/ (n = Len(seq) + 1 /\ more[n] = e)
    <2> SUFFICES ASSUME NEW n \in 1..(Len(seq) + 1)
                 PROVE  (n \in DOMAIN seq /\ more[n] = seq[n]) \/ (n = Len(seq) + 1 /\ more[n] = e)
      BY <1>3
    <2>1. CASE n \in 1..Len(seq)  BY <2>1, <1>1, <1>2
    <2>2. CASE n = Len(seq) + 1  BY <2>2, <1>1
    <2>. QED  BY <2>1, <2>2, <1>4
  <1>. QED  BY <1>5 DEF more

LEMMA OneSentMore ==
  ASSUME NEW sends \in Seq(Nat \X Nat), NEW e \in Nat \X Nat
  PROVE  SentKeys(Append(sends, e)) = SentKeys(sends) \cup {e[1]}
  <1> DEFINE more == Append(sends, e)
  <1>1. Len(more) = Len(sends) + 1 /\ more[Len(sends) + 1] = e /\ Len(sends) \in Nat
        /\ \A n \in 1..Len(sends) : more[n] = sends[n]
    BY AppendProperties
  <1>2. DOMAIN more = 1..(Len(sends) + 1) /\ DOMAIN sends = 1..Len(sends)  BY <1>1, AppendProperties
  <1> HIDE DEF more
  <1>3. ASSUME NEW k \in SentKeys(more) PROVE k \in SentKeys(sends) \cup {e[1]}
    <2>1. PICK n \in DOMAIN more : k = more[n][1]  BY <1>3 DEF SentKeys
    <2>2. (n \in DOMAIN sends /\ more[n] = sends[n]) \/ more[n] = e  BY AppendedIs DEF more
    <2>. QED  BY <2>1, <2>2 DEF SentKeys
  <1>4. ASSUME NEW k \in SentKeys(sends) PROVE k \in SentKeys(more)
    <2>1. PICK n \in DOMAIN sends : k = sends[n][1]  BY <1>4 DEF SentKeys
    <2>2. n \in DOMAIN more /\ more[n] = sends[n]  BY <2>1, <1>1, <1>2
    <2>. QED  BY <2>1, <2>2 DEF SentKeys
  <1>5. e[1] \in SentKeys(more)
    <2>1. Len(sends) + 1 \in DOMAIN more  BY <1>1, <1>2
    <2>. QED  BY <2>1, <1>1 DEF SentKeys
  <1>. QED  BY <1>3, <1>4, <1>5 DEF more

LEMMA PassStep ==
  ASSUME specs \in Seq(Specs), hide \in BOOLEAN, cols \in Nat \ {0}, Numbered, OneKeyEach,
         NEW tr \in Transcripts, Len(tr.blocks) = Len(specs), NEW im \in ImageStates,
         \A j \in DOMAIN tr.blocks : tr.blocks[j].built => NamesOwn(tr.blocks[j], im.transmitted),
         NEW i \in 1..Len(specs), NEW acc \in Layouts(i - 1), NEW r \in Layouts(i),
         LaysOut(tr, cols, acc, i, r), r.blocks[i].spec = specs[i], PassOk(im, acc, i - 1)
  PROVE  PassOk(im, r, i)
  <1>0. Len(specs) \in Nat /\ i \in DOMAIN specs /\ specs[i] \in Specs /\ cols \in Nat /\ cols # 0  OBVIOUS
  <1>1. PICK lines \in Seq(Rows), sep \in Nat, now \in BlockStates :
              /\ r.blocks = Append(acc.blocks, now) /\ now.built /\ now.lines = lines /\ now.width = cols
              /\ \/ /\ Kept(tr, tr.blocks[i], specs[i], cols) /\ lines = tr.blocks[i].lines
                    /\ now.spec = tr.blocks[i].spec /\ r.pass = acc.pass
                 \/ /\ now.spec = specs[i] /\ LaidOut(lines, acc, specs[i], cols)
                    /\ r.pass = ShownBy(acc, specs[i], cols)
    BY Zenon DEF LaysOut
  <1>2. /\ acc.pass \in Passes /\ r.pass \in Passes /\ acc.blocks \in Seq(BlockStates) /\ Len(acc.blocks) = i - 1
    BY DEF Layouts
  <1>3. r.blocks[i] = now /\ \A j \in 1..(i - 1) : r.blocks[j] = acc.blocks[j]
    BY <1>1, <1>2, AppendProperties
  <1>4. now.spec = specs[i]  BY <1>3
  <1>5. \A j \in 1..i : j = i \/ j \in 1..(i - 1)  OBVIOUS
  <1>6. \A j \in 1..(i - 1) : j \in 1..i  OBVIOUS
  <1>7. CASE r.pass = acc.pass /\ (Graphic(lines) => /\ specs[i].image # NoImage /\ Last(lines)[2] = specs[i].image[1]
                                                     /\ specs[i].image[1] \in acc.pass.im.transmitted)
    <2>1. SeenOf(im, r, i)
      <3> SUFFICES ASSUME NEW n \in DOMAIN acc.pass.seen
                   PROVE  \E j \in 1..i : /\ specs[j].image # NoImage /\ acc.pass.seen[n] = specs[j].image[1]
                                          /\ Early(im, n) => ~Graphic(r.blocks[j].lines)
        BY <1>7 DEF SeenOf
      <3>1. PICK j \in 1..(i - 1) : /\ specs[j].image # NoImage /\ acc.pass.seen[n] = specs[j].image[1]
                                    /\ Early(im, n) => ~Graphic(acc.blocks[j].lines)
        BY DEF PassOk, SeenOf
      <3>. QED  BY <3>1, <1>3, <1>6
    <2>2. SentOf(im, r, i)
      <3>1. SentOf(im, acc, i - 1)  BY DEF PassOk
      <3>. QED  BY <3>1, <1>6, <1>7 DEF SentOf
    <2>3. TextOf(im, r)  BY <1>7 DEF PassOk, TextOf
    <2>4. ShownOf(r, i)
      <3> SUFFICES ASSUME NEW j \in 1..i, Graphic(r.blocks[j].lines)
                   PROVE  /\ specs[j].image # NoImage /\ Last(r.blocks[j].lines)[2] = specs[j].image[1]
                          /\ specs[j].image[1] \in r.pass.im.transmitted
        BY DEF ShownOf
      <3>1. CASE j = i  BY <3>1, <1>1, <1>3, <1>7
      <3>2. CASE j \in 1..(i - 1)  BY <3>2, <1>3, <1>7 DEF PassOk, ShownOf
      <3>. QED  BY <3>1, <3>2, <1>5
    <2>. QED  BY <2>1, <2>2, <2>3, <2>4, <1>7 DEF PassOk
  <1>8. CASE /\ LaidOut(lines, acc, specs[i], cols) /\ specs[i].image # NoImage
             /\ r.pass = RenderImage(acc.pass, specs[i].image[1], specs[i].image[2], cols)
    <2> DEFINE key == specs[i].image[1]  pic == specs[i].image[2]
               a == acc.pass.im  q == r.pass
               c == Component(a, key, pic)
               text == Suppressed(acc.pass)
               send == Sending(acc.pass, key, pic, cols)
               done == Marked(c, cols, text)
    <2>1. key \in Nat /\ pic \in Nat /\ specs[i].image = <<key, pic>>  BY <1>0, <1>8, ImageIs
    <2>2. /\ q.im.planned = a.planned /\ q.im.onTerminal = a.onTerminal
          /\ q.im.transmitted = (IF send THEN a.transmitted \cup {key} ELSE a.transmitted)
          /\ DOMAIN q.im.made = DOMAIN a.made \cup {key}
          /\ q.im.made[key] = done
          /\ \A k \in DOMAIN a.made \ {key} : q.im.made[k] = a.made[k]
          /\ q.seen = Append(acc.pass.seen, key)
          /\ q.sends = (IF send THEN Append(acc.pass.sends, <<key, c.pic>>) ELSE acc.pass.sends)
      <3> DEFINE p == acc.pass  k == key  w == pic
      <3>1. p \in Passes /\ k \in Nat /\ w \in Nat  BY <1>2, <2>1
      <3> DEFINE d == cols
      <3>2. q = RenderImage(p, k, w, d) /\ d \in Nat  BY <1>0, <1>8
      <3> HIDE DEF p, k, w, d
      <3>3. Renders(p, k, w, d, RenderImage(p, k, w, d))  BY <3>1, <3>2, RenderedImage
      <3>. QED  BY <3>2, <3>3, Zenon DEF p, k, w, d, Renders
    <2>3. /\ a \in ImageStates /\ acc.pass.seen \in Seq(Nat) /\ acc.pass.sends \in Seq(Nat \X Nat)
          /\ a.planned = im.planned /\ a.onTerminal = im.onTerminal /\ MadeFor(a) /\ CacheTold(a)
          /\ a.planned \in Nat /\ a.transmitted \in SUBSET Nat
      BY <1>2 DEF PassOk, Passes, ImageStates
    <2>4. c \in Components /\ (key \in DOMAIN a.made => c = a.made[key])
          /\ (key \notin DOMAIN a.made => c = [pic |-> pic, width |-> 0, text |-> FALSE])
      <3>1. a \in ImageStates /\ key \in Nat /\ pic \in Nat  BY <2>1, <2>3
      <3> HIDE DEF a, key, pic
      <3>. QED  BY <3>1, ComponentFits
    <2>5. specs[i].image \in ImagesOf(specs)  BY <1>0, <1>8 DEF ImagesOf
    <2>6. c.pic = pic  BY <2>3, <2>4, <2>5 DEF MadeFor
    <2>7. text \in BOOLEAN /\ (text <=> Early(im, Len(acc.pass.seen) + 1))
      BY <2>3 DEF Suppressed, Early
    <2>8. done.pic = pic /\ done.width = cols /\ done.text = text
      <3> HIDE DEF c, text
      <3>. QED  BY <2>4, <2>6 DEF Marked, Components
    <2>9. (send => ~text /\ key \notin a.transmitted) /\ (~text /\ ~send => key \in a.transmitted)
      <3>1. send <=> (~(c.width = cols /\ c.text = text) /\ ~text /\ key \notin a.transmitted)  BY DEF Sending
      <3> HIDE DEF send
      <3>2. CASE c.width = cols /\ c.text = text /\ ~text
        <4>1. key \in DOMAIN a.made /\ c = a.made[key]
          <5> HIDE DEF c, text
          <5>. QED  BY <3>2, <2>4, <1>0
        <4>. QED  BY <4>1, <3>1, <3>2, <2>3, <1>0 DEF CacheTold
      <3>. QED  BY <3>1, <3>2
    <2>10. \A n \in DOMAIN q.seen : \/ n \in DOMAIN acc.pass.seen /\ q.seen[n] = acc.pass.seen[n]
                                    \/ n = Len(acc.pass.seen) + 1 /\ q.seen[n] = key
      <3> DEFINE seen == acc.pass.seen  more == Append(seen, key)
      <3>1. seen \in Seq(Nat) /\ q.seen = more  BY <2>2, <2>3
      <3> HIDE DEF seen
      <3>2. \A n \in DOMAIN more : (n \in DOMAIN seen /\ more[n] = seen[n]) \/ (n = Len(seen) + 1 /\ more[n] = key)
        BY <2>1, <3>1, AppendedIs
      <3>. QED  BY <3>1, <3>2, Zenon DEF seen
    <2> HIDE DEF key, pic, a, q, c, text, send, done
    <2>11. \A n \in DOMAIN acc.pass.seen : acc.pass.seen[n] # key
      <3> SUFFICES ASSUME NEW n \in DOMAIN acc.pass.seen, acc.pass.seen[n] = key PROVE FALSE  OBVIOUS
      <3>1. PICK j \in 1..(i - 1) : specs[j].image # NoImage /\ acc.pass.seen[n] = specs[j].image[1]
        BY DEF PassOk, SeenOf
      <3>2. j \in DOMAIN specs /\ j # i  BY <1>0
      <3>3. specs[j].image[1] = specs[i].image[1]  BY <3>1 DEF key
      <3>. QED  BY <1>0, <1>8, <3>1, <3>2, <3>3, OwnKey
    <2>12. Graphic(lines) => ~text /\ Last(lines)[2] = key
      <3>1. cols \in Nat  BY <1>0
      <3>. QED  BY <1>0, <1>2, <1>8, <3>1, LaidOutShows DEF text, key
    <2>13. ~text => key \in q.im.transmitted  BY <2>2, <2>9
    <2>14. a.transmitted \subseteq q.im.transmitted  BY <2>2
    <2>15. SeenOf(im, r, i)
      <3> SUFFICES ASSUME NEW n \in DOMAIN q.seen
                   PROVE  \E j \in 1..i : /\ specs[j].image # NoImage /\ q.seen[n] = specs[j].image[1]
                                          /\ Early(im, n) => ~Graphic(r.blocks[j].lines)
        BY DEF SeenOf, q
      <3>1. CASE n \in DOMAIN acc.pass.seen /\ q.seen[n] = acc.pass.seen[n]
        <4>1. PICK j \in 1..(i - 1) : /\ specs[j].image # NoImage /\ acc.pass.seen[n] = specs[j].image[1]
                                      /\ Early(im, n) => ~Graphic(acc.blocks[j].lines)
          BY <3>1 DEF PassOk, SeenOf
        <4>. QED  BY <4>1, <3>1, <1>3, <1>6
      <3>2. CASE n = Len(acc.pass.seen) + 1 /\ q.seen[n] = key
        <4>1. Early(im, n) => ~Graphic(r.blocks[i].lines)  BY <3>2, <2>7, <2>12, <1>1, <1>3
        <4>2. i \in 1..i  BY <1>0
        <4>. QED  BY <4>1, <4>2, <3>2, <1>8 DEF key
      <3>. QED  BY <3>1, <3>2, <2>10
    <2>16. SentOf(im, r, i)
      <3>0. SentOf(im, acc, i - 1)  BY DEF PassOk
      <3>1. CASE send
        <4> DEFINE sends == acc.pass.sends  e == <<key, pic>>  more == Append(sends, e)
        <4>1. q.sends = more /\ q.im.transmitted = a.transmitted \cup {key}  BY <3>1, <2>2, <2>6
        <4>2. sends \in Seq(Nat \X Nat) /\ e \in Nat \X Nat /\ e[1] = key
          <5>1. key \in Nat /\ pic \in Nat  BY <2>1
          <5>. QED  BY <2>3, <5>1
        <4>2a. e = specs[i].image  BY <2>1
        <4> HIDE DEF sends, e
        <4>3. SentKeys(more) = SentKeys(sends) \cup {e[1]}  BY <4>2, OneSentMore
        <4>4. a.transmitted = im.transmitted \cup SentKeys(sends)  BY <3>0 DEF SentOf, a, sends
        <4>5. q.im.transmitted = im.transmitted \cup SentKeys(more)  BY <4>1, <4>2, <4>3, <4>4
        <4>6. \A m \in DOMAIN more : (m \in DOMAIN sends /\ more[m] = sends[m]) \/ more[m] = e
          BY <4>2, AppendedIs
        <4> HIDE DEF more
        <4>7. key \notin im.transmitted  BY <3>1, <2>9, <4>4
        <4>8. ASSUME NEW m \in DOMAIN more
              PROVE  more[m][1] \notin im.transmitted
                     /\ \E j \in 1..i : specs[j].image # NoImage /\ more[m] = specs[j].image
          <5>1. CASE m \in DOMAIN sends /\ more[m] = sends[m]
            <6>1. /\ sends[m][1] \notin im.transmitted
                  /\ \E j \in 1..(i - 1) : specs[j].image # NoImage /\ sends[m] = specs[j].image
              BY <3>0, <5>1 DEF SentOf, sends
            <6>. QED  BY <6>1, <5>1, <1>6
          <5>2. CASE more[m] = e
            <6>1. i \in 1..i  BY <1>0
            <6>. QED  BY <5>2, <6>1, <4>2, <4>2a, <4>7, <1>8
          <5>. QED  BY <5>1, <5>2, <4>6
        <4>. QED  BY <4>1, <4>5, <4>8 DEF SentOf, q
      <3>2. CASE ~send
        <4>1. q.sends = acc.pass.sends /\ q.im.transmitted = a.transmitted  BY <3>2, <2>2
        <4>. QED  BY <3>0, <4>1, <1>6 DEF SentOf, q, a
      <3>. QED  BY <3>1, <3>2
    <2>17. TextOf(im, r)
      <3> SUFFICES ASSUME NEW n \in DOMAIN q.seen, Early(im, n)
                   PROVE  q.seen[n] \in DOMAIN q.im.made /\ q.im.made[q.seen[n]].text
        BY DEF TextOf, q
      <3>1. CASE n \in DOMAIN acc.pass.seen /\ q.seen[n] = acc.pass.seen[n]
        <4>1. acc.pass.seen[n] \in DOMAIN a.made /\ a.made[acc.pass.seen[n]].text  BY <3>1 DEF PassOk, TextOf, a
        <4>2. acc.pass.seen[n] # key  BY <3>1, <2>11
        <4>. QED  BY <3>1, <4>1, <4>2, <2>2
      <3>2. CASE n = Len(acc.pass.seen) + 1 /\ q.seen[n] = key
        <4>1. text  BY <3>2, <2>7
        <4>. QED  BY <3>2, <4>1, <2>2, <2>8
      <3>. QED  BY <3>1, <3>2, <2>10
    <2>18. ShownOf(r, i)
      <3> SUFFICES ASSUME NEW j \in 1..i, Graphic(r.blocks[j].lines)
                   PROVE  /\ specs[j].image # NoImage /\ Last(r.blocks[j].lines)[2] = specs[j].image[1]
                          /\ specs[j].image[1] \in q.im.transmitted
        BY DEF ShownOf, q
      <3>1. CASE j = i  BY <3>1, <1>1, <1>3, <1>8, <2>12, <2>13 DEF key
      <3>2. CASE j \in 1..(i - 1)
        <4>1. /\ specs[j].image # NoImage /\ Last(acc.blocks[j].lines)[2] = specs[j].image[1]
              /\ specs[j].image[1] \in a.transmitted
          BY <3>2, <1>3 DEF PassOk, ShownOf, a
        <4>. QED  BY <3>2, <4>1, <1>3, <2>14
      <3>. QED  BY <3>1, <3>2, <1>5
    <2>19. MadeFor(q.im)
      <3> SUFFICES ASSUME NEW b \in ImagesOf(specs), b[1] \in DOMAIN q.im.made PROVE q.im.made[b[1]].pic = b[2]
        BY DEF MadeFor
      <3>1. CASE b[1] = key
        <4>1. b = specs[i].image  BY <3>1, <2>5 DEF OneKeyEach, key
        <4>. QED  BY <3>1, <4>1, <2>2, <2>8 DEF pic
      <3>2. CASE b[1] # key
        <4>1. b[1] \in DOMAIN a.made /\ q.im.made[b[1]] = a.made[b[1]]  BY <3>2, <2>2
        <4>. QED  BY <4>1, <2>3 DEF MadeFor
      <3>. QED  BY <3>1, <3>2
    <2>20. CacheTold(q.im)
      <3> SUFFICES ASSUME NEW k \in DOMAIN q.im.made, q.im.made[k].width # 0, ~q.im.made[k].text
                   PROVE  k \in q.im.transmitted
        BY DEF CacheTold
      <3>1. CASE k = key  BY <3>1, <2>2, <2>8, <2>13
      <3>2. CASE k # key
        <4>1. k \in DOMAIN a.made /\ q.im.made[k] = a.made[k]  BY <3>2, <2>2
        <4>2. k \in a.transmitted  BY <4>1, <2>3 DEF CacheTold
        <4>. QED  BY <4>2, <2>14
      <3>. QED  BY <3>1, <3>2
    <2>21. r.pass.im.planned = im.planned /\ r.pass.im.onTerminal = im.onTerminal  BY <2>2, <2>3 DEF q
    <2>. QED  BY <2>15, <2>16, <2>17, <2>18, <2>19, <2>20, <2>21 DEF PassOk, q
  <1>9. CASE Kept(tr, tr.blocks[i], specs[i], cols) /\ lines = tr.blocks[i].lines
             /\ now.spec = tr.blocks[i].spec /\ r.pass = acc.pass
    <2>1. tr.blocks[i].built /\ i \in DOMAIN tr.blocks
      <3>1. tr.blocks \in Seq(BlockStates)  BY DEF Transcripts
      <3>. QED  BY <1>9, <1>0, <3>1 DEF Kept
    <2>2. Graphic(lines) => /\ specs[i].image # NoImage /\ Last(lines)[2] = specs[i].image[1]
                            /\ specs[i].image[1] \in im.transmitted
      BY <2>1, <1>4, <1>9 DEF NamesOwn
    <2>3. im.transmitted \subseteq acc.pass.im.transmitted  BY DEF PassOk, SentOf
    <2>. QED  BY <1>7, <1>9, <2>2, <2>3
  <1>10. CASE /\ LaidOut(lines, acc, specs[i], cols) /\ specs[i].image = NoImage /\ r.pass = ShownBy(acc, specs[i], cols)
    <2>1. r.pass = acc.pass  BY <1>10 DEF ShownBy
    <2>2. ~Graphic(lines)  BY <1>0, <1>2, <1>10, LaidOutShows
    <2>. QED  BY <1>7, <2>1, <2>2
  <1>11. ShownBy(acc, specs[i], cols) = IF specs[i].image = NoImage THEN acc.pass
                                        ELSE RenderImage(acc.pass, specs[i].image[1], specs[i].image[2], cols)
    BY DEF ShownBy
  <1>. QED  BY <1>1, <1>8, <1>9, <1>10, <1>11

LEMMA BeginFits ==
  ASSUME NEW im \in ImageStates
  PROVE  /\ BeginPass(im) \in Passes
         /\ BeginPass(im).im = im /\ BeginPass(im).seen = <<>> /\ BeginPass(im).sends = <<>>
  <1>1. <<>> \in Seq(Nat) /\ <<>> \in Seq(Nat \X Nat)  OBVIOUS
  <1>. QED  BY <1>1 DEF BeginPass, Passes

LEMMA PassUpTo ==
  ASSUME specs \in Seq(Specs), hide \in BOOLEAN, cols \in Nat \ {0}, Numbered, OneKeyEach,
         NEW tr \in Transcripts, Len(tr.blocks) = Len(specs), Known(tr.blocks),
         tr.valid /\ tr.claim > 0 => Matching(tr.blocks),
         NEW im \in ImageStates, MadeFor(im), CacheTold(im),
         \A j \in DOMAIN tr.blocks : tr.blocks[j].built => NamesOwn(tr.blocks[j], im.transmitted)
  PROVE  PassOk(im, Layout(tr, cols, BeginPass(im))[Len(specs)], Len(specs))
  <1> DEFINE n == Len(specs)
             pass == BeginPass(im)
             L == Layout(tr, cols, pass)
             S == {i \in 0..n : PassOk(im, L[i], i)}
  <1>0. n \in Nat /\ cols \in Nat /\ pass \in Passes /\ pass.im = im /\ pass.seen = <<>> /\ pass.sends = <<>>
    BY BeginFits
  <1> HIDE DEF pass
  <1>1. /\ L[0] = [at |-> 0, above |-> None, blocks |-> <<>>, lines |-> <<>>, pass |-> pass]
        /\ \A i \in 1..n : L[i] = Laid(tr, cols, L[i - 1], i)
    BY LayoutUnfolds
  <1>2. \A i \in 0..n : /\ L[i] \in Layouts(i)
                        /\ \A j \in DOMAIN L[i].blocks : L[i].blocks[j].built /\ L[i].blocks[j].spec = specs[j]
    BY <1>0, LayoutIsCurrent
  <1> HIDE DEF L
  <1>3. PassOk(im, L[0], 0)
    <2> DEFINE acc == L[0]
    <2>1. acc.pass = pass  BY <1>1
    <2> HIDE DEF acc
    <2>2. DOMAIN acc.pass.seen = {} /\ DOMAIN acc.pass.sends = {}  BY <1>0, <2>1
    <2>3. SeenOf(im, acc, 0) /\ TextOf(im, acc)  BY <2>2 DEF SeenOf, TextOf
    <2>4. SentOf(im, acc, 0)
      <3>1. SentKeys(acc.pass.sends) = {}  BY <2>2 DEF SentKeys
      <3>. QED  BY <3>1, <2>1, <2>2, <1>0 DEF SentOf
    <2>5. ShownOf(acc, 0)  BY DEF ShownOf
    <2>. QED  BY <1>0, <2>1, <2>3, <2>4, <2>5 DEF PassOk, acc
  <1>4. ASSUME NEW i \in 1..n, PassOk(im, L[i - 1], i - 1) PROVE PassOk(im, L[i], i)
    <2> DEFINE acc == L[i - 1]  r == L[i]
    <2>1. acc \in Layouts(i - 1) /\ r \in Layouts(i) /\ r = Laid(tr, cols, acc, i) /\ PassOk(im, acc, i - 1)
      BY <1>0, <1>1, <1>2, <1>4
    <2>2. r.blocks[i].spec = specs[i]
      <3>1. i \in 0..n /\ i \in DOMAIN r.blocks  BY <1>0, <2>1 DEF Layouts
      <3>. QED  BY <3>1, <1>2
    <2> HIDE DEF acc, r
    <2>3. LaysOut(tr, cols, acc, i, r)  BY <1>0, <2>1, LaidIs
    <2>4. PassOk(im, r, i)  BY <2>1, <2>2, <2>3, PassStep
    <2>. QED  BY <2>4 DEF r
  <1>5. \A i \in 0..n : i \in S
    <2>1. 0 \in S  BY <1>0, <1>3
    <2>2. ASSUME NEW i \in 1..n, i - 1 \in S PROVE i \in S
      <3>1. PassOk(im, L[i - 1], i - 1) /\ i \in 0..n  BY <2>2
      <3>. QED  BY <3>1, <1>4
    <2> HIDE DEF S, n
    <2>. QED  BY <1>0, <2>1, <2>2, UpTo
  <1>6. n \in S  BY <1>0, <1>5
  <1>. QED  BY <1>6 DEF L, pass

(* What a paint makes of the images.                                       *)
LEMMA PassHolds ==
  ASSUME Inv, Numbered, OneKeyEach, MadeFor(images), CacheTold(images),
         \A j \in DOMAIN t.blocks : NamesOwn(t.blocks[j], images.transmitted)
  PROVE  \E acc \in Layouts(Len(specs)) :
           /\ acc.blocks = Show.t.blocks /\ acc.pass = Show.pass
           /\ \A j \in 1..Len(specs) : acc.blocks[j].spec = specs[j]
           /\ PassOk(images, acc, Len(specs))
  <1> USE DEF Inv
  <1> DEFINE n == Len(specs)
             checked == [Claimed EXCEPT !.valid = @ /\ Claimed.width = cols]
             synced == SyncBlocks(checked)
             pass   == BeginPass(images)
             laid   == Layout(synced, cols, pass)[n]
  <1>0. /\ cols \in Nat \ {0} /\ specs \in Seq(Specs) /\ hide \in BOOLEAN /\ images \in ImageStates /\ n \in Nat
        /\ cols \in Nat
    BY CompositionAssumption DEF TypeOK
  <1>1. Claimed \in Transcripts /\ Claimed.blocks = t.blocks /\ (Claimed.claim > 0 => Matching(t.blocks))
    BY Shows
  <1>2. checked \in Transcripts /\ checked.blocks = t.blocks /\ checked.claim = Claimed.claim
    BY <1>1 DEF Transcripts
  <1>3. Show.t.blocks = laid.blocks /\ Show.pass = laid.pass
    <2> DEFINE tr == Claimed
    <2>1. Show = TranscriptRender(tr, cols, pass)  BY DEF Show
    <2>2. tr \in Transcripts  BY <1>1
    <2> HIDE DEF tr
    <2>3. /\ TranscriptRender(tr, cols, pass).pass =
               Layout(SyncBlocks([tr EXCEPT !.valid = @ /\ tr.width = cols]), cols, pass)[Len(specs)].pass
          /\ TranscriptRender(tr, cols, pass).t.blocks =
               Layout(SyncBlocks([tr EXCEPT !.valid = @ /\ tr.width = cols]), cols, pass)[Len(specs)].blocks
      BY <2>2 DEF TranscriptRender, Transcripts
    <2>. QED  BY <2>1, <2>3 DEF tr
  <1> HIDE DEF checked
  <1>4. /\ synced \in Transcripts /\ Len(synced.blocks) = n /\ synced.claim = Claimed.claim
        /\ Known(synced.blocks) /\ (Matching(t.blocks) => Matching(synced.blocks))
        /\ \A i \in DOMAIN specs : synced.blocks[i].built => i \in DOMAIN t.blocks /\ synced.blocks[i] = t.blocks[i]
    BY <1>0, <1>2, Synced DEF KeptInv
  <1> HIDE DEF synced
  <1>5. \A j \in DOMAIN synced.blocks : synced.blocks[j].built => NamesOwn(synced.blocks[j], images.transmitted)
    <2>1. synced.blocks \in Seq(BlockStates)  BY <1>4 DEF Transcripts
    <2>2. DOMAIN synced.blocks = DOMAIN specs  BY <1>0, <1>4, <2>1
    <2>. QED  BY <1>4, <2>2
  <1>6. synced.valid /\ synced.claim > 0 => Matching(synced.blocks)  BY <1>1, <1>4
  <1>7. pass \in Passes  BY <1>0, BeginFits
  <1>8. n \in 0..Len(specs)  BY <1>0
  <1>9. laid \in Layouts(n) /\ \A j \in DOMAIN laid.blocks : laid.blocks[j].built /\ laid.blocks[j].spec = specs[j]
    <2> HIDE DEF pass
    <2>. QED  BY <1>0, <1>4, <1>6, <1>7, <1>8, LayoutIsCurrent
  <1>10. PassOk(images, laid, n)  BY <1>0, <1>4, <1>5, <1>6, PassUpTo
  <1> HIDE DEF laid
  <1>11. DOMAIN laid.blocks = 1..n  BY <1>0, <1>9 DEF Layouts
  <1>. QED  BY <1>3, <1>9, <1>10, <1>11

-----------------------------------------------------------------------------
(* A request brings the terminal a picture, or leaves it there.            *)
Brings(s, sends, purges, key, pic) ==
  /\ key \notin purges
  /\ \A n \in DOMAIN sends : sends[n][1] = key => sends[n][2] = pic
  /\ key \in SentKeys(sends) \/ (key \in DOMAIN s /\ s[key] = pic)

(* What the budget believes loaded is, or will be when the request that    *)
(* waits is drawn: it is not deleted by it, and it is sent as the picture  *)
(* it is to be.                                                            *)
HasPicture(key, pic) ==
  IF pending = None THEN key \in DOMAIN store /\ store[key] = pic
  ELSE Brings(store, pending.sends, pending.purges, key, pic)

Believed == \A a \in ImagesOf(specs) : a[1] \in images.transmitted => HasPicture(a[1], a[2])
Promised == pending # None => SentKeys(pending.sends) \subseteq images.transmitted \cup pending.purges
Retained ==
  \A j \in DOMAIN t.blocks :
    /\ NamesOwn(t.blocks[j], images.transmitted)
    /\ Graphic(t.blocks[j].lines) => HasPicture(t.blocks[j].spec.image[1], t.blocks[j].spec.image[2])

GraphicsInv ==
  /\ Numbered
  /\ ~muddled => /\ OneKeyEach /\ MadeFor(images) /\ CacheTold(images)
                 /\ Believed /\ Promised /\ Retained

LEMMA LoadsPicture ==
  ASSUME NEW s \in Stores, NEW sends \in Seq(Nat \X Nat), NEW purges, NEW key, NEW pic,
         Brings(s, sends, purges, key, pic)
  PROVE  /\ key \in DOMAIN Loaded(s, sends) /\ Loaded(s, sends)[key] = pic
         /\ key \in DOMAIN Loaded(Deleted(s, purges), sends) /\ Loaded(Deleted(s, purges), sends)[key] = pic
         /\ key \in DOMAIN Deleted(Loaded(s, sends), purges) /\ Deleted(Loaded(s, sends), purges)[key] = pic
  <1>0. /\ key \notin purges
        /\ \A n \in DOMAIN sends : sends[n][1] = key => sends[n][2] = pic
        /\ key \in SentKeys(sends) \/ (key \in DOMAIN s /\ s[key] = pic)
    BY DEF Brings
  <1>1. ASSUME NEW u \in Stores, key \in SentKeys(sends) \/ (key \in DOMAIN u /\ u[key] = pic)
        PROVE  key \in DOMAIN Loaded(u, sends) /\ Loaded(u, sends)[key] = pic
    <2> DEFINE l == Loaded(u, sends)
    <2>1. /\ DOMAIN l = DOMAIN u \cup SentKeys(sends)
          /\ \A k \in DOMAIN u \ SentKeys(sends) : l[k] = u[k]
          /\ \A k \in SentKeys(sends) : \E n \in DOMAIN sends : sends[n][1] = k /\ l[k] = sends[n][2]
      BY LoadedIs
    <2> HIDE DEF l
    <2>2. CASE key \in SentKeys(sends)
      <3>1. PICK n \in DOMAIN sends : sends[n][1] = key /\ l[key] = sends[n][2]  BY <2>1, <2>2
      <3>. QED  BY <3>1, <2>1, <2>2, <1>0 DEF l
    <2>3. CASE key \notin SentKeys(sends)  BY <2>1, <2>3, <1>1 DEF l
    <2>. QED  BY <2>2, <2>3
  <1>2. key \in DOMAIN Loaded(s, sends) /\ Loaded(s, sends)[key] = pic  BY <1>0, <1>1
  <1>3. Deleted(s, purges) \in Stores  BY StoresFit
  <1>4. key \in DOMAIN s /\ s[key] = pic => key \in DOMAIN Deleted(s, purges) /\ Deleted(s, purges)[key] = pic
    BY <1>0 DEF Deleted
  <1>5. key \in DOMAIN Loaded(Deleted(s, purges), sends) /\ Loaded(Deleted(s, purges), sends)[key] = pic
    BY <1>0, <1>1, <1>3, <1>4
  <1>6. key \in DOMAIN Deleted(Loaded(s, sends), purges) /\ Deleted(Loaded(s, sends), purges)[key] = pic
    BY <1>0, <1>2 DEF Deleted
  <1>. QED  BY <1>2, <1>5, <1>6

(* A draw loads what its request promised. *)
LEMMA DrawLoads ==
  ASSUME TypeOK, pending # None, pending' = None,
         \/ store' = Loaded(store, pending.sends)
         \/ store' = Loaded(Deleted(store, pending.purges), pending.sends)
         \/ store' = Deleted(Loaded(store, pending.sends), pending.purges),
         UNCHANGED <<specs, images, muddled>>, t'.blocks = t.blocks, GraphicsInv
  PROVE  GraphicsInv'
  <1>1. store \in Stores /\ pending.sends \in Seq(Nat \X Nat)  BY DEF TypeOK, Requests
  <1>2. ASSUME NEW key, NEW pic, HasPicture(key, pic) PROVE key \in DOMAIN store' /\ store'[key] = pic
    <2> DEFINE sends == pending.sends  purges == pending.purges  s == store
    <2>1. Brings(s, sends, purges, key, pic)  BY <1>2 DEF HasPicture, Brings
    <2>2. \/ store' = Loaded(s, sends) \/ store' = Loaded(Deleted(s, purges), sends)
          \/ store' = Deleted(Loaded(s, sends), purges)
      OBVIOUS
    <2>3. s \in Stores /\ sends \in Seq(Nat \X Nat)  BY <1>1
    <2> HIDE DEF sends, purges, s
    <2>4. /\ key \in DOMAIN Loaded(s, sends) /\ Loaded(s, sends)[key] = pic
          /\ key \in DOMAIN Loaded(Deleted(s, purges), sends) /\ Loaded(Deleted(s, purges), sends)[key] = pic
          /\ key \in DOMAIN Deleted(Loaded(s, sends), purges) /\ Deleted(Loaded(s, sends), purges)[key] = pic
      BY <2>1, <2>3, LoadsPicture
    <2>. QED  BY <2>2, <2>4
  <1>3. Numbered'  BY DEF GraphicsInv, Numbered
  <1>4. SUFFICES ASSUME ~muddled' PROVE (/\ OneKeyEach /\ MadeFor(images) /\ CacheTold(images)
                                         /\ Believed /\ Promised /\ Retained)'
    BY <1>3 DEF GraphicsInv
  <1>5. OneKeyEach /\ MadeFor(images) /\ CacheTold(images) /\ Believed /\ Retained  BY <1>4 DEF GraphicsInv
  <1>6. OneKeyEach' /\ MadeFor(images)' /\ CacheTold(images)'
    BY <1>5 DEF OneKeyEach, MadeFor, CacheTold, ImagesOf
  <1>7. Believed'
    <2> SUFFICES ASSUME NEW a \in ImagesOf(specs), a[1] \in images.transmitted
                 PROVE  a[1] \in DOMAIN store' /\ store'[a[1]] = a[2]
      BY DEF Believed, HasPicture, ImagesOf
    <2>. QED  BY <1>2, <1>5 DEF Believed
  <1>8. Promised'  BY DEF Promised
  <1>9. Retained'
    <2> SUFFICES ASSUME NEW j \in DOMAIN t.blocks
                 PROVE  /\ NamesOwn(t.blocks[j], images.transmitted)
                        /\ Graphic(t.blocks[j].lines) =>
                             LET b == t.blocks[j]
                             IN  b.spec.image[1] \in DOMAIN store' /\ store'[b.spec.image[1]] = b.spec.image[2]
      BY DEF Retained, HasPicture
    <2>. QED  BY <1>2, <1>5 DEF Retained
  <1>. QED  BY <1>6, <1>7, <1>8, <1>9

LEMMA GraphicsUntouched ==
  ASSUME GraphicsInv, UNCHANGED <<specs, images, muddled, pending, store>>, t'.blocks = t.blocks
  PROVE  GraphicsInv'
  <1>1. \A key, pic : HasPicture(key, pic)' <=> HasPicture(key, pic)  BY DEF HasPicture
  <1>2. Numbered'  BY DEF GraphicsInv, Numbered
  <1>3. ~muddled => (/\ OneKeyEach /\ MadeFor(images) /\ CacheTold(images))'
    BY DEF GraphicsInv, OneKeyEach, MadeFor, CacheTold, ImagesOf
  <1>4. ~muddled => Believed' /\ Promised'  BY <1>1 DEF GraphicsInv, Believed, Promised, ImagesOf
  <1>5. ~muddled => Retained'  BY <1>1 DEF GraphicsInv, Retained
  <1>. QED  BY <1>2, <1>3, <1>4, <1>5 DEF GraphicsInv

(* Retained rows are forgotten. *)
LEMMA GraphicsForgotten ==
  ASSUME GraphicsInv, UNCHANGED <<specs, images, muddled, pending, store>>,
         \A j \in DOMAIN t'.blocks : t'.blocks[j].lines = <<>>
  PROVE  GraphicsInv'
  <1>1. \A key, pic : HasPicture(key, pic)' <=> HasPicture(key, pic)  BY DEF HasPicture
  <1>2. Numbered'  BY DEF GraphicsInv, Numbered
  <1>3. ~muddled => (/\ OneKeyEach /\ MadeFor(images) /\ CacheTold(images))'
    BY DEF GraphicsInv, OneKeyEach, MadeFor, CacheTold, ImagesOf
  <1>4. ~muddled => Believed' /\ Promised'  BY <1>1 DEF GraphicsInv, Believed, Promised, ImagesOf
  <1>5. Retained'  BY DEF Retained, NamesOwn, Graphic
  <1>. QED  BY <1>2, <1>3, <1>4, <1>5 DEF GraphicsInv

LEMMA GraphicsResized ==
  ASSUME GraphicsInv, images' = ClearImages(images), UNCHANGED <<specs, muddled, pending, store>>, t'.blocks = t.blocks,
         images \in ImageStates
  PROVE  GraphicsInv'
  <1>1. \A key, pic : HasPicture(key, pic)' <=> HasPicture(key, pic)  BY DEF HasPicture
  <1>2. Numbered'  BY DEF GraphicsInv, Numbered
  <1>3. images'.transmitted = images.transmitted /\ DOMAIN images'.made = {}
    BY DEF ClearImages, ImageStates, NoComponents
  <1>4. MadeFor(images)' /\ CacheTold(images)'  BY <1>3 DEF MadeFor, CacheTold
  <1>5. ~muddled => OneKeyEach'  BY DEF GraphicsInv, OneKeyEach, ImagesOf
  <1>6. ~muddled => Believed' /\ Promised'  BY <1>1, <1>3 DEF GraphicsInv, Believed, Promised, ImagesOf
  <1>7. ~muddled => Retained'  BY <1>1, <1>3 DEF GraphicsInv, Retained
  <1>. QED  BY <1>2, <1>4, <1>5, <1>6, <1>7 DEF GraphicsInv

(* A change of the conversation: unless two of its images clash, the new   *)
(* ones have keys of which the budget knows nothing.                       *)
LEMMA SyncedImages ==
  ASSUME specs \in Seq(Specs), Numbered, Streams \/ Grows \/ Replaced
  PROVE  Numbered'
  <1>0. DOMAIN specs = 1..Len(specs) /\ Len(specs) \in Nat /\ \A i \in 1..Len(specs) : specs[i] \in Specs  OBVIOUS
  <1>1. CASE Streams
    <2>1. PICK i \in DOMAIN specs :
            LET body == specs[i].body
            IN  \/ specs' = [specs EXCEPT ![i].body = Append(body, 1)]
                \/ \E k \in DOMAIN body : specs' = [specs EXCEPT ![i].body[k] = 3 - @]
      BY <1>1 DEF Streams
    <2>2. PICK body : specs' = [specs EXCEPT ![i].body = body]  BY <2>1
    <2>3. specs[i] \in Specs  BY <1>0, <2>1
    <2> DEFINE new == [specs[i] EXCEPT !.body = body]
    <2>4. new.image = specs[i].image  BY <2>3 DEF Specs
    <2>5. specs' = [specs EXCEPT ![i] = new]  BY <2>2
    <2> HIDE DEF new
    <2>6. DOMAIN specs' = DOMAIN specs /\ \A j \in DOMAIN specs : specs'[j].image = specs[j].image
      BY <2>1, <2>4, <2>5
    <2>. QED  BY <2>6 DEF Numbered
  <1>2. CASE Grows
    <2> DEFINE n == Len(specs) + 1
    <2>1. PICK new \in Specs : specs' = Append(specs, new) /\ (new.image # NoImage => new.image[2] = n)
      <3>0. n \in Nat /\ 1 \in {1, 2}  OBVIOUS
      <3>1. ASSUME NEW group \in {"user"} \cup {"model" : i \in DOMAIN specs},
                   specs' = Append(specs, Block(n, group, << 1 >>, NoImage))
            PROVE  \E new \in Specs : specs' = Append(specs, new) /\ (new.image # NoImage => new.image[2] = n)
        <4>1. group \in Groups /\ NoImage \in Pictures  BY DEF Groups, Pictures
        <4> DEFINE new == Block(n, group, <<1>>, NoImage)
        <4>3. new \in Specs /\ new.image = NoImage  BY <3>0, <4>1, BlockFits
        <4> HIDE DEF new, n
        <4>. QED  BY <3>1, <4>3 DEF new
      <3>2. CASE specs' = Append(specs, Card(n))
        <4>1. Card(n) \in Specs /\ Card(n).image = <<n, n>>  BY <3>0, CardFits
        <4>. QED  BY <3>2, <4>1
      <3>3. CASE specs' = Append(specs, Block(n, "user", <<1>>, MessageImage(n)))
        <4>1. MessageImage(n) \in Pictures /\ "user" \in Groups /\ MessageImage(n)[2] = n
          BY <3>0 DEF MessageImage, Pictures, Groups
        <4> DEFINE new == Block(n, "user", <<1>>, MessageImage(n))
        <4>2. new \in Specs /\ new.image = MessageImage(n)  BY <3>0, <4>1, BlockFits
        <4> HIDE DEF new, n
        <4>. QED  BY <3>3, <4>1, <4>2 DEF new
      <3>. QED  BY <1>2, <3>1, <3>2, <3>3 DEF Grows
    <2>2. specs' \in Seq(Specs) /\ Len(specs') = n /\ specs'[n] = new
          /\ \A j \in DOMAIN specs : specs'[j] = specs[j]
      BY <2>1, <1>0, AppendProperties
    <2>3. DOMAIN specs' = 1..n  BY <2>2
    <2> SUFFICES ASSUME NEW j \in 1..n, specs'[j].image # NoImage PROVE specs'[j].image[2] = j
      BY <2>3 DEF Numbered
    <2>4. j = n \/ j \in DOMAIN specs  BY <1>0
    <2>. QED  BY <2>1, <2>2, <2>4 DEF Numbered
  <1>3. CASE Replaced
    <2>1. CASE specs' = <<>>
      <3>1. DOMAIN (<<>>) = {}  OBVIOUS
      <3>. QED  BY <2>1, <3>1 DEF Numbered
    <2>2. CASE specs' = Prompt(2)
      <3>1. Len(Prompt(2)) = 1 /\ Prompt(2) \in Seq(Specs) /\ Prompt(2)[1].image = NoImage  BY PromptFits
      <3>2. DOMAIN Prompt(2) = {1}  BY <3>1
      <3>. QED  BY <2>2, <3>1, <3>2 DEF Numbered
    <2>. QED  BY <1>3, <2>1, <2>2 DEF Replaced
  <1>. QED  BY <1>1, <1>2, <1>3

LEMMA SyncGraphics ==
  ASSUME TypeOK, GraphicsInv, Sync PROVE GraphicsInv'
  <1>1. /\ UNCHANGED <<pending, store, t, images>>
        /\ (Streams \/ Grows \/ Replaced) /\ muddled' = (muddled \/ Clash(specs'))
    BY DEF Sync, Change
  <1>2. Numbered'  BY <1>1, SyncedImages DEF TypeOK, GraphicsInv
  <1>3. \A key, pic : HasPicture(key, pic)' <=> HasPicture(key, pic)  BY <1>1 DEF HasPicture
  <1> SUFFICES ASSUME ~muddled' PROVE (/\ OneKeyEach /\ MadeFor(images) /\ CacheTold(images)
                                       /\ Believed /\ Promised /\ Retained)'
    BY <1>2 DEF GraphicsInv
  <1>4. ~muddled /\ ~Clash(specs')  BY <1>1
  <1>5. OneKeyEach /\ MadeFor(images) /\ CacheTold(images) /\ Believed /\ Promised /\ Retained
    BY <1>4 DEF GraphicsInv
  <1>6. ImagesOf(specs)' = ImagesOf(specs')  BY DEF ImagesOf
  <1>7. /\ \A a, b \in ImagesOf(specs') : ~(a # b /\ a[1] = b[1])
        /\ \A a \in ImagesOf(specs') : a \in ImagesOf(specs) \/ a[1] \notin Used(images)
    BY <1>4 DEF Clash
  <1>8. OneKeyEach'  BY <1>6, <1>7 DEF OneKeyEach
  <1>9. MadeFor(images)'  BY <1>1, <1>5, <1>6, <1>7 DEF MadeFor, Used
  <1>10. CacheTold(images)'  BY <1>1, <1>5 DEF CacheTold
  <1>11. Believed'  BY <1>1, <1>3, <1>5, <1>6, <1>7 DEF Believed, Used
  <1>12. Promised'  BY <1>1, <1>5 DEF Promised
  <1>13. Retained'  BY <1>1, <1>3, <1>5 DEF Retained
  <1>. QED  BY <1>8, <1>9, <1>10, <1>11, <1>12, <1>13

LEMMA InitGraphics == Init => GraphicsInv
  <1> SUFFICES ASSUME Init PROVE GraphicsInv  OBVIOUS
  <1> DEFINE n == world.cards
  <1>1. n \in Nat /\ specs = Prompt(1) \o [i \in 1..n |-> Card(i + 1)]  BY CompositionAssumption DEF Init
  <1> HIDE DEF n
  <1>2. specs \in Seq(Specs) /\ Len(specs) = n + 1 /\ specs[1].image = NoImage
        /\ \A i \in 2..(n + 1) : specs[i].image = <<i, i>>
    BY <1>1, FirstSpecs
  <1>3. \A i \in DOMAIN specs : i = 1 \/ i \in 2..(n + 1)  BY <1>1, <1>2
  <1>4. \A i \in DOMAIN specs : specs[i].image # NoImage => specs[i].image = <<i, i>>  BY <1>2, <1>3
  <1>5. Numbered  BY <1>4 DEF Numbered
  <1>6. OneKeyEach
    <2> SUFFICES ASSUME NEW a \in ImagesOf(specs), NEW b \in ImagesOf(specs), a[1] = b[1] PROVE a = b
      BY DEF OneKeyEach
    <2>1. PICK i \in DOMAIN specs : a = <<i, i>>  BY <1>4 DEF ImagesOf
    <2>2. PICK j \in DOMAIN specs : b = <<j, j>>  BY <1>4 DEF ImagesOf
    <2>. QED  BY <2>1, <2>2
  <1>7. images.transmitted = {} /\ DOMAIN images.made = {}  BY DEF Init, NewImages, NoComponents
  <1>8. MadeFor(images) /\ CacheTold(images) /\ Believed  BY <1>7 DEF MadeFor, CacheTold, Believed
  <1>9. Promised  BY DEF Init, Promised
  <1>10. Retained
    <2>1. DOMAIN t.blocks = {}  BY DEF Init
    <2>. QED  BY <2>1 DEF Retained
  <1>. QED  BY <1>5, <1>6, <1>8, <1>9, <1>10 DEF GraphicsInv

(* A paint adds what its pass sends to what is promised, and gives up what *)
(* it purges.                                                              *)
LEMMA JoinedKeys ==
  ASSUME NEW a \in Seq(Nat \X Nat), NEW b \in Seq(Nat \X Nat)
  PROVE  /\ SentKeys(a \o b) = SentKeys(a) \cup SentKeys(b)
         /\ \A n \in DOMAIN (a \o b) : \/ \E m \in DOMAIN a : (a \o b)[n] = a[m]
                                       \/ \E m \in DOMAIN b : (a \o b)[n] = b[m]
  <1> DEFINE c == a \o b
  <1>1. /\ Len(c) = Len(a) + Len(b)
        /\ \A i \in 1..Len(a) : c[i] = a[i]
        /\ \A i \in 1..Len(b) : c[Len(a) + i] = b[i]
    BY Paired
  <1>2. /\ c \in Seq(Nat \X Nat) /\ Len(a) \in Nat /\ Len(b) \in Nat
        /\ DOMAIN a = 1..Len(a) /\ DOMAIN b = 1..Len(b)
    BY ConcatProperties
  <1> HIDE DEF c
  <1>3. DOMAIN c = 1..(Len(a) + Len(b))  BY <1>1, <1>2
  <1>4. ASSUME NEW n \in DOMAIN c PROVE (\E m \in DOMAIN a : c[n] = a[m]) \/ (\E m \in DOMAIN b : c[n] = b[m])
    <2>1. CASE n \in 1..Len(a)  BY <2>1, <1>1, <1>2
    <2>2. CASE n \notin 1..Len(a)
      <3> DEFINE la == Len(a)  lb == Len(b)
      <3>0. la \in Nat /\ lb \in Nat /\ n \in 1..(la + lb) /\ n \notin 1..la  BY <2>2, <1>2, <1>3
      <3> HIDE DEF la, lb
      <3>1a. n - la \in 1..lb /\ n = la + (n - la)  BY <3>0
      <3>1. n - Len(a) \in 1..Len(b) /\ n = Len(a) + (n - Len(a))  BY <3>1a DEF la, lb
      <3>2. c[n] = b[n - Len(a)]  BY <3>1, <1>1
      <3>. QED  BY <3>1, <3>2, <1>2
    <2>. QED  BY <2>1, <2>2
  <1>5. ASSUME NEW k \in SentKeys(c) PROVE k \in SentKeys(a) \cup SentKeys(b)
    <2>1. PICK n \in DOMAIN c : k = c[n][1]  BY <1>5 DEF SentKeys
    <2>. QED  BY <2>1, <1>4 DEF SentKeys
  <1>6. ASSUME NEW k \in SentKeys(a) PROVE k \in SentKeys(c)
    <2>1. PICK n \in DOMAIN a : k = a[n][1]  BY <1>6 DEF SentKeys
    <2>2. n \in DOMAIN c /\ c[n] = a[n]  BY <2>1, <1>1, <1>2, <1>3
    <2>. QED  BY <2>1, <2>2 DEF SentKeys
  <1>7. ASSUME NEW k \in SentKeys(b) PROVE k \in SentKeys(c)
    <2>1. PICK n \in DOMAIN b : k = b[n][1]  BY <1>7 DEF SentKeys
    <2> DEFINE la == Len(a)  lb == Len(b)
    <2>1a. la \in Nat /\ lb \in Nat /\ n \in 1..lb /\ DOMAIN c = 1..(la + lb)  BY <2>1, <1>2, <1>3
    <2> HIDE DEF la, lb
    <2>1b. la + n \in DOMAIN c  BY <2>1a
    <2>2. Len(a) + n \in DOMAIN c /\ c[Len(a) + n] = b[n]  BY <2>1, <2>1b, <1>1, <1>2 DEF la
    <2>. QED  BY <2>1, <2>2 DEF SentKeys
  <1>. QED  BY <1>4, <1>5, <1>6, <1>7 DEF c

LEMMA PaintRequest ==
  ASSUME Inv, Paint
  PROVE  /\ pending' # None
         /\ Show.pass.sends \in Seq(Nat \X Nat) /\ (pending # None => pending.sends \in Seq(Nat \X Nat))
         /\ pending = None => pending'.sends = Show.pass.sends /\ pending'.purges = Purged(Show.pass)
         /\ pending # None => /\ pending'.sends = pending.sends \o Show.pass.sends
                              /\ pending'.purges = Purged(Show.pass) \cup pending.purges
  <1>1. pending \in Requests \cup {None} /\ images \in ImageStates  BY DEF Inv, TypeOK
  <1>2. Show.pass \in Passes  BY Shows
  <1>3. Show.pass.sends \in Seq(Nat \X Nat) /\ Purged(Show.pass) \in SUBSET Nat  BY <1>1, <1>2, PassesFit DEF Passes
  <1>4. /\ Frame \in Containers /\ Frame.lines = header.rows \o Show.t.lines \o editor.rows
        /\ Show.t \in Transcripts
    BY Frames, Shows
  <1>5. cols \in Nat /\ full \in BOOLEAN  BY CompositionAssumption DEF Inv, TypeOK
  <1> DEFINE req == Request
  <1>6. req \in Requests /\ req.sends = Show.pass.sends /\ req.purges = Purged(Show.pass)
    BY <1>3, <1>4, <1>5 DEF Request, Requests, Containers
  <1>7. pending' = Merged(pending, req)  BY PaintIs
  <1> HIDE DEF req
  <1>8. /\ Merged(pending, req) \in Requests
        /\ pending = None => Merged(pending, req) = req
        /\ pending # None => /\ Merged(pending, req).sends = pending.sends \o req.sends
                             /\ Merged(pending, req).purges = req.purges \cup pending.purges
    BY <1>1, <1>6, MergedFits
  <1>9. pending # None => pending.sends \in Seq(Nat \X Nat)  BY <1>1 DEF Requests
  <1>. QED  BY <1>3, <1>6, <1>7, <1>8, <1>9, NoneAssumption

LEMMA PaintGraphics ==
  ASSUME Inv, GraphicsInv, Paint PROVE GraphicsInv'
  <1> DEFINE pass == Show.pass  sends == pass.sends  sent == pass.im.transmitted  gone == Purged(pass)
             im == images  n == Len(specs)
  <1>1. /\ t' = TranscriptRead(Show.t) /\ images' = EndPass(pass) /\ muddled' = (muddled \/ Crosses)
        /\ specs' = specs /\ store' = store
    BY PaintIs
  <1>2. Numbered'  BY <1>1 DEF GraphicsInv, Numbered
  <1> SUFFICES ASSUME ~muddled, ~Crosses
               PROVE  (/\ OneKeyEach /\ MadeFor(images) /\ CacheTold(images) /\ Believed /\ Promised /\ Retained)'
    BY <1>1, <1>2 DEF GraphicsInv
  <1>3. Numbered /\ OneKeyEach /\ MadeFor(im) /\ CacheTold(im) /\ Believed /\ Promised /\ Retained
    BY DEF GraphicsInv
  <1>4. PICK acc \in Layouts(n) :
           /\ acc.blocks = Show.t.blocks /\ acc.pass = pass
           /\ \A j \in 1..n : acc.blocks[j].spec = specs[j]
           /\ PassOk(im, acc, n)
    BY <1>3, PassHolds DEF Retained
  <1>5. /\ pass \in Passes /\ Show.t \in Transcripts /\ specs \in Seq(Specs) /\ im \in ImageStates
        /\ DOMAIN specs = 1..n
    BY Shows DEF Inv, TypeOK
  <1>6. /\ images'.transmitted = sent \ gone /\ images'.made = pass.im.made
    BY <1>1, <1>5 DEF EndPass, StillSent, Passes, ImageStates
  <1>7. t'.blocks = acc.blocks /\ DOMAIN acc.blocks = 1..n
    BY <1>1, <1>4, <1>5 DEF TranscriptRead, Transcripts, Layouts
  <1>8. /\ SeenOf(im, acc, n) /\ SentOf(im, acc, n) /\ TextOf(im, acc) /\ ShownOf(acc, n)
        /\ MadeFor(pass.im) /\ CacheTold(pass.im) /\ pass.im.planned = im.planned
    BY <1>4 DEF PassOk
  <1>9. \A k \in gone : \E m \in DOMAIN pass.seen : pass.seen[m] = k /\ Early(im, m)
    <2>1. pass.im.planned \in Nat  BY <1>5 DEF Passes, ImageStates
    <2>. QED  BY <2>1, <1>8 DEF Purged, Resets, Early
  <1>10. /\ pending' # None
         /\ sends \in Seq(Nat \X Nat) /\ (pending # None => pending.sends \in Seq(Nat \X Nat))
         /\ pending = None => pending'.sends = sends /\ pending'.purges = gone
         /\ pending # None => pending'.sends = pending.sends \o sends /\ pending'.purges = gone \cup pending.purges
    BY PaintRequest
  <1>11. sent = im.transmitted \cup SentKeys(sends)
         /\ \A m \in DOMAIN sends : \E j \in DOMAIN specs : specs[j].image # NoImage /\ sends[m] = specs[j].image
    BY <1>4, <1>5, <1>8 DEF SentOf
  <1>12. \A k \in SentKeys(sends) : pending # None => k \notin pending.purges
    BY DEF Crosses, SentKeys
  <1> HIDE DEF pass, sends, sent, gone
  <1>13. ASSUME NEW a \in ImagesOf(specs), a[1] \in sent \ gone PROVE HasPicture(a[1], a[2])'
    <2> DEFINE key == a[1]  pic == a[2]
    <2>1. \A m \in DOMAIN sends : sends[m][1] = key => sends[m] = a
      <3> SUFFICES ASSUME NEW m \in DOMAIN sends, sends[m][1] = key PROVE sends[m] = a  OBVIOUS
      <3>1. sends[m] \in ImagesOf(specs)  BY <1>11 DEF ImagesOf
      <3>. QED  BY <3>1, <1>3 DEF OneKeyEach
    <2>2. key \in im.transmitted => HasPicture(key, pic)  BY <1>3 DEF Believed
    <2>3. key \in im.transmitted \/ key \in SentKeys(sends)  BY <1>11, <1>13
    <2>4. CASE pending = None
      <3>1. key \in im.transmitted => key \in DOMAIN store /\ store[key] = pic  BY <2>2, <2>4 DEF HasPicture
      <3>2. Brings(store, sends, gone, key, pic)  BY <3>1, <2>1, <2>3, <1>13 DEF Brings
      <3>. QED  BY <3>2, <2>4, <1>1, <1>10 DEF HasPicture
    <2>5. CASE pending # None
      <3> DEFINE old == pending.sends  both == old \o sends
      <3>1. /\ SentKeys(both) = SentKeys(old) \cup SentKeys(sends)
            /\ \A m \in DOMAIN both : (\E l \in DOMAIN old : both[m] = old[l]) \/ (\E l \in DOMAIN sends : both[m] = sends[l])
        BY <2>5, <1>10, JoinedKeys
      <3>2. key \in im.transmitted => Brings(store, old, pending.purges, key, pic)
        BY <2>2, <2>5 DEF HasPicture
      <3>3. key \notin pending.purges  BY <2>3, <2>5, <3>2, <1>12 DEF Brings
      <3>4. \A l \in DOMAIN old : old[l][1] = key => old[l][2] = pic
        <4>1. CASE key \in im.transmitted  BY <4>1, <3>2 DEF Brings
        <4>2. CASE key \notin im.transmitted
          <5>1. key \notin SentKeys(old)  BY <4>2, <3>3, <2>5, <1>3 DEF Promised
          <5>. QED  BY <5>1 DEF SentKeys
        <4>. QED  BY <4>1, <4>2
      <3>5. \A l \in DOMAIN sends : sends[l][1] = key => sends[l][2] = pic  BY <2>1
      <3>6. key \in SentKeys(both) \/ (key \in DOMAIN store /\ store[key] = pic)  BY <2>3, <3>1, <3>2 DEF Brings
      <3> HIDE DEF both, old
      <3>7. \A m \in DOMAIN both : both[m][1] = key => both[m][2] = pic  BY <3>1, <3>4, <3>5
      <3>8. key \notin gone \cup pending.purges  BY <3>3, <1>13
      <3>9. Brings(store, both, gone \cup pending.purges, key, pic)  BY <3>6, <3>7, <3>8 DEF Brings
      <3>10. pending'.sends = both /\ pending'.purges = gone \cup pending.purges  BY <2>5, <1>10 DEF both, old
      <3>. QED  BY <3>9, <3>10, <1>1, <1>10 DEF HasPicture
    <2>. QED  BY <2>4, <2>5
  <1>14. OneKeyEach'  BY <1>1, <1>3 DEF OneKeyEach, ImagesOf
  <1>15. MadeFor(images)'  BY <1>1, <1>6, <1>8 DEF MadeFor, ImagesOf
  <1>16. CacheTold(images)'
    <2> SUFFICES ASSUME NEW k \in DOMAIN pass.im.made, pass.im.made[k].width # 0, ~pass.im.made[k].text
                 PROVE  k \in sent \ gone
      BY <1>6 DEF CacheTold
    <2>1. k \in sent  BY <1>8 DEF CacheTold, sent
    <2>2. k \notin gone
      <3> SUFFICES ASSUME k \in gone PROVE FALSE  OBVIOUS
      <3>1. PICK m \in DOMAIN pass.seen : pass.seen[m] = k /\ Early(im, m)  BY <1>9
      <3>. QED  BY <3>1, <1>4, <1>8 DEF TextOf
    <2>. QED  BY <2>1, <2>2
  <1>17. Believed'
    <2>1. ImagesOf(specs)' = ImagesOf(specs)  BY <1>1 DEF ImagesOf
    <2>. QED  BY <2>1, <1>6, <1>13 DEF Believed
  <1>18. Promised'
    <2>1. SentKeys(sends) \subseteq sent /\ im.transmitted \subseteq sent  BY <1>11
    <2>2. CASE pending = None  BY <2>1, <2>2, <1>6, <1>10 DEF Promised
    <2>3. CASE pending # None
      <3> DEFINE old == pending.sends
      <3>1. SentKeys(old \o sends) = SentKeys(old) \cup SentKeys(sends)  BY <2>3, <1>10, JoinedKeys
      <3>2. SentKeys(old) \subseteq im.transmitted \cup pending.purges  BY <2>3, <1>3 DEF Promised
      <3>3. SentKeys(pending'.sends) = SentKeys(old) \cup SentKeys(sends)  BY <3>1, <2>3, <1>10
      <3> HIDE DEF old
      <3>. QED  BY <2>1, <2>3, <3>2, <3>3, <1>6, <1>10 DEF Promised
    <2>. QED  BY <2>2, <2>3
  <1>19. Retained'
    <2> SUFFICES ASSUME NEW j \in 1..n, Graphic(acc.blocks[j].lines)
                 PROVE  LET b == acc.blocks[j]
                        IN  /\ b.spec.image # NoImage /\ Last(b.lines)[2] = b.spec.image[1]
                            /\ b.spec.image[1] \in sent \ gone
                            /\ HasPicture(b.spec.image[1], b.spec.image[2])'
      BY <1>1, <1>6, <1>7 DEF Retained, NamesOwn, HasPicture
    <2>1. acc.blocks[j].spec = specs[j]  BY <1>4
    <2>2. /\ specs[j].image # NoImage /\ Last(acc.blocks[j].lines)[2] = specs[j].image[1]
          /\ specs[j].image[1] \in sent
      BY <1>4, <1>8 DEF ShownOf, sent
    <2>3. specs[j].image[1] \notin gone
      <3> SUFFICES ASSUME specs[j].image[1] \in gone PROVE FALSE  OBVIOUS
      <3>1. PICK m \in DOMAIN pass.seen : pass.seen[m] = specs[j].image[1] /\ Early(im, m)  BY <1>9
      <3>2. PICK i \in 1..n : /\ specs[i].image # NoImage /\ pass.seen[m] = specs[i].image[1]
                              /\ Early(im, m) => ~Graphic(acc.blocks[i].lines)
        BY <1>4, <1>8 DEF SeenOf
      <3>3. i = j  BY <1>3, <1>5, <2>2, <3>1, <3>2, OwnKey
      <3>. QED  BY <3>1, <3>2, <3>3
    <2>4. specs[j].image \in ImagesOf(specs)  BY <1>5, <2>2 DEF ImagesOf
    <2>5. PICK a : a = specs[j].image  OBVIOUS
    <2>6. a \in ImagesOf(specs) /\ a[1] \in sent \ gone  BY <2>2, <2>3, <2>4, <2>5
    <2>7. HasPicture(a[1], a[2])'  BY <2>6, <1>13
    <2>8. acc.blocks[j].spec.image = a  BY <2>1, <2>5
    <2>. QED  BY <2>1, <2>2, <2>3, <2>5, <2>7, <2>8
  <1>. QED  BY <1>14, <1>15, <1>16, <1>17, <1>18, <1>19

LEMMA NextGraphics == Inv /\ GraphicsInv /\ [Next]_vars => GraphicsInv'
  <1> SUFFICES ASSUME Inv, GraphicsInv, [Next]_vars PROVE GraphicsInv'  OBVIOUS
  <1>0. TypeOK /\ t \in Transcripts /\ images \in ImageStates  BY DEF Inv, TypeOK
  <1>1. CASE Sync  BY <1>0, <1>1, SyncGraphics
  <1>2. CASE t' = TranscriptInvalidate(t) /\ UNCHANGED <<specs, images, muddled, pending, store>>
    <2>1. \A j \in DOMAIN t'.blocks : t'.blocks[j].lines = <<>>  BY <1>0, <1>2, Invalidated
    <2>. QED  BY <1>2, <2>1, GraphicsForgotten
  <1>3. ToggleThinking \/ ApplyTheme => t' = TranscriptInvalidate(t) /\ UNCHANGED <<specs, images, muddled, pending, store>>
    BY DEF ToggleThinking, ApplyTheme, Change, Still
  <1>4. CASE HeaderResult \/ Type \/ Fullscreen \/ ForceRender \/ UNCHANGED vars
    <2>1. UNCHANGED <<specs, t, images, muddled, pending, store>>
      BY <1>4 DEF HeaderResult, Type, Fullscreen, ForceRender, Change, Still, vars, treeVars, mediaVars
    <2>. QED  BY <2>1, GraphicsUntouched
  <1>5. CASE Resize
    <2>1. images' = ClearImages(images) /\ UNCHANGED <<specs, t, muddled, pending, store>>
      BY <1>5 DEF Resize, Change
    <2>. QED  BY <1>0, <2>1, GraphicsResized
  <1>6. CASE Paint  BY <1>6, PaintGraphics
  <1>7. CASE DrawAlt
    <2>1. /\ pending # None /\ pending' = None /\ store' = Loaded(store, pending.sends)
          /\ UNCHANGED <<specs, t, images, muddled>>
      BY <1>7 DEF DrawAlt, treeVars
    <2>. QED  BY <1>0, <2>1, DrawLoads
  <1>8. CASE Draw
    <2>1. /\ pending # None /\ pending' = None /\ UNCHANGED <<specs, t, images, muddled>>
          /\ \/ store' = Loaded(Deleted(store, pending.purges), pending.sends)
             \/ store' = Deleted(Loaded(store, pending.sends), pending.purges)
      BY <1>8 DEF Draw
    <2>. QED  BY <1>0, <2>1, DrawLoads
  <1>. QED  BY <1>1, <1>2, <1>3, <1>4, <1>5, <1>6, <1>7, <1>8 DEF Next

(* "every still-live image" has its data in the terminal (budget.go): what *)
(* is shown as a graphic was sent and not deleted since, whatever the      *)
(* budget shows as text, what is kept, how requests merge, and on which    *)
(* screen they are drawn; for any number of images, blocks and changes.    *)
THEOREM GraphicsStayLoaded == Spec => []GraphicsAreLoaded
  <1>1. Init => Inv /\ GraphicsInv  BY InitHolds, InitGraphics
  <1>2. (Inv /\ GraphicsInv) /\ [Next]_vars => (Inv /\ GraphicsInv)'  BY NextKeeps, NextGraphics
  <1>3. Inv /\ GraphicsInv => GraphicsAreLoaded
    <2> SUFFICES ASSUME GraphicsInv, ~muddled, pending = None, NEW i \in DOMAIN t.blocks,
                        t.blocks[i].lines # <<>>, Last(t.blocks[i].lines)[1] = "graphic"
                 PROVE  LET key == Last(t.blocks[i].lines)[2]
                        IN  key \in DOMAIN store /\ store[key] = t.blocks[i].spec.image[2]
      BY DEF GraphicsAreLoaded, OwnPicture
    <2>1. Graphic(t.blocks[i].lines)  BY DEF Graphic
    <2>2. /\ Last(t.blocks[i].lines)[2] = t.blocks[i].spec.image[1]
          /\ HasPicture(t.blocks[i].spec.image[1], t.blocks[i].spec.image[2])
      BY <2>1 DEF GraphicsInv, Retained, NamesOwn
    <2>. QED  BY <2>2 DEF HasPicture
  <1>. QED  BY <1>1, <1>2, <1>3, PTL DEF Spec
=============================================================================
