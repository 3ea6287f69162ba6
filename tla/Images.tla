------------------------------- MODULE Images -------------------------------
(***************************************************************************)
(* Inline graphics: the budget that keeps only some images as graphics     *)
(* (media/budget.go), the image components and their cache (media/image.go,*)
(* app/theme.go), and the terminal that stores what was sent (the Kitty    *)
(* protocol).  The data of an image is sent once under its id; a row of    *)
(* the frame only names the id.  Ids and keys are one-to-one (AcquireID),  *)
(* so an image is known by its key.  An image is one row here; heights,    *)
(* other protocols and failed encodings are left out.                      *)
(*                                                                         *)
(* An images record: planned and onTerminal are the budget's thresholds    *)
(* (so many images, oldest first, are shown as text), transmitted the keys *)
(* believed loaded, made the components by key: the picture they were made *)
(* for, and how they were rendered last (width 0: not yet).                *)
(***************************************************************************)
EXTENDS Naturals, SequencesExt

CONSTANT Cap  \* graphics kept; 0 means all

ASSUME CapIsNatural == Cap \in Nat

NoComponents == <<>>
NewImages == [planned |-> 0, onTerminal |-> 0, transmitted |-> {}, made |-> NoComponents]

(* imageCache.Clear: the budget keeps its ids and what it sent.            *)
ClearImages(im) == [im EXCEPT !.made = NoComponents]

(* What a pass over the frame has met so far: the images in order, and the *)
(* data to send before the frame.                                          *)
BeginPass(im) == [im |-> im, seen |-> <<>>, sends |-> <<>>]

(* Observe: may the next image be a graphic?                               *)
Suppressed(pass) == Cap > 0 /\ Len(pass.seen) < pass.im.planned

Component(im, key, pic) ==
  IF key \in DOMAIN im.made THEN im.made[key] ELSE [pic |-> pic, width |-> 0, text |-> FALSE]

(* Image.Render of the component with this key, which is new if there is   *)
(* none yet: the pass after it.                                            *)
RenderImage(pass, key, pic, width) ==
  LET c    == Component(pass.im, key, pic)
      text == Suppressed(pass)
      hit  == c.width = width /\ c.text = text
      send == ~hit /\ ~text /\ key \notin pass.im.transmitted
  IN  [im    |-> [pass.im EXCEPT
                    !.made = [k \in DOMAIN @ \cup {key} |->
                                IF k = key THEN [c EXCEPT !.width = width, !.text = text] ELSE @[k]],
                    !.transmitted = IF send THEN @ \cup {key} ELSE @],
       seen  |-> Append(pass.seen, key),
       sends |-> IF send THEN Append(pass.sends, <<key, c.pic>>) ELSE pass.sends]

(* The row it renders to: a placement of the id, or the text fallback.     *)
ImageRow(pass, key, pic, width) ==
  LET c == Component(pass.im, key, pic)
  IN  IF Suppressed(pass) THEN <<"caption", 0, 0, c.pic, width>> ELSE <<"graphic", key, 0, 0, width>>

IsImage(row) == row[1] \in {"caption", "graphic"}

-----------------------------------------------------------------------------
(* EndPass, after reconcile: a stricter threshold was applied by this pass *)
(* if it was planned before; the number of images seen plans the next.     *)
Resets(im) == Cap > 0 /\ im.planned > im.onTerminal

Purged(pass) ==
  IF Resets(pass.im)
  THEN {pass.seen[i] : i \in {n \in DOMAIN pass.seen : pass.im.onTerminal < n /\ n <= pass.im.planned}}
  ELSE {}

SentBefore(pass) == pass.im.transmitted

(* Deleting an image frees its data: it has to be sent again.              *)
StillSent(pass) == pass.im.transmitted \ Purged(pass)

Desired(total) == IF Cap > 0 /\ total > Cap THEN total - Cap ELSE 0

EndPass(pass) ==
  LET desired == Desired(Len(pass.seen))
      shown   == IF Resets(pass.im) THEN pass.im.planned ELSE pass.im.onTerminal
  IN  [pass.im EXCEPT !.planned = desired,
                      !.onTerminal = IF shown < desired THEN shown ELSE desired,
                      !.transmitted = StillSent(pass)]

(* reconcile asks for another render when the threshold changes.           *)
AsksAgain(pass) == Desired(Len(pass.seen)) # pass.im.planned

-----------------------------------------------------------------------------
(* The terminal's store: the picture loaded under each id.                 *)
Loaded(store, sends) ==
  LET keys    == {sends[n][1] : n \in DOMAIN sends}
      Sent(k) == Max({n \in DOMAIN sends : sends[n][1] = k})
  IN  [k \in DOMAIN store \cup keys |-> IF k \in keys THEN sends[Sent(k)][2] ELSE store[k]]

Deleted(store, keys) == [k \in DOMAIN store \ keys |-> store[k]]
=============================================================================
