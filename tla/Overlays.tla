------------------------------ MODULE Overlays ------------------------------
(***************************************************************************)
(* The overlay stack (interact/overlay.go) as operators on its value s:    *)
(* s.entries bottom first, s.focused the component that gets the keys      *)
(* while an overlay is visible, s.base the focus below all overlays.  An   *)
(* entry is known by its owner, whoever holds its handle.  A box and the   *)
(* list or editor inside it are one component here; of the geometry only   *)
(* the width asked for when it was shown is kept.                          *)
(***************************************************************************)
EXTENDS Naturals, SequencesExt, FiniteSetsExt

Entry(owner, comp, pre, width) ==
  [owner |-> owner, comp |-> comp, pre |-> pre, hidden |-> FALSE, width |-> width]

Visible(s)    == {i \in DOMAIN s.entries : ~s.entries[i].hidden}
HasVisible(s) == Visible(s) # {}
Top(s)        == s.entries[Max(Visible(s))]
Owners(s)     == {s.entries[i].owner : i \in DOMAIN s.entries}
At(s, owner)  == SelectInSeq(s.entries, LAMBDA x : x.owner = owner)

ApplyFocus(s, comp) == [s EXCEPT !.focused = comp]

(* Where the focus goes when entry e has left or is no longer visible.     *)
Refocus(s, e) == ApplyFocus(s, IF HasVisible(s) THEN Top(s).comp ELSE e.pre)

(* A visible overlay keeps the focus from everybody else.                  *)
SetFocus(s, comp) == ApplyFocus(s, IF HasVisible(s) THEN Top(s).comp ELSE comp)

SetBaseFocus(s, comp) ==
  LET based == [s EXCEPT !.base = comp]
  IN  IF s.entries = <<>> THEN ApplyFocus(based, comp) ELSE based

Show(s, owner, comp, width) ==
  ApplyFocus([s EXCEPT !.entries = Append(@, Entry(owner, comp, s.focused, width))], comp)

Without(s, owner) == [s EXCEPT !.entries = RemoveFirstMatch(@, LAMBDA e : e.owner = owner)]

(* Hide with the focus left where it was.                                  *)
HideQuietly(s, owner) == Without(s, owner)

(* OverlayHandle.Hide: a handle whose entry is gone already does nothing.  *)
Hide(s, owner) ==
  LET e == s.entries[At(s, owner)]
  IN  IF owner \notin Owners(s) THEN s
      ELSE IF s.focused = e.comp THEN Refocus(Without(s, owner), e) ELSE Without(s, owner)

HideTop(s) ==
  IF s.entries = <<>> THEN s
  ELSE Refocus([s EXCEPT !.entries = Front(@)], Last(s.entries))

SetHidden(s, owner, hidden) ==
  LET i   == At(s, owner)
      set == [s EXCEPT !.entries[i].hidden = hidden]
  IN  IF i = 0 \/ s.entries[i].hidden = hidden THEN s
      ELSE IF ~hidden THEN ApplyFocus(set, s.entries[i].comp)
      ELSE IF s.focused = s.entries[i].comp THEN Refocus(set, s.entries[i])
      ELSE set

(* ReconcileFocus, on a resize.                                            *)
ReconcileFocus(s) ==
  LET i == SelectInSeq(s.entries, LAMBDA x : x.comp = s.focused /\ x.hidden)
  IN  IF i # 0 THEN Refocus(s, s.entries[i])
      ELSE IF HasVisible(s) /\ Top(s).comp # s.focused THEN ApplyFocus(s, Top(s).comp)
      ELSE s
=============================================================================
