-------------------------------- MODULE Hosts --------------------------------
(***************************************************************************)
(* What the application hosts for the core's extensions: dialogs that must *)
(* be answered, remote components whose rows the core supplies, protocol   *)
(* overlays, and the focus among them and the editor (app/rpc.go,          *)
(* app/extension.go, the local routing of app/terminal_input.go, and       *)
(* component/remote.go).  Every handler runs on the application's loop and *)
(* is one step; the loop paints before it handles the next event whenever  *)
(* a render was requested.  The core answers render requests in any order, *)
(* and may still answer one for a component that it disposed meanwhile.    *)
(*                                                                         *)
(* Handlers are operators on the host's state h.  Requests have fresh ids, *)
(* and ids of dialogs, components and overlays differ.  Rows are known by  *)
(* the request they answer; the focus flags that only move the cursor are  *)
(* left out.                                                               *)
(***************************************************************************)
EXTENDS Overlays

CONSTANT None  \* no component, no target

VARIABLES
  world,   \* what may happen in this behaviour: chosen in the initial state
  host,    \* the application's state: see Init
  cols,    \* columns of the terminal
  dirty    \* a render was requested

hostVars == <<world, host, cols, dirty>>

Slots == {"header", "widget", "editor", "overlay", "tool"}

ASSUME SlotAssumption == None \notin Slots

Ed              == <<"ed", None, 0>>
Dialog(id)      == <<"dialog", id, 0>>
Mount(id)       == <<"mount", id, 0>>
Picker(n)       == <<"picker", None, n>>
Blank           == [gen |-> 0, width |-> 0]

(* The object behind component id c now: a new one after each disposal.    *)
Object(h, c)  == <<"remote", c, h.made[c]>>
Live(h, c)    == h.slot[c] # None /\ ~h.dead[c]

(* Widths: a slot in the root gets the whole width; an overlay what it was *)
(* shown with, or what there is room for.                                  *)
Whole    == 2 * cols
Boxed    == 2 * cols - 1
Fit(e)   == IF e.width < Boxed THEN e.width ELSE Boxed

HostInit ==
  /\ host = [stack   |-> [entries |-> <<>>, focused |-> Ed, base |-> Ed],
             root    |-> Ed,                        \* root.FocusTarget
             dialogs |-> {},                        \* keys of extDialogs
             mounts  |-> {},                        \* keys of protocolOverlays
             pickers |-> 0,                         \* pickers opened so far
             slot    |-> [c \in world.comps |-> None],  \* remoteSlots: None when not in remotes
             made    |-> [c \in world.comps |-> 0],
             dead    |-> [c \in world.comps |-> FALSE], \* disposed, and still in remotes
             seen    |-> [c \in world.comps |-> 0],     \* Remote.lastWidth
             gen     |-> [c \in world.comps |-> 0],     \* remoteGen
             last    |-> [c \in world.comps |-> 0],     \* remoteResultG
             shown   |-> [c \in world.comps |-> Blank], \* the request the rows answer
             header |-> None, widgets |-> {}, editor |-> None,
             asked   |-> {}, answers |-> [d \in world.dialogs |-> 0],
             wire    |-> {},                        \* render requests not answered yet
             reused  |-> {}]                        \* ids disposed before all was answered
  /\ cols = 2 /\ dirty = FALSE

-----------------------------------------------------------------------------
(* Pieces of handlers. *)

(* The focus part of App.rebuildRoot. *)
Rebuild(h) ==
  LET target == IF h.editor = None THEN Ed ELSE h.editor
  IN  [h EXCEPT !.root = target, !.stack = SetBaseFocus(@, target)]

Focus(h, comp)  == [h EXCEPT !.stack = SetFocus(@, comp)]
Unshow(h, owner) == [h EXCEPT !.stack = Hide(@, owner)]

(* A dialog, or a remote in one: extDialogs and the entry on the stack.    *)
Box(h, id, comp) ==
  Focus([h EXCEPT !.stack = Show(@, Dialog(id), comp, Boxed), !.dialogs = @ \cup {id}], comp)

Unbox(h, id) == [Unshow(h, Dialog(id)) EXCEPT !.dialogs = @ \ {id}]

RequestAt(h, c, width) ==
  [h EXCEPT !.gen[c] = @ + 1,
            !.wire = @ \cup {[id |-> c, gen |-> h.gen[c] + 1, width |-> width]}]

RequestRemote(h, c) == RequestAt(h, c, IF h.seen[c] > 0 THEN h.seen[c] ELSE Whole)

Slotted(h, c, slot) ==
  LET r == Object(h, c)
  IN  CASE slot = "header" -> Rebuild([h EXCEPT !.header = r])
        [] slot = "widget" -> Rebuild([h EXCEPT !.widgets = @ \cup {r}])
        [] slot = "editor" -> Rebuild([h EXCEPT !.editor = r])
        [] OTHER -> Box(h, c, r)

Unslotted(h, c) ==
  LET r == Object(h, c)
  IN  CASE h.slot[c] = "header" -> IF h.header = r THEN Rebuild([h EXCEPT !.header = None]) ELSE h
        [] h.slot[c] = "editor" -> IF h.editor = r THEN Rebuild([h EXCEPT !.editor = None]) ELSE h
        [] h.slot[c] = "widget" -> Rebuild([h EXCEPT !.widgets = @ \ {r}])
        [] OTHER -> IF c \in h.dialogs THEN Unbox(h, c) ELSE h

(* mountRemote *)
Mounted(h, c, slot) ==
  IF h.slot[c] = None
  THEN LET new == [h EXCEPT !.slot[c] = slot, !.made[c] = @ + 1, !.dead[c] = FALSE,
                            !.seen[c] = 0, !.shown[c] = Blank]
       IN  RequestRemote(Slotted(new, c, slot), c)
  ELSE IF h.slot[c] = slot THEN h
  ELSE Slotted([Unslotted(h, c) EXCEPT !.slot[c] = slot], c, slot)

Ensured(h, c) == IF h.slot[c] = None THEN Mounted(h, c, "overlay") ELSE h

(* disposeRemote *)
Disposed(h, c) ==
  LET gone == [Unslotted(h, c) EXCEPT !.slot[c] = None, !.dead[c] = FALSE, !.gen[c] = 0, !.last[c] = 0,
                 !.shown[c] = Blank,
                 !.reused = IF \E q \in h.wire : q.id = c THEN @ \cup {c} ELSE @]
  IN  IF gone.editor = None THEN Focus(gone, Ed) ELSE gone

(* Remote.Invalidate and a new request.                                    *)
Invalidated(h, c) ==
  RequestRemote(IF h.dead[c] THEN h ELSE [h EXCEPT !.shown[c] = Blank], c)

(* closeExtDialog: a remote in it is disposed, but stays registered.       *)
Closed(h, id) ==
  LET shut == [Unbox(h, id) EXCEPT !.dead  = [c \in DOMAIN @ |-> @[c] \/ c = id],
                                 !.shown = [c \in DOMAIN @ |-> IF c = id THEN Blank ELSE @[c]]]
  IN  IF id \in h.dialogs THEN Focus(shut, Ed) ELSE h

Answer(h, id) == IF id \in DOMAIN h.answers THEN [h EXCEPT !.answers[id] = @ + 1] ELSE h

(* cancelExtension with a target *)
Cancelled(h, id) == IF id \in h.dialogs THEN Closed(Answer(h, id), id) ELSE h

(* cancelTopOverlay if it took the top of the stack.                       *)
CancelTopmost(h, id) == Focus([h EXCEPT !.stack = HideTop(@)], Ed)

(* cancelTopOverlay picks whichever dialog the map yields last.            *)
CancelTop(h, id) ==
  IF h.dialogs = {} THEN Focus([h EXCEPT !.stack = HideTop(@)], Ed) ELSE Cancelled(h, id)

(* Where a paint renders component c: in the root (0), and in the visible  *)
(* overlays that hold it, bottom first.                                    *)
Places(h, c) ==
  LET r == Object(h, c)
  IN  {i \in {0} \cup Visible(h.stack) :
         IF i = 0 THEN r \in {h.header, h.editor} \cup h.widgets ELSE h.stack.entries[i].comp = r}

WidthAt(h, i) == IF i = 0 THEN Whole ELSE Fit(h.stack.entries[i])

(* The width it was rendered at before the paint reaches place i.          *)
WidthBefore(h, c, i) ==
  LET earlier == {j \in Places(h, c) : j < i}
  IN  IF earlier = {} THEN h.seen[c] ELSE WidthAt(h, Max(earlier))

(* Remote.Render: the rows for a width not seen before are asked for.      *)
Asking(h, c) ==
  IF Live(h, c) THEN {i \in Places(h, c) : WidthAt(h, i) # WidthBefore(h, c, i)} ELSE {}

Requests(h, c) ==
  {[id |-> c, gen |-> h.gen[c] + Cardinality({j \in Asking(h, c) : j <= i}), width |-> WidthAt(h, i)] :
     i \in Asking(h, c)}

Painted(h) ==
  [h EXCEPT
     !.seen = [c \in world.comps |-> IF Live(h, c) /\ Places(h, c) # {} THEN WidthAt(h, Max(Places(h, c))) ELSE @[c]],
     !.gen  = [c \in world.comps |-> @[c] + Cardinality(Asking(h, c))],
     !.wire = @ \cup UNION {Requests(h, c) : c \in world.comps}]

CurrentAny(h, q) == TRUE

(* The result is neither older than one applied nor than the last request. *)
Current(h, q)    == q.gen >= h.last[q.id] /\ q.gen >= h.gen[q.id]

-----------------------------------------------------------------------------
(* The loop's steps. *)

Bounded == \A c \in world.comps : host'.gen[c] <= world.gens /\ host'.made[c] <= 2

Handles(h) == host' = h /\ Bounded /\ UNCHANGED <<world, cols>>

Paint == dirty /\ dirty' = FALSE /\ Handles(Painted(host))

(* A model event: every component gets the snapshot, the root is rebuilt.  *)
ModelEvent == "model" \in world.flags /\ Handles(Rebuild(host)) /\ dirty' = TRUE

(* A component that is mounted already changes its slot without a render   *)
(* being requested.                                                        *)
ComponentOpen ==
  \E c \in world.comps, slot \in world.slots :
    Handles(Mounted(host, c, slot)) /\ dirty' = (host.slot[c] = None)

ComponentResult ==
  \E q \in host.wire :
    LET got   == [host EXCEPT !.wire = @ \ {q}]
        taken == Ensured([got EXCEPT !.last[q.id] = q.gen], q.id)
    IN  /\ Handles(IF ~Current(host, q) THEN got
                   ELSE IF taken.dead[q.id] THEN taken
                   ELSE [taken EXCEPT !.shown[q.id] = [gen |-> q.gen, width |-> q.width]])
        /\ dirty' = Current(host, q)

(* component_invalidate, or component_input_result that says dirty.        *)
ComponentInvalidate ==
  /\ "invalidate" \in world.flags
  /\ \E c \in world.comps : host.slot[c] # None /\ Handles(Invalidated(host, c))
  /\ dirty' = TRUE

ComponentDispose ==
  /\ "dispose" \in world.flags
  /\ \E c \in world.comps : host.slot[c] # None /\ Handles(Disposed(host, c))
  /\ dirty' = TRUE

(* component_focus and component_focus_request *)
ComponentFocus ==
  /\ "focus" \in world.flags
  /\ \E c \in world.comps, on \in BOOLEAN :
       LET r == Object(host, c)
       IN  /\ host.slot[c] # None
           /\ Handles(IF on THEN IF host.slot[c] = "overlay" THEN Focus(host, r) ELSE [host EXCEPT !.root = r]
                      ELSE IF host.root = r THEN [host EXCEPT !.root = Ed] ELSE host)
  /\ dirty' = TRUE

(* overlay_mount, of a component or of a title.                            *)
OverlayMount ==
  \E o \in world.mounts, c \in world.comps \cup {None} :
    LET backed == IF c = None THEN host
                  ELSE LET h == Ensured(host, c)
                       IN  IF c \in h.dialogs THEN Unbox(h, c) ELSE h
        comp   == IF c = None THEN Mount(o) ELSE Object(backed, c)
        shown  == [Unshow(backed, Mount(o)) EXCEPT !.mounts = @ \cup {o}]
    IN  Handles(Focus([shown EXCEPT !.stack = Show(@, Mount(o), comp, Boxed)], comp)) /\ dirty' = TRUE

OverlayUnmount ==
  \E o \in host.mounts :
    Handles(Focus([Unshow(host, Mount(o)) EXCEPT !.mounts = @ \ {o}], Ed)) /\ dirty' = TRUE

OverlayUpdate ==
  \E o \in host.mounts, hidden \in BOOLEAN :
    Handles([host EXCEPT !.stack = SetHidden(@, Mount(o), hidden)]) /\ dirty' = TRUE

(* A select, confirm, input or editor request.                             *)
ExtensionAsks ==
  \E d \in world.dialogs \ host.asked :
    LET h == [host EXCEPT !.asked = @ \cup {d}]
    IN  \/ Handles(Box(h, d, Dialog(d))) /\ dirty' = TRUE
        \/ Handles(Answer(h, d)) /\ dirty' = FALSE      \* nothing to select from

(* An extension's cancel: of one request, or of "the top" one.             *)
ExtensionCancels ==
  /\ world.dialogs # {}
  /\ \/ \E d \in host.dialogs : Handles(Cancelled(host, d))
     \/ \E d \in host.dialogs \cup {None} :
          (d = None => host.dialogs = {}) /\ Handles(CancelTop(host, d))
  /\ dirty' = FALSE

Resize ==
  LET remotes  == {c \in world.comps : host.slot[c] # None}
      width(c) == IF host.seen[c] > 0 THEN host.seen[c] ELSE Whole'
  IN  /\ "resize" \in world.flags /\ cols > 1
      /\ cols' = cols - 1 /\ dirty' = TRUE
      /\ host' = [host EXCEPT !.stack = ReconcileFocus(@),
                    !.gen  = [c \in world.comps |-> IF c \in remotes THEN @[c] + 1 ELSE @[c]],
                    !.wire = @ \cup {[id |-> c, gen |-> host.gen[c] + 1, width |-> width(c)] : c \in remotes}]
      /\ Bounded /\ UNCHANGED world

(* A key with an overlay visible: the focused component owns it.  A list   *)
(* or an editor is answered, cancelled or left open by it.                 *)
KeyToOverlay ==
  /\ HasVisible(host.stack)
  /\ LET comp == host.stack.focused
     IN  \/ comp[1] = "dialog" /\ Handles(Closed(Answer(host, comp[2]), comp[2]))
         \/ comp[1] = "picker" /\ Handles(Unshow(host, comp))
  /\ dirty' = TRUE

(* A picker the application opens for itself.                              *)
Opened(h) ==
  LET picker == Picker(h.pickers + 1)
  IN  [h EXCEPT !.pickers = @ + 1, !.stack = Show(@, picker, picker, Boxed)]

(* shutdown: remotes are disposed, and with them the dialogs they are in;  *)
(* the dialogs still open are cancelled.                                   *)
ShutDown(h) ==
  LET boxed == {c \in world.comps : h.slot[c] \in {"overlay", "tool"}}
      open  == h.dialogs \ boxed
  IN  [h EXCEPT !.stack.entries = <<>>, !.stack.focused = h.stack.base, !.dialogs = open,
         !.slot = [c \in world.comps |-> None], !.header = None, !.widgets = {}, !.editor = None,
         !.answers = [d \in world.dialogs |-> IF d \in open THEN @[d] + 1 ELSE @[d]]]

HostNext ==
  \/ Paint
  \/ ~dirty /\ ( \/ ModelEvent \/ ComponentOpen \/ ComponentResult \/ ComponentInvalidate
                 \/ ComponentDispose \/ ComponentFocus \/ OverlayMount \/ OverlayUnmount \/ OverlayUpdate
                 \/ ExtensionAsks \/ ExtensionCancels \/ Resize \/ KeyToOverlay )
=============================================================================
