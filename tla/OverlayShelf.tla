---------------------------- MODULE OverlayShelf ----------------------------
(***************************************************************************)
(* What the overlay store promises to the person who designs overlays: a   *)
(* shelf holds for every overlay the draft and the live document.  Saving  *)
(* changes drafts only, a new overlay is live with its first draft, and    *)
(* publishing makes the draft of one overlay live.                         *)
(***************************************************************************)
CONSTANTS Overlay, Document

VARIABLE shelf

Nothing == [draft |-> "none", live |-> "none"]

Shelf == [Overlay -> [draft : Document, live : Document] \cup {Nothing}]

\* The shelf with the drafts d: overlays without a draft leave it.
Saved(d) ==
  [o \in Overlay |-> IF d[o] = "none" THEN Nothing
                     ELSE [draft |-> d[o],
                           live |-> IF shelf[o] = Nothing THEN d[o] ELSE shelf[o].live]]

Init == shelf = [o \in Overlay |-> Nothing]

Save(d) == shelf' = Saved(d)

Publish(o) ==
  /\ shelf[o] # Nothing
  /\ shelf' = [shelf EXCEPT ![o].live = shelf[o].draft]

Next ==
  \/ \E d \in [Overlay -> Document \cup {"none"}] : Save(d)
  \/ \E o \in Overlay : Publish(o)

Spec == Init /\ [][Next]_shelf
=============================================================================
