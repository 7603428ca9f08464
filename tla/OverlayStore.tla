---------------------------- MODULE OverlayStore ----------------------------
(***************************************************************************)
(* The store of the overlay designer (pulse-overlay-store.cpp) and the     *)
(* calls the runtime makes on it.  file is overlays.v2.json, root the copy *)
(* the program works on, mode what the last load made of the file.  Every  *)
(* transaction writes the whole file, reads it back and only then takes    *)
(* the new root; an edit whose save fails is undone in the editor, so the  *)
(* editor always shows the drafts of root.                                 *)
(***************************************************************************)
EXTENDS OverlayDocuments, Naturals, FiniteSets

CONSTANTS
  Overlay,        \* ids of overlays
  Seed,           \* the documents of a new store: Overlay -> Document or "none"
  OldStores,      \* what a schema 1 file next to it may be
  Files,          \* states the schema 2 file may be in at the first start
  MaxRevision     \* bound: drafts of one overlay

ASSUME StoreAssumption ==
  /\ Seed \in [Overlay -> Document \cup {"none"}]
  /\ OldStores \subseteq {"absent", "valid", "damaged"}
  /\ Files \subseteq {"absent", "damaged", "future"}
  /\ MaxRevision \in Nat \ {0}

VARIABLES file, root, mode, old

storeVars == <<file, root, mode, old>>

Revision == [number : 1..MaxRevision, document : Document]

Project == [number : 1..MaxRevision, draft : Document, live : 1..MaxRevision,
            revisions : SUBSET Revision]

Gone == [number |-> 0, draft |-> "none", live |-> 0, revisions |-> {}]

Root == [Overlay -> Project \cup {Gone}]

NoRoot == [o \in Overlay |-> Gone]

Modes == {"down", "ready", "recovery", "readonly"}

StoreTypeOK ==
  /\ file \in [state : {"absent", "damaged", "future", "ready"}, root : Root]
  /\ root \in Root
  /\ mode \in Modes
  /\ old \in {"absent", "valid", "damaged"}

----------------------------------------------------------------------------
(* initialProject: the first draft is published at once. *)
Initial(d) == [number |-> 1, draft |-> d, live |-> 1,
               revisions |-> {[number |-> 1, document |-> d]}]

(* publishedDocuments of one project. *)
LiveDocument(p) ==
  IF p = Gone THEN "none"
  ELSE (CHOOSE r \in p.revisions : r.number = p.live).document

(* isDraftPublished *)
IsDraftPublished(p) == p # Gone /\ LiveDocument(p) = p.draft

(* validateV2: revision ids differ and the published one exists.  The id   *)
(* of a revision is computed from its number.                              *)
Valid(projects) ==
  \A o \in Overlay : projects[o] # Gone =>
    /\ \A r, q \in projects[o].revisions : r.number = q.number => r = q
    /\ \E r \in projects[o].revisions : r.number = projects[o].live

\* Fault: a changed draft makes the overlay anew.
SyncedAnew(projects, drafts) ==
  [o \in Overlay |->
     IF drafts[o] = "none" THEN Gone
     ELSE IF projects[o].draft = drafts[o] THEN projects[o] ELSE Initial(drafts[o])]

\* Fault: a changed draft keeps its number.
SyncedInPlace(projects, drafts) ==
  [o \in Overlay |->
     IF drafts[o] = "none" THEN Gone
     ELSE IF projects[o] = Gone THEN Initial(drafts[o])
     ELSE [projects[o] EXCEPT !.draft = drafts[o]]]

(* syncDrafts: known projects keep their revisions, and a draft that       *)
(* changed gets the next number.                                           *)
Synced(projects, drafts) ==
  [o \in Overlay |->
     IF drafts[o] = "none" THEN Gone
     ELSE IF projects[o] = Gone THEN Initial(drafts[o])
     ELSE IF projects[o].draft = drafts[o] THEN projects[o]
     ELSE [projects[o] EXCEPT !.number = @ + 1, !.draft = drafts[o]]]

(* Store::publish: the draft becomes a revision under its own number. *)
WithPublished(projects, o) ==
  IF IsDraftPublished(projects[o]) THEN projects
  ELSE [projects EXCEPT
         ![o].revisions = @ \cup {[number |-> projects[o].number, document |-> projects[o].draft]},
         ![o].live = projects[o].number]

Drafts == [o \in Overlay |-> root[o].draft]

Outcomes == {"committed", "unverified", "failed"}

\* Fault: a root without schema passes.
WritableAlways == mode # "readonly"

(* commitRoot: a read-only store, a root without schema (after a load that *)
(* failed) and an invalid root are refused; the write may fail, and so may *)
(* the check that reads the file back, which leaves file ahead of root.    *)
Writable == mode = "ready"

Committable(next) == Writable /\ Valid(next)

Commit(next, outcome) ==
  IF Committable(next) /\ outcome # "failed"
  THEN /\ file' = [state |-> "ready", root |-> next]
       /\ root' = IF outcome = "committed" THEN next ELSE root
  ELSE UNCHANGED <<file, root>>

Succeeds(next, outcome) == Committable(next) /\ outcome = "committed"

----------------------------------------------------------------------------
StoreInit ==
  /\ file \in {[state |-> f, root |-> NoRoot] : f \in Files}
  /\ root = NoRoot
  /\ mode = "down"
  /\ old \in OldStores

(* What Store::load and the runtime's load make of the files.  The file    *)
(* that exists may be unreadable this once.  Without a schema 2 file the   *)
(* documents of a valid schema 1 file, or else the default overlays,       *)
(* become the first root.                                                  *)
Load(readable, outcome) ==
  /\ mode = "down"
  /\ \/ /\ file.state = "ready" /\ readable
        /\ root' = file.root
        /\ mode' = "ready"
        /\ UNCHANGED file
     \/ /\ file.state = "future" /\ readable
        /\ mode' = "readonly"
        /\ UNCHANGED <<file, root>>
     \/ /\ file.state = "damaged" \/ (file.state # "absent" /\ ~readable)
        /\ mode' = "recovery"
        /\ UNCHANGED <<file, root>>
     \/ /\ file.state = "absent"
        /\ old = "damaged"
        /\ mode' = "recovery"
        /\ UNCHANGED <<file, root>>
     \/ /\ file.state = "absent"
        /\ old # "damaged"
        /\ LET first == Synced(NoRoot, Seed) IN
             /\ file' = IF outcome = "failed" THEN file ELSE [state |-> "ready", root |-> first]
             /\ root' = IF outcome = "committed" THEN first ELSE root
             /\ mode' = IF outcome = "committed" THEN "ready" ELSE "recovery"
  /\ UNCHANGED old

(* An edit, a new overlay or a deleted one: the documents as they would be *)
(* go to the store, and the editor goes back if that fails.                *)
SaveDrafts(drafts, outcome) ==
  /\ mode # "down"
  /\ Commit(Synced(root, drafts), outcome)
  /\ UNCHANGED <<mode, old>>

(* The Publish button: save, and if that succeeds publish. *)
PublishDraft(o, saved, outcome) ==
  /\ mode # "down"
  /\ root[o] # Gone
  /\ IF ~Succeeds(root, saved) THEN Commit(root, saved)
     ELSE IF IsDraftPublished(root[o]) THEN file' = [state |-> "ready", root |-> root] /\ UNCHANGED root
     ELSE /\ file' = [state |-> "ready",
                      root |-> IF Committable(WithPublished(root, o)) /\ outcome # "failed"
                               THEN WithPublished(root, o) ELSE root]
          /\ root' = IF Succeeds(WithPublished(root, o), outcome)
                     THEN WithPublished(root, o) ELSE root
  /\ UNCHANGED <<mode, old>>

(* Whether the button reports "Published revision saved". *)
PublishReported(o, saved, outcome) ==
  /\ Succeeds(root, saved)
  /\ IsDraftPublished(root[o]) \/ Succeeds(WithPublished(root, o), outcome)

(* The program ends in any way: the file is all that is left. *)
Down ==
  /\ mode # "down"
  /\ mode' = "down"
  /\ root' = NoRoot
  /\ UNCHANGED <<file, old>>
=============================================================================
