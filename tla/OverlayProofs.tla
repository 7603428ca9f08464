---------------------------- MODULE OverlayProofs ---------------------------
(***************************************************************************)
(* For every set of overlays, documents, pages and alerts: that any draft  *)
(* can be published, that the store is a shelf of drafts and published     *)
(* documents, that the queue of alerts never stands still unattended, and  *)
(* that no alert sounds twice.                                             *)
(***************************************************************************)
EXTENDS Overlay, TLAPS, FiniteSetTheorems, SequenceTheorems

-----------------------------------------------------------------------------
(* Projects *)

\* Ids of revisions differ, and none is ahead of the draft.
Steady(p) ==
  p # Gone =>
    /\ \A r, q \in p.revisions : r.number = q.number => r = q
    /\ \E r \in p.revisions : r.number = p.live
    /\ \A r \in p.revisions : r.number <= p.number
    /\ \A r \in p.revisions : r.number = p.number => r.document = p.draft

Roots == {projects \in Root : \A o \in Overlay : Steady(projects[o])}

LEMMA GoneFacts ==
  /\ Gone \notin Project /\ Gone.draft = "none" /\ Gone.number = 0
  /\ \A p \in Project : p # Gone /\ p.draft \in Document /\ p.draft # "none"
  /\ NoRoot \in Roots
<1>1. Gone \notin Project
  BY StoreAssumption DEF Gone, Project
<1>2. NoRoot \in Root /\ \A o \in Overlay : NoRoot[o] = Gone
  BY DEF NoRoot, Root
<1> QED BY <1>1, <1>2, DocumentAssumption DEF Gone, Project, Roots, Steady

LEMMA LiveAt ==
  ASSUME NEW p \in Project, Steady(p), NEW r \in p.revisions, r.number = p.live
  PROVE  LiveDocument(p) = r.document /\ r.document \in Document
<1>1. p # Gone
  BY GoneFacts
<1>2. (CHOOSE q \in p.revisions : q.number = p.live) = r
  BY <1>1 DEF Steady
<1>3. r \in Revision
  BY DEF Project
<1> QED BY <1>1, <1>2, <1>3 DEF LiveDocument, Revision

LEMMA LiveTyped ==
  ASSUME NEW p \in Project, Steady(p)
  PROVE  LiveDocument(p) \in Document
BY LiveAt, GoneFacts DEF Steady

LEMMA InitialSteady ==
  ASSUME NEW d \in Document
  PROVE  Initial(d) \in Project /\ Steady(Initial(d)) /\ Initial(d).draft = d
         /\ LiveDocument(Initial(d)) = d
<1> DEFINE r == [number |-> 1, document |-> d]
<1>1. 1 \in 1..MaxRevision
  BY StoreAssumption
<1>2. /\ Initial(d) \in Project /\ Initial(d).revisions = {r} /\ Initial(d).number = 1
      /\ Initial(d).live = 1 /\ Initial(d).draft = d
  BY <1>1 DEF Initial, Project, Revision
<1>3. r.number = 1 /\ r.document = d
  OBVIOUS
<1> HIDE DEF r
<1>4. Steady(Initial(d))
  BY <1>2, <1>3 DEF Steady
<1> QED BY <1>2, <1>3, <1>4, LiveAt

\* A changed draft under the next number.
LEMMA EditedSteady ==
  ASSUME NEW p \in Project, Steady(p), NEW d \in Document, p.number < MaxRevision
  PROVE  LET q == [p EXCEPT !.number = @ + 1, !.draft = d]
         IN q \in Project /\ Steady(q) /\ q.draft = d /\ LiveDocument(q) = LiveDocument(p)
<1> DEFINE q == [p EXCEPT !.number = @ + 1, !.draft = d]
<1>1. /\ q.number = p.number + 1 /\ q.draft = d /\ q.live = p.live /\ q.revisions = p.revisions
      /\ p.number \in 1..MaxRevision
  BY DEF Project
<1>2. q \in Project
  <2>1. p.number + 1 \in 1..MaxRevision
    BY <1>1, StoreAssumption
  <2> QED BY <2>1 DEF Project
<1> HIDE DEF q
<1>3. \A r \in p.revisions : r.number \in Nat
  BY DEF Project, Revision
<1>4. p # Gone /\ q # Gone
  BY <1>2, GoneFacts
<1>5. Steady(q)
  BY <1>1, <1>3, <1>4 DEF Steady
<1>6. LiveDocument(q) = LiveDocument(p)
  BY <1>1, <1>4 DEF LiveDocument
<1> QED BY <1>1, <1>2, <1>5, <1>6 DEF q

\* The draft as a revision.
LEMMA PublishedSteady ==
  ASSUME NEW p \in Project, Steady(p)
  PROVE  LET q == [p EXCEPT !.revisions = @ \cup {[number |-> p.number, document |-> p.draft]},
                            !.live = p.number]
         IN q \in Project /\ Steady(q) /\ q.draft = p.draft /\ LiveDocument(q) = p.draft
<1> DEFINE r == [number |-> p.number, document |-> p.draft]
           q == [p EXCEPT !.revisions = @ \cup {r}, !.live = p.number]
<1>1. /\ q.number = p.number /\ q.draft = p.draft /\ q.live = p.number
      /\ q.revisions = p.revisions \cup {r}
  BY DEF Project
<1>2. r \in Revision /\ r.number = p.number /\ r.document = p.draft
  BY DEF Project, Revision
<1>3. p.revisions \subseteq Revision /\ p.number \in 1..MaxRevision
  BY DEF Project
<1>4. q \in Project
  BY <1>2, <1>3 DEF Project
<1> HIDE DEF q, r
<1>5. p # Gone /\ q # Gone
  BY <1>4, GoneFacts
<1>6. \A s \in p.revisions : s.number = p.number => s = r
  BY <1>2, <1>3, <1>5 DEF Steady, Revision
<1>7. Steady(q)
  BY <1>1, <1>2, <1>3, <1>5, <1>6 DEF Steady
<1>8. LiveDocument(q) = p.draft
  BY <1>1, <1>2, <1>4, <1>7, LiveAt
<1> QED BY <1>1, <1>4, <1>7, <1>8 DEF q, r

-----------------------------------------------------------------------------
(* The root *)

DraftSet == [Overlay -> Document \cup {"none"}]

\* Every draft that changes has a number left.
Affordable(projects, drafts) ==
  \A o \in Overlay : drafts[o] \in {"none", projects[o].draft} \/ projects[o].number < MaxRevision

LEMMA SyncedAt ==
  ASSUME NEW projects \in Roots, NEW drafts \in DraftSet, Affordable(projects, drafts), NEW o \in Overlay
  PROVE  LET q == Synced(projects, drafts)[o] IN
           IF drafts[o] = "none" THEN q = Gone
           ELSE /\ q \in Project /\ Steady(q) /\ q.draft = drafts[o]
                /\ LiveDocument(q) = IF projects[o] = Gone THEN drafts[o] ELSE LiveDocument(projects[o])
<1> DEFINE p == projects[o]
           d == drafts[o]
           q == Synced(projects, drafts)[o]
<1>1. p \in Project \cup {Gone} /\ Steady(p) /\ d \in Document \cup {"none"}
  BY DEF Roots, Root, DraftSet
<1>2. q = IF d = "none" THEN Gone ELSE IF p = Gone THEN Initial(d) ELSE IF p.draft = d THEN p
          ELSE [p EXCEPT !.number = @ + 1, !.draft = d]
  BY DEF Synced
<1>3. d \in {"none", p.draft} \/ p.number < MaxRevision
  BY DEF Affordable
<1> HIDE DEF p, d, q
<1>4. CASE d = "none"
  BY <1>2, <1>4 DEF d, q
<1>5. CASE d # "none" /\ p = Gone
  <2>1. q = Initial(d) /\ d \in Document
    BY <1>1, <1>2, <1>5
  <2> QED BY <1>5, <2>1, InitialSteady DEF p, d, q
<1>6. CASE d # "none" /\ p # Gone /\ p.draft = d
  BY <1>1, <1>2, <1>6 DEF p, d, q
<1>7. CASE d # "none" /\ p # Gone /\ p.draft # d
  <2>1. q = [p EXCEPT !.number = @ + 1, !.draft = d] /\ d \in Document /\ p \in Project
        /\ p.number < MaxRevision
    BY <1>1, <1>2, <1>3, <1>7
  <2>2. q \in Project /\ Steady(q) /\ q.draft = d /\ LiveDocument(q) = LiveDocument(p)
    BY <1>1, <2>1, EditedSteady
  <2> QED BY <1>7, <2>2 DEF p, d, q
<1> QED BY <1>4, <1>5, <1>6, <1>7

LEMMA SyncedRoot ==
  ASSUME NEW projects \in Roots, NEW drafts \in DraftSet, Affordable(projects, drafts)
  PROVE  Synced(projects, drafts) \in Roots
<1>1. \A o \in Overlay : Synced(projects, drafts)[o] \in Project \cup {Gone}
                         /\ Steady(Synced(projects, drafts)[o])
  BY SyncedAt DEF Steady
<1>2. Synced(projects, drafts) = [o \in Overlay |-> Synced(projects, drafts)[o]]
  BY DEF Synced
<1> HIDE DEF Synced
<1> QED BY <1>1, <1>2 DEF Roots, Root

LEMMA PublishedAt ==
  ASSUME NEW projects \in Roots, NEW o \in Overlay, projects[o] # Gone
  PROVE  LET next == WithPublished(projects, o) IN
         /\ next \in Roots
         /\ \A m \in Overlay \ {o} : next[m] = projects[m]
         /\ next[o] # Gone /\ next[o].draft = projects[o].draft
         /\ LiveDocument(next[o]) = projects[o].draft
<1> DEFINE p == projects[o]
           next == WithPublished(projects, o)
           q == [p EXCEPT !.revisions = @ \cup {[number |-> p.number, document |-> p.draft]},
                          !.live = p.number]
<1>1. p \in Project /\ Steady(p) /\ projects \in [Overlay -> Project \cup {Gone}]
      /\ \A m \in Overlay : Steady(projects[m])
  BY DEF Roots, Root
<1>2. CASE IsDraftPublished(p)
  BY <1>1, <1>2 DEF WithPublished, IsDraftPublished
<1>3. CASE ~IsDraftPublished(p)
  <2>1. next = [projects EXCEPT ![o] = q]
    BY <1>3 DEF WithPublished
  <2>2. q \in Project /\ Steady(q) /\ q.draft = p.draft /\ LiveDocument(q) = p.draft /\ q # Gone
    BY <1>1, PublishedSteady, GoneFacts
  <2> HIDE DEF p, q, next
  <2>3. next \in [Overlay -> Project \cup {Gone}] /\ next[o] = q
        /\ \A m \in Overlay \ {o} : next[m] = projects[m]
    BY <1>1, <2>1, <2>2
  <2>4. \A m \in Overlay : Steady(next[m])
    BY <1>1, <2>2, <2>3
  <2> QED BY <2>2, <2>3, <2>4 DEF p, next, Roots, Root
<1> QED BY <1>2, <1>3

LEMMA RootsValid == \A projects \in Roots : Valid(projects)
BY DEF Roots, Valid, Steady

-----------------------------------------------------------------------------
(* The file and the root *)

StoreKept ==
  /\ file \in [state : {"absent", "damaged", "future", "ready"}, root : Roots]
  /\ root \in Roots
  /\ mode \in Modes
  /\ old \in {"absent", "valid", "damaged"}
  /\ file.state = "absent" => file.root = NoRoot

\* The file is at most one save or publication ahead.
Ahead ==
  mode = "ready" =>
    /\ file.state = "ready"
    /\ \/ file.root = root
       \/ \E drafts \in DraftSet : Affordable(root, drafts) /\ file.root = Synced(root, drafts)
       \/ \E o \in Overlay : root[o] # Gone /\ file.root = WithPublished(root, o)

LEMMA InitKept == Init => StoreKept /\ Ahead
BY GoneFacts, StoreAssumption DEF Init, StoreInit, StoreKept, Ahead, Modes

LEMMA SeedFacts == Seed \in DraftSet /\ Affordable(NoRoot, Seed)
<1>1. \A o \in Overlay : NoRoot[o].number < MaxRevision
  BY StoreAssumption, GoneFacts DEF NoRoot
<1> QED BY <1>1, StoreAssumption DEF DraftSet, Affordable

\* One outcome of a commit of next.
LEMMA CommitKept ==
  ASSUME StoreKept, Ahead, NEW next \in Roots, NEW outcome, Commit(next, outcome), UNCHANGED <<mode, old>>,
         \/ next = root
         \/ \E drafts \in DraftSet : Affordable(root, drafts) /\ next = Synced(root, drafts)
  PROVE  StoreKept' /\ Ahead'
<1>1. CASE Committable(next) /\ outcome # "failed"
  <2>1. file' = [state |-> "ready", root |-> next] /\ root' \in {next, root}
    BY <1>1 DEF Commit
  <2>2. file'.state = "ready" /\ file'.root = next
    BY <2>1
  <2>3. StoreKept'
    BY <2>1, <2>2 DEF StoreKept
  <2>4. Ahead'
    BY <2>1, <2>2 DEF Ahead
  <2> QED BY <2>3, <2>4
<1>2. CASE UNCHANGED <<file, root>>
  BY <1>2 DEF StoreKept, Ahead
<1> QED BY <1>1, <1>2 DEF Commit

\* What StoreKept says of the drafts.
LEMMA DraftsTyped ==
  ASSUME StoreKept
  PROVE  Drafts \in DraftSet /\ \A o \in Overlay : Drafts[o] = root[o].draft
BY GoneFacts DEF StoreKept, Roots, Root, Drafts, DraftSet

LEMMA EditKept ==
  ASSUME StoreKept, Ahead, Edit
  PROVE  StoreKept' /\ Ahead'
<1>1. PICK o \in Overlay, d \in Document \cup {"none"}, outcome \in Outcomes :
        /\ root[o].number < MaxRevision
        /\ SaveDrafts([Drafts EXCEPT ![o] = d], outcome)
  BY DEF Edit
<1> DEFINE drafts == [Drafts EXCEPT ![o] = d]
<1>2. drafts \in DraftSet /\ \A m \in Overlay : drafts[m] = IF m = o THEN d ELSE root[m].draft
  BY DraftsTyped DEF DraftSet
<1>3. Commit(Synced(root, drafts), outcome) /\ UNCHANGED <<mode, old>>
  BY <1>1 DEF SaveDrafts
<1> HIDE DEF drafts
<1>4. root \in Roots /\ Affordable(root, drafts)
  BY <1>1, <1>2 DEF StoreKept, Affordable
<1>5. Synced(root, drafts) \in Roots
  BY <1>2, <1>4, SyncedRoot
<1> QED BY <1>2, <1>3, <1>4, <1>5, CommitKept

LEMMA PublishKept ==
  ASSUME StoreKept, Ahead, Publish
  PROVE  StoreKept' /\ Ahead'
<1>1. PICK o \in Overlay, saved \in Outcomes, outcome \in Outcomes : PublishDraft(o, saved, outcome)
  BY DEF Publish
<1>2. UNCHANGED <<mode, old>> /\ root[o] # Gone /\ root \in Roots
  BY <1>1 DEF PublishDraft, StoreKept
<1>3. CASE ~Succeeds(root, saved)
  <2>1. Commit(root, saved)
    BY <1>1, <1>3 DEF PublishDraft
  <2> QED BY <1>2, <2>1, CommitKept
<1>4. CASE Succeeds(root, saved)
  <2> DEFINE next == WithPublished(root, o)
  <2>1. next \in Roots
    BY <1>2, PublishedAt
  <2>2. \E r \in {root, next} : file' = [state |-> "ready", root |-> r]
    BY <1>1, <1>4 DEF PublishDraft
  <2>3. root' = root \/ (root' = next /\ file' = [state |-> "ready", root |-> next])
    BY <1>1, <1>4 DEF PublishDraft, Succeeds
  <2> HIDE DEF next
  <2>4. PICK r \in {root, next} : file' = [state |-> "ready", root |-> r]
                                  /\ (root' = root \/ (root' = next /\ r = next))
    BY <2>2, <2>3
  <2>5. file'.state = "ready" /\ file'.root = r
    BY <2>4
  <2>6. StoreKept'
    BY <1>2, <2>1, <2>4, <2>5 DEF StoreKept
  <2>7. Ahead'
    BY <1>2, <2>4, <2>5 DEF Ahead, next
  <2> QED BY <2>6, <2>7
<1> QED BY <1>3, <1>4

LEMMA StartKept ==
  ASSUME StoreKept, Ahead, Start
  PROVE  StoreKept' /\ Ahead'
<1>1. PICK readable \in BOOLEAN, outcome \in Outcomes : Load(readable, outcome)
  BY DEF Start
<1>2. UNCHANGED old /\ mode' \in Modes
  BY <1>1 DEF Load, Modes
<1>3. CASE UNCHANGED file /\ UNCHANGED root /\ mode' \in {"readonly", "recovery"}
  BY <1>2, <1>3 DEF StoreKept, Ahead
<1>4. CASE UNCHANGED file /\ root' = file.root /\ file.state = "ready"
  BY <1>2, <1>4 DEF StoreKept, Ahead
<1>5. CASE \E first \in Roots :
             /\ file' = file \/ file' = [state |-> "ready", root |-> first]
             /\ root' = root \/ root' = first
             /\ mode' = "ready" => root' = first /\ file' = [state |-> "ready", root |-> first]
  <2>1. PICK first \in Roots :
             /\ file' = file \/ file' = [state |-> "ready", root |-> first]
             /\ root' = root \/ root' = first
             /\ mode' = "ready" => root' = first /\ file' = [state |-> "ready", root |-> first]
    BY <1>5
  <2>2. file' = file \/ (file'.state = "ready" /\ file'.root = first)
    BY <2>1
  <2>3. mode' = "ready" => root' = first /\ file'.state = "ready" /\ file'.root = first
    BY <2>1
  <2>4. StoreKept'
    BY <1>2, <2>1, <2>2 DEF StoreKept
  <2> QED BY <2>3, <2>4 DEF Ahead
<1>6. Synced(NoRoot, Seed) \in Roots
  BY SeedFacts, SyncedRoot, GoneFacts
<1> QED BY <1>1, <1>3, <1>4, <1>5, <1>6 DEF Load

LEMMA StoreStep ==
  ASSUME StoreKept, Ahead, [Next]_vars
  PROVE  StoreKept' /\ Ahead'
<1>1. CASE End
  BY <1>1, GoneFacts DEF End, Down, StoreKept, Ahead, Modes
<1>2. CASE UNCHANGED storeVars
  BY <1>2 DEF storeVars, StoreKept, Ahead
<1>3. UNCHANGED vars => UNCHANGED storeVars
  BY DEF vars, storeVars
<1> QED BY <1>1, <1>2, <1>3, StartKept, EditKept, PublishKept DEF Next

LEMMA StoreAlways == Spec => [](StoreKept /\ Ahead)
<1>1. Init => StoreKept /\ Ahead
  BY InitKept
<1>2. StoreKept /\ Ahead /\ [Next]_vars => (StoreKept /\ Ahead)'
  BY StoreStep
<1> QED BY <1>1, <1>2, PTL DEF Spec

\* Whatever was edited, saved and published before, and whichever writes could
\* not be verified, the draft of every overlay can be published (Store::publish
\* and validateV2).
THEOREM DraftsArePublishable == Spec => []DraftCanBePublished
<1>1. StoreKept => DraftCanBePublished
  BY PublishedAt, RootsValid DEF StoreKept, DraftCanBePublished
<1> QED BY <1>1, StoreAlways, PTL

\* A file that could not be read, or that a newer build wrote, is never written
\* over (commitRoot).
THEOREM UnreadableStays == Spec => UnreadableKept
<1>1. ASSUME [Next]_vars
      PROVE  [(mode \in {"recovery", "readonly"} /\ file.state # "absent") => UNCHANGED file]_vars
  <2>1. CASE Edit
    BY <2>1 DEF Edit, SaveDrafts, Commit, Committable, Writable
  <2>2. CASE Publish
    BY <2>2 DEF Publish, PublishDraft, Commit, Committable, Writable, Succeeds
  <2>3. CASE Start
    BY <2>3 DEF Start, Load
  <2>4. CASE End \/ UNCHANGED storeVars
    BY <2>4 DEF End, Down, storeVars
  <2> QED BY <1>1, <2>1, <2>2, <2>3, <2>4 DEF Next
<1> QED BY <1>1, PTL DEF Spec, UnreadableKept

-----------------------------------------------------------------------------
(* The shelf *)

Kept == IF mode = "ready" THEN root ELSE file.root

View(projects) ==
  [o \in Overlay |-> IF projects[o] = Gone THEN [draft |-> "none", live |-> "none"]
                     ELSE [draft |-> projects[o].draft, live |-> LiveDocument(projects[o])]]

LEMMA ShelfIsView == OnShelf = View(Kept) /\ OnShelf' = View(Kept')
BY DEF OnShelf, View, Kept

LEMMA ViewOfSynced ==
  ASSUME NEW projects \in Roots, NEW drafts \in DraftSet, Affordable(projects, drafts),
         OnShelf = View(projects), OnShelf' = View(Synced(projects, drafts))
  PROVE  Shelf!Save(drafts)
<1>1. ASSUME NEW o \in Overlay
      PROVE  View(Synced(projects, drafts))[o] =
               IF drafts[o] = "none" THEN Shelf!Nothing
               ELSE [draft |-> drafts[o],
                     live |-> IF OnShelf[o] = Shelf!Nothing THEN drafts[o] ELSE OnShelf[o].live]
  <2>1. /\ drafts[o] = "none" => Synced(projects, drafts)[o] = Gone
        /\ drafts[o] # "none" => LET q == Synced(projects, drafts)[o] IN
             /\ q # Gone /\ q.draft = drafts[o]
             /\ LiveDocument(q) = IF projects[o] = Gone THEN drafts[o] ELSE LiveDocument(projects[o])
    BY SyncedAt, GoneFacts
  <2>2. OnShelf[o] = IF projects[o] = Gone THEN Shelf!Nothing
                     ELSE [draft |-> projects[o].draft, live |-> LiveDocument(projects[o])]
    BY DEF View, Shelf!Nothing
  <2>3. projects[o] # Gone => projects[o].draft # "none"
    BY GoneFacts DEF Roots, Root
  <2>4. projects[o] # Gone => OnShelf[o] # Shelf!Nothing /\ OnShelf[o].live = LiveDocument(projects[o])
    BY <2>2, <2>3 DEF Shelf!Nothing
  <2> QED BY <2>1, <2>2, <2>4 DEF View, Shelf!Nothing
<1>2. View(Synced(projects, drafts)) = [o \in Overlay |-> View(Synced(projects, drafts))[o]]
  BY DEF View
<1> HIDE DEF View
<1> QED BY <1>1, <1>2 DEF Shelf!Save, Shelf!Saved

LEMMA ViewOfPublished ==
  ASSUME NEW projects \in Roots, NEW o \in Overlay, projects[o] # Gone,
         OnShelf = View(projects), OnShelf' = View(WithPublished(projects, o))
  PROVE  Shelf!Publish(o)
<1> DEFINE next == WithPublished(projects, o)
<1>1. /\ \A m \in Overlay \ {o} : next[m] = projects[m]
      /\ next[o] # Gone /\ next[o].draft = projects[o].draft /\ LiveDocument(next[o]) = projects[o].draft
  BY PublishedAt
<1>2. projects[o].draft # "none"
  BY GoneFacts DEF Roots, Root
<1> HIDE DEF next
<1>3. OnShelf[o] # Shelf!Nothing /\ OnShelf[o].draft = projects[o].draft
  BY <1>2 DEF View, Shelf!Nothing
<1>4. View(next) = [OnShelf EXCEPT ![o].live = OnShelf[o].draft]
  BY <1>1, <1>3 DEF View
<1> QED BY <1>3, <1>4 DEF next, Shelf!Publish

LEMMA ShelfStill ==
  ASSUME Kept' = Kept
  PROVE  UNCHANGED OnShelf
BY ShelfIsView

\* A step from what was kept to one of its versions.
LEMMA ShelfMoves ==
  ASSUME Kept \in Roots,
         \/ Kept' = Kept
         \/ \E drafts \in DraftSet : Affordable(Kept, drafts) /\ Kept' = Synced(Kept, drafts)
         \/ \E o \in Overlay : Kept[o] # Gone /\ Kept' = WithPublished(Kept, o)
  PROVE  [Shelf!Next]_OnShelf
<1>1. CASE Kept' = Kept
  BY <1>1, ShelfStill
<1>2. ASSUME NEW drafts \in DraftSet, Affordable(Kept, drafts), Kept' = Synced(Kept, drafts)
      PROVE  Shelf!Next
  <2>1. OnShelf = View(Kept) /\ OnShelf' = View(Synced(Kept, drafts))
    BY <1>2, ShelfIsView
  <2>2. Shelf!Save(drafts)
    BY <1>2, <2>1, ViewOfSynced
  <2> QED BY <2>2 DEF Shelf!Next, DraftSet
<1>3. ASSUME NEW o \in Overlay, Kept[o] # Gone, Kept' = WithPublished(Kept, o)
      PROVE  Shelf!Next
  <2>1. OnShelf = View(Kept) /\ OnShelf' = View(WithPublished(Kept, o))
    BY <1>3, ShelfIsView
  <2>2. Shelf!Publish(o)
    BY <1>3, <2>1, ViewOfPublished
  <2> QED BY <2>2 DEF Shelf!Next
<1> QED BY <1>1, <1>2, <1>3

LEMMA ShelfStep ==
  ASSUME StoreKept, Ahead, [Next]_vars
  PROVE  [Shelf!Next]_OnShelf
<1>0. Kept \in Roots
  BY DEF Kept, StoreKept
<1>1. CASE Start
  <2>1. PICK readable \in BOOLEAN, outcome \in Outcomes : Load(readable, outcome)
    BY <1>1 DEF Start
  <2>2. Kept = file.root
    BY <2>1 DEF Load, Kept
  <2>3. CASE UNCHANGED file /\ (mode' = "ready" => root' = file.root)
    BY <1>0, <2>2, <2>3, ShelfMoves DEF Kept
  <2>4. CASE file.state = "absent" /\ file' # file
    <3> DEFINE first == Synced(NoRoot, Seed)
    <3>1. file' = [state |-> "ready", root |-> first] /\ (mode' = "ready" => root' = first)
      BY <2>1, <2>4 DEF Load
    <3>2. Kept' = first /\ Kept = NoRoot
      BY <2>2, <2>4, <3>1 DEF Kept, StoreKept
    <3> QED BY <1>0, <3>2, SeedFacts, ShelfMoves
  <2> QED BY <2>1, <2>3, <2>4 DEF Load
<1>2. CASE Edit
  <2>1. PICK o \in Overlay, d \in Document \cup {"none"}, outcome \in Outcomes :
          /\ root[o].number < MaxRevision
          /\ SaveDrafts([Drafts EXCEPT ![o] = d], outcome)
    BY <1>2 DEF Edit
  <2> DEFINE drafts == [Drafts EXCEPT ![o] = d]
  <2>2. drafts \in DraftSet /\ \A m \in Overlay : drafts[m] = IF m = o THEN d ELSE root[m].draft
    BY DraftsTyped DEF DraftSet
  <2>3. Commit(Synced(root, drafts), outcome) /\ UNCHANGED mode
    BY <2>1 DEF SaveDrafts
  <2> HIDE DEF drafts
  <2>4. Affordable(root, drafts)
    BY <2>1, <2>2 DEF Affordable
  <2>5. CASE mode # "ready"
    <3>1. Kept' = Kept
      BY <2>3, <2>5 DEF Commit, Committable, Writable, Kept
    <3> QED BY <1>0, <3>1, ShelfMoves
  <2>6. CASE mode = "ready"
    <3>1. Kept = root /\ Kept' \in {root, Synced(root, drafts)}
      BY <2>3, <2>6 DEF Commit, Kept
    <3> QED BY <1>0, <2>2, <2>4, <3>1, ShelfMoves
  <2> QED BY <2>5, <2>6
<1>3. CASE Publish
  <2>1. PICK o \in Overlay, saved \in Outcomes, outcome \in Outcomes : PublishDraft(o, saved, outcome)
    BY <1>3 DEF Publish
  <2>2. root[o] # Gone /\ UNCHANGED mode
    BY <2>1 DEF PublishDraft
  <2>3. CASE mode # "ready"
    <3>1. Kept' = Kept
      BY <2>1, <2>3 DEF PublishDraft, Succeeds, Commit, Committable, Writable, Kept
    <3> QED BY <1>0, <3>1, ShelfMoves
  <2>4. CASE mode = "ready"
    <3>1. root' \in {root, WithPublished(root, o)}
      BY <2>1 DEF PublishDraft, Commit
    <3>2. Kept = root /\ Kept' = root'
      BY <2>2, <2>4 DEF Kept
    <3> QED BY <1>0, <2>2, <3>1, <3>2, ShelfMoves
  <2> QED BY <2>3, <2>4
<1>4. CASE End
  <2>1. Kept' = file.root
    BY <1>4 DEF End, Down, Kept
  <2>2. CASE mode # "ready"
    BY <1>0, <2>1, <2>2, ShelfMoves DEF Kept
  <2>3. CASE mode = "ready"
    <3>1. Kept = root
      BY <2>3 DEF Kept
    <3> QED BY <1>0, <2>1, <2>3, <3>1, ShelfMoves DEF Ahead
  <2> QED BY <2>2, <2>3
<1>5. CASE UNCHANGED storeVars
  BY <1>0, <1>5, ShelfMoves DEF storeVars, Kept
<1>6. UNCHANGED vars => UNCHANGED storeVars
  BY DEF vars, storeVars
<1> QED BY <1>1, <1>2, <1>3, <1>4, <1>5, <1>6 DEF Next

\* The store is a shelf: every save, publication and load is one step of it,
\* also when the program ends between a write and its check (commitRoot).
THEOREM StoreIsShelf == Spec => ImplementsShelf
<1>1. Init => Shelf!Init
  <2> SUFFICES ASSUME Init PROVE OnShelf = [o \in Overlay |-> Shelf!Nothing]
    BY DEF Shelf!Init
  <2>1. Kept = NoRoot
    BY DEF Init, StoreInit, Kept
  <2> QED BY <2>1, ShelfIsView DEF View, NoRoot, Shelf!Nothing
<1>2. StoreKept /\ Ahead /\ [Next]_vars => [Shelf!Next]_OnShelf
  BY ShelfStep
<1> QED BY <1>1, <1>2, StoreAlways, PTL DEF Spec, ImplementsShelf, Shelf!Spec

-----------------------------------------------------------------------------
(* What a message does to the streams *)

LEMMA EmitNobody == \A n, m : n.clients = <<>> => Emit(n, m) = n
BY DEF Emit

LEMMA EmitSome ==
  ASSUME NEW n, NEW m, n.clients # <<>>
  PROVE  \E c : Emit(n, m) =
           [clients |-> c,
            inbox |-> [p \in Page |->
              IF \E i \in DOMAIN n.clients : /\ n.clients[i] = [page |-> p, live |-> TRUE]
                                             /\ Fits(n, n.clients[i])
              THEN Append(n.inbox[p], Copy(m, n.clients[SoundOwner(n)] = [page |-> p, live |-> TRUE]))
              ELSE n.inbox[p]]]
BY Zenon DEF Emit

NetLike(n) ==
  /\ n = [clients |-> n.clients, inbox |-> n.inbox]
  /\ n.inbox \in [Page -> Seq(Message)]

LEMMA CopyTyped ==
  ASSUME NEW m \in Message, NEW owns
  PROVE  /\ Copy(m, owns) \in Message /\ Copy(m, owns).kind = m.kind /\ Copy(m, owns).alert = m.alert
         /\ Copy(m, owns).muted = IF m.kind = "alert" /\ ~owns THEN TRUE ELSE m.muted
BY DEF Copy, Message

\* A page gets nothing, or its copy of the message.
LEMMA EmitTyped ==
  ASSUME NEW n, NetLike(n), NEW m \in Message
  PROVE  /\ NetLike(Emit(n, m))
         /\ \A p \in Page : Emit(n, m).inbox[p] \in
              {n.inbox[p], Append(n.inbox[p], Copy(m, n.clients[SoundOwner(n)] = [page |-> p, live |-> TRUE]))}
<1>1. CASE n.clients = <<>>
  <2>1. Emit(n, m) = n
    BY <1>1, EmitNobody
  <2> QED BY <2>1
<1>2. CASE n.clients # <<>>
  <2>1. PICK c : Emit(n, m) =
           [clients |-> c,
            inbox |-> [p \in Page |->
              IF \E i \in DOMAIN n.clients : /\ n.clients[i] = [page |-> p, live |-> TRUE]
                                             /\ Fits(n, n.clients[i])
              THEN Append(n.inbox[p], Copy(m, n.clients[SoundOwner(n)] = [page |-> p, live |-> TRUE]))
              ELSE n.inbox[p]]]
    BY <1>2, EmitSome
  <2> DEFINE e == Emit(n, m)
  <2>2. \A p \in Page : e.inbox[p] \in
          {n.inbox[p], Append(n.inbox[p], Copy(m, n.clients[SoundOwner(n)] = [page |-> p, live |-> TRUE]))}
    BY <2>1
  <2>3. e = [clients |-> e.clients, inbox |-> e.inbox] /\ e.inbox = [p \in Page |-> e.inbox[p]]
    BY <2>1
  <2> HIDE DEF e
  <2>4. ASSUME NEW p \in Page
        PROVE  e.inbox[p] \in Seq(Message)
    <3> DEFINE k == Copy(m, n.clients[SoundOwner(n)] = [page |-> p, live |-> TRUE])
    <3>1. k \in Message
      BY CopyTyped
    <3>2. n.inbox[p] \in Seq(Message)
      BY DEF NetLike
    <3>3. e.inbox[p] \in {n.inbox[p], Append(n.inbox[p], k)}
      BY <2>2
    <3> HIDE DEF k
    <3>4. Append(n.inbox[p], k) \in Seq(Message)
      BY <3>1, <3>2
    <3> QED BY <3>2, <3>3, <3>4
  <2>5. NetLike(e)
    BY <2>3, <2>4 DEF NetLike
  <2> QED BY <2>2, <2>5 DEF e
<1> QED BY <1>1, <1>2

LEMMA BrokenTyped ==
  ASSUME NEW n, NetLike(n), NEW p \in Page
  PROVE  /\ NetLike(Broken(n, p))
         /\ \A q \in Page : Broken(n, p).inbox[q] = IF q = p THEN <<>> ELSE n.inbox[q]
<1>1. <<>> \in Seq(Message)
  OBVIOUS
<1>2. Broken(n, p).inbox = [n.inbox EXCEPT ![p] = <<>>]
  BY DEF Broken
<1>3. Broken(n, p) = [clients |-> Broken(n, p).clients, inbox |-> Broken(n, p).inbox]
  BY DEF Broken
<1> HIDE DEF Broken
<1> QED BY <1>1, <1>2, <1>3 DEF NetLike

LEMMA InboxTyped ==
  ASSUME NEW n, NetLike(n), NEW p \in Page, NEW t \in Seq(Message)
  PROVE  LET r == [n EXCEPT !.inbox[p] = t]
         IN NetLike(r) /\ \A q \in Page : r.inbox[q] = IF q = p THEN t ELSE n.inbox[q]
<1> DEFINE c == n.clients
           b == n.inbox
           r == [n EXCEPT !.inbox[p] = t]
<1>1. n = [clients |-> c, inbox |-> b]
  BY DEF NetLike
<1> HIDE DEF c
<1>2. r = [clients |-> c, inbox |-> [b EXCEPT ![p] = t]]
  BY <1>1
<1>3. r.inbox = [b EXCEPT ![p] = t] /\ r.clients = c
  BY <1>2
<1> HIDE DEF r
<1> QED BY <1>2, <1>3 DEF NetLike, r

LEMMA MessagesTyped ==
  /\ Control("finish") \in Message /\ Control("reload") \in Message
  /\ Control("finish").kind # "alert" /\ Control("reload").kind # "alert"
  /\ \A v \in BOOLEAN : /\ [Control("mute") EXCEPT !.muted = v] \in Message
                        /\ [Control("mute") EXCEPT !.muted = v].kind # "alert"
  /\ \A a \in Alert \cup {NoAlert}, v \in BOOLEAN :
       [kind |-> "alert", alert |-> a, muted |-> v] \in Message
BY DEF Control, Message

-----------------------------------------------------------------------------
(* The queue *)

Lane == [pending : Seq(Alert), active : Alert \cup {NoAlert}, paused : BOOLEAN,
         reload : BOOLEAN, timer : BOOLEAN, starts : 0..MaxStarts]

\* The lane l attends to its alerts while the streams are n.
Tended(l, n) ==
  /\ l.active # NoAlert <=> l.timer
  /\ served # "none" /\ l.pending # <<>> /\ n.clients # <<>>
     /\ l.active = NoAlert /\ ~l.paused => l.starts > 0

Attended ==
  /\ lane \in Lane
  /\ NetLike(net)
  /\ muted \in BOOLEAN
  /\ raised \in 0..MaxAlerts
  /\ mode = "down" => lane = Quiet
  /\ served = Published
  /\ NoForgottenAlert

LEMMA TendedNow == NoForgottenAlert <=> Tended(lane, net)
BY DEF NoForgottenAlert, Tended

LEMMA NoneWait == <<>> \in Seq(Alert)
OBVIOUS

LEMMA QuietTyped == Quiet \in Lane /\ \A n : Tended(Quiet, n)
BY AlertAssumption DEF Quiet, Lane, Tended

LEMMA LaterTyped ==
  ASSUME NEW l \in Lane
  PROVE  /\ Later(l) \in Lane /\ Later(l).starts > 0 /\ Later(l).active = l.active
         /\ Later(l).timer = l.timer /\ Later(l).pending = l.pending
BY AlertAssumption DEF Later, Lane

LEMMA StartNextTended ==
  ASSUME NEW l \in Lane, l.active # NoAlert <=> l.timer, NEW n
  PROVE  /\ StartNext(l, n).lane \in Lane
         /\ Tended(StartNext(l, n).lane, StartNext(l, n).net)
<1> DEFINE s == StartNext(l, n)
<1>1. CASE served = "none"
  <2>1. s.lane = [l EXCEPT !.pending = <<>>]
    BY <1>1 DEF StartNext
  <2> HIDE DEF s
  <2>2. s.lane \in Lane
    BY <2>1, NoneWait DEF Lane
  <2>3. s.lane.active = l.active /\ s.lane.timer = l.timer
    BY <2>1 DEF Lane
  <2> QED BY <1>1, <2>2, <2>3 DEF Tended, s
<1>2. CASE served # "none" /\ (n.clients = <<>> \/ l.active # NoAlert \/ l.paused \/ l.pending = <<>>)
  <2>1. s = [lane |-> l, net |-> n]
    BY <1>2 DEF StartNext
  <2> HIDE DEF s
  <2>2. s.lane = l /\ s.net = n
    BY <2>1
  <2> QED BY <1>2, <2>2 DEF Tended, s
<1>3. CASE served # "none" /\ ~(n.clients = <<>> \/ l.active # NoAlert \/ l.paused \/ l.pending = <<>>)
  <2> DEFINE next == Head(l.pending)
             rest == [l EXCEPT !.pending = Tail(@)]
  <2>1. l.pending \in Seq(Alert) /\ l.pending # <<>>
    BY <1>3 DEF Lane
  <2>2. next \in Alert /\ Tail(l.pending) \in Seq(Alert)
    BY <2>1, HeadTailProperties
  <2>3. rest \in Lane /\ rest.active = l.active /\ rest.timer = l.timer
    BY <2>2 DEF Lane
  <2>4. CASE next \notin Accepts[served]
    <3>1. s.lane = Later(rest)
      BY <1>3, <2>4 DEF StartNext
    <3> HIDE DEF s, rest
    <3> QED BY <2>3, <3>1, LaterTyped DEF Tended, s
  <2>5. CASE next \in Accepts[served]
    <3>1. s.lane = [rest EXCEPT !.active = next, !.timer = TRUE]
      BY <1>3, <2>5 DEF StartNext
    <3> HIDE DEF s, rest, next
    <3>2. s.lane \in Lane /\ s.lane.active = next /\ s.lane.timer = TRUE
      BY <2>2, <2>3, <3>1 DEF Lane
    <3>3. next # NoAlert
      BY <2>2 DEF Alert, NoAlert
    <3> QED BY <3>2, <3>3 DEF Tended, s
  <2> QED BY <2>4, <2>5
<1> QED BY <1>1, <1>2, <1>3

LEMMA FinishedTended ==
  ASSUME NEW l \in Lane
  PROVE  /\ Finished(l).lane \in Lane
         /\ Tended(Finished(l).lane, Finished(l).net)
<1> DEFINE idle == [l EXCEPT !.active = NoAlert, !.timer = FALSE, !.reload = FALSE]
           told == IF served = "none" THEN net ELSE Emit(net, Control("finish"))
<1>1. idle \in Lane /\ idle.active = NoAlert /\ idle.timer = FALSE
  BY DEF Lane
<1>2. CASE l.reload
  <2>1. Finished(l).lane = Later(idle)
    BY <1>2 DEF Finished
  <2> HIDE DEF idle
  <2> QED BY <1>1, <2>1, LaterTyped DEF Tended
<1>3. CASE ~l.reload
  <2>1. Finished(l) = StartNext(idle, told)
    BY <1>3 DEF Finished
  <2> HIDE DEF idle, told
  <2> QED BY <1>1, <2>1, StartNextTended
<1> QED BY <1>2, <1>3

\* The alerts' own steps.
LEMMA LaneTended ==
  ASSUME Attended, LaneStep
  PROVE  lane' \in Lane /\ raised' \in 0..MaxAlerts /\ NoForgottenAlert'
<1> USE DEF Attended
<1>0. served' = served
  BY DEF LaneStep, Raise, Expire, RunStart, Skip, StopAndClear, Pause, Resume, Notice, Mute
<1>g. ASSUME NEW s, Becomes(s), s.lane \in Lane, Tended(s.lane, s.net)
      PROVE  lane' \in Lane /\ NoForgottenAlert'
  BY <1>0, <1>g DEF Becomes, Tended, NoForgottenAlert
<1>r. raised' \in 0..MaxAlerts
  <2>1. raised' = raised \/ (raised < MaxAlerts /\ raised' = raised + 1)
    BY DEF LaneStep, Raise, Expire, RunStart, Skip, StopAndClear, Pause, Resume, Notice, Mute
  <2> QED BY <2>1, AlertAssumption
<1>t. lane.active # NoAlert <=> lane.timer
  BY DEF NoForgottenAlert
<1>1. CASE Raise
  <2>1. CASE raised + 1 \in Accepts[served] /\ Len(lane.pending) < AlertLimit
    <3> DEFINE l == [lane EXCEPT !.pending = Append(@, raised + 1)]
    <3>1. raised + 1 \in Alert
      BY <1>1, AlertAssumption DEF Raise, Alert
    <3>2. Append(lane.pending, raised + 1) \in Seq(Alert)
      BY <3>1 DEF Lane
    <3>4. l \in Lane /\ l.active = lane.active /\ l.timer = lane.timer
      BY <3>2 DEF Lane
    <3>3. Becomes(StartNext(l, net))
      BY <1>1, <2>1 DEF Raise
    <3> HIDE DEF l
    <3> QED BY <1>g, <1>r, <1>t, <3>3, <3>4, StartNextTended
  <2>2. CASE UNCHANGED <<lane, net>>
    BY <1>0, <1>r, <2>2 DEF NoForgottenAlert
  <2> QED BY <1>1, <2>1, <2>2 DEF Raise
<1>2. CASE Expire \/ Skip
  BY <1>2, <1>g, <1>r, FinishedTended DEF Expire, Skip
<1>3. CASE RunStart
  <2> DEFINE l == [lane EXCEPT !.starts = @ - 1]
  <2>1. l \in Lane /\ l.active = lane.active /\ l.timer = lane.timer
    BY <1>3, AlertAssumption DEF RunStart, Lane
  <2>2. Becomes(StartNext(l, net))
    BY <1>3 DEF RunStart
  <2> HIDE DEF l
  <2> QED BY <1>g, <1>r, <1>t, <2>1, <2>2, StartNextTended
<1>4. CASE StopAndClear
  <2> DEFINE l == [lane EXCEPT !.pending = <<>>]
  <2>1. l \in Lane /\ l.active = lane.active /\ l.timer = lane.timer /\ l.pending = <<>>
    BY NoneWait DEF Lane
  <2>2. Becomes(IF lane.active = NoAlert THEN [lane |-> l, net |-> net] ELSE Finished(l))
    BY <1>4 DEF StopAndClear
  <2> HIDE DEF l
  <2>3. CASE lane.active = NoAlert
    <3>1. lane' = l /\ net' = net
      BY <2>2, <2>3 DEF Becomes
    <3> QED BY <1>r, <1>t, <2>1, <3>1 DEF NoForgottenAlert
  <2>4. CASE lane.active # NoAlert
    BY <1>g, <1>r, <2>1, <2>2, <2>4, FinishedTended
  <2> QED BY <2>3, <2>4
<1>5. CASE Pause
  <2>1. lane' \in Lane /\ lane'.paused = TRUE /\ lane'.active = lane.active /\ lane'.timer = lane.timer
    BY <1>5 DEF Pause, Lane
  <2> QED BY <1>r, <1>t, <2>1 DEF NoForgottenAlert
<1>6. CASE Resume
  <2> DEFINE l == [lane EXCEPT !.paused = FALSE]
  <2>1. l \in Lane /\ l.active = lane.active /\ l.timer = lane.timer
    BY DEF Lane
  <2>2. Becomes(StartNext(l, net))
    BY <1>6 DEF Resume
  <2> HIDE DEF l
  <2> QED BY <1>g, <1>r, <1>t, <2>1, <2>2, StartNextTended
<1>7. CASE Notice
  <2>1. lane' = lane /\ net.clients # <<>>
    BY <1>7 DEF Notice
  <2> QED BY <1>0, <1>r, <2>1 DEF NoForgottenAlert
<1>8. CASE \E value \in BOOLEAN : Mute(value)
  <2>1. PICK m : lane' = lane /\ net' \in {net, Emit(net, m)}
    BY <1>8 DEF Mute
  <2>2. net'.clients # <<>> => net.clients # <<>>
    BY <2>1, EmitNobody
  <2> QED BY <1>0, <1>r, <2>1, <2>2 DEF NoForgottenAlert
<1> QED BY <1>1, <1>2, <1>3, <1>4, <1>5, <1>6, <1>7, <1>8 DEF LaneStep

LEMMA BrokenNobody == \A n, p : n.clients = <<>> => Broken(n, p).clients = <<>>
BY DEF Broken

LEMMA PageTended ==
  ASSUME Attended, PageStep
  PROVE  lane' \in Lane /\ raised' = raised /\ NoForgottenAlert'
<1> USE DEF Attended
<1>0. served' = served /\ raised' = raised
  BY DEF PageStep, Open, Close, Render, Connect, Lose, EndOfStream, Read, Hide
<1>1. PICK p \in Page : Open(p) \/ Close(p) \/ Render(p) \/ Connect(p) \/ Lose(p)
                        \/ EndOfStream(p) \/ Read(p) \/ Hide(p)
  BY DEF PageStep
<1>2. CASE Connect(p)
  <2>1. (lane' = lane /\ lane.active # NoAlert) \/ lane' = Later(lane)
    BY <1>2 DEF Connect
  <2> QED BY <1>0, <2>1, LaterTyped DEF NoForgottenAlert
<1>3. CASE ~Connect(p)
  <2>1. lane' = lane
    BY <1>1, <1>3 DEF Open, Close, Render, Lose, EndOfStream, Read, Hide
  <2>2. \/ net'.clients = net.clients
        \/ net' = Broken(net, p)
    BY <1>1, <1>3 DEF Open, Close, Render, Lose, EndOfStream, Read, Hide, NetLike
  <2> QED BY <1>0, <2>1, <2>2, BrokenNobody DEF NoForgottenAlert
<1> QED BY <1>2, <1>3

-----------------------------------------------------------------------------
(* The sound *)

\* Pages with a copy of the alert a that sounds.
Loud(n, a) == {p \in Page : \E i \in DOMAIN n.inbox[p] :
                 n.inbox[p][i] = [kind |-> "alert", alert |-> a, muted |-> FALSE]}

Waiting(l) == {l.pending[i] : i \in DOMAIN l.pending}

Once(l) == \A i, j \in DOMAIN l.pending : l.pending[i] = l.pending[j] => i = j

Quieter(m, n) == \A a \in Alert : Loud(m, a) \subseteq Loud(n, a)

\* Streams whose copies are muted or were there before are quieter.
LEMMA CopiesQuieter ==
  ASSUME NEW m, NEW n,
         \A p \in Page : \A i \in DOMAIN m.inbox[p] :
            m.inbox[p][i].muted = TRUE \/ \E j \in DOMAIN n.inbox[p] : n.inbox[p][j] = m.inbox[p][i]
  PROVE  \A a : Loud(m, a) \subseteq Loud(n, a)
<1> SUFFICES ASSUME NEW a, NEW p \in Page, p \in Loud(m, a) PROVE p \in Loud(n, a)
  BY DEF Loud
<1> DEFINE k == [kind |-> "alert", alert |-> a, muted |-> FALSE]
<1>1. k.muted = FALSE
  OBVIOUS
<1>2. PICK i \in DOMAIN m.inbox[p] : m.inbox[p][i] = k
  BY DEF Loud
<1> HIDE DEF k
<1>3. \E j \in DOMAIN n.inbox[p] : n.inbox[p][j] = k
  BY <1>1, <1>2
<1> QED BY <1>3 DEF Loud, k

LEMMA AppendLoud ==
  ASSUME NEW q \in Seq(Message), NEW m \in Message, NEW k,
         \E i \in DOMAIN Append(q, m) : Append(q, m)[i] = k
  PROVE  m = k \/ \E i \in DOMAIN q : q[i] = k
BY AppendProperties

LEMMA EmitLoud ==
  ASSUME NEW n, NetLike(n), NEW m \in Message
  PROVE  /\ \A a \in Alert : m # [kind |-> "alert", alert |-> a, muted |-> FALSE] =>
              Loud(Emit(n, m), a) \subseteq Loud(n, a)
         /\ \A a \in Alert : \E p : Loud(Emit(n, m), a) \subseteq Loud(n, a) \cup {p}
<1> DEFINE e == Emit(n, m)
           owner == n.clients[SoundOwner(n)]
           loud(a) == [kind |-> "alert", alert |-> a, muted |-> FALSE]
<1>1. \A p \in Page : e.inbox[p] \in {n.inbox[p], Append(n.inbox[p], Copy(m, owner = [page |-> p, live |-> TRUE]))}
  BY EmitTyped
<1>2. \A p \in Page : n.inbox[p] \in Seq(Message)
  BY DEF NetLike
<1>3. ASSUME NEW a \in Alert, NEW p \in Page, p \in Loud(e, a)
      PROVE  p \in Loud(n, a) \/ (m = loud(a) /\ owner = [page |-> p, live |-> TRUE])
  <2> DEFINE k == Copy(m, owner = [page |-> p, live |-> TRUE])
  <2>1. k \in Message /\ (k = loud(a) => m = loud(a) /\ owner = [page |-> p, live |-> TRUE])
    <3>1. /\ k \in Message /\ k.kind = m.kind /\ k.alert = m.alert
          /\ k.muted = IF m.kind = "alert" /\ ~(owner = [page |-> p, live |-> TRUE]) THEN TRUE ELSE m.muted
      BY CopyTyped
    <3> HIDE DEF k, owner
    <3>2. CASE k = loud(a)
      <4>1. k.kind = "alert" /\ k.alert = a /\ k.muted = FALSE
        BY <3>2
      <4>2. m.kind = "alert" /\ m.alert = a /\ m.muted = FALSE
        BY <3>1, <4>1
      <4>3. m = loud(a)
        BY <4>2 DEF Message
      <4> QED BY <3>1, <4>1, <4>2, <4>3
    <3> QED BY <3>1, <3>2
  <2>2. e.inbox[p] \in {n.inbox[p], Append(n.inbox[p], k)}
    BY <1>1
  <2>3. \E i \in DOMAIN e.inbox[p] : e.inbox[p][i] = loud(a)
    BY <1>3 DEF Loud
  <2> HIDE DEF k, e, owner, loud
  <2>4. k = loud(a) \/ \E i \in DOMAIN n.inbox[p] : n.inbox[p][i] = loud(a)
    BY <1>2, <2>1, <2>2, <2>3, AppendLoud
  <2> QED BY <2>1, <2>4 DEF Loud, loud
<1>4. \A a : Loud(e, a) \subseteq Page
  BY DEF Loud
<1> HIDE DEF e, owner, loud
<1>5. \A a \in Alert : m # loud(a) => Loud(e, a) \subseteq Loud(n, a)
  BY <1>3, <1>4
<1>6. \A a \in Alert : Loud(e, a) \subseteq Loud(n, a) \cup {owner.page}
  BY <1>3, <1>4
<1> QED BY <1>5, <1>6 DEF e, loud

LEMMA TellQuieter ==
  ASSUME NEW n, NetLike(n), NEW m \in Message, m.kind # "alert"
  PROVE  NetLike(Emit(n, m)) /\ Quieter(Emit(n, m), n)
BY EmitTyped, EmitLoud DEF Quieter

\* The lane l and streams n become s: what sounds anew no longer waits.
Follows(l, n, s) ==
  /\ NetLike(s.net) /\ Once(s.lane) /\ Waiting(s.lane) \subseteq Waiting(l)
  /\ \A a \in Alert :
       \/ Loud(s.net, a) \subseteq Loud(n, a)
       \/ /\ a \in Waiting(l) \ Waiting(s.lane)
          /\ \E p : Loud(s.net, a) \subseteq Loud(n, a) \cup {p}

LEMMA HeadWaits ==
  ASSUME NEW l \in Lane, Once(l), l.pending # <<>>, NEW k, k.pending = Tail(l.pending)
  PROVE  /\ Once(k) /\ Waiting(k) \subseteq Waiting(l)
         /\ Head(l.pending) \in Waiting(l) \ Waiting(k)
<1> DEFINE q == l.pending
<1>1. q \in Seq(Alert) /\ q # <<>>
  BY DEF Lane
<1>2. /\ DOMAIN Tail(q) = 1 .. Len(q) - 1 /\ DOMAIN q = 1 .. Len(q) /\ Len(q) \in Nat \ {0}
      /\ \A i \in 1 .. Len(q) - 1 : Tail(q)[i] = q[i + 1]
      /\ Head(q) = q[1]
  BY <1>1, HeadTailProperties, EmptySeq, LenProperties
<1>3. \A i, j \in 1 .. Len(q) : q[i] = q[j] => i = j
  BY <1>2 DEF Once
<1> HIDE DEF q
<1>4. Once(k)
  BY <1>2, <1>3 DEF Once, q
<1>5. Waiting(k) \subseteq Waiting(l)
  BY <1>2 DEF Waiting, q
<1>6. Head(q) \in Waiting(l)
  BY <1>2 DEF Waiting, q
<1>7. Head(q) \notin Waiting(k)
  BY <1>2, <1>3 DEF Waiting, q
<1> QED BY <1>4, <1>5, <1>6, <1>7 DEF q

LEMMA StartNextFollows ==
  ASSUME NEW l \in Lane, Once(l), NEW n, NetLike(n), muted \in BOOLEAN
  PROVE  Follows(l, n, StartNext(l, n))
<1> DEFINE s == StartNext(l, n)
<1>1. CASE served = "none"
  <2>1. s = [lane |-> [l EXCEPT !.pending = <<>>], net |-> n]
    BY <1>1 DEF StartNext
  <2>2. s.lane.pending = <<>> /\ s.net = n
    BY <2>1 DEF Lane
  <2> HIDE DEF s
  <2>3. Waiting(s.lane) = {} /\ Once(s.lane)
    BY <2>2 DEF Waiting, Once
  <2> QED BY <2>2, <2>3 DEF Follows, s
<1>2. CASE served # "none" /\ (n.clients = <<>> \/ l.active # NoAlert \/ l.paused \/ l.pending = <<>>)
  <2>1. s = [lane |-> l, net |-> n]
    BY <1>2 DEF StartNext
  <2> HIDE DEF s
  <2>2. s.lane = l /\ s.net = n
    BY <2>1
  <2> QED BY <2>2 DEF Follows, s
<1>3. CASE served # "none" /\ ~(n.clients = <<>> \/ l.active # NoAlert \/ l.paused \/ l.pending = <<>>)
  <2> DEFINE next == Head(l.pending)
             rest == [l EXCEPT !.pending = Tail(@)]
             m == [kind |-> "alert", alert |-> next, muted |-> muted]
  <2>1. l.pending \in Seq(Alert) /\ l.pending # <<>>
    BY <1>3 DEF Lane
  <2>2. next \in Alert /\ Tail(l.pending) \in Seq(Alert)
    BY <2>1, HeadTailProperties
  <2>3. rest \in Lane /\ rest.pending = Tail(l.pending)
    BY <2>2 DEF Lane
  <2>4. m \in Message /\ \A a : a # next => m # [kind |-> "alert", alert |-> a, muted |-> FALSE]
    BY <2>2 DEF Message
  <2>5. CASE next \notin Accepts[served]
    <3>1. s = [lane |-> Later(rest), net |-> n]
      BY <1>3, <2>5 DEF StartNext
    <3> HIDE DEF s, rest
    <3>2. s.lane.pending = Tail(l.pending) /\ s.net = n
      BY <2>3, <3>1, LaterTyped
    <3> QED BY <2>1, <3>2, HeadWaits DEF Follows, s
  <2>6. CASE next \in Accepts[served]
    <3>1. s = [lane |-> [rest EXCEPT !.active = next, !.timer = TRUE], net |-> Emit(n, m)]
      BY <1>3, <2>6 DEF StartNext
    <3> HIDE DEF rest, m
    <3>2. s.lane.pending = Tail(l.pending) /\ s.net = Emit(n, m)
      <4> DEFINE after == [rest EXCEPT !.active = next, !.timer = TRUE]
                 told == Emit(n, m)
      <4>1. after.pending = rest.pending
        BY <2>3 DEF Lane
      <4> HIDE DEF after, told
      <4>2. s = [lane |-> after, net |-> told]
        BY <3>1 DEF after, told
      <4>3. s.lane = after /\ s.net = told
        BY <4>2
      <4> QED BY <2>3, <4>1, <4>3 DEF told
    <3> HIDE DEF s
    <3>3. NetLike(s.net) /\ \A a \in Alert : /\ a # next => Loud(s.net, a) \subseteq Loud(n, a)
                                             /\ \E p : Loud(s.net, a) \subseteq Loud(n, a) \cup {p}
      BY <2>4, <3>2, EmitTyped, EmitLoud
    <3>4. Once(s.lane) /\ Waiting(s.lane) \subseteq Waiting(l) /\ next \in Waiting(l) \ Waiting(s.lane)
      BY <2>1, <3>2, HeadWaits
    <3> HIDE DEF next
    <3> QED BY <3>3, <3>4 DEF Follows, s
  <2> QED BY <2>5, <2>6
<1> QED BY <1>1, <1>2, <1>3

LEMMA FinishedFollows ==
  ASSUME NEW l \in Lane, Once(l), NetLike(net), muted \in BOOLEAN
  PROVE  Follows(l, net, Finished(l))
<1> DEFINE idle == [l EXCEPT !.active = NoAlert, !.timer = FALSE, !.reload = FALSE]
           told == IF served = "none" THEN net ELSE Emit(net, Control("finish"))
           again == IF served = "none" THEN told ELSE Emit(told, Control("reload"))
<1>1. idle \in Lane /\ idle.pending = l.pending
  BY DEF Lane
<1>2. NetLike(told) /\ Quieter(told, net)
  BY TellQuieter, MessagesTyped DEF Quieter
<1>3. NetLike(again) /\ Quieter(again, net)
  <2> HIDE DEF told
  <2>1. NetLike(Emit(told, Control("reload"))) /\ Quieter(Emit(told, Control("reload")), told)
    BY <1>2, TellQuieter, MessagesTyped
  <2> QED BY <1>2, <2>1 DEF Quieter
<1>4. CASE l.reload
  <2>1. Finished(l) = [lane |-> Later(idle), net |-> again]
    BY <1>4 DEF Finished
  <2> HIDE DEF idle, told, again
  <2>2. Finished(l).lane.pending = l.pending /\ Finished(l).net = again
    BY <1>1, <2>1, LaterTyped
  <2> QED BY <1>3, <2>2 DEF Follows, Quieter, Once, Waiting
<1>5. CASE ~l.reload
  <2>1. Finished(l) = StartNext(idle, told)
    BY <1>5 DEF Finished
  <2> HIDE DEF idle, told, again
  <2>2. Once(idle) /\ Waiting(idle) = Waiting(l)
    BY <1>1 DEF Once, Waiting
  <2>3. Follows(idle, told, Finished(l))
    BY <1>1, <1>2, <2>1, <2>2, StartNextFollows
  <2> QED BY <1>2, <2>2, <2>3 DEF Follows, Quieter
<1> QED BY <1>4, <1>5

\* What is raised or waits has not been heard; nothing waits twice.
Singly ==
  /\ heard \in [Alert -> SUBSET Page]
  /\ \A a \in Alert : \E p : Sounding(a) \subseteq {p}
  /\ \A a \in Alert : a > raised \/ a \in Waiting(lane) => Sounding(a) = {}
  /\ \A a \in Waiting(lane) : a <= raised
  /\ Once(lane)

LEMMA SoundingIs ==
  /\ \A a : Sounding(a) = heard[a] \cup Loud(net, a)
  /\ \A a : Sounding(a)' = heard'[a] \cup Loud(net', a)
BY DEF Sounding, Loud

\* Fewer copies and fewer alerts keep it.
LEMMA LessKept ==
  ASSUME Attended, Singly, raised' \in 0..MaxAlerts, raised' >= raised,
         heard' \in [Alert -> SUBSET Page],
         \A a \in Alert : Sounding(a)' \subseteq Sounding(a),
         Waiting(lane') \subseteq Waiting(lane), Once(lane')
  PROVE  Singly'
<1>1. Waiting(lane) \subseteq Alert /\ Alert \subseteq Nat /\ raised \in Nat /\ raised' \in Nat
  BY AlertAssumption, ElementOfSeq DEF Attended, Lane, Waiting, Alert
<1>2. \A a \in Alert : \E p : Sounding(a)' \subseteq {p}
  BY DEF Singly
<1>3. ASSUME NEW a \in Alert, a > raised' \/ a \in Waiting(lane')
      PROVE  Sounding(a)' = {}
  <2>1. a > raised \/ a \in Waiting(lane)
    BY <1>1, <1>3
  <2>2. Sounding(a) = {} /\ Sounding(a)' \subseteq Sounding(a)
    BY <2>1 DEF Singly
  <2> QED BY <2>2
<1>4. \A a \in Waiting(lane') : a <= raised'
  <2>1. \A a \in Waiting(lane') : a \in Nat /\ a <= raised
    BY <1>1 DEF Singly
  <2> QED BY <1>1, <2>1
<1> QED BY <1>2, <1>3, <1>4 DEF Singly, Waiting, Once

\* A step of the queue: l is the lane with what has been raised.
LEMMA FollowsKept ==
  ASSUME Attended, Singly, NEW l, NEW s, Follows(l, net, s), Becomes(s), heard' = heard,
         raised' \in 0..MaxAlerts, raised' >= raised,
         \A a \in Waiting(l) : a \in Alert /\ (a \in Waiting(lane) \/ (a > raised /\ a <= raised'))
  PROVE  Singly' /\ NetLike(net')
<1>1. lane' = s.lane /\ net' = s.net
  BY DEF Becomes
<1>2. Alert \subseteq Nat /\ raised \in Nat /\ raised' \in Nat
  BY AlertAssumption DEF Attended, Alert
<1>3. \A a \in Waiting(l) : Sounding(a) = {} /\ a <= raised'
  <2>1. \A a \in Waiting(l) : Sounding(a) = {}
    BY DEF Singly
  <2>2. \A a \in Waiting(l) : a \in Nat /\ (a <= raised \/ a <= raised')
    BY <1>2 DEF Singly
  <2> QED BY <1>2, <2>1, <2>2
<1>4. ASSUME NEW a \in Alert
      PROVE  /\ \E p : Sounding(a)' \subseteq {p}
             /\ a > raised' \/ a \in Waiting(lane') => Sounding(a)' = {}
  <2>1. Sounding(a) = heard[a] \cup Loud(net, a) /\ Sounding(a)' = heard[a] \cup Loud(s.net, a)
    BY <1>1, SoundingIs
  <2>2. CASE Loud(s.net, a) \subseteq Loud(net, a)
    <3>1. Sounding(a)' \subseteq Sounding(a)
      BY <2>1, <2>2
    <3>2. a > raised' \/ a \in Waiting(lane') => Sounding(a) = {}
      BY <1>1, <1>2, <1>3 DEF Follows, Singly
    <3> QED BY <3>1, <3>2 DEF Singly
  <2>3. CASE a \in Waiting(l) \ Waiting(s.lane) /\ \E p : Loud(s.net, a) \subseteq Loud(net, a) \cup {p}
    <3>1. Sounding(a) = {} /\ ~(a > raised') /\ a \notin Waiting(lane')
      BY <1>1, <1>2, <1>3, <2>3
    <3>2. PICK p : Loud(s.net, a) \subseteq Loud(net, a) \cup {p}
      BY <2>3
    <3>3. Sounding(a)' \subseteq {p}
      BY <2>1, <3>1, <3>2
    <3> QED BY <3>1, <3>3
  <2> QED BY <2>2, <2>3 DEF Follows
<1>5. \A a \in Waiting(lane') : a <= raised'
  BY <1>1, <1>3 DEF Follows
<1>6. Once(lane')
  BY <1>1 DEF Follows
<1> QED BY <1>1, <1>4, <1>5, <1>6 DEF Singly, Follows, Waiting, Once

LEMMA LaneKept ==
  ASSUME Attended, Singly, LaneStep
  PROVE  Singly' /\ NetLike(net') /\ muted' \in BOOLEAN
<1> USE DEF Attended
<1>m. muted' \in BOOLEAN
  BY DEF LaneStep, Raise, Expire, RunStart, Skip, StopAndClear, Pause, Resume, Notice, Mute
<1>h. heard' = heard /\ raised' \in 0..MaxAlerts /\ raised' >= raised
  <2>1. heard' = heard /\ (raised' = raised \/ (raised < MaxAlerts /\ raised' = raised + 1))
    BY DEF LaneStep, Raise, Expire, RunStart, Skip, StopAndClear, Pause, Resume, Notice, Mute
  <2> QED BY <2>1, AlertAssumption
<1>w. Waiting(lane) \subseteq Alert /\ Once(lane)
  BY ElementOfSeq DEF Lane, Waiting, Singly
<1>q. ASSUME NetLike(net'), Quieter(net', net), lane'.pending \in {lane.pending, <<>>}
      PROVE  Singly' /\ NetLike(net')
  <2>1. Waiting(lane') \subseteq Waiting(lane) /\ Once(lane')
    BY <1>q, <1>w DEF Waiting, Once
  <2>2. \A a \in Alert : Sounding(a)' \subseteq Sounding(a)
    BY <1>q, <1>h, SoundingIs DEF Quieter
  <2> QED BY <1>h, <1>q, <2>1, <2>2, LessKept DEF Singly
<1>f. ASSUME NEW l, NEW s, Follows(l, net, s), Becomes(s), Waiting(l) \subseteq Waiting(lane)
      PROVE  Singly' /\ NetLike(net')
  BY <1>f, <1>h, <1>w, FollowsKept
<1>1. CASE Raise
  <2>1. CASE raised + 1 \in Accepts[served] /\ Len(lane.pending) < AlertLimit
    <3> DEFINE l == [lane EXCEPT !.pending = Append(@, raised + 1)]
    <3>1. raised + 1 \in Alert /\ raised' = raised + 1 /\ raised \in Nat /\ Alert \subseteq Nat
      BY <1>1, AlertAssumption DEF Raise, Alert
    <3>2. lane.pending \in Seq(Alert)
      BY DEF Lane
    <3>3. /\ Append(lane.pending, raised + 1) \in Seq(Alert)
          /\ DOMAIN Append(lane.pending, raised + 1) = 1 .. Len(lane.pending) + 1
          /\ DOMAIN lane.pending = 1 .. Len(lane.pending) /\ Len(lane.pending) \in Nat
          /\ \A i \in 1 .. Len(lane.pending) : Append(lane.pending, raised + 1)[i] = lane.pending[i]
          /\ Append(lane.pending, raised + 1)[Len(lane.pending) + 1] = raised + 1
      BY <3>1, <3>2, AppendProperties, LenProperties
    <3>4. l \in Lane /\ l.pending = Append(lane.pending, raised + 1)
      BY <3>3 DEF Lane
    <3>5. Becomes(StartNext(l, net))
      BY <1>1, <2>1 DEF Raise
    <3> HIDE DEF l
    <3>6. \A a \in Waiting(l) : a \in Waiting(lane) \/ a = raised + 1
      BY <3>3, <3>4 DEF Waiting
    <3>7. \A i \in DOMAIN lane.pending : lane.pending[i] \in Waiting(lane) /\ lane.pending[i] \in Nat
                                         /\ lane.pending[i] <= raised
      BY <1>w, <3>1 DEF Waiting, Singly
    <3>8. Once(l)
      BY <1>w, <3>1, <3>3, <3>4, <3>7 DEF Once
    <3>9. Follows(l, net, StartNext(l, net))
      BY <3>4, <3>8, StartNextFollows
    <3> QED BY <1>h, <1>m, <1>w, <3>1, <3>5, <3>6, <3>9, FollowsKept
  <2>2. CASE UNCHANGED <<lane, net>>
    BY <1>m, <1>q, <2>2 DEF Quieter
  <2> QED BY <1>1, <2>1, <2>2 DEF Raise
<1>2. CASE Expire \/ Skip
  BY <1>2, <1>f, <1>m, <1>w, FinishedFollows DEF Expire, Skip
<1>3. CASE RunStart \/ Resume
  <2>1. PICK l \in Lane : l.pending = lane.pending /\ Becomes(StartNext(l, net))
    <3>1. CASE RunStart
      <4>1. [lane EXCEPT !.starts = lane.starts - 1] \in Lane
            /\ [lane EXCEPT !.starts = lane.starts - 1].pending = lane.pending
        BY <3>1, AlertAssumption DEF RunStart, Lane
      <4> QED BY <3>1, <4>1 DEF RunStart
    <3>2. CASE Resume
      <4>1. [lane EXCEPT !.paused = FALSE] \in Lane
            /\ [lane EXCEPT !.paused = FALSE].pending = lane.pending
        BY DEF Lane
      <4> QED BY <3>2, <4>1 DEF Resume
    <3> QED BY <1>3, <3>1, <3>2
  <2>2. Once(l) /\ Waiting(l) = Waiting(lane)
    BY <1>w, <2>1 DEF Once, Waiting
  <2>3. Follows(l, net, StartNext(l, net))
    BY <2>2, StartNextFollows
  <2> QED BY <1>f, <1>m, <2>1, <2>2, <2>3
<1>4. CASE StopAndClear
  <2> DEFINE l == [lane EXCEPT !.pending = <<>>]
  <2>1. l \in Lane /\ l.pending = <<>>
    BY NoneWait DEF Lane
  <2>2. Becomes(IF lane.active = NoAlert THEN [lane |-> l, net |-> net] ELSE Finished(l))
    BY <1>4 DEF StopAndClear
  <2> HIDE DEF l
  <2>3. Once(l) /\ Waiting(l) = {}
    BY <2>1 DEF Once, Waiting
  <2>4. CASE lane.active = NoAlert
    <3>1. lane' = l /\ net' = net
      BY <2>2, <2>4 DEF Becomes
    <3> QED BY <1>m, <1>q, <2>1, <3>1 DEF Quieter
  <2>5. CASE lane.active # NoAlert
    <3>1. Follows(l, net, Finished(l))
      BY <2>1, <2>3, FinishedFollows
    <3> QED BY <1>f, <1>m, <2>2, <2>3, <2>5, <3>1
  <2> QED BY <2>4, <2>5
<1>5. CASE Pause
  <2>1. lane'.pending = lane.pending /\ net' = net
    BY <1>5 DEF Pause, Lane
  <2> QED BY <1>m, <1>q, <2>1 DEF Quieter
<1>7. CASE Notice
  <2>1. lane' = lane /\ NetLike(net') /\ net'.inbox = net.inbox
    BY <1>7 DEF Notice, NetLike
  <2> QED BY <1>m, <1>q, <2>1 DEF Quieter, Loud
<1>8. CASE \E value \in BOOLEAN : Mute(value)
  <2>1. PICK v \in BOOLEAN : lane' = lane /\ net' \in {net, Emit(net, [Control("mute") EXCEPT !.muted = v])}
    BY <1>8 DEF Mute
  <2>2. NetLike(net') /\ Quieter(net', net)
    BY <2>1, MessagesTyped, TellQuieter DEF Quieter
  <2> QED BY <1>m, <1>q, <2>1, <2>2
<1> QED BY <1>1, <1>2, <1>3, <1>4, <1>5, <1>7, <1>8 DEF LaneStep

LEMMA PageKept ==
  ASSUME Attended, Singly, PageStep
  PROVE  Singly' /\ NetLike(net') /\ muted' \in BOOLEAN
<1> USE DEF Attended
<1>1. PICK p \in Page : Open(p) \/ Close(p) \/ Render(p) \/ Connect(p) \/ Lose(p)
                        \/ EndOfStream(p) \/ Read(p) \/ Hide(p)
  BY DEF PageStep
<1>2. raised' = raised /\ muted' = muted /\ lane'.pending = lane.pending
  BY <1>1, LaterTyped DEF Open, Close, Render, Connect, Lose, EndOfStream, Read, Hide
<1>s. \A q \in Page : net.inbox[q] \in Seq(Message)
  BY DEF NetLike
<1>q. ASSUME NetLike(net'), heard' \in [Alert -> SUBSET Page],
             \A a \in Alert : Sounding(a)' \subseteq Sounding(a)
      PROVE  Singly' /\ NetLike(net') /\ muted' \in BOOLEAN
  <2>1. Waiting(lane') = Waiting(lane) /\ Once(lane') /\ raised' >= raised
    BY <1>2 DEF Waiting, Once, Singly
  <2> QED BY <1>2, <1>q, <2>1, LessKept
<1>3. CASE net' = net /\ heard' = heard
  BY <1>3, <1>q, SoundingIs DEF Singly
<1>4. CASE net' = Broken(net, p) /\ heard' = heard
  <2>1. NetLike(net') /\ \A r \in Page : net'.inbox[r] = IF r = p THEN <<>> ELSE net.inbox[r]
    BY <1>4, BrokenTyped
  <2>2. \A r \in Page : \A i \in DOMAIN net'.inbox[r] : \E j \in DOMAIN net.inbox[r] : net.inbox[r][j] = net'.inbox[r][i]
    BY <2>1
  <2>3. \A a : Loud(net', a) \subseteq Loud(net, a)
    BY <2>2, CopiesQuieter
  <2> QED BY <1>4, <1>q, <2>1, <2>3, SoundingIs DEF Singly
<1>5. CASE Connect(p)
  <2> DEFINE q == IF lane.active # NoAlert THEN <<Snapshot>> ELSE <<>>
  <2>1. Snapshot \in Message /\ Snapshot.muted = TRUE
    BY MessagesTyped DEF Snapshot, Lane
  <2>2. q \in Seq(Message) /\ \A i \in DOMAIN q : q[i] = Snapshot
    <3> HIDE DEF Snapshot
    <3> QED BY <2>1
  <2>3. heard' = heard /\ net' = [clients |-> Append(net.clients, [page |-> p, live |-> TRUE]),
                                 inbox |-> [net.inbox EXCEPT ![p] = q]]
    BY <1>5 DEF Connect
  <2> HIDE DEF q
  <2>4. NetLike(net') /\ \A r \in Page : net'.inbox[r] = IF r = p THEN q ELSE net.inbox[r]
    BY <2>2, <2>3 DEF NetLike
  <2>5. \A a \in Alert : Loud(net', a) \subseteq Loud(net, a)
    BY <2>1, <2>2, <2>4, CopiesQuieter
  <2> QED BY <1>q, <2>3, <2>4, <2>5, SoundingIs DEF Singly
<1>6. CASE Read(p)
  <2> DEFINE m == Head(net.inbox[p])
             rest == [net EXCEPT !.inbox[p] = Tail(@)]
  <2>1. net.inbox[p] \in Seq(Message) /\ net.inbox[p] # <<>>
    BY <1>6 DEF Read, NetLike
  <2>2. /\ Tail(net.inbox[p]) \in Seq(Message) /\ m \in Message /\ m = net.inbox[p][1]
        /\ DOMAIN net.inbox[p] = 1 .. Len(net.inbox[p]) /\ Len(net.inbox[p]) \in Nat \ {0}
        /\ DOMAIN Tail(net.inbox[p]) = 1 .. Len(net.inbox[p]) - 1
        /\ \A i \in 1 .. Len(net.inbox[p]) - 1 : Tail(net.inbox[p])[i] = net.inbox[p][i + 1]
    BY <2>1, HeadTailProperties, EmptySeq, LenProperties
  <2>3. net' \in {rest, Broken(net, p)}
    BY <1>6 DEF Read
  <2>4. \/ heard' = heard
        \/ m.kind = "alert" /\ m.muted = FALSE /\ heard' = [heard EXCEPT ![m.alert] = @ \cup {p}]
    BY <2>2, <1>6 DEF Read, Message
  <2>5. NetLike(rest) /\ \A r \in Page : rest.inbox[r] = IF r = p THEN Tail(net.inbox[p]) ELSE net.inbox[r]
    <3> DEFINE t == Tail(net.inbox[p])
    <3>1. t \in Seq(Message) /\ rest = [net EXCEPT !.inbox[p] = t]
      BY <2>2
    <3> HIDE DEF t, rest
    <3>2. NetLike(rest) /\ \A r \in Page : rest.inbox[r] = IF r = p THEN t ELSE net.inbox[r]
      BY <3>1, InboxTyped
    <3> QED BY <3>2 DEF t
  <2>6. NetLike(Broken(net, p)) /\ \A r \in Page : Broken(net, p).inbox[r] = IF r = p THEN <<>> ELSE net.inbox[r]
    BY BrokenTyped
  <2> HIDE DEF m, rest
  <2>7. NetLike(net') /\ \A a : Loud(net', a) \subseteq Loud(net, a)
    <3>1. \A a : Loud(rest, a) \subseteq Loud(net, a)
      <4>1. \A i \in DOMAIN rest.inbox[p] : \E j \in DOMAIN net.inbox[p] : net.inbox[p][j] = rest.inbox[p][i]
        <5>1. rest.inbox[p] = Tail(net.inbox[p])
          BY <2>5
        <5>2. \A i \in 1 .. Len(net.inbox[p]) - 1 : i + 1 \in DOMAIN net.inbox[p]
          BY <2>2
        <5> QED BY <2>2, <5>1, <5>2
      <4> QED BY <2>5, <4>1, CopiesQuieter
    <3>2. \A a : Loud(Broken(net, p), a) \subseteq Loud(net, a)
      <4>1. \A r \in Page : \A i \in DOMAIN Broken(net, p).inbox[r] :
              \E j \in DOMAIN net.inbox[r] : net.inbox[r][j] = Broken(net, p).inbox[r][i]
        BY <2>6
      <4> QED BY <4>1, CopiesQuieter
    <3> QED BY <2>3, <2>5, <2>6, <3>1, <3>2
  <2>8. m.kind = "alert" /\ m.muted = FALSE => p \in Loud(net, m.alert)
    <3>1. ASSUME m.kind = "alert", m.muted = FALSE
          PROVE  p \in Loud(net, m.alert)
      <4>1. m = [kind |-> "alert", alert |-> m.alert, muted |-> FALSE]
        BY <2>2, <3>1 DEF Message
      <4>2. 1 \in DOMAIN net.inbox[p]
        BY <2>2
      <4> QED BY <2>2, <4>1, <4>2 DEF Loud
    <3> QED BY <3>1
  <2>9. heard' \in [Alert -> SUBSET Page] /\ \A a \in Alert : heard'[a] \subseteq heard[a] \cup Loud(net, a)
    BY <2>4, <2>8 DEF Singly
  <2> QED BY <1>q, <2>7, <2>9, SoundingIs
<1> QED BY <1>1, <1>3, <1>4, <1>5, <1>6 DEF Open, Close, Render, Lose, EndOfStream, Hide

\* What the operator's steps leave of the queue and its streams.
LEMMA SteadyKept ==
  ASSUME Attended, Singly, UNCHANGED <<muted, raised, heard>>, mode' # "down",
         served' = Published', served' # "none" => served # "none" \/ lane.pending = <<>>,
         net' = net \/ net' = Emit(net, Control("reload")),
         lane' = lane \/ (lane' = [lane EXCEPT !.reload = TRUE] /\ lane.active # NoAlert)
  PROVE  Attended' /\ Singly'
<1>1. /\ lane' \in Lane /\ lane'.pending = lane.pending /\ lane'.active = lane.active
      /\ lane'.timer = lane.timer /\ lane'.starts = lane.starts /\ lane'.paused = lane.paused
  BY DEF Attended, Lane
<1>2. NetLike(net') /\ \A a \in Alert : Loud(net', a) \subseteq Loud(net, a)
  BY TellQuieter, MessagesTyped DEF Attended, Quieter
<1>3. net'.clients # <<>> => net.clients # <<>>
  BY EmitNobody
<1>4. NoForgottenAlert'
  BY <1>1, <1>3 DEF Attended, NoForgottenAlert
<1>5. Attended'
  BY <1>1, <1>2, <1>4 DEF Attended
<1>6. \A a \in Alert : Sounding(a)' \subseteq Sounding(a)
  BY <1>2, SoundingIs
<1>7. raised' \in 0..MaxAlerts /\ raised' >= raised
  BY AlertAssumption DEF Attended
<1>8. heard' \in [Alert -> SUBSET Page] /\ Waiting(lane') \subseteq Waiting(lane) /\ Once(lane')
  BY <1>1 DEF Singly, Waiting, Once
<1> QED BY <1>5, <1>6, <1>7, <1>8, LessKept

LEMMA EditAttended ==
  ASSUME StoreKept, Ahead, Attended, Singly, Edit
  PROVE  Attended' /\ Singly'
<1>1. PICK o \in Overlay, d \in Document \cup {"none"}, outcome \in Outcomes :
        /\ root[o] = Gone => o # AlertBox \/ mode # "ready"
        /\ root[o].number < MaxRevision
        /\ SaveDrafts([Drafts EXCEPT ![o] = d], outcome)
        /\ Serve(LiveDocument(root'[AlertBox]))
  BY DEF Edit
<1> DEFINE drafts == [Drafts EXCEPT ![o] = d]
<1>2. drafts \in DraftSet /\ \A m \in Overlay : drafts[m] = IF m = o THEN d ELSE root[m].draft
  BY DraftsTyped DEF DraftSet
<1>3. Commit(Synced(root, drafts), outcome) /\ mode' = mode /\ mode # "down"
  BY <1>1 DEF SaveDrafts
<1> HIDE DEF drafts
<1>4. root \in Roots /\ AlertBox \in Overlay
  BY BoxAssumption DEF StoreKept
<1>5. root[AlertBox] = Gone => root'[AlertBox] = Gone
  <2>1. CASE root' = root
    BY <2>1
  <2>2. CASE mode = "ready" /\ root' = Synced(root, drafts)
    <3>1. root[AlertBox] = Gone => drafts[AlertBox] = "none"
      BY <1>1, <1>2, <1>4, <2>2, GoneFacts
    <3> QED BY <1>4, <2>2, <3>1 DEF Synced
  <2> QED BY <1>3, <2>1, <2>2 DEF Commit, Committable, Writable
<1>6. UNCHANGED <<muted, raised, heard, lane, net>> /\ served' = Published'
  BY <1>1 DEF Serve, Published
<1>7. served' # "none" => served # "none"
  <2>1. served' # "none" => root'[AlertBox] # Gone
    BY <1>6 DEF Published, LiveDocument
  <2>2. root[AlertBox] # Gone => LiveDocument(root[AlertBox]) \in Document
    BY <1>4, LiveTyped DEF Roots, Root
  <2>3. served = LiveDocument(root[AlertBox])
    BY DEF Attended, Published
  <2> QED BY <1>5, <2>1, <2>2, <2>3, DocumentAssumption
<1> QED BY <1>3, <1>6, <1>7, SteadyKept

LEMMA PublishAttended ==
  ASSUME StoreKept, Ahead, Attended, Singly, Publish
  PROVE  Attended' /\ Singly'
<1>1. PICK o \in Overlay, saved \in Outcomes, outcome \in Outcomes :
        /\ PublishDraft(o, saved, outcome)
        /\ Republish(LiveDocument(root'[AlertBox])) \/ Serve(LiveDocument(root'[AlertBox]))
  BY DEF Publish
<1>2. root[o] # Gone /\ mode' = mode /\ mode # "down" /\ root' \in {root, WithPublished(root, o)}
  BY <1>1 DEF PublishDraft, Commit
<1>3. root \in Roots /\ AlertBox \in Overlay
  BY BoxAssumption DEF StoreKept
<1>4. root[AlertBox] = Gone => root'[AlertBox] = Gone
  BY <1>2, <1>3, PublishedAt
<1>6. /\ UNCHANGED <<muted, raised, heard>> /\ served' = Published'
      /\ net' = net \/ net' = Emit(net, Control("reload"))
      /\ lane' = lane \/ (lane' = [lane EXCEPT !.reload = TRUE] /\ lane.active # NoAlert)
  BY <1>1 DEF Serve, Republish, Published
<1>7. served' # "none" => served # "none"
  <2>1. served' # "none" => root'[AlertBox] # Gone
    BY <1>6 DEF Published, LiveDocument
  <2>2. root[AlertBox] # Gone => LiveDocument(root[AlertBox]) \in Document
    BY <1>3, LiveTyped DEF Roots, Root
  <2>3. served = LiveDocument(root[AlertBox])
    BY DEF Attended, Published
  <2> QED BY <1>4, <2>1, <2>2, <2>3, DocumentAssumption
<1> QED BY <1>2, <1>6, <1>7, SteadyKept

LEMMA EndAttended ==
  ASSUME StoreKept, Attended, Singly, End
  PROVE  Attended' /\ Singly'
<1>1. /\ lane' = Quiet /\ net' = NoStreams /\ muted' = FALSE /\ raised' = raised /\ heard' = heard
      /\ served' = "none" /\ root' = NoRoot
  BY DEF End, Down, AlertsDown
<1>2. Published' = "none"
  BY <1>1, BoxAssumption DEF Published, NoRoot, LiveDocument
<1>3. net'.inbox = [p \in Page |-> <<>>] /\ NetLike(net')
  BY <1>1 DEF NoStreams, NetLike
<1>4. NoForgottenAlert'
  BY <1>1, QuietTyped DEF NoForgottenAlert, Quiet
<1>5. Attended'
  BY <1>1, <1>2, <1>3, <1>4, QuietTyped DEF Attended
<1>6. \A a : Loud(net', a) = {}
  BY <1>3 DEF Loud
<1>7. \A a \in Alert : Sounding(a)' \subseteq Sounding(a)
  BY <1>1, <1>6, SoundingIs
<1>8. Waiting(lane') = {} /\ Once(lane')
  BY <1>1 DEF Waiting, Once, Quiet
<1>9. raised' \in 0..MaxAlerts /\ raised' >= raised /\ heard' \in [Alert -> SUBSET Page]
  BY <1>1, AlertAssumption DEF Attended, Singly
<1> QED BY <1>5, <1>7, <1>8, <1>9, LessKept

LEMMA AlertsStep ==
  ASSUME StoreKept, Ahead, Attended, Singly, [Next]_vars
  PROVE  Attended' /\ Singly'
<1>1. CASE Start
  <2>1. /\ UNCHANGED <<muted, raised, heard, lane, net>> /\ served' = Published'
        /\ mode = "down" /\ mode' # "down"
    BY <1>1 DEF Start, Load, Serve, Published
  <2>2. lane.pending = <<>>
    BY <2>1 DEF Attended, Quiet
  <2> QED BY <2>1, <2>2, SteadyKept
<1>2. CASE mode # "down" /\ LaneStep /\ UNCHANGED storeVars
  <2>1. served' = served
    BY <1>2 DEF LaneStep, Raise, Expire, RunStart, Skip, StopAndClear, Pause, Resume, Notice, Mute
  <2>2. mode' # "down" /\ Published' = Published
    BY <1>2 DEF storeVars, Published
  <2> QED BY <1>2, <2>1, <2>2, LaneTended, LaneKept DEF Attended
<1>3. CASE mode # "down" /\ PageStep /\ UNCHANGED storeVars
  <2>1. served' = served
    BY <1>3 DEF PageStep, Open, Close, Render, Connect, Lose, EndOfStream, Read, Hide
  <2>2. mode' # "down" /\ Published' = Published
    BY <1>3 DEF storeVars, Published
  <2> QED BY <1>3, <2>1, <2>2, PageTended, PageKept DEF Attended
<1>4. CASE UNCHANGED vars
  <2>1. UNCHANGED <<served, lane, net, muted, raised, heard, mode, root>>
    BY <1>4 DEF vars
  <2>2. \A a : Sounding(a)' = Sounding(a)
    BY <2>1, SoundingIs
  <2>3. Attended'
    BY <2>1 DEF Attended, Published, NoForgottenAlert
  <2> QED BY <2>1, <2>2, <2>3 DEF Singly
<1> QED BY <1>1, <1>2, <1>3, <1>4, EditAttended, PublishAttended, EndAttended DEF Next

LEMMA AlertsAlways == Spec => [](Attended /\ Singly)
<1>1. Init => Attended /\ Singly
  <2> SUFFICES ASSUME Init PROVE Attended /\ Singly
    OBVIOUS
  <2>1. /\ lane = Quiet /\ net = NoStreams /\ muted = FALSE /\ raised = 0 /\ served = "none"
        /\ root = NoRoot /\ heard = [a \in Alert |-> {}]
    BY DEF Init, StoreInit, AlertsInit
  <2>2. net.inbox = [p \in Page |-> <<>>] /\ NetLike(net)
    BY <2>1 DEF NoStreams, NetLike
  <2>3. Published = "none"
    BY <2>1, BoxAssumption DEF Published, NoRoot, LiveDocument
  <2>4. \A a \in Alert : Sounding(a) = {}
    BY <2>1, <2>2 DEF Sounding
  <2>5. Waiting(lane) = {} /\ Once(lane)
    BY <2>1 DEF Waiting, Once, Quiet
  <2>6. NoForgottenAlert
    BY <2>1 DEF NoForgottenAlert, Quiet
  <2>7. Attended
    <3>1. 0 \in 0..MaxAlerts /\ lane \in Lane
      BY <2>1, QuietTyped, AlertAssumption
    <3> QED BY <2>1, <2>2, <2>3, <2>6, <3>1 DEF Attended
  <2> QED BY <2>1, <2>4, <2>5, <2>7 DEF Singly
<1>2. StoreKept /\ Ahead /\ Attended /\ Singly /\ [Next]_vars => (Attended /\ Singly)'
  BY AlertsStep
<1> QED BY <1>1, <1>2, StoreAlways, PTL DEF Spec

\* An alert that waits with a page connected, nothing active and the queue not
\* paused has a call of startNext coming, for any number of alerts, pages and
\* publications (pulse-overlay-runtime.cpp, startNext and finishActive).
THEOREM QueueAttended == Spec => []NoForgottenAlert
<1>1. Attended => NoForgottenAlert
  BY DEF Attended
<1> QED BY <1>1, AlertsAlways, PTL

\* No alert sounds on two pages, whichever pages come, go, break and reconnect
\* (emitToKey and the muted copy for a page that joins late).
THEOREM AlertsSoundOnce == Spec => []OneVoice
<1>1. Singly => OneVoice
  <2> SUFFICES ASSUME Singly, NEW a \in Alert PROVE Cardinality(Sounding(a)) <= 1
    BY DEF OneVoice
  <2>1. PICK p : Sounding(a) \subseteq {p}
    BY DEF Singly
  <2>2. IsFiniteSet({p}) /\ Cardinality({p}) = 1
    BY FS_Singleton
  <2> HIDE DEF Sounding
  <2> QED BY <2>1, <2>2, FS_Subset
<1> QED BY <1>1, AlertsAlways, PTL
=============================================================================
