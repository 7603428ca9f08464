------------------------------- MODULE Overlay ------------------------------
(***************************************************************************)
(* The overlay runtime: the store and the alerts of the overlay Alerts     *)
(* together.  The store decides which document is served; publishing and   *)
(* the end of the program reach the queue and the pages.                   *)
(***************************************************************************)
EXTENDS OverlayStore, OverlayAlerts

CONSTANT AlertBox       \* the overlay whose alerts are followed

ASSUME BoxAssumption == AlertBox \in Overlay

vars == <<file, root, mode, old, served, lane, net, page, muted, raised, heard, incidents>>

Init == StoreInit /\ AlertsInit

(* reloadPublished *)
Published == LiveDocument(root[AlertBox])

(* A check that fails after the file was written is counted, and so is a   *)
(* deletion.                                                               *)
Counted(outcomes) == IF "unverified" \in outcomes THEN Incident ELSE UNCHANGED incidents

Start ==
  \E readable \in BOOLEAN, outcome \in Outcomes :
    /\ Load(readable, outcome)
    /\ Serve(LiveDocument(root'[AlertBox]))
    /\ Counted({outcome})

(* An edit of one draft, a new overlay or a deleted one.  Ids are never    *)
(* used twice: a deleted overlay does not come back.                       *)
Edit ==
  \E o \in Overlay, document \in Document \cup {"none"}, outcome \in Outcomes :
    /\ root[o] = Gone => document # "none" /\ (o # AlertBox \/ mode # "ready")
    /\ document # root[o].draft
    /\ root[o].number < MaxRevision
    /\ SaveDrafts([Drafts EXCEPT ![o] = document], outcome)
    /\ Serve(LiveDocument(root'[AlertBox]))
    /\ IF document = "none" THEN Incident ELSE Counted({outcome})

(* The Publish button; the pages are told even when the draft was live     *)
(* already, which is counted.                                              *)
Publish ==
  \E o \in Overlay, saved \in Outcomes, outcome \in Outcomes :
    /\ PublishDraft(o, saved, outcome)
    /\ IF o = AlertBox /\ PublishReported(o, saved, outcome)
       THEN Republish(LiveDocument(root'[AlertBox]))
       ELSE Serve(LiveDocument(root'[AlertBox]))
    /\ IF root' = root THEN Incident ELSE Counted({saved, outcome})

End == Down /\ AlertsDown

Next ==
  \/ Start \/ Edit \/ Publish \/ End
  \/ mode # "down" /\ (PageStep \/ LaneStep) /\ UNCHANGED storeVars

Spec == Init /\ [][Next]_vars

(* The timers of the runtime fire.                                         *)

FairSpec == Spec /\ WF_vars(Expire /\ UNCHANGED storeVars) /\ WF_vars(RunStart /\ UNCHANGED storeVars)

----------------------------------------------------------------------------
(* Types, with the limits of the queue (pulse-overlay-alerts.hpp), of the  *)
(* streams and of what a stream may hold back (emitToKey).                 *)
TypeOK ==
  /\ StoreTypeOK
  /\ served \in Document \cup {"none"}
  /\ lane \in [pending : Seq(Alert), active : Alert \cup {NoAlert}, paused : BOOLEAN,
               reload : BOOLEAN, timer : BOOLEAN, starts : 0..MaxStarts]
  /\ Len(lane.pending) <= AlertLimit
  /\ net.clients \in Seq([page : Page, live : BOOLEAN])
  /\ Len(net.clients) <= StreamLimit
  /\ net.inbox \in [Page -> Seq(Message)]
  /\ \A p \in Page : Len(net.inbox[p]) <= Backlog
  /\ page \in [Page -> [at : {"off", "boot", "page", "error"}, shows : Document \cup {"none"},
                       muted : BOOLEAN, sound : Alert \cup {NoAlert}, link : {"none", "open"}]]
  /\ muted \in BOOLEAN
  /\ raised \in 0..MaxAlerts
  /\ heard \in [Alert -> SUBSET Page]
  /\ incidents \in 0..MaxIncidents

(* What the server shows is what the store has published: the copy the     *)
(* runtime serves follows every save, publication, deletion and load.      *)
ServedIsPublished == served = Published

(* Whatever was edited, saved and published before, and whichever writes   *)
(* could not be verified: the draft can be published, for the revision it  *)
(* becomes has an id of its own (Store::publish, validateV2).              *)
DraftCanBePublished ==
  mode = "ready" => \A o \in Overlay : root[o] # Gone => Valid(WithPublished(root, o))

(* A store that could not be read, or that a newer build wrote, is never   *)
(* written over, whatever the operator does next (commitRoot).             *)
UnreadableKept ==
  [][(mode \in {"recovery", "readonly"} /\ file.state # "absent") => UNCHANGED file]_vars

(* No alert sounds on two pages, not even on two one after the other: a    *)
(* page that joins late or reconnects gets a silent copy                   *)
(* (tests/OverlayBrowser/README.md:11).                                    *)
Sounding(a) ==
  heard[a] \cup {p \in Page : \E i \in DOMAIN net.inbox[p] :
                    net.inbox[p][i] = [kind |-> "alert", alert |-> a, muted |-> FALSE]}

OneVoice == \A a \in Alert : Cardinality(Sounding(a)) <= 1

(* An alert that waits with a page connected, nothing active and the queue *)
(* not paused has a call of startNext coming: no reload, reconnection,     *)
(* skip or passed-over alert leaves the queue standing.                    *)
NoForgottenAlert ==
  /\ lane.active # NoAlert <=> lane.timer
  /\ served # "none" /\ lane.pending # <<>> /\ net.clients # <<>>
     /\ lane.active = NoAlert /\ ~lane.paused => lane.starts > 0

(* With a page connected and the queue running for good, every alert is    *)
(* shown or dropped in the end.                                            *)
AlertsDrain ==
  <>[](net.clients # <<>> /\ ~lane.paused) => <>[](lane.pending = <<>>)

(* Every save and publication is one step of the shelf.  While the program *)
(* runs the shelf holds what it has acknowledged; a write it reported as   *)
(* failed because it could not be verified may still take effect when the  *)
(* program ends, whole and only if it was the last.                        *)
OnShelf ==
  LET projects == IF mode = "ready" THEN root ELSE file.root
  IN [o \in Overlay |->
        IF projects[o] = Gone THEN [draft |-> "none", live |-> "none"]
        ELSE [draft |-> projects[o].draft, live |-> LiveDocument(projects[o])]]

Shelf == INSTANCE OverlayShelf WITH shelf <- OnShelf

ImplementsShelf == Shelf!Spec

(* False.  tests/OverlayBrowser/README.md:11 says of a publication that    *)
(* "the page must change from Revision 1 to Revision 2".  A page that is   *)
(* between two streams misses the reload and reconnects as it is.          *)
PagesFollowPublication ==
  \A p \in Page : Hears(net, p) /\ net.inbox[p] = <<>> /\ ~lane.reload => page[p].shows = served
=============================================================================
