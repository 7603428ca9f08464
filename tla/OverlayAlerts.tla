---------------------------- MODULE OverlayAlerts ---------------------------
(***************************************************************************)
(* The alerts of one overlay: the queue ("lane") of the overlay runtime    *)
(* (pulse-overlay-runtime.cpp, pulse-overlay-alerts.cpp), the event        *)
(* streams of its browser sources, and the page each of them runs          *)
(* (pulse-overlay-renderer.cpp).                                           *)
(*                                                                         *)
(* served is the published document.  lane holds the queue and the calls   *)
(* its timers will make; net the server's list of streams, oldest first,   *)
(* and what each page has not read yet.  A stream that broke stays in the  *)
(* list, not live, until the server hears of it.                           *)
(***************************************************************************)
EXTENDS OverlayDocuments, Naturals, Sequences, FiniteSets, SequencesExt

CONSTANTS
  Accepts,        \* Accepts[d]: the alerts for which d has a variation
  Page,           \* browser sources that show the overlay
  Landscape,      \* those whose layout is landscape
  AlertLimit,     \* alerts that wait at most: 100
  StreamLimit,    \* streams at most: 32
  Backlog,        \* messages after which a stream is cut off: 1 MB
  MaxAlerts,      \* bound: alerts raised
  MaxIncidents,   \* bound: streams lost, pages closed, pauses, mutes, ends, ...
  MaxStarts       \* bound: delayed calls of startNext told apart

Alert == 1..MaxAlerts

ASSUME AlertAssumption ==
  /\ Accepts \in [Document -> SUBSET Alert]
  /\ Landscape \subseteq Page
  /\ AlertLimit \in Nat \ {0} /\ StreamLimit \in Nat \ {0} /\ Backlog \in Nat \ {0}
  /\ MaxAlerts \in Nat \ {0} /\ MaxStarts \in Nat \ {0}
  /\ MaxIncidents \in Nat

VARIABLES served, lane, net, page, muted, raised, heard, incidents

alertVars == <<served, lane, net, page, muted, raised, heard, incidents>>

NoAlert == 0

Quiet == [pending |-> <<>>, active |-> NoAlert, paused |-> FALSE, reload |-> FALSE,
          timer |-> FALSE, starts |-> 0]

Message == [kind : {"alert", "finish", "reload", "mute"},
            alert : Alert \cup {NoAlert}, muted : BOOLEAN]

Control(kind) == [kind |-> kind, alert |-> NoAlert, muted |-> FALSE]

Off == [at |-> "off", shows |-> "none", muted |-> FALSE, sound |-> NoAlert, link |-> "none"]

NoStreams == [clients |-> <<>>, inbox |-> [p \in Page |-> <<>>]]

----------------------------------------------------------------------------
(* The streams *)

(* A stream the server writes to and the page still reads. *)
Hears(n, p) == \E i \in DOMAIN n.clients : n.clients[i].page = p /\ n.clients[i].live

(* emitToKey: the newest landscape stream owns the sound, or else the      *)
(* newest; it is chosen before streams that fell behind are cut off.       *)
SoundOwner(n) ==
  LET wide == {i \in DOMAIN n.clients : n.clients[i].page \in Landscape}
      from == IF wide # {} THEN wide ELSE DOMAIN n.clients
  IN CHOOSE i \in from : \A j \in from : j <= i

Fits(n, c) == ~c.live \/ Len(n.inbox[c.page]) < Backlog

Copy(message, owns) ==
  IF message.kind = "alert" /\ ~owns THEN [message EXCEPT !.muted = TRUE] ELSE message

Emit(n, message) ==
  IF n.clients = <<>> THEN n
  ELSE LET owner == n.clients[SoundOwner(n)]
           fits(c) == Fits(n, c)
       IN [clients |-> SelectSeq(n.clients, fits),
           inbox |-> [p \in Page |->
             IF \E i \in DOMAIN n.clients : n.clients[i] = [page |-> p, live |-> TRUE] /\ fits(n.clients[i])
             THEN Append(n.inbox[p], Copy(message, owner = [page |-> p, live |-> TRUE]))
             ELSE n.inbox[p]]]

(* The bytes sent so far reach the page or are lost with its end. *)
Broken(n, p) ==
  [clients |-> [i \in DOMAIN n.clients |->
                  IF n.clients[i].page = p THEN [n.clients[i] EXCEPT !.live = FALSE] ELSE n.clients[i]],
   inbox |-> [n.inbox EXCEPT ![p] = <<>>]]

----------------------------------------------------------------------------
(* The lane *)

\* Fault: an alert that is passed over leaves the queue standing.
LaterIfIdle(l) ==
  IF l.pending # <<>> THEN l ELSE [l EXCEPT !.starts = IF @ < MaxStarts THEN @ + 1 ELSE @]

(* QTimer::singleShot: startNext will be called. *)
Later(l) == [l EXCEPT !.starts = IF @ < MaxStarts THEN @ + 1 ELSE @]

(* startNext on the lane l and the streams n: without a document the queue *)
(* is dropped; nothing starts without a stream, while an alert is active   *)
(* or while the queue is paused.  An alert the document no longer accepts  *)
(* is passed over.                                                         *)
StartNext(l, n) ==
  IF served = "none" THEN [lane |-> [l EXCEPT !.pending = <<>>], net |-> n]
  ELSE IF n.clients = <<>> \/ l.active # NoAlert \/ l.paused \/ l.pending = <<>>
  THEN [lane |-> l, net |-> n]
  ELSE LET next == Head(l.pending)
           rest == [l EXCEPT !.pending = Tail(@)]
       IN IF next \notin Accepts[served] THEN [lane |-> Later(rest), net |-> n]
          ELSE [lane |-> [rest EXCEPT !.active = next, !.timer = TRUE],
                net |-> Emit(n, [kind |-> "alert", alert |-> next, muted |-> muted])]

Incident == incidents < MaxIncidents /\ incidents' = incidents + 1

Becomes(s) == lane' = s.lane /\ net' = s.net

\* Fault: nothing is started after the reload.
FinishedForGood(l) ==
  LET told == IF served = "none" THEN net ELSE Emit(net, Control("finish"))
      idle == [l EXCEPT !.active = NoAlert, !.timer = FALSE, !.reload = FALSE]
  IN IF l.reload
     THEN [lane |-> idle,
           net |-> IF served = "none" THEN told ELSE Emit(told, Control("reload"))]
     ELSE StartNext(idle, told)

(* The end of an alert, by its timer or by the operator: the pages are     *)
(* told, a reload that waited for it goes out and the queue moves on       *)
(* 400 ms later, or else at once.                                          *)
Finished(l) ==
  LET told == IF served = "none" THEN net ELSE Emit(net, Control("finish"))
      idle == [l EXCEPT !.active = NoAlert, !.timer = FALSE, !.reload = FALSE]
  IN IF l.reload
     THEN [lane |-> Later(idle),
           net |-> IF served = "none" THEN told ELSE Emit(told, Control("reload"))]
     ELSE StartNext(idle, told)

(* An event for which the overlay has a variation queues; the newest alert *)
(* is refused when the queue is full.                                      *)
Raise ==
  /\ served # "none"
  /\ raised < MaxAlerts
  /\ raised' = raised + 1
  /\ IF raised + 1 \in Accepts[served] /\ Len(lane.pending) < AlertLimit
     THEN Becomes(StartNext([lane EXCEPT !.pending = Append(@, raised + 1)], net))
     ELSE UNCHANGED <<lane, net>>
  /\ UNCHANGED <<served, page, muted, heard, incidents>>

(* The timer of the active alert. *)
Expire ==
  /\ lane.timer
  /\ Becomes(Finished(lane))
  /\ UNCHANGED <<served, page, muted, raised, heard, incidents>>

(* A delayed call of startNext. *)
RunStart ==
  /\ lane.starts > 0
  /\ Becomes(StartNext([lane EXCEPT !.starts = @ - 1], net))
  /\ UNCHANGED <<served, page, muted, raised, heard, incidents>>

Skip ==
  /\ lane.active # NoAlert
  /\ Becomes(Finished(lane))
  /\ UNCHANGED <<served, page, muted, raised, heard, incidents>>

StopAndClear ==
  /\ lane.pending # <<>> \/ lane.active # NoAlert
  /\ LET cleared == [lane EXCEPT !.pending = <<>>] IN
       Becomes(IF lane.active = NoAlert THEN [lane |-> cleared, net |-> net]
               ELSE Finished(cleared))
  /\ UNCHANGED <<served, page, muted, raised, heard, incidents>>

Pause ==
  /\ ~lane.paused
  /\ lane' = [lane EXCEPT !.paused = TRUE]
  /\ Incident
  /\ UNCHANGED <<served, net, page, muted, raised, heard>>

Resume ==
  /\ lane.paused
  /\ Becomes(StartNext([lane EXCEPT !.paused = FALSE], net))
  /\ UNCHANGED <<served, page, muted, raised, heard, incidents>>

(* setMuted tells the pages that are connected now. *)
Mute(value) ==
  /\ muted # value
  /\ muted' = value
  /\ net' = IF served = "none" THEN net ELSE Emit(net, [Control("mute") EXCEPT !.muted = value])
  /\ Incident
  /\ UNCHANGED <<served, lane, page, raised, heard>>

(* The runtime's publish after the store has taken the document: the pages *)
(* reload at once, or after the alert they show.                           *)
Republish(document) ==
  /\ served' = document
  /\ IF lane.active # NoAlert THEN lane' = [lane EXCEPT !.reload = TRUE] /\ UNCHANGED net
     ELSE net' = Emit(net, Control("reload")) /\ UNCHANGED lane
  /\ UNCHANGED <<page, muted, raised, heard>>

(* Another change of publishedDocuments: nothing is sent. *)
Serve(document) ==
  /\ served' = document
  /\ UNCHANGED <<lane, net, page, muted, raised, heard>>

----------------------------------------------------------------------------
(* The pages *)

(* A browser source is shown: its page asks for the published document. *)
Open(p) ==
  /\ page[p].at = "off"
  /\ page' = [page EXCEPT ![p].at = "boot"]
  /\ UNCHANGED <<served, lane, net, muted, raised, heard, incidents>>

(* A source is hidden or removed. *)
Close(p) ==
  /\ page[p].at # "off"
  /\ page' = [page EXCEPT ![p] = Off]
  /\ net' = Broken(net, p)
  /\ Incident
  /\ UNCHANGED <<served, lane, muted, raised, heard>>

(* The page is rendered from the published document; when there is none it *)
(* shows an error and does not ask again.                                  *)
Render(p) ==
  /\ page[p].at = "boot"
  /\ page' = [page EXCEPT ![p] = IF served = "none" THEN [Off EXCEPT !.at = "error"]
                                 ELSE [Off EXCEPT !.at = "page", !.shows = served]]
  /\ UNCHANGED <<served, lane, net, muted, raised, heard, incidents>>

\* Fault: the copy has the sound of the alert.
SnapshotWithSound == [kind |-> "alert", alert |-> lane.active, muted |-> muted]

Snapshot == [kind |-> "alert", alert |-> lane.active, muted |-> TRUE]

Room == Len(net.clients) < StreamLimit

(* The page asks for the events, again a second after each refusal or end. *)
(* A page that joins during an alert gets a silent copy of it; otherwise   *)
(* the queue is tried soon.                                                *)
Connect(p) ==
  /\ page[p].at = "page" /\ page[p].link = "none"
  /\ served # "none"
  /\ Room
  /\ page' = [page EXCEPT ![p].link = "open"]
  /\ net' = [clients |-> Append(net.clients, [page |-> p, live |-> TRUE]),
             inbox |-> [net.inbox EXCEPT ![p] =
                          IF lane.active # NoAlert THEN <<Snapshot>> ELSE <<>>]]
  /\ lane' = IF lane.active # NoAlert THEN lane ELSE Later(lane)
  /\ UNCHANGED <<served, muted, raised, heard, incidents>>

(* The stream breaks; the page notices at once, the server later. *)
Lose(p) ==
  /\ page[p].link # "none"
  /\ page' = [page EXCEPT ![p].link = "none"]
  /\ net' = Broken(net, p)
  /\ Incident
  /\ UNCHANGED <<served, lane, muted, raised, heard>>

(* The server hears that a stream has ended. *)
Notice ==
  /\ \E i \in DOMAIN net.clients :
       /\ ~net.clients[i].live
       /\ net' = [net EXCEPT !.clients = RemoveAt(@, i)]
  /\ UNCHANGED <<served, lane, page, muted, raised, heard, incidents>>

(* The page has read everything of a stream the server cut off. *)
EndOfStream(p) ==
  /\ page[p].link = "open"
  /\ ~Hears(net, p)
  /\ net.inbox[p] = <<>>
  /\ page' = [page EXCEPT ![p].link = "none"]
  /\ UNCHANGED <<served, lane, net, muted, raised, heard, incidents>>

(* The page takes the next message: an alert replaces the one it shows and *)
(* sounds unless the copy or the page is muted.                            *)
Read(p) ==
  /\ page[p].link = "open" /\ net.inbox[p] # <<>>
  /\ LET message == Head(net.inbox[p])
         rest == [net EXCEPT !.inbox[p] = Tail(@)]
         me == page[p]
     IN \/ /\ message.kind = "alert"
           /\ LET sounds == ~message.muted /\ ~me.muted IN
                /\ page' = [page EXCEPT ![p].sound = IF sounds THEN message.alert ELSE NoAlert]
                /\ heard' = IF sounds THEN [heard EXCEPT ![message.alert] = @ \cup {p}] ELSE heard
           /\ net' = rest
        \/ /\ message.kind = "finish"
           /\ page' = [page EXCEPT ![p].sound = NoAlert]
           /\ net' = rest
           /\ UNCHANGED heard
        \/ /\ message.kind = "mute"
           /\ page' = [page EXCEPT ![p].muted = message.muted,
                                   ![p].sound = IF message.muted THEN NoAlert ELSE @]
           /\ net' = rest
           /\ UNCHANGED heard
        \/ /\ message.kind = "reload"
           /\ page' = [page EXCEPT ![p] = [Off EXCEPT !.at = "boot"]]
           /\ net' = Broken(net, p)
           /\ UNCHANGED heard
  /\ UNCHANGED <<served, lane, muted, raised, incidents>>

(* The page's own timer hides the alert. *)
Hide(p) ==
  /\ page[p].sound # NoAlert
  /\ page' = [page EXCEPT ![p].sound = NoAlert]
  /\ UNCHANGED <<served, lane, net, muted, raised, heard, incidents>>

----------------------------------------------------------------------------
AlertsInit ==
  /\ served = "none"
  /\ lane = Quiet
  /\ net = NoStreams
  /\ page = [p \in Page |-> Off]
  /\ muted = FALSE
  /\ raised = 0
  /\ heard = [a \in Alert |-> {}]
  /\ incidents = 0

(* The program ends: the queue, the streams and the pages are gone. *)
AlertsDown ==
  /\ served' = "none"
  /\ lane' = Quiet
  /\ net' = NoStreams
  /\ page' = [p \in Page |-> Off]
  /\ muted' = FALSE
  /\ Incident
  /\ UNCHANGED <<raised, heard>>

PageStep ==
  \E p \in Page : Open(p) \/ Close(p) \/ Render(p) \/ Connect(p) \/ Lose(p)
                 \/ EndOfStream(p) \/ Read(p) \/ Hide(p)

LaneStep ==
  \/ Raise \/ Expire \/ RunStart \/ Skip \/ StopAndClear \/ Pause \/ Resume \/ Notice
  \/ \E value \in BOOLEAN : Mute(value)
=============================================================================
