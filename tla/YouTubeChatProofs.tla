------------------------- MODULE YouTubeChatProofs -------------------------
(***************************************************************************)
(* What holds of YouTubeChat for every choice of modes, replies, limits    *)
(* and bounds: its type, and that no cancelled request outlives the        *)
(* handler that cancelled it.                                              *)
(***************************************************************************)
EXTENDS YouTubeChat, TLAPS

-----------------------------------------------------------------------------
(* Types *)

ToldType == [Message -> {"none", "queued", "sent", "partial", "failed"}]

LEMMA ConstantTypes ==
  /\ \A m : RoutesOf(m) \subseteq Route
  /\ \A known \in BOOLEAN : FreshSession(known) \in Session
  /\ NoSessions \in [Route -> Session]
BY LimitsAssumption DEF Route, RoutesOf, FreshSession, NoSessions, Session

LEMMA NoSessionsType == NoSessions \in [Route -> Session]
BY ConstantTypes

LEMMA NewWorkerType ==
  ASSUME generation \in Nat, epoch \in Nat,
         NEW kind \in {"lookup", "scan", "send", "moderate"}, NEW route \in Route,
         NEW msg \in 0 .. MaxMessages, NEW targets \in SUBSET Route
  PROVE  NewWorker(kind, route, msg, targets) \in Worker
BY LimitsAssumption DEF NewWorker, Worker

LEMMA CompletionType ==
  ASSUME NEW w \in Worker, NEW kind \in {"lookup", "batch", "scan", "send"},
         NEW outcome \in {"ok", "error", "terminal"}, NEW long \in BOOLEAN
  PROVE  Completion(w, kind, outcome, long) \in Event
BY DEF Completion, Worker, Event

\* What a flush leaves behind: the queue loses messages or one is put off, and
\* there is a new sender only if the flag was clear and some route is open.
LEMMA FlushType ==
  ASSUME generation \in Nat, epoch \in Nat, routes \subseteq Route,
         NEW s \in [Route -> Session], NEW q \in SUBSET Queued, NEW busy \in BOOLEAN,
         NEW ws \in SUBSET Worker, NEW t \in ToldType,
         Flush(s, q, busy, ws, t)
  PROVE  /\ queue' \in SUBSET Queued /\ sending' \in BOOLEAN
         /\ workers' \in SUBSET Worker /\ told' \in ToldType
         /\ \/ workers' = ws /\ (busy => sending')
            \/ /\ ~busy /\ sending'
               /\ \E r \in routes : ~s[r].paused
               /\ \E m \in Message, targets \in SUBSET routes :
                    workers' = ws \union {NewWorker("send", "horizontal", m, targets)}
<1> DEFINE ready == Dispatchable(s, q)
           gone == {c \in q : ~Kept(c) /\ \A d \in ready : c.id < d.id}
<1>1. CASE NothingToFlush(busy, q)
  BY <1>1 DEF Flush
<1>2. CASE ~NothingToFlush(busy, q)
  <2>1. busy = FALSE
    BY <1>2 DEF NothingToFlush
  <2>2. told' \in ToldType
    <3>1. \A c : ExpiryVerdict(c) \in {"sent", "partial", "failed"}
      BY DEF ExpiryVerdict
    <3>2. told' = [m \in Message |-> IF \E c \in gone : c.id = m
                                     THEN ExpiryVerdict(CHOOSE c \in gone : c.id = m)
                                     ELSE t[m]]
      BY <1>2 DEF Flush
    <3> QED BY <3>1, <3>2 DEF ToldType
  <2>3. CASE queue' = q \ gone /\ sending' = FALSE /\ workers' = ws
    BY <2>1, <2>2, <2>3
  <2>4. ASSUME NEW c \in ready, NEW ok \in Spawns,
               sending' = ok,
               queue' = IF ok THEN q \ gone ELSE Update(q \ gone, c, [c EXCEPT !.waiting = TRUE]),
               workers' = IF ok THEN ws \union {NewWorker("send", "horizontal", c.id,
                                                           PendingTargets(s, q, c))}
                                ELSE ws
        PROVE  /\ queue' \in SUBSET Queued /\ sending' \in BOOLEAN
               /\ workers' \in SUBSET Worker
               /\ \/ workers' = ws
                  \/ /\ sending'
                     /\ \E r \in routes : ~s[r].paused
                     /\ \E m \in Message, targets \in SUBSET routes :
                          workers' = ws \union {NewWorker("send", "horizontal", m, targets)}
    <3>1. c \in Queued /\ c \in q
      BY <2>4 DEF Dispatchable
    <3>2. [c EXCEPT !.waiting = TRUE] \in Queued /\ c.id \in Message
      BY <3>1 DEF Queued
    <3>3. queue' \in SUBSET Queued
      BY <2>4, <3>2 DEF Update
    <3>4. PendingTargets(s, q, c) \in SUBSET routes /\ PendingTargets(s, q, c) # {}
      BY <2>4 DEF PendingTargets, Dispatchable
    <3>5. \E r \in routes : ~s[r].paused
      BY <3>4 DEF PendingTargets, Open
    <3>6. NewWorker("send", "horizontal", c.id, PendingTargets(s, q, c)) \in Worker
      BY <3>2, <3>4, NewWorkerType, LimitsAssumption DEF Message, Route
    <3>7. ok \in BOOLEAN
      BY <2>4, ChoicesAssumption
    <3> QED BY <2>4, <3>2, <3>3, <3>4, <3>5, <3>6, <3>7
  <2> QED BY <1>2, <2>1, <2>2, <2>3, <2>4 DEF Flush
<1> QED BY <1>1, <1>2


LEMMA TypeInit == Init => TypeOK
<1> SUFFICES ASSUME Init PROVE TypeOK
  OBVIOUS
<1>1. <<>> \in Seq(0 .. MaxMessages) /\ <<>> \in Seq(Event)
  OBVIOUS
<1>2. arrived \in [Route -> Seq(0 .. MaxMessages)]
  BY <1>1 DEF Init
<1>3. told \in [Message -> {"none", "queued", "sent", "partial", "failed"}]
  BY DEF Init
<1>4. sequence \in 0 .. MaxMessages
  BY LimitsAssumption DEF Init
<1> QED BY <1>1, <1>2, <1>3, <1>4, ConstantTypes DEF Init, TypeOK, Output

\* The operations on the session of one route.
LEMMA SessionTypes ==
  ASSUME NEW s \in Session
  PROVE  /\ Drained(s) \in Session
         /\ Failed(s) \in Session
         /\ \A e \in Event : Ended(s, e) \in Session
         /\ \A lookup, scan, lookupOk, scanOk \in BOOLEAN :
              (lookup => NeedsControlLookup(s))
                => Polled(s, lookup, scan, lookupOk, scanOk) \in Session
<1>1. Drained(s) \in Session
  BY DEF Drained, Session
<1>2. ASSUME NEW x \in Session PROVE Failed(x) \in Session
  <2> DEFINE n == IF x.failures < FailureLimit THEN x.failures + 1 ELSE x.failures
  <2>1. n \in 0 .. FailureLimit
    BY LimitsAssumption DEF Session
  <2> HIDE DEF n
  <2>2. [x EXCEPT !.failures = n, !.suspended = FALSE, !.due = FALSE] \in Session
    BY <2>1 DEF Session
  <2> QED BY <2>2 DEF Failed, n
<1>3. ASSUME NEW e \in Event PROVE Ended(s, e) \in Session
  <2> DEFINE n == IF e.long THEN 0 ELSE s.failures
             x == [s EXCEPT !.pending = FALSE, !.failures = n]
             b == e.outcome = "terminal" \/ Failed(x).failures >= FailureLimit
  <2>1. n \in 0 .. FailureLimit /\ 0 \in 0 .. FailureLimit
    BY LimitsAssumption DEF Session
  <2>2. x \in Session
    <3> HIDE DEF n
    <3> QED BY <2>1 DEF Session
  <2>3. Failed(x) \in Session
    BY <2>2, <1>2
  <2>4. [s EXCEPT !.pending = FALSE, !.failures = 0, !.due = FALSE] \in Session
    BY <2>1 DEF Session
  <2>5. \A y \in Session, c \in BOOLEAN : [y EXCEPT !.suspended = c] \in Session
    BY DEF Session
  <2>6. b \in BOOLEAN
    OBVIOUS
  <2>7. [Failed(x) EXCEPT !.suspended = b] \in Session
    BY <2>3, <2>5, <2>6
  <2> QED BY <2>4, <2>7 DEF Ended
<1>4. ASSUME NEW lookup \in BOOLEAN, NEW scan \in BOOLEAN,
             NEW lookupOk \in BOOLEAN, NEW scanOk \in BOOLEAN,
             lookup => NeedsControlLookup(s)
      PROVE  Polled(s, lookup, scan, lookupOk, scanOk) \in Session
  <2> DEFINE n == s.lookups + 1
             a == IF lookup
                  THEN [s EXCEPT !.lookups = n, !.looking = lookupOk, !.lookDue = s.lookDue /\ lookupOk]
                  ELSE s
  <2>1. lookup => n \in 0 .. LookupLimit
    BY <1>4, LimitsAssumption DEF Session, NeedsControlLookup
  <2>2. a \in Session
    <3> HIDE DEF n
    <3> QED BY <2>1 DEF Session
  <2>3. [a EXCEPT !.pending = TRUE] \in Session
    <3> HIDE DEF a
    <3> QED BY <2>2 DEF Session
  <2>4. Failed(a) \in Session
    BY <2>2, <1>2
  <2> QED BY <2>2, <2>3, <2>4 DEF Polled
<1> QED BY <1>1, <1>2, <1>3, <1>4

\* A poll with an active output: the sessions and the workers its flush starts from.
LEMMA PollRoutesParts ==
  ASSUME TypeOK, NEW s \in [Route -> Session], PollRoutes(s), ~ \A r \in routes : s[r].paused
  PROVE  \E lookOk \in [Route -> BOOLEAN], scanOk \in [Route -> BOOLEAN] :
           LET after == PolledSessions(s, lookOk, scanOk)
               added == PolledWorkers(s, lookOk, scanOk)
           IN /\ after \in [Route -> Session] /\ added \in SUBSET Worker
              /\ session' = after
              /\ Flush(after, queue, sending, workers \union added, told)
<1>1. PICK lookOk \in [Route -> Spawns], scanOk \in [Route -> Spawns] :
        /\ session' = PolledSessions(s, lookOk, scanOk)
        /\ Flush(PolledSessions(s, lookOk, scanOk), queue, sending,
                 workers \union PolledWorkers(s, lookOk, scanOk), told)
  BY DEF PollRoutes
<1>2. lookOk \in [Route -> BOOLEAN] /\ scanOk \in [Route -> BOOLEAN]
  BY ChoicesAssumption
<1>3. ASSUME NEW r \in Route PROVE PolledSessions(s, lookOk, scanOk)[r] \in Session
  <2> DEFINE l == r \in Looks(s)
             c == r \in Scans(s)
  <2>1. l \in BOOLEAN /\ c \in BOOLEAN /\ (l => NeedsControlLookup(s[r]))
    BY DEF Looks
  <2>2. PolledSessions(s, lookOk, scanOk)[r] = Polled(s[r], l, c, lookOk[r], scanOk[r])
    BY DEF PolledSessions
  <2> HIDE DEF l, c
  <2>3. Polled(s[r], l, c, lookOk[r], scanOk[r]) \in Session
    BY <1>2, <2>1, SessionTypes
  <2> QED BY <2>2, <2>3
<1>4. PolledSessions(s, lookOk, scanOk) \in [Route -> Session]
  BY <1>3 DEF PolledSessions
<1>5. PolledWorkers(s, lookOk, scanOk) \in SUBSET Worker
  <2>1. 0 \in 0 .. MaxMessages /\ {} \in SUBSET Route /\ routes \subseteq Route
    BY LimitsAssumption DEF TypeOK
  <2>2. \A r \in Route : /\ NewWorker("lookup", r, 0, {}) \in Worker
                         /\ NewWorker("scan", r, 0, {}) \in Worker
    BY <2>1, NewWorkerType DEF TypeOK
  <2> QED BY <2>1, <2>2 DEF PolledWorkers, Looks, Scans
<1> QED BY <1>1, <1>2, <1>4, <1>5

LEMMA PollRoutesType ==
  ASSUME TypeOK, NEW s \in [Route -> Session], PollRoutes(s)
  PROVE  /\ session' \in [Route -> Session] /\ queue' \in SUBSET Queued
         /\ sending' \in BOOLEAN /\ workers' \in SUBSET Worker /\ told' \in ToldType
<1>1. CASE \A r \in routes : s[r].paused
  BY <1>1 DEF PollRoutes, TypeOK, ToldType
<1>2. CASE ~ \A r \in routes : s[r].paused
  <2>1. PICK after \in [Route -> Session], added \in SUBSET Worker :
          session' = after /\ Flush(after, queue, sending, workers \union added, told)
    BY <1>2, PollRoutesParts
  <2> QED BY <2>1, FlushType DEF TypeOK, ToldType
<1> QED BY <1>1, <1>2

LEMMA UpdateTypes ==
  /\ \A s \in Session, b \in BOOLEAN :
       /\ [s EXCEPT !.due = b] \in Session /\ [s EXCEPT !.lookDue = b] \in Session
       /\ [s EXCEPT !.paused = b] \in Session /\ [s EXCEPT !.failures = 0] \in Session
       /\ \A known \in BOOLEAN :
            [s EXCEPT !.looking = FALSE, !.lookDue = b, !.chatId = known] \in Session
  /\ \A c \in Queued, b \in BOOLEAN :
       [c EXCEPT !.aged = b] \in Queued /\ [c EXCEPT !.waiting = b] \in Queued
  /\ \A w \in Worker :
       /\ [w EXCEPT !.pc = "call"] \in Worker
       /\ \A r \in Route : [w EXCEPT !.pc = "call", !.route = r] \in Worker
<1>1. 0 \in 0 .. FailureLimit
  BY LimitsAssumption
<1>2. ASSUME NEW s \in Session, NEW b \in BOOLEAN
      PROVE  /\ [s EXCEPT !.due = b] \in Session /\ [s EXCEPT !.lookDue = b] \in Session
             /\ [s EXCEPT !.paused = b] \in Session /\ [s EXCEPT !.failures = 0] \in Session
  BY <1>1 DEF Session
<1>3. ASSUME NEW s \in Session, NEW b \in BOOLEAN, NEW known \in BOOLEAN
      PROVE  [s EXCEPT !.looking = FALSE, !.lookDue = b, !.chatId = known] \in Session
  BY DEF Session
<1>4. ASSUME NEW c \in Queued, NEW b \in BOOLEAN
      PROVE  [c EXCEPT !.aged = b] \in Queued /\ [c EXCEPT !.waiting = b] \in Queued
  BY DEF Queued
<1>5. ASSUME NEW w \in Worker
      PROVE  /\ [w EXCEPT !.pc = "call"] \in Worker
             /\ \A r \in Route : [w EXCEPT !.pc = "call", !.route = r] \in Worker
  BY DEF Worker
<1> QED BY <1>2, <1>3, <1>4, <1>5

LEMMA CreditedType ==
  ASSUME NEW c \in Queued, NEW e \in Event
  PROVE  Credited(c, e) \in Queued
<1> DEFINE b == c.waiting \/ e.done # e.tried
           d == c.delivered \union e.done
<1>1. b \in BOOLEAN /\ d \in SUBSET Route
  BY DEF Queued, Event
<1> HIDE DEF b, d
<1>2. [c EXCEPT !.delivered = d, !.waiting = b] \in Queued
  BY <1>1 DEF Queued
<1> QED BY <1>2 DEF Credited, b, d

LEMMA EventTypes ==
  ASSUME events \in Seq(Event), events # <<>>
  PROVE  Event1 \in Event /\ Tail(events) \in Seq(Event)
BY DEF Event1

LEMMA PostType ==
  ASSUME events \in Seq(Event), NEW e \in Event
  PROVE  Append(events, e) \in Seq(Event)
OBVIOUS

LEMMA SynchronizedType ==
  ASSUME session \in [Route -> Session]
  PROVE  Synchronized \in [Route -> Session]
<1>1. \A r \in Route : RouteActive(r) \in BOOLEAN
  BY DEF RouteActive
<1>2. ASSUME NEW r \in Route PROVE [session[r] EXCEPT !.paused = ~RouteActive(r)] \in Session
  <2> DEFINE b == ~RouteActive(r)
  <2>1. b \in BOOLEAN /\ session[r] \in Session
    BY <1>1
  <2> HIDE DEF b
  <2>2. [session[r] EXCEPT !.paused = b] \in Session
    BY <2>1, UpdateTypes
  <2> QED BY <2>2 DEF b
<1> QED BY <1>2 DEF Synchronized

\* What the handlers that flush the queue hand to the flush.
LEMMA SendMessageFlush ==
  ASSUME TypeOK, SendMessage
  PROVE  \E q \in SUBSET Queued, t \in ToldType : Flush(session, q, sending, workers, t)
<1> DEFINE new == [id |-> sequence + 1, delivered |-> {}, aged |-> FALSE, waiting |-> FALSE]
           t == [told EXCEPT ![sequence + 1] = "queued"]
<1>1. sequence + 1 \in Message
  BY LimitsAssumption DEF SendMessage, Message, TypeOK
<1>2. new \in Queued
  BY <1>1 DEF Queued
<1>3. t \in ToldType
  BY <1>1 DEF ToldType, TypeOK
<1>4. Flush(session, queue \union {new}, sending, workers, t)
  BY DEF SendMessage
<1> HIDE DEF new, t
<1>5. queue \union {new} \in SUBSET Queued
  BY <1>2 DEF TypeOK
<1> QED BY <1>3, <1>4, <1>5

LEMMA LookupDoneFlush ==
  ASSUME TypeOK, LookupDone
  PROVE  /\ Event1 \in Event /\ events' \in Seq(Event)
         /\ session' \in [Route -> Session]
         /\ \A r \in Route : session'[r].paused = session[r].paused
         /\ \/ Flush(session', queue, sending, workers, told)
            \/ UNCHANGED <<queue, sending, workers, told>>
<1> DEFINE found == Event1.outcome = "ok"
           r == Event1.route
           known == session[r].chatId \/ found
           looked == [session[r] EXCEPT !.looking = FALSE, !.lookDue = FALSE, !.chatId = known]
           after == [session EXCEPT ![r] = looked]
<1>1. Event1 \in Event /\ r \in Route /\ events' \in Seq(Event)
  BY EventTypes DEF LookupDone, TakeEvent, Event, TypeOK
<1>2. known \in BOOLEAN /\ session[r] \in Session
  BY <1>1 DEF Session, TypeOK
<1>3. looked \in Session /\ looked.paused = session[r].paused
  <2> DEFINE x == session[r]
  <2> HIDE DEF known, r, x
  <2>1. [x EXCEPT !.looking = FALSE, !.lookDue = FALSE, !.chatId = known] \in Session
    BY <1>2, UpdateTypes DEF x
  <2>2. [x EXCEPT !.looking = FALSE, !.lookDue = FALSE, !.chatId = known].paused = x.paused
    BY <1>2 DEF x, Session
  <2> QED BY <2>1, <2>2 DEF x
<1>4. session' = after /\ (\/ Flush(after, queue, sending, workers, told)
                          \/ UNCHANGED <<queue, sending, workers, told>>)
  BY DEF LookupDone
<1>5. after \in [Route -> Session] /\ \A x \in Route : after[x].paused = session[x].paused
  <2> HIDE DEF looked, r
  <2> QED BY <1>1, <1>3 DEF TypeOK
<1> HIDE DEF after
<1> QED BY <1>1, <1>4, <1>5

LEMMA SendDoneFlush ==
  ASSUME TypeOK, SendDone
  PROVE  \/ sending' = FALSE /\ UNCHANGED <<queue, workers, told>>
         \/ \E q \in SUBSET Queued, t \in ToldType : Flush(session, q, FALSE, workers, t)
<1>1. Event1 \in Event
  BY EventTypes DEF SendDone, TakeEvent, TypeOK
<1>2. ASSUME NEW c \in queue, NEW d, d = Credited(c, Event1),
             Flush(session, Update(queue, c, d), FALSE, workers, told)
      PROVE  \E q \in SUBSET Queued, t \in ToldType : Flush(session, q, FALSE, workers, t)
  <2>1. d \in Queued
    BY <1>1, <1>2, CreditedType DEF TypeOK
  <2>2. Update(queue, c, d) \in SUBSET Queued
    BY <2>1 DEF Update, TypeOK
  <2> QED BY <1>2, <2>2 DEF TypeOK, ToldType
<1>3. ASSUME NEW c \in queue, NEW d,
             Flush(session, queue \ {c}, FALSE, workers, [told EXCEPT ![c.id] = SendVerdict(d)])
      PROVE  \E q \in SUBSET Queued, t \in ToldType : Flush(session, q, FALSE, workers, t)
  <2> DEFINE t == [told EXCEPT ![c.id] = SendVerdict(d)]
  <2>1. SendVerdict(d) \in {"sent", "partial", "failed"}
    BY DEF SendVerdict, ExpiryVerdict
  <2>2. t \in ToldType /\ queue \ {c} \in SUBSET Queued
    BY <2>1 DEF ToldType, TypeOK
  <2>3. Flush(session, queue \ {c}, FALSE, workers, t)
    BY <1>3
  <2> HIDE DEF t
  <2> QED BY <2>2, <2>3
<1> QED BY <1>2, <1>3 DEF SendDone

\* A worker's step changes the workers, the completions and what has arrived.
LEMMA WorkerStepType ==
  ASSUME TypeOK, WorkerNext
  PROVE  TypeOK'
<1> USE DEF Exit, Replace, Post
<1> DEFINE Typed == /\ workers' \subseteq Worker /\ events' \in Seq(Event)
                    /\ arrived' \in [Route -> Seq(0 .. MaxMessages)]
<1>0. /\ workers \subseteq Worker /\ events \in Seq(Event)
      /\ arrived \in [Route -> Seq(0 .. MaxMessages)]
  BY DEF TypeOK
<1>1. PICK w \in workers : \/ WorkerEnters(w) \/ LookupReturns(w) \/ ModerationReturns(w)
                           \/ \E reply \in Replies : SendReturns(w, reply)
                           \/ ScanStarts(w) \/ ScanBatch(w) \/ ScanEnds(w)
  BY DEF WorkerNext
<1>2. w \in Worker /\ w.route \in Route /\ w.msg \in 0 .. MaxMessages /\ w.todo \subseteq Route
  BY <1>0 DEF Worker
<1>3. ASSUME WorkerEnters(w) PROVE Typed
  <2>1. \A r \in (IF w.kind = "send" THEN w.todo ELSE {w.route}) : r \in Route
    BY <1>2
  <2>2. CASE Cancelled(w)
    BY <1>0, <1>3, <2>2 DEF WorkerEnters
  <2>3. CASE ~Cancelled(w)
    <3>1. PICK r \in (IF w.kind = "send" THEN w.todo ELSE {w.route}) :
            workers' = (workers \ {w}) \union {[w EXCEPT !.pc = "call", !.route = r]}
      BY <1>3, <2>3 DEF WorkerEnters
    <3>2. [w EXCEPT !.pc = "call", !.route = r] \in Worker
      BY <1>2, <2>1, UpdateTypes
    <3>3. UNCHANGED <<events, arrived>>
      BY <1>3 DEF WorkerEnters
    <3> QED BY <1>0, <3>1, <3>2, <3>3
  <2> QED BY <2>2, <2>3
<1>4. ASSUME LookupReturns(w) PROVE Typed
  <2>1. PICK outcome \in {"ok", "error"} :
          events' = Append(events, Completion(w, "lookup", outcome, FALSE))
    BY <1>4 DEF LookupReturns
  <2>2. Completion(w, "lookup", outcome, FALSE) \in Event
    BY <1>2, CompletionType
  <2>3. events' \in Seq(Event)
    BY <1>0, <2>1, <2>2, PostType
  <2> QED BY <1>0, <1>4, <2>3 DEF LookupReturns
<1>5. ASSUME ModerationReturns(w) PROVE Typed
  BY <1>0, <1>5 DEF ModerationReturns
<1>6. ASSUME NEW reply \in Replies, SendReturns(w, reply) PROVE Typed
  <2> DEFINE done == IF reply = "ok" THEN w.done \union {w.route} ELSE w.done
             v == [w EXCEPT !.todo = @ \ {w.route}, !.done = done]
             e == Completion(v, "send", "ok", FALSE)
  <2>1. v \in Worker
    <3>1. done \in SUBSET Route
      BY <1>2 DEF Worker
    <3> HIDE DEF done
    <3> QED BY <1>2, <3>1 DEF Worker
  <2>2. arrived' \in [Route -> Seq(0 .. MaxMessages)]
    <3>1. Append(arrived[w.route], w.msg) \in Seq(0 .. MaxMessages)
      BY <1>0, <1>2
    <3> QED BY <1>0, <1>2, <1>6, <3>1 DEF SendReturns
  <2>3. Append(events, e) \in Seq(Event)
    <3>1. e \in Event
      BY <2>1, CompletionType
    <3> HIDE DEF e
    <3> QED BY <1>0, <3>1, PostType
  <2>4. \A r \in v.todo : [v EXCEPT !.route = r] \in Worker
    BY <2>1 DEF Worker
  <2>5. \/ workers' = workers \ {w} /\ events' = Append(events, e)
        \/ workers' = workers \ {w} /\ events' = events
        \/ \E r \in v.todo : workers' = (workers \ {w}) \union {[v EXCEPT !.route = r]} /\ events' = events
    BY <1>6 DEF SendReturns
  <2> HIDE DEF v, e
  <2> QED BY <1>0, <2>2, <2>3, <2>4, <2>5
<1>7. ASSUME ScanStarts(w) PROVE Typed
  <2>1. [w EXCEPT !.pc = "call"] \in Worker
    BY <1>2, UpdateTypes
  <2>2. Append(events, Completion(w, "scan", "error", FALSE)) \in Seq(Event)
    BY <1>0, <1>2, CompletionType, PostType
  <2> QED BY <1>0, <1>7, <2>1, <2>2 DEF ScanStarts
<1>8. ASSUME ScanBatch(w) PROVE Typed
  <2>1. Append(events, Completion(w, "batch", "ok", TRUE)) \in Seq(Event)
    BY <1>0, <1>2, CompletionType, PostType
  <2> QED BY <1>0, <1>8, <2>1 DEF ScanBatch
<1>9. ASSUME ScanEnds(w) PROVE Typed
  <2>1. PICK outcome \in {"ok", "error", "terminal"}, long \in BOOLEAN :
          events' = Append(events, Completion(w, "scan", outcome, long))
    BY <1>9, ChoicesAssumption DEF ScanEnds
  <2>2. Completion(w, "scan", outcome, long) \in Event
    BY <1>2, CompletionType
  <2>3. events' \in Seq(Event)
    BY <1>0, <2>1, <2>2, PostType
  <2> QED BY <1>0, <1>9, <2>3 DEF ScanEnds
<1>10. Typed
  BY <1>1, <1>3, <1>4, <1>5, <1>6, <1>7, <1>8, <1>9
<1>11. WorkerFrame
  BY <1>1 DEF WorkerEnters, LookupReturns, ModerationReturns, SendReturns, ScanStarts,
              ScanBatch, ScanEnds
<1> HIDE DEF Typed
<1>12. /\ UNCHANGED <<mode, prepared, primary, secondary, secondStarts, pollTimer, ui, routes>>
       /\ UNCHANGED <<session, queue, sequence, sending, generation, epoch, blocked, shows,
                      pauses, told>>
  BY <1>11 DEF WorkerFrame, show, chat, cancel, bounds
<1> QED BY <1>10, <1>12 DEF TypeOK, Typed

\* The environment changes outputs, flags that stand for time, and the quota.
LEMMA EnvStepType ==
  ASSUME TypeOK, EnvNext
  PROVE  TypeOK'
<1> USE DEF show, chat, cancel, bounds, threads, EnvFrame
<1> DEFINE Rest == /\ UNCHANGED <<mode, prepared, secondStarts, pollTimer, ui, routes>>
                   /\ UNCHANGED <<sequence, sending, generation, epoch, workers, events,
                                  shows, arrived, told>>
           Typed == /\ primary' \in Output /\ secondary' \in Output
                    /\ session' \in [Route -> Session] /\ queue' \subseteq Queued
                    /\ blocked' \in BOOLEAN /\ pauses' \in Nat
<1>0. /\ primary \in Output /\ secondary \in Output /\ session \in [Route -> Session]
      /\ queue \subseteq Queued /\ blocked \in BOOLEAN /\ pauses \in Nat
  BY DEF TypeOK
<1>1. ASSUME PrimaryChanges PROVE Rest /\ Typed
  BY <1>0, <1>1 DEF PrimaryChanges, Output
<1>2. ASSUME SecondaryChanges PROVE Rest /\ Typed
  BY <1>0, <1>2 DEF SecondaryChanges, Output
<1>3. ASSUME NEW c \in queue, MessageAges(c) \/ RetryComesDue(c) PROVE Rest /\ Typed
  <2>1. queue' \subseteq Queued
    BY <1>0, <1>3, UpdateTypes DEF MessageAges, RetryComesDue, Update
  <2> QED BY <1>0, <1>3, <2>1 DEF MessageAges, RetryComesDue
<1>4. ASSUME NEW r \in Route, ScanComesDue(r) \/ LookupComesDue(r) PROVE Rest /\ Typed
  <2>1. [session[r] EXCEPT !.due = TRUE] \in Session /\ [session[r] EXCEPT !.lookDue = TRUE] \in Session
    BY <1>0, UpdateTypes
  <2>2. \/ session' = [session EXCEPT ![r] = [session[r] EXCEPT !.due = TRUE]]
        \/ session' = [session EXCEPT ![r] = [session[r] EXCEPT !.lookDue = TRUE]]
    BY <1>4 DEF ScanComesDue, LookupComesDue
  <2>3. session' \in [Route -> Session]
    BY <1>0, <2>1, <2>2
  <2> QED BY <1>0, <1>4, <2>3 DEF ScanComesDue, LookupComesDue
<1>5. ASSUME QuotaPause PROVE Rest /\ Typed
  BY <1>0, <1>5 DEF QuotaPause, Pause
<1>6. ASSUME QuotaResume PROVE Rest /\ Typed
  BY <1>0, <1>6 DEF QuotaResume
<1>7. Rest /\ Typed
  BY <1>1, <1>2, <1>3, <1>4, <1>5, <1>6 DEF EnvNext
<1> HIDE DEF Rest, Typed
<1> QED BY <1>7 DEF TypeOK, Rest, Typed

LEMMA TypeStep == TypeOK /\ [Next]_vars => TypeOK'
<1> SUFFICES ASSUME TypeOK, [Next]_vars PROVE TypeOK'
  OBVIOUS
<1> USE DEF TypeOK, Output, show, chat, cancel, bounds, threads, Invalidate, BeginStop, Show,
            Pause, TakeEvent, CanStart
<1>0. CASE UNCHANGED vars
  BY <1>0 DEF vars
<1>1. ASSUME NEW m \in Modes \union {"off"}, SelectMode(m) PROVE TypeOK'
  BY <1>1 DEF SelectMode
<1>2. CASE Prepare
    <2>1. sending' \in BOOLEAN /\ queue' \subseteq Queued /\ session' \in [Route -> Session]
    BY <1>2, NoSessionsType DEF Prepare
  <2>2. shows' \in Nat /\ pauses' \in Nat /\ generation' \in Nat /\ epoch' \in Nat
    BY <1>2 DEF Prepare
  <2>3. ui' = "prepWait" /\ mode' # "off"
    BY <1>2 DEF Prepare
  <2> QED BY <1>2, <2>1, <2>2, <2>3 DEF Prepare
<1>3. CASE FinishPrepare
  <2>1. CASE UNCHANGED <<prepared, routes, session>>
    BY <1>3, <2>1 DEF FinishPrepare
  <2>2. CASE prepared' = "none" /\ UNCHANGED <<routes, session>>
    BY <1>3, <2>2 DEF FinishPrepare
  <2>3. ASSUME NEW known \in [Route -> CreatedChats],
               prepared' = mode /\ routes' = RoutesOf(mode),
               session' = [r \in Route |-> FreshSession(r \in RoutesOf(mode) /\ known[r])]
        PROVE  TypeOK'
    <3>1. \A b : (b \in BOOLEAN) => FreshSession(b) \in Session
      BY ConstantTypes
    <3>2. ASSUME NEW r \in Route PROVE FreshSession(r \in RoutesOf(mode) /\ known[r]) \in Session
      <4> DEFINE b == r \in RoutesOf(mode) /\ known[r]
      <4>1. b \in BOOLEAN
        OBVIOUS
      <4> HIDE DEF b
      <4>2. FreshSession(b) \in Session
        BY <4>1, <3>1
      <4> QED BY <4>2 DEF b
    <3>3. session' \in [Route -> Session] /\ routes' \subseteq Route
      BY <2>3, <3>2, ConstantTypes
    <3>4. mode \in Modes
      BY <1>3 DEF FinishPrepare
    <3> QED BY <1>3, <2>3, <3>3, <3>4 DEF FinishPrepare
  <2> QED BY <1>3, <2>1, <2>2, <2>3 DEF FinishPrepare
<1>4. CASE Start
  BY <1>4 DEF Start
<1>5. CASE StartFails
  <2>1. sending' \in BOOLEAN /\ queue' \subseteq Queued /\ session' \in [Route -> Session]
    BY <1>5, NoSessionsType DEF StartFails
  <2>2. primary' \in Output /\ generation' \in Nat /\ epoch' \in Nat
    BY <1>5 DEF StartFails
  <2>3. ui' = "stopWait" /\ routes' = {} /\ pollTimer' \in BOOLEAN
    BY <1>5 DEF StartFails
  <2> QED BY <1>5, <2>1, <2>2, <2>3 DEF StartFails
<1>6. CASE Stop
  <2>1. sending' \in BOOLEAN /\ queue' \subseteq Queued /\ session' \in [Route -> Session]
    BY <1>6, NoSessionsType DEF Stop
  <2>2. primary' \in Output /\ generation' \in Nat /\ epoch' \in Nat
    BY <1>6 DEF Stop
  <2>3. ui' = "stopWait" /\ routes' = {} /\ pollTimer' \in BOOLEAN
    BY <1>6 DEF Stop
  <2> QED BY <1>6, <2>1, <2>2, <2>3 DEF Stop
<1>7. CASE FinishStop
  BY <1>7 DEF FinishStop
<1>8. ASSUME NEW g \in secondStarts, SecondStart(g) PROVE TypeOK'
  BY <1>8 DEF SecondStart
<1>9. CASE PollOff
  BY <1>9, NoSessionsType DEF PollOff
<1>10. CASE Poll
  <2>1. Synchronized \in [Route -> Session]
    BY SynchronizedType
  <2>2. /\ session' \in [Route -> Session] /\ queue' \in SUBSET Queued
        /\ sending' \in BOOLEAN /\ workers' \in SUBSET Worker /\ told' \in ToldType
    BY <1>10, <2>1, PollRoutesType DEF Poll
  <2> QED BY <1>10, <2>2 DEF Poll, ToldType
<1>11. CASE PollCancel
  BY <1>11, SynchronizedType DEF PollCancel
<1>12. CASE PollResume
  <2>1. [r \in Route |-> Drained(session[r])] \in [Route -> Session]
    BY SessionTypes
  <2>2. /\ session' \in [Route -> Session] /\ queue' \in SUBSET Queued
        /\ sending' \in BOOLEAN /\ workers' \in SUBSET Worker /\ told' \in ToldType
    BY <1>12, <2>1, PollRoutesType DEF PollResume
  <2> QED BY <1>12, <2>2 DEF PollResume, ToldType
<1>13. CASE SendMessage
  <2>1. PICK q \in SUBSET Queued, t \in ToldType : Flush(session, q, sending, workers, t)
    BY <1>13, SendMessageFlush
  <2>2. /\ queue' \in SUBSET Queued /\ sending' \in BOOLEAN
        /\ workers' \in SUBSET Worker /\ told' \in ToldType
    BY <2>1, FlushType
  <2>3. sequence' \in 0 .. MaxMessages
    BY <1>13, LimitsAssumption DEF SendMessage
  <2> QED BY <1>13, <2>2, <2>3 DEF SendMessage, ToldType
<1>14. CASE Moderate
  <2>1. NewWorker("moderate", "horizontal", 0, {}) \in Worker
    BY NewWorkerType, LimitsAssumption DEF Route
  <2> QED BY <1>14, <2>1 DEF Moderate
<1>15. CASE DropLate
  BY <1>15 DEF DropLate
<1>16. CASE LookupDone
  <2>1. /\ events' \in Seq(Event) /\ session' \in [Route -> Session]
        /\ \/ Flush(session', queue, sending, workers, told)
           \/ UNCHANGED <<queue, sending, workers, told>>
    BY <1>16, LookupDoneFlush
  <2>2. /\ queue' \in SUBSET Queued /\ sending' \in BOOLEAN
        /\ workers' \in SUBSET Worker /\ told' \in ToldType
    BY <2>1, FlushType DEF ToldType
  <2> QED BY <1>16, <2>1, <2>2 DEF LookupDone, ToldType
<1>17. CASE BatchArrived
  <2>1. Event1 \in Event /\ Event1.route \in Route /\ events' \in Seq(Event)
    BY <1>17, EventTypes DEF BatchArrived, Event
  <2>2. session' \in [Route -> Session]
    BY <1>17, <2>1, UpdateTypes DEF BatchArrived
  <2> QED BY <1>17, <2>1, <2>2 DEF BatchArrived
<1>18. CASE ScanDone
  <2>1. Event1 \in Event /\ Event1.route \in Route /\ events' \in Seq(Event)
    BY <1>18, EventTypes DEF ScanDone, Event
  <2>2. session' \in [Route -> Session]
    BY <1>18, <2>1, SessionTypes DEF ScanDone
  <2> QED BY <1>18, <2>1, <2>2 DEF ScanDone
<1>19. CASE SendDone
  <2>1. \/ sending' = FALSE /\ UNCHANGED <<queue, workers, told>>
        \/ \E q \in SUBSET Queued, t \in ToldType : Flush(session, q, FALSE, workers, t)
    BY <1>19, SendDoneFlush
  <2>2. /\ queue' \in SUBSET Queued /\ sending' \in BOOLEAN
        /\ workers' \in SUBSET Worker /\ told' \in ToldType
    BY <2>1, FlushType DEF ToldType
  <2>3. events' \in Seq(Event)
    BY <1>19, EventTypes DEF SendDone
  <2> QED BY <1>19, <2>2, <2>3 DEF SendDone, ToldType
<1>20. CASE WorkerNext
  BY <1>20, WorkerStepType
<1>21. CASE EnvNext
  BY <1>21, EnvStepType
<1> QED
  BY <1>0, <1>1, <1>2, <1>3, <1>4, <1>5, <1>6, <1>7, <1>8, <1>9, <1>10, <1>11, <1>12, <1>13,
     <1>14, <1>15, <1>16, <1>17, <1>18, <1>19, <1>20, <1>21 DEF Next, UiNext

\* The variables have their types in every reachable state.
THEOREM TypeCorrect == Spec => []TypeOK
<1> QED BY TypeInit, TypeStep, PTL DEF Spec

-----------------------------------------------------------------------------
(* The inductive invariant *)

\* Nothing belongs to a generation that has not begun.
NoneNewer == /\ \A w \in workers : w.gen <= generation
             /\ \A i \in DOMAIN events : events[i].gen <= generation

\* While a handler waits for its workers, all there is belongs to the past.
AllOlderWhileWaiting ==
  ui # "idle" => /\ \A w \in workers : w.gen < generation
                 /\ \A i \in DOMAIN events : events[i].gen < generation

\* Preparing and stopping have closed the sessions they wait for.
ClosedWhileWaiting ==
  ui \in {"prepWait", "stopWait"} => /\ routes = {} /\ ~sending
                                     /\ \A r \in Route : session[r].paused

\* Without outputs every session is paused, and only moderation is at work: this
\* is why PollOff may cancel without waiting.
QuietWithoutOutputs ==
  primary = "none" /\ secondary = "none" =>
    /\ \A r \in Route : session[r].paused
    /\ ui = "idle" => \A w \in workers : w.kind = "moderate"

Core == /\ TypeOK /\ NoneNewer /\ AllOlderWhileWaiting /\ ClosedWhileWaiting
        /\ QuietWithoutOutputs /\ NoCancelledWorkerWhenIdle

NoOutputs == primary = "none" /\ secondary = "none"

LEMMA AppendAll ==
  ASSUME NEW S, NEW P, NEW s \in Seq(S), NEW e \in S, e \in P,
         \A i \in DOMAIN s : s[i] \in P
  PROVE  \A i \in DOMAIN Append(s, e) : Append(s, e)[i] \in P
OBVIOUS

LEMMA TailAll ==
  ASSUME NEW S, NEW P, NEW s \in Seq(S), s # <<>>, \A i \in DOMAIN s : s[i] \in P
  PROVE  \A i \in DOMAIN Tail(s) : Tail(s)[i] \in P
OBVIOUS

\* A step of a worker keeps the invariant: it stays in its generation.
LEMMA WorkerStepCore ==
  ASSUME Core, TypeOK', NEW w \in workers,
         UNCHANGED <<ui, generation, epoch, routes, session, sending, primary, secondary>>,
         \/ workers' = workers \ {w}
         \/ workers' = workers
         \/ \E v \in Worker : /\ v.kind = w.kind /\ v.gen = w.gen /\ v.epoch = w.epoch
                              /\ workers' = (workers \ {w}) \union {v},
         \/ events' = events
         \/ \E e \in Event : e.gen = w.gen /\ events' = Append(events, e)
  PROVE  Core'
<1>1. \A v \in workers' : \E u \in workers : v.kind = u.kind /\ v.gen = u.gen /\ v.epoch = u.epoch
  OBVIOUS
<1>2. \A i \in DOMAIN events' : \/ \E j \in DOMAIN events : events'[i].gen = events[j].gen
                               \/ events'[i].gen = w.gen
  <2> DEFINE P == {e \in Event : e.gen = w.gen \/ \E j \in DOMAIN events : e.gen = events[j].gen}
  <2>1. \A i \in DOMAIN events : events[i] \in P
    BY DEF Core, TypeOK
  <2>2. \A i \in DOMAIN events' : events'[i] \in P
    <3>1. CASE events' = events
      BY <2>1, <3>1
    <3>2. ASSUME NEW e \in Event, e.gen = w.gen, events' = Append(events, e)
          PROVE  \A i \in DOMAIN events' : events'[i] \in P
      <4>1. e \in P
        BY <3>2
      <4> HIDE DEF P
      <4> QED BY <2>1, <3>2, <4>1, AppendAll DEF Core, TypeOK
    <3> QED BY <3>1, <3>2
  <2> QED BY <2>2
<1>3. NoneNewer' /\ AllOlderWhileWaiting'
  BY <1>1, <1>2 DEF Core, NoneNewer, AllOlderWhileWaiting
<1>4. NoCancelledWorkerWhenIdle' /\ QuietWithoutOutputs' /\ ClosedWhileWaiting'
  BY <1>1 DEF Core, NoCancelledWorkerWhenIdle, QuietWithoutOutputs, ClosedWhileWaiting
<1> QED BY <1>3, <1>4 DEF Core

\* So does a step that touches neither workers nor completions.
LEMMA FrameStepCore ==
  ASSUME Core, TypeOK',
         UNCHANGED <<ui, generation, epoch, routes, sending, workers, events>>,
         \A r \in Route : session'[r].paused = session[r].paused,
         NoOutputs' => NoOutputs
  PROVE  Core'
<1>1. NoneNewer' /\ AllOlderWhileWaiting' /\ NoCancelledWorkerWhenIdle'
  BY DEF Core, NoneNewer, AllOlderWhileWaiting, NoCancelledWorkerWhenIdle
<1>2. ClosedWhileWaiting' /\ QuietWithoutOutputs'
  BY DEF Core, ClosedWhileWaiting, QuietWithoutOutputs, NoOutputs
<1> QED BY <1>1, <1>2 DEF Core

\* A handler that starts workers of the current generation, on sessions that are
\* not paused, after it has drained the old ones or without having cancelled any.
LEMMA HandlerStepCore ==
  ASSUME Core, TypeOK', ui' = "idle", UNCHANGED <<generation, epoch>>,
         workers = {} \/ (ui = "idle" /\ UNCHANGED <<primary, secondary>>),
         \/ events' = events
         \/ events # <<>> /\ events' = Tail(events),
         NoOutputs' => \A r \in Route : session'[r].paused,
         \A v \in workers' : \/ v \in workers
                             \/ /\ v.gen = generation /\ v.epoch = epoch
                                /\ v.kind = "moderate" \/ \E r \in Route : ~session'[r].paused
  PROVE  Core'
<1>1. \A i \in DOMAIN events' : events'[i].gen <= generation
  <2> DEFINE P == {e \in Event : e.gen <= generation}
  <2>1. \A i \in DOMAIN events : events[i] \in P
    BY DEF Core, TypeOK, NoneNewer
  <2>2. \A i \in DOMAIN events' : events'[i] \in P
    <3> HIDE DEF P
    <3> QED BY <2>1, TailAll DEF Core, TypeOK
  <2> QED BY <2>2
<1>2. NoneNewer' /\ AllOlderWhileWaiting' /\ ClosedWhileWaiting'
  BY <1>1 DEF Core, TypeOK, NoneNewer, AllOlderWhileWaiting, ClosedWhileWaiting
<1>3. NoCancelledWorkerWhenIdle' /\ QuietWithoutOutputs'
  BY DEF Core, NoCancelledWorkerWhenIdle, QuietWithoutOutputs, NoOutputs
<1> QED BY <1>2, <1>3 DEF Core

\* A handler that cancels and then waits.
LEMMA CancelStepCore ==
  ASSUME Core, TypeOK', Invalidate, UNCHANGED <<workers, events>>, ui' # "idle",
         NoOutputs' => \A r \in Route : session'[r].paused,
         \/ ui' = "pollWait"
         \/ routes' = {} /\ ~sending' /\ \A r \in Route : session'[r].paused
  PROVE  Core'
<1>1. NoneNewer' /\ AllOlderWhileWaiting'
  <2>1. generation \in Nat /\ generation' = generation + 1
    BY DEF Core, TypeOK, Invalidate
  <2>2. \A w \in workers : w.gen \in Nat
    BY DEF Core, TypeOK, Worker
  <2>3. \A i \in DOMAIN events : events[i].gen \in Nat
    <3>1. \A i \in DOMAIN events : events[i] \in Event
      BY DEF Core, TypeOK
    <3> QED BY <3>1 DEF Event
  <2> QED BY <2>1, <2>2, <2>3 DEF Core, NoneNewer, AllOlderWhileWaiting
<1>2. ClosedWhileWaiting' /\ QuietWithoutOutputs' /\ NoCancelledWorkerWhenIdle'
  BY DEF ClosedWhileWaiting, QuietWithoutOutputs, NoCancelledWorkerWhenIdle, NoOutputs
<1> QED BY <1>1, <1>2 DEF Core

NewOn(s, v) == v.gen = generation /\ v.epoch = epoch /\ \E r \in Route : ~s[r].paused

LEMMA FlushWorkers ==
  ASSUME TypeOK, NEW s \in [Route -> Session], NEW q \in SUBSET Queued, NEW busy \in BOOLEAN,
         NEW ws \in SUBSET Worker, NEW t \in ToldType, Flush(s, q, busy, ws, t)
  PROVE  \A v \in workers' : v \in ws \/ NewOn(s, v)
<1>1. \/ workers' = ws
      \/ /\ \E r \in routes : ~s[r].paused
         /\ \E m \in Message, targets \in SUBSET routes :
              workers' = ws \union {NewWorker("send", "horizontal", m, targets)}
  <2>1. generation \in Nat /\ epoch \in Nat /\ routes \subseteq Route
    BY DEF TypeOK
  <2> QED BY <2>1, FlushType
<1>2. \A m, targets : LET v == NewWorker("send", "horizontal", m, targets)
                      IN v.gen = generation /\ v.epoch = epoch
  BY DEF NewWorker
<1>3. routes \subseteq Route
  BY DEF TypeOK
<1> QED BY <1>1, <1>2, <1>3 DEF NewOn

LEMMA PausedStays ==
  ASSUME NEW s \in Session
  PROVE  /\ Failed(s).paused = s.paused
         /\ Drained(s).paused = s.paused
         /\ \A e \in Event : Ended(s, e).paused = s.paused
         /\ \A l, c, lookupOk, scanOk \in BOOLEAN :
              (l => NeedsControlLookup(s)) => Polled(s, l, c, lookupOk, scanOk).paused = s.paused
<1>1. ASSUME NEW x \in Session PROVE Failed(x) \in Session /\ Failed(x).paused = x.paused
  <2> DEFINE n == IF x.failures < FailureLimit THEN x.failures + 1 ELSE x.failures
  <2>1. Failed(x) = [x EXCEPT !.failures = n, !.suspended = FALSE, !.due = FALSE]
    BY DEF Failed
  <2> HIDE DEF n
  <2>2. [x EXCEPT !.failures = n, !.suspended = FALSE, !.due = FALSE].paused = x.paused
    BY DEF Session
  <2> QED BY <2>1, <2>2, SessionTypes
<1>2. Drained(s).paused = s.paused
  BY DEF Drained, Session
<1>3. ASSUME NEW e \in Event PROVE Ended(s, e).paused = s.paused
  <2> DEFINE n == IF e.long THEN 0 ELSE s.failures
             x == [s EXCEPT !.pending = FALSE, !.failures = n]
             b == e.outcome = "terminal" \/ Failed(x).failures >= FailureLimit
  <2>1. n \in 0 .. FailureLimit
    BY LimitsAssumption DEF Session
  <2>2. x \in Session /\ x.paused = s.paused
    <3> HIDE DEF n
    <3> QED BY <2>1 DEF Session
  <2>3. Failed(x) \in Session /\ Failed(x).paused = s.paused
    BY <1>1, <2>2
  <2>4. [Failed(x) EXCEPT !.suspended = b].paused = s.paused
    <3> HIDE DEF x, b
    <3> QED BY <2>3 DEF Session
  <2>5. [s EXCEPT !.pending = FALSE, !.failures = 0, !.due = FALSE].paused = s.paused
    BY DEF Session
  <2> QED BY <2>4, <2>5 DEF Ended
<1>4. ASSUME NEW l \in BOOLEAN, NEW c \in BOOLEAN, NEW lookupOk \in BOOLEAN, NEW scanOk \in BOOLEAN,
             l => NeedsControlLookup(s)
      PROVE  Polled(s, l, c, lookupOk, scanOk).paused = s.paused
  <2> DEFINE n == s.lookups + 1
             a == IF l
                  THEN [s EXCEPT !.lookups = n, !.looking = lookupOk, !.lookDue = s.lookDue /\ lookupOk]
                  ELSE s
  <2>1. l => n \in 0 .. LookupLimit
    BY <1>4, LimitsAssumption DEF Session, NeedsControlLookup
  <2>2. a \in Session /\ a.paused = s.paused
    <3> HIDE DEF n
    <3> QED BY <2>1 DEF Session
  <2>3. [a EXCEPT !.pending = TRUE].paused = s.paused
    <3> HIDE DEF a
    <3> QED BY <2>2 DEF Session
  <2> QED BY <1>1, <2>2, <2>3 DEF Polled
<1> QED BY <1>1, <1>2, <1>3, <1>4

LEMMA PollRoutesWorkers ==
  ASSUME TypeOK, NEW s \in [Route -> Session], PollRoutes(s)
  PROVE  /\ \A v \in workers' : v \in workers \/ NewOn(s, v)
         /\ \A r \in Route : session'[r].paused = s[r].paused
<1>1. CASE \A r \in routes : s[r].paused
  BY <1>1 DEF PollRoutes
<1>2. CASE ~ \A r \in routes : s[r].paused
  <2>1. \E r \in Route : ~s[r].paused
    BY <1>2 DEF TypeOK
  <2>2. PICK lookOk \in [Route -> BOOLEAN], scanOk \in [Route -> BOOLEAN] :
          LET after == PolledSessions(s, lookOk, scanOk)
              added == PolledWorkers(s, lookOk, scanOk)
          IN /\ after \in [Route -> Session] /\ added \in SUBSET Worker
             /\ session' = after
             /\ Flush(after, queue, sending, workers \union added, told)
    BY <1>2, PollRoutesParts
  <2> DEFINE after == PolledSessions(s, lookOk, scanOk)
             added == PolledWorkers(s, lookOk, scanOk)
  <2>2a. ASSUME NEW r \in Route PROVE after[r].paused = s[r].paused
    <3> DEFINE l == r \in Looks(s)
               c == r \in Scans(s)
    <3>1. l \in BOOLEAN /\ c \in BOOLEAN /\ (l => NeedsControlLookup(s[r]))
      BY DEF Looks
    <3>2. after[r] = Polled(s[r], l, c, lookOk[r], scanOk[r])
      BY DEF PolledSessions
    <3> HIDE DEF l, c, after
    <3>3. Polled(s[r], l, c, lookOk[r], scanOk[r]).paused = s[r].paused
      BY <3>1, PausedStays
    <3> QED BY <3>2, <3>3
  <2>2b. \A v \in added : v.gen = generation /\ v.epoch = epoch
    BY DEF PolledWorkers, NewWorker
  <2>2c. /\ after \in [Route -> Session] /\ added \in SUBSET Worker /\ session' = after
         /\ Flush(after, queue, sending, workers \union added, told)
    BY <2>2
  <2> HIDE DEF after, added
  <2>2d. /\ workers \union added \in SUBSET Worker /\ queue \in SUBSET Queued
         /\ sending \in BOOLEAN /\ told \in ToldType
    BY <2>2c DEF TypeOK, ToldType
  <2>3. \A v \in workers' : v \in workers \union added \/ NewOn(after, v)
    BY <2>2c, <2>2d, FlushWorkers
  <2> QED BY <2>1, <2>2a, <2>2b, <2>2c, <2>3 DEF NewOn
<1> QED BY <1>1, <1>2

LEMMA CoreInit == Init => Core
<1> SUFFICES ASSUME Init PROVE Core
  OBVIOUS
<1>1. \A r \in Route : session[r].paused
  BY DEF Init, NoSessions, FreshSession
<1>2. NoneNewer /\ AllOlderWhileWaiting /\ ClosedWhileWaiting
  BY DEF Init, NoneNewer, AllOlderWhileWaiting, ClosedWhileWaiting
<1>3. QuietWithoutOutputs /\ NoCancelledWorkerWhenIdle
  BY <1>1 DEF Init, QuietWithoutOutputs, NoCancelledWorkerWhenIdle
<1> QED BY <1>2, <1>3, TypeInit DEF Core

LEMMA SynchronizedPaused ==
  ASSUME NoOutputs, \A r \in Route : session[r].paused, session \in [Route -> Session]
  PROVE  \A r \in Route : Synchronized[r].paused
BY DEF NoOutputs, Synchronized, RouteActive, Session

LEMMA LookupDoneWorkers ==
  ASSUME TypeOK, LookupDone
  PROVE  /\ \A v \in workers' : v \in workers \/ NewOn(session', v)
         /\ \A r \in Route : session'[r].paused = session[r].paused
<1>1. /\ session' \in [Route -> Session]
      /\ \A r \in Route : session'[r].paused = session[r].paused
      /\ \/ Flush(session', queue, sending, workers, told)
         \/ UNCHANGED <<queue, sending, workers, told>>
  BY LookupDoneFlush
<1> QED BY <1>1, FlushWorkers DEF TypeOK, ToldType

LEMMA SendDoneWorkers ==
  ASSUME TypeOK, SendDone
  PROVE  \A v \in workers' : v \in workers \/ NewOn(session, v)
<1>1. \/ UNCHANGED workers
      \/ \E q \in SUBSET Queued, t \in ToldType : Flush(session, q, FALSE, workers, t)
  BY SendDoneFlush
<1> QED BY <1>1, FlushWorkers DEF TypeOK

LEMMA UiStepCore ==
  ASSUME Core, TypeOK', UiNext
  PROVE  Core'
<1> USE DEF show, chat, cancel, bounds, threads
<1> DEFINE Paused(f) == \A r \in Route : f[r].paused
<1>0. TypeOK /\ (NoOutputs => Paused(session)) /\ Paused(NoSessions)
  BY DEF Core, QuietWithoutOutputs, NoOutputs, NoSessions, FreshSession
<1>1. ASSUME NEW m \in Modes \union {"off"}, SelectMode(m) PROVE Core'
  BY <1>1, FrameStepCore DEF SelectMode, NoOutputs
<1>2. CASE Prepare
  BY <1>0, <1>2, CancelStepCore DEF Prepare
<1>3. CASE FinishPrepare
  <2>1. Paused(session) /\ workers' = {} /\ events' = events /\ ui' = "idle"
    BY <1>3 DEF FinishPrepare, WorkersIdle, Core, ClosedWhileWaiting
  <2>2. Paused(session')
    BY <1>3, <2>1 DEF FinishPrepare, FreshSession
  <2> QED BY <1>3, <2>1, <2>2, HandlerStepCore DEF FinishPrepare, WorkersIdle
<1>4. CASE Start
  BY <1>4, FrameStepCore DEF Start, NoOutputs
<1>5. CASE StartFails
  BY <1>0, <1>5, CancelStepCore DEF StartFails, BeginStop
<1>6. CASE Stop
  BY <1>0, <1>6, CancelStepCore DEF Stop, BeginStop
<1>7. CASE FinishStop
  <2>1. Paused(session)
    BY <1>7 DEF FinishStop, Core, ClosedWhileWaiting
  <2> QED BY <1>7, <2>1, HandlerStepCore DEF FinishStop, WorkersIdle
<1>8. ASSUME NEW g \in secondStarts, SecondStart(g) PROVE Core'
  BY <1>8, FrameStepCore DEF SecondStart, NoOutputs
<1>9. CASE PollOff
  <2>1. \A w \in workers : w.kind = "moderate"
    BY <1>9 DEF PollOff, PollReady, AllOff, Core, QuietWithoutOutputs
  <2>2. NoneNewer'
    <3>1. generation \in Nat /\ generation' = generation + 1
      BY <1>0, <1>9 DEF TypeOK, PollOff, Invalidate
    <3>2. (\A w \in workers : w \in Worker) /\ (\A i \in DOMAIN events : events[i] \in Event)
      BY <1>0 DEF TypeOK
    <3>3. (\A w \in workers : w.gen \in Nat) /\ (\A i \in DOMAIN events : events[i].gen \in Nat)
      BY <3>2 DEF Worker, Event
    <3> QED BY <1>9, <3>1, <3>3 DEF PollOff, Core, NoneNewer
  <2>3. AllOlderWhileWaiting' /\ ClosedWhileWaiting'
    BY <1>9 DEF PollOff, PollReady, AllOlderWhileWaiting, ClosedWhileWaiting
  <2>4. QuietWithoutOutputs' /\ NoCancelledWorkerWhenIdle'
    BY <1>0, <1>9, <2>1 DEF PollOff, QuietWithoutOutputs, NoCancelledWorkerWhenIdle
  <2> QED BY <2>2, <2>3, <2>4 DEF Core
<1>10. CASE Poll
  <2>1. Synchronized \in [Route -> Session]
    BY <1>0, SynchronizedType DEF TypeOK
  <2>2. NoOutputs => Paused(Synchronized)
    BY <1>0, SynchronizedPaused DEF TypeOK
  <2>3. /\ \A v \in workers' : v \in workers \/ NewOn(Synchronized, v)
        /\ \A r \in Route : session'[r].paused = Synchronized[r].paused
    BY <1>0, <1>10, <2>1, PollRoutesWorkers DEF Poll
  <2> QED BY <1>10, <2>2, <2>3, HandlerStepCore DEF Poll, PollReady, NewOn, NoOutputs
<1>11. CASE PollCancel
  <2>1. NoOutputs => Paused(Synchronized)
    BY <1>0, SynchronizedPaused DEF TypeOK
  <2> QED BY <1>11, <2>1, CancelStepCore DEF PollCancel, NoOutputs
<1>12. CASE PollResume
  <2> DEFINE s == [r \in Route |-> Drained(session[r])]
  <2>1. s \in [Route -> Session] /\ \A r \in Route : s[r].paused = session[r].paused
    BY <1>0, SessionTypes, PausedStays DEF TypeOK
  <2>2. PollRoutes(s) /\ ui' = "idle" /\ workers = {} /\ events' = events
        /\ UNCHANGED <<generation, epoch, primary, secondary>>
    BY <1>12 DEF PollResume, WorkersIdle, PollRoutes
  <2> HIDE DEF s
  <2>3. /\ \A v \in workers' : v \in workers \/ NewOn(s, v)
        /\ \A r \in Route : session'[r].paused = s[r].paused
    BY <1>0, <2>1, <2>2, PollRoutesWorkers
  <2> QED BY <1>0, <2>1, <2>2, <2>3, HandlerStepCore DEF NewOn, NoOutputs
<1>13. CASE SendMessage
  <2>1. PICK q \in SUBSET Queued, t \in ToldType : Flush(session, q, sending, workers, t)
    BY <1>0, <1>13, SendMessageFlush
  <2>2. \A v \in workers' : v \in workers \/ NewOn(session, v)
    BY <1>0, <2>1, FlushWorkers DEF TypeOK
  <2> QED BY <1>0, <1>13, <2>2, HandlerStepCore DEF SendMessage, NewOn, NoOutputs
<1>14. CASE Moderate
  <2>1. LET v == NewWorker("moderate", "horizontal", 0, {})
        IN v.kind = "moderate" /\ v.gen = generation /\ v.epoch = epoch
    BY DEF NewWorker
  <2> QED BY <1>0, <1>14, <2>1, HandlerStepCore DEF Moderate, Pause, NoOutputs
<1>15. CASE DropLate
  BY <1>0, <1>15, HandlerStepCore DEF DropLate, NoOutputs
<1>16. CASE LookupDone
  BY <1>0, <1>16, LookupDoneWorkers, HandlerStepCore DEF LookupDone, TakeEvent, NewOn, NoOutputs
<1>17. CASE BatchArrived
  <2>1. \A r \in Route : session'[r].paused = session[r].paused
    BY <1>0, <1>17, EventTypes DEF BatchArrived, TakeEvent, TypeOK, Session, Event
  <2> QED BY <1>0, <1>17, <2>1, HandlerStepCore DEF BatchArrived, TakeEvent, NoOutputs
<1>18. CASE ScanDone
  <2>1. \A r \in Route : session'[r].paused = session[r].paused
    <3>1. Event1 \in Event /\ Event1.route \in Route /\ session \in [Route -> Session]
      BY <1>0, <1>18, EventTypes DEF ScanDone, TakeEvent, TypeOK, Event
    <3>2. Ended(session[Event1.route], Event1).paused = session[Event1.route].paused
      BY <3>1, PausedStays
    <3> QED BY <1>18, <3>1, <3>2 DEF ScanDone
  <2> QED BY <1>0, <1>18, <2>1, HandlerStepCore DEF ScanDone, TakeEvent, NoOutputs
<1>19. CASE SendDone
  BY <1>0, <1>19, SendDoneWorkers, HandlerStepCore DEF SendDone, TakeEvent, NewOn, NoOutputs
<1> QED
  BY <1>1, <1>2, <1>3, <1>4, <1>5, <1>6, <1>7, <1>8, <1>9, <1>10, <1>11, <1>12, <1>13, <1>14,
     <1>15, <1>16, <1>17, <1>18, <1>19 DEF UiNext

LEMMA WorkerStepsCore ==
  ASSUME Core, TypeOK', WorkerNext
  PROVE  Core'
<1> USE DEF show, chat, cancel, WorkerFrame, Exit, Replace, Post
<1>0. workers \subseteq Worker /\ events \in Seq(Event) /\ TypeOK
  BY DEF Core, TypeOK
<1>1. PICK w \in workers : \/ WorkerEnters(w) \/ LookupReturns(w) \/ ModerationReturns(w)
                           \/ \E reply \in Replies : SendReturns(w, reply)
                           \/ ScanStarts(w) \/ ScanBatch(w) \/ ScanEnds(w)
  BY DEF WorkerNext
<1>2. UNCHANGED <<ui, generation, epoch, routes, session, sending, primary, secondary>>
  BY <1>1 DEF WorkerEnters, LookupReturns, ModerationReturns, SendReturns, ScanStarts,
              ScanBatch, ScanEnds
<1> DEFINE Moved == \/ workers' = workers \ {w}
                    \/ workers' = workers
                    \/ \E v \in Worker : /\ v.kind = w.kind /\ v.gen = w.gen /\ v.epoch = w.epoch
                                         /\ workers' = (workers \ {w}) \union {v}
           Posted == \/ events' = events
                     \/ \E e \in Event : e.gen = w.gen /\ events' = Append(events, e)
<1>3. \A kind \in {"lookup", "batch", "scan", "send"}, outcome \in {"ok", "error", "terminal"},
         long \in BOOLEAN :
        LET e == Completion(w, kind, outcome, long) IN e \in Event /\ e.gen = w.gen
  BY <1>0, CompletionType DEF Completion
<1>4. ASSUME NEW r \in Route
      PROVE  LET v == [w EXCEPT !.pc = "call", !.route = r]
             IN v \in Worker /\ v.kind = w.kind /\ v.gen = w.gen /\ v.epoch = w.epoch
  BY <1>0 DEF Worker
<1>5. CASE WorkerEnters(w)
  <2>1. \A r \in (IF w.kind = "send" THEN w.todo ELSE {w.route}) : r \in Route
    BY <1>0 DEF Worker
  <2>2. CASE workers' = workers \ {w}
    BY <1>2, <1>5, <2>2, WorkerStepCore DEF WorkerEnters
  <2>3. ASSUME NEW r \in Route, workers' = (workers \ {w}) \union {[w EXCEPT !.pc = "call", !.route = r]}
        PROVE  Moved
    BY <1>4, <2>3
  <2>4. Moved /\ Posted
    BY <1>5, <2>1, <2>3 DEF WorkerEnters
  <2> QED BY <1>2, <2>4, WorkerStepCore
<1>6. CASE LookupReturns(w) \/ ModerationReturns(w) \/ ScanBatch(w)
  <2>1. Moved /\ Posted
    BY <1>3, <1>6 DEF LookupReturns, ModerationReturns, ScanBatch
  <2> QED BY <1>2, <2>1, WorkerStepCore
<1>7. CASE ScanStarts(w)
  <2>1. LET v == [w EXCEPT !.pc = "call"]
        IN v \in Worker /\ v.kind = w.kind /\ v.gen = w.gen /\ v.epoch = w.epoch
    BY <1>0 DEF Worker
  <2>2. Moved /\ Posted
    BY <1>3, <1>7, <2>1 DEF ScanStarts
  <2> QED BY <1>2, <2>2, WorkerStepCore
<1>8. CASE ScanEnds(w)
  <2>1. Moved /\ Posted
    <3>1. PICK outcome \in {"ok", "error", "terminal"}, long \in BOOLEAN :
            events' = Append(events, Completion(w, "scan", outcome, long))
      BY <1>8, ChoicesAssumption DEF ScanEnds
    <3>2. workers' = workers \ {w}
      BY <1>8 DEF ScanEnds
    <3>3. Completion(w, "scan", outcome, long) \in Event /\ Completion(w, "scan", outcome, long).gen = w.gen
      BY <1>0, CompletionType DEF Completion
    <3> QED BY <3>1, <3>2, <3>3
  <2> QED BY <1>2, <2>1, WorkerStepCore
<1>9. ASSUME NEW reply \in Replies, SendReturns(w, reply) PROVE Core'
  <2> DEFINE done == IF reply = "ok" THEN w.done \union {w.route} ELSE w.done
             v == [w EXCEPT !.todo = @ \ {w.route}, !.done = done]
  <2>1. v \in Worker /\ v.kind = w.kind /\ v.gen = w.gen /\ v.epoch = w.epoch
    <3>1. done \in SUBSET Route /\ w \in Worker
      BY <1>0 DEF Worker
    <3> HIDE DEF done
    <3> QED BY <3>1 DEF Worker
  <2>2. Completion(v, "send", "ok", FALSE) \in Event /\ Completion(v, "send", "ok", FALSE).gen = w.gen
    BY <2>1, CompletionType DEF Completion
  <2>3. \A r \in v.todo : LET u == [v EXCEPT !.route = r]
                          IN u \in Worker /\ u.kind = w.kind /\ u.gen = w.gen /\ u.epoch = w.epoch
    BY <2>1 DEF Worker
  <2>4. Moved /\ Posted
    <3>1. \/ workers' = workers \ {w} /\ events' = Append(events, Completion(v, "send", "ok", FALSE))
          \/ workers' = workers \ {w} /\ events' = events
          \/ \E r \in v.todo : workers' = (workers \ {w}) \union {[v EXCEPT !.route = r]} /\ events' = events
      BY <1>9 DEF SendReturns
    <3> HIDE DEF v
    <3> QED BY <2>2, <2>3, <3>1
  <2> QED BY <1>2, <2>4, WorkerStepCore
<1> QED BY <1>1, <1>5, <1>6, <1>7, <1>8, <1>9

LEMMA EnvStepsCore ==
  ASSUME Core, TypeOK', EnvNext
  PROVE  Core'
<1> USE DEF show, chat, cancel, bounds, threads, EnvFrame
<1>0. session \in [Route -> Session]
  BY DEF Core, TypeOK
<1>1. CASE PrimaryChanges
  BY <1>1, FrameStepCore DEF PrimaryChanges, NoOutputs
<1>2. CASE SecondaryChanges
  BY <1>2, FrameStepCore DEF SecondaryChanges, NoOutputs
<1>3. ASSUME NEW c \in queue, MessageAges(c) \/ RetryComesDue(c) PROVE Core'
  BY <1>3, FrameStepCore DEF MessageAges, RetryComesDue, NoOutputs
<1>4. ASSUME NEW r \in Route, ScanComesDue(r) \/ LookupComesDue(r) PROVE Core'
  <2>1. \A x \in Route : session'[x].paused = session[x].paused
    BY <1>0, <1>4 DEF ScanComesDue, LookupComesDue, Session
  <2> QED BY <1>4, <2>1, FrameStepCore DEF ScanComesDue, LookupComesDue, NoOutputs
<1>5. CASE QuotaPause \/ QuotaResume
  BY <1>5, FrameStepCore DEF QuotaPause, QuotaResume, Pause, NoOutputs
<1> QED BY <1>1, <1>2, <1>3, <1>4, <1>5 DEF EnvNext

LEMMA CoreStep == Core /\ [Next]_vars => Core'
<1> SUFFICES ASSUME Core, [Next]_vars PROVE Core'
  OBVIOUS
<1>1. TypeOK'
  BY TypeStep DEF Core
<1>2. CASE UNCHANGED vars
  BY <1>1, <1>2, FrameStepCore DEF vars, show, chat, cancel, bounds, threads, NoOutputs
<1> QED BY <1>1, <1>2, UiStepCore, WorkerStepsCore, EnvStepsCore DEF Next

\* When the UI thread is free, no request of an invalidated show is still
\* running: the handlers that cancel have waited, and PollOff, which does not
\* wait (line 7168), never finds one.
THEOREM NoCancelledWorker == Spec => []NoCancelledWorkerWhenIdle
<1>1. Core => NoCancelledWorkerWhenIdle
  BY DEF Core
<1> QED BY <1>1, CoreInit, CoreStep, PTL DEF Spec

=============================================================================
