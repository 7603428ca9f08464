---------------------------- MODULE YouTubeChat ----------------------------
(***************************************************************************)
(* YouTube live chat of the native frontend: the UI thread's handlers in   *)
(* OBSBasic_PulseWeaver.cpp, the detached workers they start (chat-id      *)
(* lookup, chat scanner, sender, moderation), the request mutex, the       *)
(* cancellation epoch, the generation that invalidates late results, and   *)
(* the queue of operator messages.                                         *)
(*                                                                         *)
(* Time is abstracted to flags: a delay that has to pass is a flag that a  *)
(* time action may flip at any moment.  The broadcasts behind a session    *)
(* are in GoLive; here preparation only succeeds or fails.                 *)
(***************************************************************************)
EXTENDS Naturals, FiniteSets, Sequences

CONSTANTS
  Modes,         \* destination modes the operator selects besides "off"
  CreatedChats,  \* whether creating a broadcast may return its chat id: a set of Booleans
  Spawns,        \* whether starting a thread may succeed: a set of Booleans
  Replies,       \* outcomes of a send request: subset of {"ok", "error", "lost"}
  Endings,       \* how the chat reader may end: subset of {"ok", "error", "terminal"}
  QueueLimit,    \* 10 in the code
  LookupLimit,   \* 3 in the code
  FailureLimit,  \* 5 in the code
  MaxMessages,   \* bound: messages the operator sends in a run
  MaxShows,      \* bound: preparations in a run
  MaxPauses      \* bound: quota pauses and moderation requests in a run

Route == {"horizontal", "vertical"}

ASSUME ModesAssumption == Modes \subseteq {"horizontal", "vertical", "dual"}
ASSUME ChoicesAssumption == /\ CreatedChats \subseteq BOOLEAN
                            /\ Spawns \subseteq BOOLEAN
                            /\ Replies \subseteq {"ok", "error", "lost"}
                            /\ Endings \subseteq {"ok", "error", "terminal"}
ASSUME LimitsAssumption == /\ QueueLimit \in Nat /\ LookupLimit \in Nat
                           /\ FailureLimit \in Nat /\ MaxMessages \in Nat
                           /\ MaxShows \in Nat /\ MaxPauses \in Nat

VARIABLES
  mode,          \* the destination selector
  prepared,      \* pulseYouTubePreparedMode; "none" when it and the stream keys are cleared
  primary,       \* pulseYouTubeOutput
  secondary,     \* pulseYouTubeSecondOutput
  secondStarts,  \* start generations held by pending 1.5 s timers
  pollTimer,     \* pulseYouTubeChatTimer is active
  ui,            \* what the UI thread is doing: idle, or waiting for the workers
  routes,        \* keys of pulseYouTubeChatSessions
  session,       \* its values
  queue,         \* pulseYouTubeChatQueue
  sequence,      \* pulseYouTubeChatMessageSequence
  sending,       \* pulseYouTubeChatSending
  generation,    \* pulseYouTubeChatGeneration
  epoch,         \* *pulseYouTubeChatCancellation
  workers,       \* the detached threads the worker barrier counts
  events,        \* completions queued to the UI thread
  blocked,       \* ApiBlockedUntil() lies in the future
  shows,         \* preparations so far
  pauses,        \* quota pauses and moderation requests so far
  arrived,       \* history: the messages each route's chat has received
  told           \* history: what the operator was told about each message

show == <<mode, prepared, primary, secondary, secondStarts, pollTimer>>
chat == <<routes, session, queue, sequence, sending>>
cancel == <<generation, epoch>>
bounds == <<shows, pauses>>
threads == <<workers, events>>
vars == <<show, ui, chat, cancel, threads, blocked, bounds, arrived, told>>

Message == 1 .. MaxMessages
Output == {"none", "connecting", "active", "failed"}

Session == [chatId: BOOLEAN,        \* liveChatId is known
            paused: BOOLEAN,        \* outputPaused
            pending: BOOLEAN,       \* requestPending
            due: BOOLEAN,           \* nextRequestMs has passed
            suspended: BOOLEAN,
            failures: 0 .. FailureLimit,
            looking: BOOLEAN,       \* controlLookupPending
            lookDue: BOOLEAN,       \* controlLookupAfterMs has passed
            lookups: 0 .. LookupLimit]

Queued == [id: Message, delivered: SUBSET Route,
           aged: BOOLEAN,           \* queued for 15 s or more
           waiting: BOOLEAN]        \* nextAttemptMs lies in the future

Worker == [kind: {"lookup", "scan", "send", "moderate"}, route: Route,
           gen: Nat, epoch: Nat, pc: {"start", "call"},
           msg: 0 .. MaxMessages, todo: SUBSET Route, done: SUBSET Route,
           tried: SUBSET Route]

Event == [kind: {"lookup", "batch", "scan", "send"}, route: Route, gen: Nat,
          outcome: {"ok", "error", "terminal"}, long: BOOLEAN,
          msg: 0 .. MaxMessages, done: SUBSET Route, tried: SUBSET Route]

RoutesOf(m) == CASE m = "dual" -> Route
                 [] m \in Route -> {m}
                 [] OTHER -> {}

FreshSession(known) ==
  [chatId |-> known, paused |-> TRUE, pending |-> FALSE, due |-> TRUE,
   suspended |-> FALSE, failures |-> 0, looking |-> FALSE, lookDue |-> TRUE,
   lookups |-> 0]

NoSessions == [r \in Route |-> FreshSession(FALSE)]

\* synchronizeOutputs: which output carries a route depends on the prepared mode.
RouteActive(r) ==
  IF r = "horizontal" THEN prepared # "vertical" /\ primary = "active"
  ELSE \/ prepared = "vertical" /\ primary = "active"
       \/ prepared = "dual" /\ secondary = "active"

-----------------------------------------------------------------------------
(* Workers and events *)

NewWorker(kind, route, msg, targets) ==
  [kind |-> kind, route |-> route, gen |-> generation, epoch |-> epoch,
   pc |-> "start", msg |-> msg, todo |-> targets, done |-> {}, tried |-> targets]

Completion(w, kind, outcome, long) ==
  [kind |-> kind, route |-> w.route, gen |-> w.gen, outcome |-> outcome,
   long |-> long, msg |-> w.msg, done |-> w.done, tried |-> w.tried]

Invalidate == generation' = generation + 1 /\ epoch' = epoch + 1

\* Fault: the barrier does not wait.
BarrierOpen == TRUE

\* waitUntilIdle: the barrier counts every started worker that has not ended.
WorkersIdle == workers = {}

\* pulseYouTubeChatRequestMutex; the scanner reads without it.
RequestMutexFree == \A w \in workers : w.pc = "call" => w.kind = "scan"

\* Fault: the workers do not look at the epoch.
NeverCancelled(w) == FALSE

Cancelled(w) == w.epoch # epoch

-----------------------------------------------------------------------------
(* The message queue.  Ids grow with every message and the code only appends *)
(* and removes, so a set of messages, read in the order of ids, is the list. *)

Update(q, c, d) == (q \ {c}) \union {d}

Open(s, r) == ~s[r].paused /\ ~s[r].suspended /\ s[r].chatId

Complete(c) == routes # {} /\ routes \subseteq c.delivered
Owed(c) == routes \ c.delivered

\* Fault: messages do not expire.
KeptForEver(c) == ~Complete(c)

Kept(c) == ~Complete(c) /\ ~c.aged

\* Fault: a later message may overtake on a route an earlier one still owes.
NothingBlocked(q, c) == {}

BlockedBefore(q, c) == UNION {Owed(d) : d \in {e \in q : e.id < c.id /\ Kept(e)}}

PendingTargets(s, q, c) ==
  {r \in routes : Open(s, r) /\ r \notin c.delivered /\ r \notin BlockedBefore(q, c)}

Dispatchable(s, q) ==
  {c \in q : Kept(c) /\ ~c.waiting /\ PendingTargets(s, q, c) # {}}

ExpiryVerdict(c) == IF ~c.aged THEN "sent"
                    ELSE IF c.delivered = {} THEN "failed" ELSE "partial"

\* Fault: the flag of a send under way is ignored.
BusyIgnored(busy, q) == q = {}

NothingToFlush(busy, q) == busy \/ q = {}

\* FlushPulseWeaverYouTubeChatQueue, called with the sessions s, queue q, send
\* flag busy, workers ws and verdicts t its caller has reached.  The scan stops
\* at the first message that can be sent; it drops what it finds on its way.
Flush(s, q, busy, ws, t) ==
  IF NothingToFlush(busy, q)
  THEN queue' = q /\ sending' = busy /\ workers' = ws /\ told' = t
  ELSE LET ready == Dispatchable(s, q)
           gone  == {c \in q : ~Kept(c) /\ \A d \in ready : c.id < d.id}
       IN /\ told' = [m \in Message |->
                        IF \E c \in gone : c.id = m
                        THEN ExpiryVerdict(CHOOSE c \in gone : c.id = m)
                        ELSE t[m]]
          /\ \/ /\ blocked \/ ready = {}
                /\ queue' = q \ gone /\ sending' = FALSE /\ workers' = ws
             \/ /\ ~blocked
                /\ \E c \in ready, ok \in Spawns :
                     /\ \A d \in ready : c.id <= d.id
                     /\ sending' = ok
                     /\ queue' = IF ok THEN q \ gone
                                 ELSE Update(q \ gone, c, [c EXCEPT !.waiting = TRUE])
                     /\ workers' =
                          IF ok THEN ws \union {NewWorker("send", "horizontal", c.id,
                                                          PendingTargets(s, q, c))}
                          ELSE ws

-----------------------------------------------------------------------------
Init ==
  /\ mode \in Modes \union {"off"} /\ prepared = "none"
  /\ primary = "none" /\ secondary = "none" /\ secondStarts = {}
  /\ pollTimer = FALSE /\ ui = "idle"
  /\ routes = {} /\ session = NoSessions
  /\ queue = {} /\ sequence = 0 /\ sending = FALSE
  /\ generation = 0 /\ epoch = 0
  /\ workers = {} /\ events = <<>>
  /\ blocked = FALSE /\ shows = 0 /\ pauses = 0
  /\ arrived = [r \in Route |-> <<>>]
  /\ told = [m \in Message |-> "none"]

Show == shows < MaxShows /\ shows' = shows + 1 /\ UNCHANGED pauses
Pause == pauses < MaxPauses /\ pauses' = pauses + 1 /\ UNCHANGED shows

-----------------------------------------------------------------------------
(* UI thread: destination, preparation, start and stop *)

\* The selector keeps its old value when another format's output exists.
SelectMode(m) ==
  /\ ui = "idle" /\ m # mode
  /\ m = "off" \/ m = prepared \/ (primary = "none" /\ secondary = "none")
  /\ mode' = m
  /\ UNCHANGED <<prepared, primary, secondary, secondStarts, pollTimer, ui, chat,
                 cancel, threads, blocked, bounds, arrived, told>>

\* PreparePulseWeaverYouTube up to waitUntilIdle.
Prepare ==
  /\ ui = "idle" /\ mode # "off" /\ primary = "none" /\ secondary = "none"
  /\ prepared # mode /\ ~blocked
  /\ Show /\ Invalidate
  /\ routes' = {} /\ session' = NoSessions /\ queue' = {} /\ sending' = FALSE
  /\ ui' = "prepWait"
  /\ UNCHANGED <<show, sequence, threads, blocked, arrived, told>>

\* The rest of it: an earlier broadcast could not be cleared, a route could not
\* be prepared, or every route of the mode has a broadcast and a session.
FinishPrepare ==
  /\ ui = "prepWait" /\ WorkersIdle
  /\ ui' = "idle" /\ pollTimer' = FALSE
  /\ \/ UNCHANGED <<prepared, routes, session>>
     \/ prepared' = "none" /\ UNCHANGED <<routes, session>>
     \/ \E known \in [Route -> CreatedChats] :
          /\ prepared' = mode /\ routes' = RoutesOf(mode)
          /\ session' = [r \in Route |-> FreshSession(r \in RoutesOf(mode) /\ known[r])]
  /\ UNCHANGED <<mode, primary, secondary, secondStarts, queue, sequence, sending,
                 cancel, threads, blocked, bounds, arrived, told>>

CanStart == ui = "idle" /\ mode # "off" /\ prepared = mode /\ primary = "none"

\* StartPulseWeaverSecondaryOutputs when the first output starts.
Start ==
  /\ CanStart
  /\ primary' = "connecting"
  /\ secondStarts' = IF mode = "dual" THEN secondStarts \union {generation} ELSE secondStarts
  /\ pollTimer' = TRUE
  /\ UNCHANGED <<mode, prepared, secondary, ui, chat, cancel, threads, blocked,
                 bounds, arrived, told>>

\* StopPulseWeaverSecondaryOutputs up to waitUntilIdle.
BeginStop ==
  /\ Invalidate
  /\ pollTimer' = FALSE /\ routes' = {} /\ session' = NoSessions
  /\ queue' = {} /\ sending' = FALSE
  /\ ui' = "stopWait"
  /\ UNCHANGED <<mode, prepared, secondary, secondStarts, sequence, threads, blocked,
                 bounds, arrived, told>>

\* StartPulseWeaverSecondaryOutputs when the first output does not start.
StartFails == CanStart /\ primary' = "failed" /\ BeginStop

\* Bound: only when there is something to stop.
Stop == /\ ui = "idle" /\ (prepared # "none" \/ primary # "none" \/ routes # {})
        /\ BeginStop /\ UNCHANGED primary

FinishStop ==
  /\ ui = "stopWait" /\ WorkersIdle
  /\ ui' = "idle" /\ primary' = "none" /\ secondary' = "none" /\ prepared' = "none"
  /\ UNCHANGED <<mode, secondStarts, pollTimer, chat, cancel, threads, blocked,
                 bounds, arrived, told>>

\* The 1.5 s timer of a dual start.
SecondStart(g) ==
  /\ ui = "idle" /\ g \in secondStarts
  /\ secondStarts' = secondStarts \ {g}
  /\ IF g = generation /\ prepared = "dual" /\ secondary = "none" /\ primary = "active"
     THEN secondary' \in {"connecting", "failed"}
     ELSE UNCHANGED secondary
  /\ UNCHANGED <<mode, prepared, primary, pollTimer, ui, chat, cancel, threads,
                 blocked, bounds, arrived, told>>

-----------------------------------------------------------------------------
(* UI thread: the poll timer *)

NeedsControlLookup(s) ==
  ~s.paused /\ ~s.chatId /\ ~s.looking /\ s.lookups < LookupLimit /\ s.lookDue

CanScan(s) == ~s.paused /\ ~s.suspended /\ ~s.pending /\ s.due

\* Fault: the count of failures is not capped.
FailedUncapped(s) == [s EXCEPT !.failures = @ + 1, !.suspended = FALSE, !.due = FALSE]

\* PulseYouTubeChat::failed for an error that does not end the chat.
Failed(s) == [s EXCEPT !.failures = IF @ < FailureLimit THEN @ + 1 ELSE @,
                       !.suspended = FALSE, !.due = FALSE]

\* What a poll does with one route, given which of its workers could start.
Polled(s, lookup, scan, lookupOk, scanOk) ==
  LET a == IF lookup
           THEN [s EXCEPT !.lookups = @ + 1, !.looking = lookupOk,
                          !.lookDue = @ /\ lookupOk]
           ELSE s
  IN IF ~scan THEN a ELSE IF scanOk THEN [a EXCEPT !.pending = TRUE] ELSE Failed(a)

\* The routes a poll looks up and scans, and what it makes of its sessions and
\* workers, given which threads could start.
Looks(s) == {r \in routes : ~blocked /\ NeedsControlLookup(s[r])}
Scans(s) == {r \in routes : CanScan(s[r])}

PolledSessions(s, lookOk, scanOk) ==
  [r \in Route |-> Polled(s[r], r \in Looks(s), r \in Scans(s), lookOk[r], scanOk[r])]

PolledWorkers(s, lookOk, scanOk) ==
  {NewWorker("lookup", r, 0, {}) : r \in {x \in Looks(s) : lookOk[x]}}
    \union {NewWorker("scan", r, 0, {}) : r \in {x \in Scans(s) : scanOk[x]}}

\* The part of the poll after cancelled work has been drained.
PollRoutes(s) ==
  IF \A r \in routes : s[r].paused
  THEN session' = s /\ UNCHANGED <<queue, sending, workers, told>>
  ELSE \E lookOk \in [Route -> Spawns], scanOk \in [Route -> Spawns] :
         /\ session' = PolledSessions(s, lookOk, scanOk)
         /\ Flush(PolledSessions(s, lookOk, scanOk), queue, sending,
                  workers \union PolledWorkers(s, lookOk, scanOk), told)

Synchronized == [r \in Route |-> IF r \in routes THEN [session[r] EXCEPT !.paused = ~RouteActive(r)]
                                ELSE session[r]]

\* A reader still runs for a route whose output is down.
ReaderOnInactiveRoute == \E r \in routes : ~RouteActive(r) /\ session[r].pending

PollReady == ui = "idle" /\ pollTimer /\ routes # {}
AllOff == mode = "off" /\ primary = "none" /\ secondary = "none"

PollOff ==
  /\ PollReady /\ AllOff
  /\ Invalidate
  /\ routes' = {} /\ session' = NoSessions /\ queue' = {}
  /\ UNCHANGED <<show, ui, sequence, sending, threads, blocked, bounds, arrived, told>>

Poll ==
  /\ PollReady /\ ~AllOff /\ ~ReaderOnInactiveRoute
  /\ PollRoutes(Synchronized)
  /\ UNCHANGED <<show, ui, routes, sequence, cancel, events, blocked, bounds, arrived>>

PollCancel ==
  /\ PollReady /\ ~AllOff /\ ReaderOnInactiveRoute
  /\ Invalidate
  /\ session' = Synchronized /\ ui' = "pollWait"
  /\ UNCHANGED <<show, routes, queue, sequence, sending, threads, blocked, bounds,
                 arrived, told>>

\* Fault: only the reader's flag is reset once the workers have been drained.
DrainedReader(s) == [s EXCEPT !.pending = FALSE]

Drained(s) == [s EXCEPT !.pending = FALSE, !.looking = FALSE]

PollResume ==
  /\ ui = "pollWait" /\ WorkersIdle
  /\ ui' = "idle"
  /\ PollRoutes([r \in Route |-> Drained(session[r])])
  /\ UNCHANGED <<show, routes, sequence, cancel, events, blocked, bounds, arrived>>

-----------------------------------------------------------------------------
(* UI thread: the operator's messages, and completions posted by workers *)

\* SendPulseWeaverYouTubeChat
SendMessage ==
  /\ ui = "idle" /\ ~blocked /\ routes # {} /\ Cardinality(queue) < QueueLimit
  /\ sequence < MaxMessages
  /\ sequence' = sequence + 1
  /\ pollTimer' = TRUE
  /\ Flush(session,
           queue \union {[id |-> sequence + 1, delivered |-> {}, aged |-> FALSE, waiting |-> FALSE]},
           sending, workers, [told EXCEPT ![sequence + 1] = "queued"])
  /\ UNCHANGED <<mode, prepared, primary, secondary, secondStarts, ui, routes, session,
                 cancel, events, blocked, bounds, arrived>>

\* ModeratePulseWeaverYouTubeChat; bound: one moderation request at a time.
Moderate ==
  /\ ui = "idle" /\ Pause
  /\ \A w \in workers : w.kind # "moderate"
  /\ workers' = workers \union {NewWorker("moderate", "horizontal", 0, {})}
  /\ UNCHANGED <<show, ui, chat, cancel, events, blocked, arrived, told>>

Event1 == Head(events)
TakeEvent(kind) == /\ ui = "idle" /\ events # <<>> /\ Event1.kind = kind
                   /\ events' = Tail(events)

\* Fault: completions are matched by route alone.
LateByRoute(e) == e.kind # "send" /\ e.route \notin routes

\* Results of an older generation, or for a session that is gone, are dropped.
Late(e) == e.gen # generation \/ (e.kind # "send" /\ e.route \notin routes)

DropLate ==
  /\ ui = "idle" /\ events # <<>> /\ Late(Event1)
  /\ events' = Tail(events)
  /\ UNCHANGED <<show, ui, chat, cancel, workers, blocked, bounds, arrived, told>>

LookupDone ==
  /\ TakeEvent("lookup") /\ ~Late(Event1)
  /\ LET found == Event1.outcome = "ok"
         after == [session EXCEPT ![Event1.route].looking = FALSE,
                                  ![Event1.route].lookDue = FALSE,
                                  ![Event1.route].chatId = @ \/ found]
     IN /\ session' = after
        /\ IF found THEN Flush(after, queue, sending, workers, told)
           ELSE UNCHANGED <<queue, sending, workers, told>>
  /\ UNCHANGED <<show, ui, routes, sequence, cancel, blocked, bounds, arrived>>

\* A batch that arrives after a minute of reading clears the failures.
BatchArrived ==
  /\ TakeEvent("batch") /\ ~Late(Event1)
  /\ session' = [session EXCEPT ![Event1.route].failures = 0]
  /\ UNCHANGED <<show, ui, routes, queue, sequence, sending, cancel, workers, blocked,
                 bounds, arrived, told>>

\* The reader ended: completed(), or failed() and the checks that suspend.
Ended(s, e) ==
  IF e.outcome = "ok"
  THEN [s EXCEPT !.pending = FALSE, !.failures = 0, !.due = FALSE]
  ELSE LET f == Failed([s EXCEPT !.pending = FALSE, !.failures = IF e.long THEN 0 ELSE @])
       IN [f EXCEPT !.suspended = e.outcome = "terminal" \/ f.failures >= FailureLimit]

ScanDone ==
  /\ TakeEvent("scan") /\ ~Late(Event1)
  /\ session' = [session EXCEPT ![Event1.route] = Ended(@, Event1)]
  /\ UNCHANGED <<show, ui, routes, queue, sequence, sending, cancel, workers, blocked,
                 bounds, arrived, told>>

\* The message's queue entry after a send that reached e.done.
Credited(c, e) == [c EXCEPT !.delivered = @ \union e.done,
                            !.waiting = @ \/ e.done # e.tried]

SendVerdict(c) == IF Complete(c) THEN "sent" ELSE ExpiryVerdict(c)

SendDone ==
  /\ TakeEvent("send") /\ ~Late(Event1)
  /\ \/ /\ \A c \in queue : c.id # Event1.msg
        /\ sending' = FALSE /\ UNCHANGED <<queue, workers, told>>
     \/ \E c \in queue :
          LET d == Credited(c, Event1)
          IN /\ c.id = Event1.msg
             /\ \/ /\ Kept(d)
                   /\ Flush(session, Update(queue, c, d), FALSE, workers, told)
                \/ /\ ~Kept(d)
                   /\ Flush(session, queue \ {c}, FALSE, workers,
                            [told EXCEPT ![c.id] = SendVerdict(d)])
  /\ UNCHANGED <<show, ui, routes, session, sequence, cancel, blocked, bounds, arrived>>

-----------------------------------------------------------------------------
(* Workers *)

Replace(w, v) == workers' = (workers \ {w}) \union {v}
Exit(w) == workers' = workers \ {w}
Post(e) == events' = Append(events, e)
WorkerFrame == UNCHANGED <<show, ui, chat, cancel, blocked, bounds, told>>

\* The worker takes the mutex and leaves at once if it has been cancelled; the
\* sender picks its first target.
WorkerEnters(w) ==
  /\ w \in workers /\ w.kind # "scan" /\ w.pc = "start"
  /\ RequestMutexFree
  /\ IF Cancelled(w) THEN Exit(w)
     ELSE \E r \in IF w.kind = "send" THEN w.todo ELSE {w.route} :
            Replace(w, [w EXCEPT !.pc = "call", !.route = r])
  /\ UNCHANGED <<events, arrived>> /\ WorkerFrame

LookupReturns(w) ==
  /\ w \in workers /\ w.kind = "lookup" /\ w.pc = "call"
  /\ Exit(w)
  /\ \E outcome \in {"ok", "error"} : Post(Completion(w, "lookup", outcome, FALSE))
  /\ UNCHANGED arrived /\ WorkerFrame

ModerationReturns(w) ==
  /\ w \in workers /\ w.kind = "moderate" /\ w.pc = "call"
  /\ Exit(w) /\ UNCHANGED <<events, arrived>> /\ WorkerFrame

\* One request of the sender's loop returns; the loop ends, leaves because it
\* has been cancelled, or sends to its next target.  Bound: a reply is lost at
\* most once for a message and a route.
SendReturns(w, reply) ==
  /\ w \in workers /\ w.kind = "send" /\ w.pc = "call"
  /\ reply = "lost" => \A i \in DOMAIN arrived[w.route] : arrived[w.route][i] # w.msg
  /\ arrived' = IF reply = "error" THEN arrived
                ELSE [arrived EXCEPT ![w.route] = Append(@, w.msg)]
  /\ LET v == [w EXCEPT !.todo = @ \ {w.route},
                        !.done = IF reply = "ok" THEN @ \union {w.route} ELSE @]
     IN IF v.todo = {}
        THEN Exit(w) /\ Post(Completion(v, "send", "ok", FALSE))
        ELSE /\ IF Cancelled(w) THEN Exit(w)
                ELSE \E r \in v.todo : Replace(w, [v EXCEPT !.route = r])
             /\ UNCHANGED events
  /\ WorkerFrame

ScanStarts(w) ==
  /\ w \in workers /\ w.kind = "scan" /\ w.pc = "start"
  /\ IF Cancelled(w)
     THEN Exit(w) /\ Post(Completion(w, "scan", "error", FALSE))
     ELSE Replace(w, [w EXCEPT !.pc = "call"]) /\ UNCHANGED events
  /\ UNCHANGED arrived /\ WorkerFrame

\* Bound: one undelivered long batch per reader.
ScanBatch(w) ==
  /\ w \in workers /\ w.kind = "scan" /\ w.pc = "call"
  /\ session[w.route].failures > 0
  /\ Completion(w, "batch", "ok", TRUE) \notin {events[i] : i \in DOMAIN events}
  /\ Post(Completion(w, "batch", "ok", TRUE))
  /\ UNCHANGED <<workers, arrived>> /\ WorkerFrame

ScanEnds(w) ==
  /\ w \in workers /\ w.kind = "scan" /\ w.pc = "call"
  /\ Exit(w)
  /\ \E outcome \in Endings \union (IF Cancelled(w) THEN {"error"} ELSE {}) :
       \E long \in IF outcome = "ok" THEN {FALSE} ELSE BOOLEAN :
         Post(Completion(w, "scan", outcome, long))
  /\ UNCHANGED arrived /\ WorkerFrame

-----------------------------------------------------------------------------
(* Environment: outputs connect and fail for good, time passes, quota pauses *)

EnvFrame == UNCHANGED <<ui, routes, sequence, sending, cancel, threads, arrived, told>>

PrimaryChanges ==
  /\ \/ primary = "connecting" /\ primary' \in {"active", "failed"}
     \/ primary = "active" /\ primary' = "failed"
  /\ EnvFrame
  /\ UNCHANGED <<mode, prepared, secondary, secondStarts, pollTimer, session, queue, blocked, bounds>>

SecondaryChanges ==
  /\ \/ secondary = "connecting" /\ secondary' \in {"active", "failed"}
     \/ secondary = "active" /\ secondary' = "failed"
  /\ EnvFrame
  /\ UNCHANGED <<mode, prepared, primary, secondStarts, pollTimer, session, queue, blocked, bounds>>

MessageAges(c) ==
  /\ c \in queue /\ ~c.aged
  /\ queue' = Update(queue, c, [c EXCEPT !.aged = TRUE])
  /\ EnvFrame /\ UNCHANGED <<show, session, blocked, bounds>>

RetryComesDue(c) ==
  /\ c \in queue /\ c.waiting
  /\ queue' = Update(queue, c, [c EXCEPT !.waiting = FALSE])
  /\ EnvFrame /\ UNCHANGED <<show, session, blocked, bounds>>

ScanComesDue(r) ==
  /\ r \in routes /\ ~session[r].due
  /\ session' = [session EXCEPT ![r].due = TRUE]
  /\ EnvFrame /\ UNCHANGED <<show, queue, blocked, bounds>>

LookupComesDue(r) ==
  /\ r \in routes /\ ~session[r].lookDue
  /\ session' = [session EXCEPT ![r].lookDue = TRUE]
  /\ EnvFrame /\ UNCHANGED <<show, queue, blocked, bounds>>

QuotaPause == /\ ~blocked /\ Pause /\ blocked' = TRUE
              /\ EnvFrame /\ UNCHANGED <<show, session, queue>>

QuotaResume == /\ blocked /\ blocked' = FALSE
               /\ EnvFrame /\ UNCHANGED <<show, session, queue, bounds>>

-----------------------------------------------------------------------------
UiNext ==
  \/ \E m \in Modes \union {"off"} : SelectMode(m)
  \/ Prepare \/ FinishPrepare \/ Start \/ StartFails \/ Stop \/ FinishStop
  \/ \E g \in secondStarts : SecondStart(g)
  \/ PollOff \/ Poll \/ PollCancel \/ PollResume
  \/ SendMessage \/ Moderate
  \/ DropLate \/ LookupDone \/ BatchArrived \/ ScanDone \/ SendDone

WorkerNext ==
  \E w \in workers :
    \/ WorkerEnters(w) \/ LookupReturns(w) \/ ModerationReturns(w)
    \/ \E reply \in Replies : SendReturns(w, reply)
    \/ ScanStarts(w) \/ ScanBatch(w) \/ ScanEnds(w)

EnvNext ==
  \/ PrimaryChanges \/ SecondaryChanges
  \/ \E c \in queue : MessageAges(c) \/ RetryComesDue(c)
  \/ \E r \in Route : ScanComesDue(r) \/ LookupComesDue(r)
  \/ QuotaPause \/ QuotaResume

Next == UiNext \/ WorkerNext \/ EnvNext

Spec == Init /\ [][Next]_vars

(***************************************************************************)
(* Fairness.  The UI thread's event loop takes queued completions, the     *)
(* poll timer fires again and again, a blocked handler goes on once the    *)
(* workers have left; threads are scheduled, every request has a time-out  *)
(* and the reader looks at the epoch while it waits; time passes.  Nothing *)
(* obliges the operator, the outputs or the chat helper to do anything.    *)
(***************************************************************************)
Fairness ==
  /\ WF_vars(DropLate \/ LookupDone \/ BatchArrived \/ ScanDone \/ SendDone)
  /\ WF_vars(PollOff \/ Poll \/ PollCancel)
  /\ WF_vars(FinishPrepare \/ FinishStop \/ PollResume)
  /\ WF_vars(\E w \in workers : WorkerEnters(w))
  /\ WF_vars(\E w \in workers : LookupReturns(w) \/ ModerationReturns(w)
                                \/ \E reply \in Replies : SendReturns(w, reply))
  /\ WF_vars(\E w \in workers : ScanStarts(w) \/ (Cancelled(w) /\ ScanEnds(w)))
  /\ WF_vars(\E c \in queue : MessageAges(c))

FairSpec == Spec /\ Fairness

-----------------------------------------------------------------------------
(* Properties *)

TypeOK ==
  /\ mode \in Modes \union {"off"} /\ prepared \in Modes \union {"none"}
  /\ primary \in Output /\ secondary \in Output
  /\ secondStarts \subseteq Nat /\ pollTimer \in BOOLEAN
  /\ ui \in {"idle", "prepWait", "stopWait", "pollWait"} /\ (ui = "prepWait" => mode # "off")
  /\ routes \subseteq Route /\ session \in [Route -> Session]
  /\ queue \subseteq Queued /\ sequence \in 0 .. MaxMessages /\ sending \in BOOLEAN
  /\ generation \in Nat /\ epoch \in Nat
  /\ workers \subseteq Worker /\ events \in Seq(Event)
  /\ blocked \in BOOLEAN /\ shows \in Nat /\ pauses \in Nat
  /\ arrived \in [Route -> Seq(0 .. MaxMessages)]
  /\ told \in [Message -> {"none", "queued", "sent", "partial", "failed"}]

\* Work of one kind and route that the current generation will still hear from.
Running(kind, r) == {w \in workers : w.kind = kind /\ w.route = r /\ w.gen = generation}
Reported(kind, r) == {i \in DOMAIN events : /\ events[i].kind = kind /\ events[i].route = r
                                           /\ events[i].gen = generation}

AtMostOne(S) == \A x, y \in S : x = y
NoneOf(S, T) == S = {} /\ T = {}
OneOf(S, T) == AtMostOne(S) /\ AtMostOne(T) /\ ((S = {}) # (T = {}))

\* When the UI thread is free, no request of an invalidated show is still running:
\* every handler that cancels has waited for the workers it cancelled (lines
\* 6699, 7042, 7188), and the one that does not wait (7165) finds none.
NoCancelledWorkerWhenIdle ==
  ui = "idle" => \A w \in workers : w.kind # "moderate" => w.epoch = epoch

\* A route has a reader exactly while its session says so: cancelling and
\* dropping late results neither loses a reader for good nor doubles it.
ReadersAccounted ==
  ui = "idle" => \A r \in routes :
    IF session[r].pending THEN OneOf(Running("scan", r), Reported("scan", r))
                          ELSE NoneOf(Running("scan", r), Reported("scan", r))

\* The same for the chat-id lookups.
LookupsAccounted ==
  ui = "idle" => \A r \in routes :
    IF session[r].looking THEN OneOf(Running("lookup", r), Reported("lookup", r))
                          ELSE NoneOf(Running("lookup", r), Reported("lookup", r))

Sending == {w \in workers : w.kind = "send" /\ w.gen = generation}
Sent == {i \in DOMAIN events : events[i].kind = "send" /\ events[i].gen = generation}

\* At most one send is under way in a generation, and the send flag covers it.
OneSender ==
  ui = "idle" => \/ NoneOf(Sending, Sent)
                 \/ sending /\ OneOf(Sending, Sent)

Outbox == INSTANCE ChatOutbox WITH arrived <- arrived, told <- told

\* Whatever is retried, expires or waits for the other route, the queue keeps the
\* promise of ChatOutbox: each chat receives the messages in order and none twice,
\* and what the operator reads ("could not be sent" brings the text back for a
\* retry) is true and final.  Replies are not lost: see the README.
ImplementsOutbox == Outbox!Spec

InQueue(m) == \E c \in queue : c.id = m
OutputsDown == \A r \in routes : ~RouteActive(r)
SendOrphaned == sending /\ \A w \in workers : w.kind # "send"

\* A message that is never taken off the queue is explained: all outputs are
\* down, or the sender was cancelled and its flag never reset.
QueuedMessagesLeave ==
  \A m \in Message : <>[]InQueue(m) => <>[](OutputsDown \/ SendOrphaned)

\* The UI thread never waits for its workers for ever.
UiComesBack == ui # "idle" ~> ui = "idle"

\* A message is held back although a route that still owes it is live and open.
HeldBack(m) ==
  \E c \in queue : c.id = m /\ \E r \in Owed(c) : RouteActive(r) /\ Open(session, r)

\* The comment at line 7408: the queue is scanned so that one route's state cannot
\* hold messages back from routes that are ready.
ReadyRouteIsServed == \A m \in Message : ~<>[]HeldBack(m)

\* The request audit, item 2: inactive routes cannot send chat.  The code does not keep
\* it: see the README.
InactiveRouteNotSent ==
  [][\A w \in workers' \ workers :
       w.kind = "send" /\ w.pc = "start" => \A r \in w.todo : RouteActive(r)]_vars

=============================================================================
