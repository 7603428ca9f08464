----------------------------- MODULE TwitchChat -----------------------------
(***************************************************************************)
(* TwitchRuntime of pulse-weaver-core.cpp: the device login, the refresh   *)
(* of the token, sending with one retry, and the EventSub connection with  *)
(* its hand-over, watchdog and reconnection.  All of it runs on the UI     *)
(* thread but the socket threads, whose messages are queued to it.  The    *)
(* generations are compared for equality only, so a request is marked as   *)
(* stale when its generation passes; one whose reply can then do nothing,  *)
(* to the program or to Twitch's tokens, is taken out at once.             *)
(***************************************************************************)
EXTENDS Integers, Sequences, FiniteSets

CONSTANTS
  MaxLogins,      \* bound: logins Twitch grants, the saved one included
  MaxActs,        \* bound: what the operator does
  MaxIncidents    \* bound: what is lost, breaks, ages or is revoked

ASSUME BoundAssumption == MaxLogins \in Nat \ {0} /\ MaxActs \in Nat /\ MaxIncidents \in Nat

VARIABLES
  app,         \* the members of TwitchRuntime, its requests and socket threads: see Start
  posts,       \* calls the socket threads have queued to the UI thread
  twitch,      \* what Twitch has granted: see Grant
  shown,       \* how often the last message sent is in the chat
  acts,        \* what the operator has done
  incidents,   \* what has gone wrong
  out,         \* observation: signed out, and nobody has signed in since
  spent        \* observation: logins whose refreshed token never reached the program

vars == <<app, posts, twitch, shown, acts, incidents, out, spent>>

Login == 1..MaxLogins
NoToken == [login |-> 0, n |-> 0]
Token == [login : Login, n : Nat \ {0}] \cup {NoToken}

(* A refresh token works once, so n counts the refreshes of a login; its   *)
(* access tokens work from number since on, until they expire.             *)
Grant == [n : Nat \ {0}, since : Nat \ {0}, age : {"none", "fresh", "ending", "revoked"},
          use : {"chat", "narrow", "foreign"}]

Kinds == {"device", "poll", "validate", "refresh", "subscribe", "send"}

(* A request, with whether Twitch has acted on it, and its reply's name.   *)
Request ==
  [kind : Kinds, token : Token, user : Login \cup {0}, flag : BOOLEAN, served : BOOLEAN,
   stale : BOOLEAN, reply : Nat]

Thread == [id : Nat \ {0}, at : {"connecting", "open", "mute"}]
Message == {"welcome", "reconnect", "misdirect", "chat revoked", "access revoked", "closed"}
Post == [from : Nat \ {0}, what : Message]

Valid(token) ==
  /\ token # NoToken
  /\ token.n >= twitch[token.login].since
  /\ twitch[token.login].age # "revoked"

----------------------------------------------------------------------------
(* The functions of the runtime, on its members.                           *)
Ask(a, kind, flag) ==
  LET used == {q.reply : q \in {p \in a.requests : p.kind = kind}}
      free == CHOOSE i \in 1..Cardinality(used) + 1 :
                i \notin used /\ \A j \in 1..i - 1 : j \in used
  IN  [a EXCEPT !.requests = @ \cup
        {[kind |-> kind, token |-> a.access, user |-> a.user, flag |-> flag,
          served |-> FALSE, stale |-> FALSE, reply |-> free]}]

ValidateToken(a, restart) ==
  IF a.access = NoToken THEN a ELSE Ask(a, "validate", restart)

(* The only waiter followed is the message whose sending met a 401.        *)
RefreshAccessToken(a, message) ==
  LET b == [a EXCEPT !.waiting = @ \/ message, !.refreshing = TRUE]
  IN  IF a.refreshing THEN b ELSE Ask(b, "refresh", FALSE)

SendMessage(a, retried) ==
  IF a.access = NoToken \/ a.user = 0 THEN a
  ELSE Ask([a EXCEPT !.sending = TRUE], "send", retried)

(* Fault: the refreshed token is kept in memory only.                      *)
KeepInMemory(a) == a

SaveLogin(a) == [a EXCEPT !.saved = a.access]

(* A validation whose token is no longer the one in use is ignored.        *)
UseToken(a, token) ==
  [a EXCEPT !.access = token, !.requests = {q \in @ : q.kind # "validate" \/ q.token = token}]

CloseWorker(a, worker) == [a EXCEPT !.threads = {t \in @ : t.id # worker}]

StopSocket(a) ==
  [CloseWorker(CloseWorker(a, a.pending), a.active) EXCEPT
     !.watchdog = FALSE, !.active = 0, !.pending = 0, !.subscribed = FALSE,
     !.requests = {q \in @ : q.kind # "subscribe"}]

(* A worker lives while a member or a queued call points to it.            *)
NewWorker(a) ==
  LET used == {a.active, a.pending} \cup {t.id : t \in a.threads}
                \cup {posts[i].from : i \in DOMAIN posts}
  IN  CHOOSE i \in 1..Cardinality(used) + 1 :
        i \notin used /\ \A j \in 1..i - 1 : j \in used

LaunchSocket(a) ==
  [a EXCEPT !.threads = @ \cup {[id |-> NewWorker(a), at |-> "connecting"]}]

StartSocket(a) ==
  LET b == StopSocket(a)
  IN  [LaunchSocket(b) EXCEPT
         !.retryTimer = FALSE, !.watchdog = TRUE, !.active = NewWorker(b), !.told = FALSE]

(* Fault: the wrong timer is asked whether a retry is already due.         *)
RetryUnlessToken(a) ==
  LET b == [a EXCEPT !.subscribed = FALSE]
  IN  IF a.access = NoToken \/ a.tokenTimer THEN b ELSE [b EXCEPT !.retryTimer = TRUE, !.told = FALSE]

ScheduleReconnect(a) ==
  LET b == [a EXCEPT !.subscribed = FALSE]
  IN  IF a.access = NoToken THEN b ELSE [b EXCEPT !.retryTimer = TRUE, !.told = FALSE]

(* Fault: replies to an earlier login still count.                         *)
ForgetTimers(a) ==
  [StopSocket(a) EXCEPT
     !.polling = FALSE, !.refreshing = FALSE, !.waiting = FALSE, !.sending = FALSE,
     !.pollTimer = FALSE, !.tokenTimer = FALSE, !.retryTimer = FALSE]

(* What BeginLogin and ClearLogin share: older replies no longer count.    *)
Forget(a) ==
  [StopSocket(a) EXCEPT
     !.polling = FALSE, !.refreshing = FALSE, !.waiting = FALSE, !.sending = FALSE,
     !.pollTimer = FALSE, !.tokenTimer = FALSE, !.retryTimer = FALSE,
     !.requests = {[q EXCEPT !.stale = TRUE] : q \in {p \in @ : p.kind = "refresh"}}]

ClearLogin(a) == [Forget(a) EXCEPT !.access = NoToken, !.saved = NoToken, !.user = 0, !.told = FALSE]

(* The constructor and bindShell: a saved login is validated.              *)
Start(saved) ==
  ValidateToken(
    [access |-> saved, saved |-> saved, user |-> 0, polling |-> FALSE,
     refreshing |-> FALSE, waiting |-> FALSE, sending |-> FALSE, pollTimer |-> FALSE,
     tokenTimer |-> FALSE, retryTimer |-> FALSE, watchdog |-> FALSE,
     active |-> 0, pending |-> 0, threads |-> {}, subscribed |-> FALSE, requests |-> {},
     told |-> FALSE], TRUE)

Init ==
  /\ \E saved \in {NoToken, [login |-> 1, n |-> 1]}, use \in {"chat", "narrow", "foreign"},
        since \in {1, 2} :
       /\ app = Start(saved)
       /\ twitch = [l \in Login |->
            IF l = 1 /\ saved # NoToken
            THEN [n |-> 1, since |-> since, use |-> use, age |-> IF since = 1 THEN "fresh" ELSE "ending"]
            ELSE [n |-> 1, since |-> 1, use |-> "chat", age |-> "none"]]
  /\ posts = <<>> /\ shown = 0 /\ acts = 0 /\ incidents = 0
  /\ out = FALSE /\ spent = {}

----------------------------------------------------------------------------
(* The operator.                                                           *)
Act == acts < MaxActs /\ acts' = acts + 1

BeginLogin ==
  /\ Act
  /\ app' = Ask([Forget(app) EXCEPT !.told = TRUE], "device", FALSE)
  /\ UNCHANGED <<posts, twitch, shown, incidents, out, spent>>

SignOut ==
  /\ Act
  /\ app' = ClearLogin(app)
  /\ out' = TRUE
  /\ UNCHANGED <<posts, twitch, shown, incidents, spent>>

Reconnect ==
  /\ Act
  /\ app.access # NoToken /\ app.user # 0
  /\ app' = StartSocket(app)
  /\ UNCHANGED <<posts, twitch, shown, incidents, out, spent>>

Send ==
  /\ Act
  /\ ~app.sending
  /\ app' = SendMessage(app, FALSE)
  /\ shown' = 0
  /\ UNCHANGED <<posts, twitch, incidents, out, spent>>

----------------------------------------------------------------------------
(* Timers.                                                                 *)
Timer(a) ==
  /\ app' = a
  /\ UNCHANGED <<posts, twitch, shown, acts, incidents, out, spent>>

PollTimer ==
  /\ app.pollTimer
  /\ \/ Timer([app EXCEPT !.pollTimer = FALSE])   \* the device code has expired
     \/ /\ ~app.polling
        /\ Timer(Ask([app EXCEPT !.pollTimer = FALSE, !.polling = TRUE], "poll", FALSE))

TokenTimer == app.tokenTimer /\ Timer(ValidateToken([app EXCEPT !.tokenTimer = FALSE], FALSE))

RetryTimer == app.retryTimer /\ Timer(ValidateToken([app EXCEPT !.retryTimer = FALSE], TRUE))

(* Fault: the watchdog leaves a hand-over alone.                           *)
SilentAlone == app.pending = 0 /\ posts = <<>> /\ \A t \in app.threads : t.at = "mute"

Silent == posts = <<>> /\ \A t \in app.threads : t.at = "mute"

(* The watchdog expires when no connection can bring a keepalive any more. *)
Watchdog ==
  /\ app.watchdog /\ Silent
  /\ Timer(ScheduleReconnect(StopSocket(app)))

----------------------------------------------------------------------------
(* Twitch.  A refresh or a message is acted on before its reply leaves.    *)
Incident == incidents < MaxIncidents /\ incidents' = incidents + 1

Grants(token) == twitch[token.login].n = token.n /\ twitch[token.login].age # "revoked"

Accepts(q) == Valid(q.token) /\ twitch[q.token.login].use = "chat" /\ q.user = q.token.login

Verdict(q) ==
  CASE q.kind = "device" -> {"ok"}
    [] q.kind = "poll" -> {"pending", "denied"} \cup
         IF \E l \in Login : twitch[l].age = "none" THEN {"ok"} ELSE {}
    [] q.kind = "validate" ->
         IF ~Valid(q.token) THEN {"401"}
         ELSE IF twitch[q.token.login].use = "foreign" THEN {"foreign"}
         ELSE IF twitch[q.token.login].age = "ending" THEN {"ending"}
         ELSE IF twitch[q.token.login].use = "narrow" THEN {"narrow"} ELSE {"ok"}
    [] q.kind = "refresh" ->
         IF q.served THEN {"ok"} ELSE IF Grants(q.token) THEN {} ELSE {"denied"}
    [] q.kind = "send" ->
         IF q.served THEN {"ok"} ELSE IF ~Valid(q.token) THEN {"401"}
         ELSE IF Accepts(q) THEN {} ELSE {"403"}
    [] q.kind = "subscribe" ->
         IF ~Valid(q.token) THEN {"401"} ELSE IF Accepts(q) THEN {"ok"} ELSE {"403"}

Granted(grant, n) ==
  [grant EXCEPT !.n = n, !.age = "fresh", !.since = IF grant.age = "ending" THEN n ELSE @]

Serve(q, token) ==
  app' = [app EXCEPT !.requests = (@ \ {q}) \cup {[q EXCEPT !.served = TRUE, !.token = token]}]

ServeRefresh(q) ==
  /\ q \in app.requests /\ q.kind = "refresh" /\ ~q.served /\ Grants(q.token)
  /\ Serve(q, [q.token EXCEPT !.n = @ + 1])
  /\ twitch' = [twitch EXCEPT ![q.token.login] = Granted(@, q.token.n + 1)]
  /\ UNCHANGED <<posts, shown, acts, incidents, out, spent>>

ServeMessage(q) ==
  /\ q \in app.requests /\ q.kind = "send" /\ ~q.served /\ Accepts(q)
  /\ Serve(q, q.token)
  /\ shown' = shown + 1
  /\ UNCHANGED <<posts, twitch, acts, incidents, out, spent>>

Age ==
  /\ Incident
  /\ \E l \in Login :
       \/ /\ twitch[l].age = "fresh"
          /\ twitch' = [twitch EXCEPT ![l].age = "ending"]
       \/ /\ twitch[l].age = "ending"
          /\ twitch' = [twitch EXCEPT ![l].since = twitch[l].n + 1]
  /\ UNCHANGED <<app, posts, shown, acts, out, spent>>

----------------------------------------------------------------------------
(* Replies.  One fails for every reason that is not Twitch's verdict.      *)
Lost(q) == IF q.kind = "refresh" /\ q.served THEN {q.token.login} ELSE {}

Handled(q) == [app EXCEPT !.requests = @ \ {q}]

DropReply(q) ==
  /\ q.stale
  /\ app' = Handled(q)
  /\ spent' = spent \cup Lost(q)
  /\ UNCHANGED <<twitch, out>>

DeviceReply(q, answer) ==
  /\ q.kind = "device"
  /\ app' = [Handled(q) EXCEPT !.pollTimer = (answer = "ok")]
  /\ UNCHANGED <<twitch, out>>

NewLogin == CHOOSE l \in Login : twitch[l].age = "none" /\ \A k \in 1..l - 1 : twitch[k].age # "none"

PollReply(q, answer) ==
  /\ q.kind = "poll"
  /\ LET a == [Handled(q) EXCEPT !.polling = FALSE]
     IN  \/ /\ answer = "ok"
            /\ app' = ValidateToken(
                        [UseToken(a, [login |-> NewLogin, n |-> 1]) EXCEPT !.told = FALSE], TRUE)
            /\ twitch' = [twitch EXCEPT ![NewLogin].age = "fresh"]
            /\ out' = FALSE
         \/ /\ answer # "ok"
            /\ app' = [a EXCEPT !.pollTimer = (answer = "pending")]
            /\ UNCHANGED <<twitch, out>>

ValidateReply(q, answer) ==
  /\ q.kind = "validate"
  /\ LET a == Handled(q)
         b == [a EXCEPT !.tokenTimer = TRUE, !.user = q.token.login]
     IN  \/ /\ answer = "failed"
            /\ app' = IF q.flag THEN ScheduleReconnect(a) ELSE [a EXCEPT !.tokenTimer = TRUE]
         \/ /\ answer \in {"401", "ending"}
            /\ app' = RefreshAccessToken(a, FALSE)
         \/ /\ answer = "foreign"
            /\ app' = [StopSocket(a) EXCEPT !.tokenTimer = FALSE, !.retryTimer = FALSE, !.told = TRUE]
         \/ /\ answer = "narrow"
            /\ app' = [StopSocket(b) EXCEPT !.retryTimer = FALSE, !.told = TRUE]
         \/ /\ answer = "ok"
            /\ app' = IF q.flag THEN StartSocket(SaveLogin(b)) ELSE b
  /\ UNCHANGED <<twitch, out>>

(* Fault: the waiting message is forgotten, the composer stays blocked.    *)
GiveUpSilently(a) == [a EXCEPT !.waiting = FALSE]

GiveUp(a) == [a EXCEPT !.waiting = FALSE, !.sending = @ /\ ~a.waiting]

(* A refused refresh ends the login; a failed one is tried again later.    *)
RefreshReply(q, answer) ==
  /\ q.kind = "refresh"
  /\ LET a == [Handled(q) EXCEPT !.refreshing = FALSE]
         b == GiveUp(a)
         c == ValidateToken(SaveLogin(UseToken([a EXCEPT !.waiting = FALSE], q.token)), TRUE)
     IN  \/ /\ answer = "denied"
            /\ app' = SaveLogin([StopSocket(UseToken(b, NoToken)) EXCEPT
                        !.tokenTimer = FALSE, !.retryTimer = FALSE])
         \/ /\ answer = "failed"
            /\ app' = [b EXCEPT !.tokenTimer = TRUE]
         \/ /\ answer = "ok"
            /\ app' = IF app.waiting THEN SendMessage(c, TRUE) ELSE c
  /\ UNCHANGED <<twitch, out>>

(* Fault: a message whose reply was lost is sent again.                    *)
RetriedLost(q, answer) == answer \in {"401", "failed"} /\ ~q.flag /\ app.access # NoToken

(* One 401 is answered by a refresh and one retry.                         *)
Retried(q, answer) == answer = "401" /\ ~q.flag /\ app.access # NoToken

SendReply(q, answer) ==
  /\ q.kind = "send"
  /\ app' = IF Retried(q, answer) THEN RefreshAccessToken(Handled(q), TRUE)
            ELSE [Handled(q) EXCEPT !.sending = FALSE]
  /\ UNCHANGED <<twitch, out>>

SubscribeReply(q, answer) ==
  /\ q.kind = "subscribe"
  /\ LET a == Handled(q)
     IN  \/ answer = "ok" /\ app' = [a EXCEPT !.subscribed = TRUE]
         \/ answer = "401" /\ app' = RefreshAccessToken(StopSocket(a), FALSE)
         \/ answer = "403" /\ app' = [StopSocket(a) EXCEPT !.told = TRUE]
         \/ answer = "failed" /\ app' = ScheduleReconnect(StopSocket(a))
  /\ UNCHANGED <<twitch, out>>

Answered(q, answer) ==
  /\ ~q.stale
  /\ \/ DeviceReply(q, answer) \/ PollReply(q, answer) \/ ValidateReply(q, answer)
     \/ RefreshReply(q, answer) \/ SendReply(q, answer) \/ SubscribeReply(q, answer)

Reply(q) ==
  /\ q \in app.requests
  /\ DropReply(q) \/ (\E answer \in Verdict(q) : Answered(q, answer) /\ UNCHANGED spent)
  /\ UNCHANGED <<posts, shown, acts, incidents>>

(* The request fails, or its reply is lost after Twitch has acted.         *)
Fail ==
  /\ Incident
  /\ \E q \in app.requests :
       /\ Answered(q, "failed")
       /\ spent' = spent \cup Lost(q)
  /\ UNCHANGED <<posts, shown, acts>>

----------------------------------------------------------------------------
(* The socket threads.                                                     *)
Moved(t, at, what) ==
  /\ app' = [app EXCEPT !.threads = (@ \ {t}) \cup IF at = "ended" THEN {} ELSE {[t EXCEPT !.at = at]}]
  /\ posts' = IF what = "" THEN posts ELSE Append(posts, [from |-> t.id, what |-> what])
  /\ UNCHANGED <<shown, acts, out, spent>>

Connect ==
  /\ \E t \in app.threads : t.at = "connecting" /\ Moved(t, "open", "welcome")
  /\ UNCHANGED <<twitch, incidents>>

(* The connection fails or closes, or falls silent without closing.        *)
Break ==
  /\ Incident
  /\ \E t \in app.threads :
       \/ t.at # "mute" /\ Moved(t, "mute", "")
       \/ Moved(t, "ended", "closed")
  /\ UNCHANGED twitch

(* Twitch closes the old connection of a hand-over.                        *)
Retire ==
  /\ app.pending # 0
  /\ \E t \in app.threads : t.id = app.active /\ Moved(t, "ended", "closed")
  /\ UNCHANGED <<twitch, incidents>>

(* Twitch moves the session, or says that a subscription is revoked.       *)
Notice ==
  /\ Incident
  /\ \E t \in app.threads, what \in {"reconnect", "misdirect", "chat revoked"} :
       t.at = "open" /\ Moved(t, "open", what)
  /\ UNCHANGED twitch

Revoke ==
  /\ Incident
  /\ \E t \in app.threads, l \in Login :
       /\ t.at = "open" /\ l = app.user
       /\ twitch[l].age \notin {"none", "revoked"}
       /\ Moved(t, "open", "access revoked")
       /\ twitch' = [twitch EXCEPT ![l].age = "revoked"]

----------------------------------------------------------------------------
(* The calls they queued, in the order they were queued.                   *)
Current(worker) == worker \in {app.active, app.pending}

(* Fault: the old connection is left to itself.                            *)
PromoteOnly(a) == [a EXCEPT !.active = a.pending, !.pending = 0]

(* The new connection of a hand-over takes the place of the old one.       *)
Promote(a) == [CloseWorker(a, a.active) EXCEPT !.active = a.pending, !.pending = 0]

HandOver(a) ==
  IF a.pending # 0 THEN a ELSE [LaunchSocket(a) EXCEPT !.pending = NewWorker(a)]

Handle(worker, what) ==
  \/ /\ what = "welcome" /\ worker = app.pending
     /\ app' = Promote(app)
  \/ /\ what = "welcome" /\ worker # app.pending
     /\ app' = Ask(app, "subscribe", FALSE)
  \/ /\ what = "reconnect"
     /\ app' = HandOver(app)
  \/ /\ what = "misdirect"
     /\ app' = IF app.pending # 0 THEN app ELSE ScheduleReconnect(StopSocket(app))
  \/ /\ what = "chat revoked"
     /\ app' = ScheduleReconnect(StopSocket(app))
  \/ /\ what = "access revoked"
     /\ app' = ClearLogin(app)
  \/ /\ what = "closed"      \* during a hand-over the old connection may close
     /\ app' = IF app.pending # 0 /\ worker = app.active THEN app
               ELSE ScheduleReconnect(StopSocket(app))

Deliver ==
  /\ posts # <<>>
  /\ LET p == Head(posts)
     IN  /\ IF Current(p.from) THEN Handle(p.from, p.what) ELSE UNCHANGED app
         /\ out' = (out \/ (Current(p.from) /\ p.what = "access revoked"))
  /\ posts' = Tail(posts)
  /\ UNCHANGED <<twitch, shown, acts, incidents, spent>>

(* The program ends, however it ends, and starts again.                    *)
Restart ==
  /\ Incident
  /\ app' = Start(app.saved)
  /\ posts' = <<>>
  /\ spent' = spent \cup UNION {Lost(q) : q \in app.requests}
  /\ UNCHANGED <<twitch, shown, acts, out>>

----------------------------------------------------------------------------
Operator == BeginLogin \/ SignOut \/ Reconnect \/ Send
Trouble == Fail \/ Age \/ Break \/ Notice \/ Revoke \/ Restart

Next ==
  \/ Operator \/ Trouble
  \/ PollTimer \/ TokenTimer \/ RetryTimer \/ Watchdog
  \/ \E q \in app.requests : ServeRefresh(q) \/ ServeMessage(q) \/ Reply(q)
  \/ Connect \/ Retire \/ Deliver

Spec == Init /\ [][Next]_vars

(* Timers fire, the event loop runs, and every request has an answer or    *)
(* runs into its 10 s timeout (network.setTransferTimeout).                *)
Handlers ==
  {{"device", "poll"} \X {FALSE}, {<<"validate", FALSE>>}, {<<"validate", TRUE>>},
   {<<"refresh", FALSE>>}, {<<"subscribe", FALSE>>}, {"send"} \X BOOLEAN}

Fairness ==
  /\ WF_vars(PollTimer) /\ WF_vars(TokenTimer) /\ WF_vars(RetryTimer) /\ WF_vars(Watchdog)
  /\ WF_vars(Connect) /\ WF_vars(Deliver)
  /\ WF_vars(\E q \in app.requests : ServeRefresh(q) \/ ServeMessage(q))
  /\ \A some \in Handlers : WF_vars(\E q \in app.requests : <<q.kind, q.flag>> \in some /\ Reply(q))

FairSpec == Spec /\ Fairness

----------------------------------------------------------------------------
TypeOK ==
  /\ app \in [access : Token, saved : Token, user : Login \cup {0},
              polling : BOOLEAN, refreshing : BOOLEAN, waiting : BOOLEAN, sending : BOOLEAN,
              pollTimer : BOOLEAN, tokenTimer : BOOLEAN, retryTimer : BOOLEAN,
              watchdog : BOOLEAN, active : Nat, pending : Nat, threads : SUBSET Thread,
              subscribed : BOOLEAN, requests : SUBSET Request, told : BOOLEAN]
  /\ Cardinality(app.threads) <= 2
  /\ posts \in Seq(Post)
  /\ twitch \in [Login -> Grant]
  /\ shown \in Nat /\ acts \in 0..MaxActs /\ incidents \in 0..MaxIncidents
  /\ out \in BOOLEAN /\ spent \subseteq Login

(* Signing out, or losing the authorisation, is final: no reply that was   *)
(* on its way brings a login, a socket or a subscription back.             *)
NoGhostLogin ==
  out => /\ app.access = NoToken /\ app.saved = NoToken
         /\ app.threads = {} /\ ~app.subscribed

(* A login whose chat is not connected is never forgotten: something that  *)
(* brings it back is armed or under way, or the operator has been told.    *)
Recovering ==
  \/ app.retryTimer
  \/ (app.watchdog /\ app.active # 0)
  \/ \E q \in app.requests : ~q.stale /\ (q.kind = "refresh" \/ (q.kind = "validate" /\ q.flag))
  \/ /\ ~Valid(app.access) \/ twitch[app.access.login].age = "ending"
     /\ app.tokenTimer \/ \E q \in app.requests : q.kind = "validate" /\ ~q.stale

NoForgottenConnection == app.access # NoToken /\ ~app.subscribed => app.told \/ Recovering

(* Every socket thread belongs to the connection in use or to the one that *)
(* is to replace it, and chat shown as connected has a watched connection. *)
SocketsAccounted ==
  /\ \A t \in app.threads : t.id \in {app.active, app.pending}
  /\ app.subscribed => app.watchdog /\ app.active # 0

(* The composer is blocked only while a reply that unblocks it is due.     *)
ComposerFrees ==
  /\ app.sending =>
       \/ \E q \in app.requests : q.kind = "send" /\ ~q.stale
       \/ app.refreshing /\ app.waiting
  /\ app.refreshing => \E q \in app.requests : q.kind = "refresh" /\ ~q.stale

(* A message is never put in the chat twice, whatever reply is lost.       *)
NotSentTwice == shown <= 1

(* The saved refresh token is the one Twitch will accept next, or its      *)
(* successor is on its way, or was lost on its way.                        *)
SavedLoginWorks ==
  app.saved # NoToken /\ app.saved.n # twitch[app.saved.login].n =>
    \/ app.saved.login \in spent
    \/ \E q \in app.requests : q.kind = "refresh" /\ q.served /\ q.token.login = app.saved.login

(* When trouble ends, chat comes back, over a connection that is alive, or *)
(* the operator knows that it cannot.                                      *)
Connected == app.subscribed /\ \E t \in app.threads : t.id = app.active /\ t.at = "open"

ChatComesBack == <>[](Connected \/ app.access = NoToken \/ app.told)
=============================================================================
