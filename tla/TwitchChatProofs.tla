-------------------------- MODULE TwitchChatProofs --------------------------
(***************************************************************************)
(* For any number of logins, acts and incidents: types, that signing out   *)
(* is final, that no message is sent twice, that the saved login works,    *)
(* and that neither a connection nor the composer is forgotten.            *)
(***************************************************************************)
EXTENDS TwitchChat, FiniteSetTheorems, TLAPS

-----------------------------------------------------------------------------
(* Numbers *)

Least(i, S) == \A j \in S : i <= j

LEMMA LeastExists ==
  ASSUME NEW S \in SUBSET Nat, S # {}
  PROVE  \E i \in S : Least(i, S)
<1> DEFINE Below(i) == {n \in Nat : n < i}
           T == {Below(i) : i \in S}
           R == StrictSubsetOrdering(Nat)
<1>1. T \subseteq FiniteSubsetsOf(Nat)
  <2> SUFFICES ASSUME NEW i \in S PROVE IsFiniteSet(Below(i))
    BY DEF FiniteSubsetsOf
  <2> QED BY FS_BoundedSetOfNaturals
<1>2. T # {}
  OBVIOUS
<1>3. PICK t \in T : \A u \in T : ~ (<<u, t>> \in R)
  <2> HIDE DEF T, R
  <2>1. IsWellFoundedOn(R, FiniteSubsetsOf(Nat))
    BY FS_StrictSubsetOrderingWellFounded DEF R
  <2> QED BY <1>1, <1>2, <2>1, WFMin
<1>4. PICK i \in S : t = Below(i)
  OBVIOUS
<1>5. ASSUME NEW j \in S PROVE i <= j
  <2> SUFFICES ASSUME j < i PROVE FALSE
    OBVIOUS
  <2>1. Below(j) \subseteq Below(i) /\ j \in Below(i) /\ j \notin Below(j)
    OBVIOUS
  <2>2. <<Below(j), Below(i)>> \in R
    BY <2>1 DEF StrictSubsetOrdering
  <2> QED BY <1>3, <1>4, <2>2
<1> QED BY <1>5 DEF Least

\* The number that Ask and NewWorker choose exists.
LEMMA FreeNumber ==
  ASSUME NEW S, IsFiniteSet(S)
  PROVE  \E i \in 1 .. Cardinality(S) + 1 : i \notin S /\ \A j \in 1 .. i - 1 : j \in S
<1> DEFINE n == Cardinality(S) + 1
           Free == {i \in 1 .. n : i \notin S}
<1>1. n \in Nat
  BY FS_CardinalityType
<1>2. Free # {}
  <2> SUFFICES ASSUME Free = {} PROVE FALSE
    OBVIOUS
  <2>1. 1 .. n \subseteq S
    OBVIOUS
  <2>2. Cardinality(1 .. n) = n
    BY <1>1, FS_Interval
  <2>3. Cardinality(1 .. n) <= Cardinality(S)
    BY <2>1, FS_Subset
  <2> QED BY <1>1, <2>2, <2>3, FS_CardinalityType
<1>3. PICK i \in Free : Least(i, Free)
  <2>1. Free \in SUBSET Nat
    BY <1>1
  <2> HIDE DEF Free
  <2> QED BY <1>2, <2>1, LeastExists
<1>4. \A j \in 1 .. i - 1 : j \in S
  BY <1>1, <1>3 DEF Least
<1> QED BY <1>3, <1>4

LEMMA FiniteImage ==
  ASSUME NEW S, IsFiniteSet(S), NEW T, NEW f \in [S -> T], \A y \in T : \E x \in S : f[x] = y
  PROVE  IsFiniteSet(T)
<1>1. f \in Surjection(S, T)
  BY DEF Surjection
<1> QED BY <1>1, FS_Surjection

-----------------------------------------------------------------------------
(* The members of the runtime and its functions *)

App ==
  [access : Token, saved : Token, user : Login \cup {0},
   polling : BOOLEAN, refreshing : BOOLEAN, waiting : BOOLEAN, sending : BOOLEAN,
   pollTimer : BOOLEAN, tokenTimer : BOOLEAN, retryTimer : BOOLEAN,
   watchdog : BOOLEAN, active : Nat, pending : Nat, threads : SUBSET Thread,
   subscribed : BOOLEAN, requests : SUBSET Request, told : BOOLEAN]

LEMMA Members ==
  ASSUME NEW a \in App
  PROVE  /\ a.access \in Token /\ a.saved \in Token /\ a.user \in Login \cup {0}
         /\ a.polling \in BOOLEAN /\ a.refreshing \in BOOLEAN /\ a.waiting \in BOOLEAN
         /\ a.sending \in BOOLEAN /\ a.pollTimer \in BOOLEAN /\ a.tokenTimer \in BOOLEAN
         /\ a.retryTimer \in BOOLEAN /\ a.watchdog \in BOOLEAN /\ a.active \in Nat
         /\ a.pending \in Nat /\ a.threads \in SUBSET Thread /\ a.subscribed \in BOOLEAN
         /\ a.requests \in SUBSET Request /\ a.told \in BOOLEAN
BY DEF App

\* StopSocket: the connections, the watchdog and the subscription's request are gone.
Stopped(a, b) ==
  /\ b \in App
  /\ b.access = a.access /\ b.saved = a.saved /\ b.user = a.user /\ b.polling = a.polling
  /\ b.refreshing = a.refreshing /\ b.waiting = a.waiting /\ b.sending = a.sending
  /\ b.pollTimer = a.pollTimer /\ b.tokenTimer = a.tokenTimer /\ b.retryTimer = a.retryTimer
  /\ b.told = a.told
  /\ b.watchdog = FALSE /\ b.active = 0 /\ b.pending = 0 /\ b.subscribed = FALSE
  /\ b.threads = {t \in a.threads : t.id \notin {a.active, a.pending}}
  /\ b.requests = {q \in a.requests : q.kind # "subscribe"}

LEMMA StopSocketMembers ==
  ASSUME NEW a \in App
  PROVE  Stopped(a, StopSocket(a))
<1>1. CloseWorker(a, a.pending) = [a EXCEPT !.threads = {t \in a.threads : t.id # a.pending}]
  BY DEF CloseWorker
<1> QED BY DEF App, StopSocket, CloseWorker, Stopped

-----------------------------------------------------------------------------
(* What holds of the members whatever Twitch does *)

Typed(a) == a \in App /\ IsFiniteSet(a.requests) /\ IsFiniteSet(a.threads)

\* A thread is that of a connection in use, one each; a connection has a watchdog,
\* a login and a user, and only then is there a subscription.
Sockets(a) ==
  /\ \A t \in a.threads : t.id \in {a.active, a.pending}
  /\ \A t, u \in a.threads : t.id = u.id => t = u
  /\ a.active # 0 => a.watchdog /\ a.access # NoToken /\ a.user # 0
  /\ a.pending # 0 => a.active # 0
  /\ a.subscribed => a.active # 0
  /\ \A q \in a.requests : q.kind = "subscribe" => a.active # 0

\* What is asked with a token, and which requests may be stale or acted on.
Asks(a) ==
  \A q \in a.requests :
    /\ q.stale => q.kind = "refresh"
    /\ q.kind \notin {"device", "poll"} => q.token # NoToken
    /\ q.kind = "validate" => q.token = a.access
    /\ q.served => q.kind \in {"refresh", "send"}

Sane(a) == Typed(a) /\ Sockets(a) /\ Asks(a)

\* b leaves the composer, the refreshes and the tokens of a alone.
Quiet(a, b) ==
  /\ b.sending = a.sending /\ b.waiting = a.waiting /\ b.refreshing = a.refreshing
  /\ b.access = a.access /\ b.saved \in {a.saved, a.access}
  /\ a.user # 0 => b.user # 0
  /\ \A q \in Request : q.kind \in {"send", "refresh"} => (q \in b.requests <=> q \in a.requests)
  /\ \A q \in b.requests : q \in a.requests \/ q.token = a.access

\* The members of b are those of a but for the requests, to which q is added.
Requested(a, b, q, kind, flag) ==
  /\ q \in Request /\ q.kind = kind /\ q.flag = flag /\ q.token = a.access /\ q.user = a.user
  /\ ~q.served /\ ~q.stale
  /\ b = [a EXCEPT !.requests = a.requests \cup {q}]

LEMMA AskMembers ==
  ASSUME NEW a, Typed(a), NEW kind \in Kinds, NEW flag \in BOOLEAN
  PROVE  \E q \in Request : Requested(a, Ask(a, kind, flag), q, kind, flag)
<1> DEFINE used == {q.reply : q \in {p \in a.requests : p.kind = kind}}
           free == CHOOSE i \in 1..Cardinality(used) + 1 :
                     i \notin used /\ \A j \in 1..i - 1 : j \in used
           q == [kind |-> kind, token |-> a.access, user |-> a.user, flag |-> flag,
                 served |-> FALSE, stale |-> FALSE, reply |-> free]
<1>1. IsFiniteSet(used)
  <2>1. IsFiniteSet({p \in a.requests : p.kind = kind})
    BY FS_Subset DEF Typed
  <2> DEFINE S == {p \in a.requests : p.kind = kind}
             f == [p \in S |-> p.reply]
  <2>2. f \in [S -> used] /\ \A y \in used : \E p \in S : f[p] = y
    OBVIOUS
  <2> HIDE DEF f, used, S
  <2> QED BY <2>1, <2>2, FiniteImage DEF S
<1>2. free \in Nat
  <2> HIDE DEF used
  <2>1. Cardinality(used) \in Nat
    BY <1>1, FS_CardinalityType
  <2> QED BY <1>1, <2>1, FreeNumber
<1>3. a.access \in Token /\ a.user \in Login \cup {0}
  BY Members DEF Typed
<1>4. Ask(a, kind, flag) = [a EXCEPT !.requests = a.requests \cup {q}]
  BY DEF Ask
<1> HIDE DEF free
<1>5. q \in Request
  BY <1>2, <1>3 DEF Request
<1> QED BY <1>4, <1>5 DEF Requested

LEMMA AskSane ==
  ASSUME NEW a, Sane(a), NEW kind \in Kinds, NEW flag \in BOOLEAN,
         kind \notin {"device", "poll"} => a.access # NoToken,
         kind = "subscribe" => a.active # 0
  PROVE  Sane(Ask(a, kind, flag))
<1>1. PICK q \in Request : Requested(a, Ask(a, kind, flag), q, kind, flag)
  BY AskMembers DEF Sane
<1> DEFINE b == Ask(a, kind, flag)
<1>2. /\ b \in App /\ b.requests = a.requests \cup {q} /\ b.threads = a.threads
      /\ b.access = a.access /\ b.user = a.user /\ b.active = a.active /\ b.pending = a.pending
      /\ b.watchdog = a.watchdog /\ b.subscribed = a.subscribed
  BY <1>1 DEF Requested, Sane, Typed, App
<1>3. IsFiniteSet(b.requests)
  BY <1>2, FS_AddElement DEF Sane, Typed
<1> HIDE DEF b
<1>4. Typed(b)
  BY <1>2, <1>3 DEF Sane, Typed
<1>5. Sockets(b)
  BY <1>1, <1>2 DEF Requested, Sane, Sockets
<1>6. Asks(b)
  BY <1>1, <1>2 DEF Requested, Sane, Asks
<1> QED BY <1>4, <1>5, <1>6 DEF Sane, b

LEMMA StopSocketSane ==
  ASSUME NEW a, Sane(a)
  PROVE  Sane(StopSocket(a)) /\ Quiet(a, StopSocket(a)) /\ StopSocket(a).threads = {}
<1> DEFINE b == StopSocket(a)
<1>1. Stopped(a, b)
  BY StopSocketMembers DEF Sane, Typed
<1> HIDE DEF b
<1>2. b.threads = {}
  BY <1>1 DEF Stopped, Sane, Sockets
<1>3. IsFiniteSet(b.requests) /\ IsFiniteSet(b.threads)
  BY <1>1, FS_Subset DEF Stopped, Sane, Typed
<1>4. Sane(b)
  BY <1>1, <1>2, <1>3 DEF Stopped, Sane, Typed, Sockets, Asks
<1>5. Quiet(a, b)
  BY <1>1 DEF Stopped, Quiet
<1> QED BY <1>2, <1>4, <1>5 DEF b

LEMMA AskQuiet ==
  ASSUME NEW a, Sane(a), NEW kind \in Kinds \ {"send", "refresh"}, NEW flag \in BOOLEAN
  PROVE  Quiet(a, Ask(a, kind, flag))
<1>1. PICK q \in Request : Requested(a, Ask(a, kind, flag), q, kind, flag)
  BY AskMembers DEF Sane
<1> DEFINE b == Ask(a, kind, flag)
<1>2. /\ b.requests = a.requests \cup {q} /\ b.access = a.access /\ b.user = a.user
      /\ b.saved = a.saved /\ b.sending = a.sending /\ b.waiting = a.waiting
      /\ b.refreshing = a.refreshing
  BY <1>1 DEF Requested, Sane, Typed, App
<1> HIDE DEF b
<1> QED BY <1>1, <1>2 DEF Requested, Quiet, b

LEMMA QuietTwice ==
  ASSUME NEW a, NEW b, NEW c, Quiet(a, b), Quiet(b, c)
  PROVE  Quiet(a, c)
BY DEF Quiet

LEMMA ValidateTokenSane ==
  ASSUME NEW a, Sane(a), NEW restart \in BOOLEAN
  PROVE  Sane(ValidateToken(a, restart)) /\ Quiet(a, ValidateToken(a, restart))
<1>1. CASE a.access = NoToken
  BY <1>1 DEF ValidateToken, Quiet
<1>2. CASE a.access # NoToken
  BY <1>2, AskSane, AskQuiet DEF ValidateToken, Kinds
<1> QED BY <1>1, <1>2

LEMMA SaveLoginSane ==
  ASSUME NEW a, Sane(a)
  PROVE  Sane(SaveLogin(a)) /\ Quiet(a, SaveLogin(a))
<1> DEFINE b == SaveLogin(a)
<1>1. /\ b \in App /\ b.access = a.access /\ b.saved = a.access /\ b.user = a.user
      /\ b.sending = a.sending /\ b.waiting = a.waiting /\ b.refreshing = a.refreshing
      /\ b.watchdog = a.watchdog /\ b.active = a.active /\ b.pending = a.pending
      /\ b.subscribed = a.subscribed /\ b.threads = a.threads /\ b.requests = a.requests
  BY DEF SaveLogin, Sane, Typed, App
<1> HIDE DEF b
<1>2. Sane(b)
  BY <1>1 DEF Sane, Typed, Sockets, Asks
<1> QED BY <1>1, <1>2 DEF Quiet, b

\* A new connection's number differs from those in use.
LEMMA NewWorkerFree ==
  ASSUME NEW a, Typed(a), posts \in Seq(Post)
  PROVE  /\ NewWorker(a) \in Nat
         /\ NewWorker(a) \notin {a.active, a.pending} \cup {t.id : t \in a.threads}
         /\ NewWorker(a) # 0
<1> DEFINE S == {a.active, a.pending}
           T == {t.id : t \in a.threads}
           P == {posts[i].from : i \in DOMAIN posts}
           used == S \cup T \cup P
<1>1. IsFiniteSet(S)
  <2>1. IsFiniteSet({a.active}) /\ {a.active} \cup {a.pending} = S
    BY FS_Singleton
  <2> QED BY <2>1, FS_AddElement
<1>2. IsFiniteSet(T)
  <2> DEFINE f == [t \in a.threads |-> t.id]
  <2>1. f \in [a.threads -> T] /\ \A y \in T : \E t \in a.threads : f[t] = y
    OBVIOUS
  <2> HIDE DEF f, T
  <2> QED BY <2>1, FiniteImage DEF Typed
<1>3. IsFiniteSet(P)
  <2> DEFINE D == DOMAIN posts
             f == [i \in D |-> posts[i].from]
  <2>1. D = 1 .. Len(posts) /\ Len(posts) \in Nat
    OBVIOUS
  <2>2. IsFiniteSet(D)
    BY <2>1, FS_Interval
  <2>3. f \in [D -> P] /\ \A y \in P : \E i \in D : f[i] = y
    OBVIOUS
  <2> HIDE DEF f, D, P
  <2> QED BY <2>2, <2>3, FiniteImage
<1>4. IsFiniteSet(used)
  <2> HIDE DEF S, T, P
  <2> QED BY <1>1, <1>2, <1>3, FS_Union
<1> DEFINE new == CHOOSE i \in 1..Cardinality(used) + 1 : i \notin used /\ \A j \in 1..i - 1 : j \in used
<1>5. new \in Nat /\ new # 0 /\ new \notin used
  <2> HIDE DEF used
  <2>1. Cardinality(used) \in Nat
    BY <1>4, FS_CardinalityType
  <2> QED BY <1>4, <2>1, FreeNumber
<1>6. NewWorker(a) = new
  BY DEF NewWorker
<1> HIDE DEF new
<1> QED BY <1>5, <1>6

LEMMA StartSocketSane ==
  ASSUME NEW a, Sane(a), a.access # NoToken, a.user # 0, posts \in Seq(Post)
  PROVE  /\ Sane(StartSocket(a)) /\ Quiet(a, StartSocket(a))
         /\ StartSocket(a).active # 0
         /\ \A q \in StartSocket(a).requests : q.kind # "subscribe"
<1> DEFINE b == StopSocket(a)
           new == NewWorker(b)
           thread == [id |-> new, at |-> "connecting"]
           c == StartSocket(a)
<1>1. Stopped(a, b) /\ Sane(b) /\ b.threads = {} /\ Quiet(a, b)
  BY StopSocketMembers, StopSocketSane DEF Sane, Typed
<1>2. new \in Nat /\ new # 0
  BY <1>1, NewWorkerFree DEF Sane
<1>3. thread \in Thread
  BY <1>2 DEF Thread
<1>4. c = [b EXCEPT !.threads = b.threads \cup {thread}, !.retryTimer = FALSE,
                    !.watchdog = TRUE, !.active = new, !.told = FALSE]
  <2> HIDE DEF b
  <2>1. b \in App
    BY <1>1 DEF Stopped
  <2> QED BY <2>1 DEF StartSocket, LaunchSocket, App, b
<1> HIDE DEF b, new, thread, c
<1>5. /\ c \in App /\ c.access = a.access /\ c.saved = a.saved /\ c.user = a.user
      /\ c.sending = a.sending /\ c.waiting = a.waiting /\ c.refreshing = a.refreshing
      /\ c.watchdog /\ c.active = new /\ c.pending = 0 /\ c.subscribed = FALSE
      /\ c.threads = {thread} /\ c.requests = b.requests
  BY <1>1, <1>2, <1>3, <1>4 DEF Stopped, App
<1>6. Typed(c)
  BY <1>1, <1>5, FS_Singleton DEF Sane, Typed
<1>7. Sane(c)
  BY <1>1, <1>2, <1>5, <1>6 DEF Stopped, Sane, Sockets, Asks, thread
<1> QED BY <1>1, <1>2, <1>5, <1>7 DEF Stopped, Quiet, c

\* b differs from a in timers, in what is polled and in what was told only.
Flagged(a, b) ==
  /\ b \in App /\ b.access = a.access /\ b.saved = a.saved /\ b.user = a.user
  /\ b.refreshing = a.refreshing /\ b.waiting = a.waiting /\ b.sending = a.sending
  /\ b.watchdog = a.watchdog /\ b.active = a.active /\ b.pending = a.pending
  /\ b.threads = a.threads /\ b.subscribed = a.subscribed /\ b.requests = a.requests

LEMMA FlaggedSane ==
  ASSUME NEW a, Sane(a), NEW b, Flagged(a, b)
  PROVE  Sane(b) /\ Quiet(a, b)
BY DEF Flagged, Sane, Typed, Sockets, Asks, Quiet

LEMMA ScheduleReconnectMembers ==
  ASSUME NEW a, Sane(a)
  PROVE  LET b == ScheduleReconnect(a) IN
         /\ b \in App /\ b.access = a.access /\ b.saved = a.saved /\ b.user = a.user
         /\ b.refreshing = a.refreshing /\ b.waiting = a.waiting /\ b.sending = a.sending
         /\ b.watchdog = a.watchdog /\ b.active = a.active /\ b.pending = a.pending
         /\ b.threads = a.threads /\ ~b.subscribed /\ b.requests = a.requests
         /\ a.access # NoToken => b.retryTimer
BY DEF ScheduleReconnect, Sane, Typed, App

LEMMA ScheduleReconnectSane ==
  ASSUME NEW a, Sane(a)
  PROVE  Sane(ScheduleReconnect(a)) /\ Quiet(a, ScheduleReconnect(a))
<1> DEFINE b == ScheduleReconnect(a)
<1>1. /\ b \in App /\ b.access = a.access /\ b.saved = a.saved /\ b.user = a.user
      /\ b.refreshing = a.refreshing /\ b.waiting = a.waiting /\ b.sending = a.sending
      /\ b.watchdog = a.watchdog /\ b.active = a.active /\ b.pending = a.pending
      /\ b.threads = a.threads /\ ~b.subscribed /\ b.requests = a.requests
  BY ScheduleReconnectMembers
<1> HIDE DEF b
<1> QED BY <1>1 DEF Sane, Typed, Sockets, Asks, Quiet, b

\* A reply is taken out of the requests.
LEMMA HandledMembers ==
  ASSUME app \in App, NEW q
  PROVE  LET b == Handled(q) IN
         /\ b \in App /\ b.access = app.access /\ b.saved = app.saved /\ b.user = app.user
         /\ b.polling = app.polling
         /\ b.refreshing = app.refreshing /\ b.waiting = app.waiting /\ b.sending = app.sending
         /\ b.pollTimer = app.pollTimer /\ b.tokenTimer = app.tokenTimer
         /\ b.retryTimer = app.retryTimer /\ b.told = app.told
         /\ b.watchdog = app.watchdog /\ b.active = app.active /\ b.pending = app.pending
         /\ b.threads = app.threads /\ b.subscribed = app.subscribed
         /\ b.requests = app.requests \ {q}
BY DEF Handled, App

LEMMA HandledSane ==
  ASSUME Sane(app), NEW q
  PROVE  /\ Sane(Handled(q))
         /\ q.kind \notin {"send", "refresh"} => Quiet(app, Handled(q))
<1> DEFINE b == Handled(q)
<1>1. /\ b \in App /\ b.access = app.access /\ b.saved = app.saved /\ b.user = app.user
      /\ b.refreshing = app.refreshing /\ b.waiting = app.waiting /\ b.sending = app.sending
      /\ b.watchdog = app.watchdog /\ b.active = app.active /\ b.pending = app.pending
      /\ b.threads = app.threads /\ b.subscribed = app.subscribed
      /\ b.requests = app.requests \ {q}
  BY HandledMembers DEF Sane, Typed
<1> HIDE DEF b
<1>2. IsFiniteSet(b.requests)
  BY <1>1, FS_RemoveElement DEF Sane, Typed
<1>3. Sane(b)
  BY <1>1, <1>2 DEF Sane, Typed, Sockets, Asks
<1>4. q.kind \notin {"send", "refresh"} => Quiet(app, b)
  BY <1>1 DEF Quiet
<1> QED BY <1>3, <1>4 DEF b

LEMMA UseTokenMembers ==
  ASSUME NEW a \in App, NEW token \in Token
  PROVE  LET b == UseToken(a, token) IN
         /\ b \in App /\ b.access = token /\ b.saved = a.saved /\ b.user = a.user
         /\ b.polling = a.polling
         /\ b.refreshing = a.refreshing /\ b.waiting = a.waiting /\ b.sending = a.sending
         /\ b.pollTimer = a.pollTimer /\ b.tokenTimer = a.tokenTimer
         /\ b.retryTimer = a.retryTimer /\ b.told = a.told
         /\ b.watchdog = a.watchdog /\ b.active = a.active /\ b.pending = a.pending
         /\ b.threads = a.threads /\ b.subscribed = a.subscribed
         /\ b.requests = {q \in a.requests : q.kind # "validate" \/ q.token = token}
BY DEF UseToken, App

LEMMA UseTokenSane ==
  ASSUME NEW a, Sane(a), NEW token \in Token, token # NoToken
  PROVE  Sane(UseToken(a, token))
<1> DEFINE b == UseToken(a, token)
<1>1. /\ b \in App /\ b.access = token /\ b.user = a.user
      /\ b.watchdog = a.watchdog /\ b.active = a.active /\ b.pending = a.pending
      /\ b.threads = a.threads /\ b.subscribed = a.subscribed
      /\ b.requests = {q \in a.requests : q.kind # "validate" \/ q.token = token}
  BY UseTokenMembers DEF Sane, Typed
<1>2. IsFiniteSet(b.requests)
  BY <1>1, FS_Subset DEF Sane, Typed
<1> HIDE DEF b
<1> QED BY <1>1, <1>2 DEF Sane, Typed, Sockets, Asks, b

LEMMA ForgetMembers ==
  ASSUME NEW a, Sane(a)
  PROVE  LET b == Forget(a) IN
         /\ b \in App /\ b.access = a.access /\ b.saved = a.saved /\ b.user = a.user
         /\ ~b.refreshing /\ ~b.waiting /\ ~b.sending /\ ~b.watchdog /\ b.active = 0 /\ b.pending = 0
         /\ ~b.subscribed /\ b.threads = {}
         /\ b.requests = {[q EXCEPT !.stale = TRUE] : q \in {p \in a.requests : p.kind = "refresh"}}
<1> DEFINE c == StopSocket(a)
           old == {[q EXCEPT !.stale = TRUE] : q \in {p \in a.requests : p.kind = "refresh"}}
<1>1. Stopped(a, c) /\ c.threads = {}
  BY StopSocketMembers, StopSocketSane DEF Sane, Typed
<1>2. old \subseteq Request
  <2>1. \A q \in Request : [q EXCEPT !.stale = TRUE] \in Request
    BY DEF Request
  <2>2. a.requests \subseteq Request
    BY Members DEF Sane, Typed
  <2> QED BY <2>1, <2>2
<1>3. old = {[q EXCEPT !.stale = TRUE] : q \in {p \in c.requests : p.kind = "refresh"}}
  <2> HIDE DEF c
  <2>1. {p \in c.requests : p.kind = "refresh"} = {p \in a.requests : p.kind = "refresh"}
    BY <1>1 DEF Stopped
  <2> QED BY <2>1
<1>4. Forget(a) =
        [c EXCEPT !.polling = FALSE, !.refreshing = FALSE, !.waiting = FALSE, !.sending = FALSE,
                  !.pollTimer = FALSE, !.tokenTimer = FALSE, !.retryTimer = FALSE, !.requests = old]
  <2> HIDE DEF c, old
  <2>1. c \in App
    BY <1>1 DEF Stopped
  <2> QED BY <1>3, <2>1 DEF Forget, App, c
<1> HIDE DEF c, old
<1>5. c \in App
  BY <1>1 DEF Stopped
<1> DEFINE b == Forget(a)
<1>6. /\ b \in App /\ b.access = c.access /\ b.saved = c.saved /\ b.user = c.user
      /\ ~b.refreshing /\ ~b.waiting /\ ~b.sending /\ b.watchdog = c.watchdog /\ b.active = c.active
      /\ b.pending = c.pending /\ b.subscribed = c.subscribed /\ b.threads = c.threads
      /\ b.requests = old
  BY <1>2, <1>4, <1>5 DEF App
<1> HIDE DEF b
<1> QED BY <1>1, <1>6 DEF Stopped, old, b

LEMMA ForgetSane ==
  ASSUME NEW a, Sane(a)
  PROVE  Sane(Forget(a))
<1> DEFINE b == Forget(a)
           refreshes == {p \in a.requests : p.kind = "refresh"}
           mark == [q \in refreshes |-> [q EXCEPT !.stale = TRUE]]
<1>1. /\ b \in App /\ b.access = a.access /\ b.active = 0 /\ b.pending = 0
      /\ ~b.subscribed /\ b.threads = {}
      /\ b.requests = {[q EXCEPT !.stale = TRUE] : q \in refreshes}
  BY ForgetMembers
<1> HIDE DEF b
<1>2. IsFiniteSet(b.requests)
  <2>1. IsFiniteSet(refreshes)
    BY FS_Subset DEF Sane, Typed
  <2>2. mark \in [refreshes -> b.requests] /\ \A y \in b.requests : \E q \in refreshes : mark[q] = y
    <3> HIDE DEF refreshes
    <3> QED BY <1>1
  <2> HIDE DEF mark, refreshes
  <2> QED BY <2>1, <2>2, FiniteImage
<1>3. Typed(b)
  BY <1>1, <1>2, FS_EmptySet DEF Typed
<1>4. Sockets(b)
  <2>1. \A q \in b.requests : q.kind = "refresh"
    BY <1>1, Members DEF Sane, Typed, Request
  <2> QED BY <1>1, <2>1 DEF Sockets
<1>5. Asks(b)
  <2> SUFFICES ASSUME NEW q \in a.requests, q.kind = "refresh"
               PROVE  LET p == [q EXCEPT !.stale = TRUE] IN p.kind = "refresh" /\ p.token # NoToken
    BY <1>1 DEF Asks
  <2>1. q \in Request /\ q.token # NoToken
    BY Members DEF Sane, Typed, Asks
  <2> QED BY <2>1 DEF Request
<1> QED BY <1>3, <1>4, <1>5 DEF Sane, b

LEMMA ClearLoginMembers ==
  ASSUME NEW a, Sane(a)
  PROVE  LET b == ClearLogin(a) IN
         /\ Sane(b) /\ b.access = NoToken /\ b.saved = NoToken /\ b.user = 0
         /\ ~b.refreshing /\ ~b.waiting /\ ~b.sending /\ b.active = 0
         /\ b.requests = Forget(a).requests
<1> DEFINE c == Forget(a)
           b == ClearLogin(a)
<1>1. Sane(c)
  BY ForgetSane
<1>2. /\ c \in App /\ ~c.refreshing /\ ~c.waiting /\ ~c.sending /\ ~c.watchdog
      /\ c.active = 0 /\ c.pending = 0 /\ ~c.subscribed /\ c.threads = {}
      /\ \A q \in c.requests : q.kind = "refresh"
  <2>1. \A q \in c.requests : q.kind = "refresh"
    <3>1. c.requests = {[q EXCEPT !.stale = TRUE] : q \in {p \in a.requests : p.kind = "refresh"}}
      BY ForgetMembers
    <3> HIDE DEF c
    <3> QED BY <3>1, Members DEF Sane, Typed, Request
  <2> QED BY <2>1, ForgetMembers
<1>3. b = [c EXCEPT !.access = NoToken, !.saved = NoToken, !.user = 0, !.told = FALSE]
  BY DEF ClearLogin
<1> HIDE DEF c, b
<1>4. /\ b \in App /\ b.access = NoToken /\ b.saved = NoToken /\ b.user = 0
      /\ b.refreshing = c.refreshing /\ b.waiting = c.waiting /\ b.sending = c.sending
      /\ b.watchdog = c.watchdog /\ b.active = c.active /\ b.pending = c.pending
      /\ b.subscribed = c.subscribed /\ b.threads = c.threads /\ b.requests = c.requests
  BY <1>2, <1>3 DEF App, Token
<1>5. Sane(b)
  BY <1>1, <1>2, <1>4 DEF Sane, Typed, Sockets, Asks
<1> QED BY <1>2, <1>4, <1>5 DEF b, c

LEMMA PromoteSane ==
  ASSUME NEW a, Sane(a), a.pending # 0
  PROVE  Sane(Promote(a)) /\ Quiet(a, Promote(a))
<1> DEFINE b == Promote(a)
<1>1. b = [a EXCEPT !.threads = {t \in a.threads : t.id # a.active},
                    !.active = a.pending, !.pending = 0]
  BY DEF Promote, CloseWorker, Sane, Typed, App
<1> HIDE DEF b
<1>2. /\ b \in App /\ b.access = a.access /\ b.saved = a.saved /\ b.user = a.user
      /\ b.refreshing = a.refreshing /\ b.waiting = a.waiting /\ b.sending = a.sending
      /\ b.watchdog = a.watchdog /\ b.active = a.pending /\ b.pending = 0
      /\ b.threads = {t \in a.threads : t.id # a.active} /\ b.subscribed = a.subscribed
      /\ b.requests = a.requests
  BY <1>1 DEF Sane, Typed, App
<1>3. Typed(b)
  BY <1>2, FS_Subset DEF Sane, Typed
<1>4. Sockets(b)
  BY <1>2 DEF Sane, Sockets
<1> QED BY <1>2, <1>3, <1>4 DEF Sane, Asks, Quiet, b

LEMMA HandOverSane ==
  ASSUME NEW a, Sane(a), a.active # 0, posts \in Seq(Post)
  PROVE  Sane(HandOver(a)) /\ Quiet(a, HandOver(a))
<1>1. CASE a.pending # 0
  BY <1>1 DEF HandOver, Quiet
<1>2. CASE a.pending = 0
  <2> DEFINE new == NewWorker(a)
             thread == [id |-> new, at |-> "connecting"]
             b == HandOver(a)
  <2>1. new \in Nat /\ new # 0 /\ \A t \in a.threads : t.id # new
    BY NewWorkerFree DEF Sane
  <2>2. b = [a EXCEPT !.threads = a.threads \cup {thread}, !.pending = new]
    BY <1>2 DEF HandOver, LaunchSocket, Sane, Typed, App
  <2> HIDE DEF b, new
  <2>3. thread \in Thread /\ thread.id = new
    BY <2>1 DEF Thread
  <2> HIDE DEF thread
  <2>4. /\ b \in App /\ b.access = a.access /\ b.saved = a.saved /\ b.user = a.user
        /\ b.refreshing = a.refreshing /\ b.waiting = a.waiting /\ b.sending = a.sending
        /\ b.watchdog = a.watchdog /\ b.active = a.active /\ b.pending = new
        /\ b.threads = a.threads \cup {thread} /\ b.subscribed = a.subscribed
        /\ b.requests = a.requests
    BY <2>1, <2>2, <2>3 DEF Sane, Typed, App
  <2>5. Typed(b)
    BY <2>4, FS_AddElement DEF Sane, Typed
  <2>6. Sockets(b)
    <3>1. \A t \in a.threads : t.id # 0
      BY Members DEF Sane, Typed, Thread
    <3>2. \A t \in a.threads : t.id = a.active
      BY <1>2, <3>1 DEF Sane, Sockets
    <3>3. \A t \in b.threads : t = thread \/ t \in a.threads
      BY <2>4
    <3>4. \A t, u \in a.threads : t.id = u.id => t = u
      BY DEF Sane, Sockets
    <3>5. \A t, u \in b.threads : t.id = u.id => t = u
      BY <2>1, <2>3, <3>3, <3>4
    <3>6. \A t \in b.threads : t.id \in {b.active, b.pending}
      BY <2>3, <2>4, <3>2, <3>3
    <3> QED BY <2>4, <3>5, <3>6 DEF Sane, Sockets
  <2> QED BY <2>4, <2>5, <2>6 DEF Sane, Asks, Quiet, b
<1> QED BY <1>1, <1>2

\* RefreshAccessToken: a refresh is under way afterwards, and asked for at most once.
Refreshing(a, b, message, q) ==
  /\ b \in App /\ b.access = a.access /\ b.saved = a.saved /\ b.user = a.user
  /\ b.refreshing /\ b.waiting = (a.waiting \/ message) /\ b.sending = a.sending
  /\ b.watchdog = a.watchdog /\ b.active = a.active /\ b.pending = a.pending
  /\ b.tokenTimer = a.tokenTimer /\ b.retryTimer = a.retryTimer /\ b.told = a.told
  /\ b.threads = a.threads /\ b.subscribed = a.subscribed
  /\ IF a.refreshing THEN b.requests = a.requests ELSE b.requests = a.requests \cup {q}
  /\ q.kind = "refresh" /\ q.token = a.access /\ ~q.served /\ ~q.stale

LEMMA RefreshMembers ==
  ASSUME NEW a, Sane(a), a.access # NoToken, NEW message \in BOOLEAN
  PROVE  /\ \E q \in Request : Refreshing(a, RefreshAccessToken(a, message), message, q)
         /\ Sane(RefreshAccessToken(a, message))
<1> DEFINE b == [a EXCEPT !.waiting = a.waiting \/ message, !.refreshing = TRUE]
<1>1. /\ b \in App /\ b.access = a.access /\ b.saved = a.saved /\ b.user = a.user
      /\ b.refreshing /\ b.waiting = (a.waiting \/ message) /\ b.sending = a.sending
      /\ b.watchdog = a.watchdog /\ b.active = a.active /\ b.pending = a.pending
      /\ b.tokenTimer = a.tokenTimer /\ b.retryTimer = a.retryTimer /\ b.told = a.told
      /\ b.threads = a.threads /\ b.subscribed = a.subscribed /\ b.requests = a.requests
  BY DEF Sane, Typed, App
<1>2. RefreshAccessToken(a, message) = IF a.refreshing THEN b ELSE Ask(b, "refresh", FALSE)
  BY DEF RefreshAccessToken
<1> HIDE DEF b
<1>3. Sane(b)
  BY <1>1 DEF Sane, Typed, Sockets, Asks
<1>4. CASE a.refreshing
  <2> DEFINE q == [kind |-> "refresh", token |-> a.access, user |-> a.user, flag |-> FALSE,
                   served |-> FALSE, stale |-> FALSE, reply |-> 0]
  <2>1. q \in Request
    BY Members DEF Request, Kinds, Sane, Typed
  <2>2. Refreshing(a, b, message, q)
    BY <1>1, <1>4 DEF Refreshing
  <2> QED BY <1>2, <1>3, <1>4, <2>1, <2>2
<1>5. CASE ~a.refreshing
  <2> DEFINE c == Ask(b, "refresh", FALSE)
  <2>1. PICK q \in Request : Requested(b, c, q, "refresh", FALSE)
    BY <1>3, AskMembers DEF Sane, Kinds
  <2>2. Sane(c)
    BY <1>1, <1>3, AskSane DEF Kinds
  <2> HIDE DEF c
  <2>3. Refreshing(a, c, message, q)
    BY <1>1, <1>5, <2>1 DEF Requested, Refreshing, App
  <2> QED BY <1>2, <1>5, <2>2, <2>3 DEF c
<1> QED BY <1>4, <1>5

\* SendMessage: with a login and a user, a request to send.
Sending(a, b, q) ==
  /\ b \in App /\ b.access = a.access /\ b.saved = a.saved /\ b.user = a.user
  /\ b.refreshing = a.refreshing /\ b.waiting = a.waiting /\ b.sending
  /\ b.watchdog = a.watchdog /\ b.active = a.active /\ b.pending = a.pending
  /\ b.tokenTimer = a.tokenTimer /\ b.retryTimer = a.retryTimer /\ b.told = a.told
  /\ b.threads = a.threads /\ b.subscribed = a.subscribed
  /\ b.requests = a.requests \cup {q}
  /\ q.kind = "send" /\ q.token = a.access /\ ~q.served /\ ~q.stale

LEMMA SendMembers ==
  ASSUME NEW a, Sane(a), a.access # NoToken, a.user # 0, NEW retried \in BOOLEAN
  PROVE  /\ \E q \in Request : Sending(a, SendMessage(a, retried), q)
         /\ Sane(SendMessage(a, retried))
<1> DEFINE b == [a EXCEPT !.sending = TRUE]
           c == Ask(b, "send", retried)
<1>1. /\ b \in App /\ b.access = a.access /\ b.saved = a.saved /\ b.user = a.user
      /\ b.refreshing = a.refreshing /\ b.waiting = a.waiting /\ b.sending
      /\ b.watchdog = a.watchdog /\ b.active = a.active /\ b.pending = a.pending
      /\ b.tokenTimer = a.tokenTimer /\ b.retryTimer = a.retryTimer /\ b.told = a.told
      /\ b.threads = a.threads /\ b.subscribed = a.subscribed /\ b.requests = a.requests
  BY DEF Sane, Typed, App
<1>2. SendMessage(a, retried) = c
  BY DEF SendMessage
<1> HIDE DEF b
<1>3. Sane(b)
  BY <1>1 DEF Sane, Typed, Sockets, Asks
<1>4. PICK q \in Request : Requested(b, c, q, "send", retried)
  BY <1>3, AskMembers DEF Sane, Kinds
<1>5. Sane(c)
  BY <1>1, <1>3, AskSane DEF Kinds
<1> HIDE DEF c
<1>6. Sending(a, c, q)
  BY <1>1, <1>4 DEF Requested, Sending, App
<1> QED BY <1>2, <1>5, <1>6

LEMMA StartMembers ==
  ASSUME NEW saved \in Token
  PROVE  LET b == Start(saved) IN
         /\ Sane(b) /\ b.access = saved /\ b.saved = saved /\ b.active = 0
         /\ ~b.sending /\ ~b.waiting /\ ~b.refreshing
         /\ saved = NoToken => b.requests = {}
         /\ \A q \in b.requests : q.kind = "validate" /\ q.token = saved
         /\ saved # NoToken => \E q \in b.requests : q.kind = "validate" /\ q.flag
<1> DEFINE a ==
    [access |-> saved, saved |-> saved, user |-> 0, polling |-> FALSE,
     refreshing |-> FALSE, waiting |-> FALSE, sending |-> FALSE, pollTimer |-> FALSE,
     tokenTimer |-> FALSE, retryTimer |-> FALSE, watchdog |-> FALSE,
     active |-> 0, pending |-> 0, threads |-> {}, subscribed |-> FALSE, requests |-> {},
     told |-> FALSE]
           b == Start(saved)
<1>1. /\ a \in App /\ a.access = saved /\ a.saved = saved /\ a.active = 0 /\ a.pending = 0
      /\ ~a.sending /\ ~a.waiting /\ ~a.refreshing /\ ~a.subscribed
      /\ a.requests = {} /\ a.threads = {}
  BY DEF App
<1>2. b = ValidateToken(a, TRUE)
  BY DEF Start
<1> HIDE DEF a
<1>3. Sane(a)
  BY <1>1, FS_EmptySet DEF Sane, Typed, Sockets, Asks
<1>4. CASE saved = NoToken
  <2>1. b = a
    BY <1>1, <1>2, <1>4 DEF ValidateToken
  <2> HIDE DEF b
  <2> QED BY <1>1, <1>3, <1>4, <2>1 DEF b
<1>5. CASE saved # NoToken
  <2>1. b = Ask(a, "validate", TRUE)
    BY <1>1, <1>2, <1>5 DEF ValidateToken
  <2>2. PICK q \in Request : Requested(a, b, q, "validate", TRUE)
    BY <1>3, <2>1, AskMembers DEF Sane, Kinds
  <2>3. Sane(b)
    BY <1>1, <1>3, <1>5, <2>1, AskSane DEF Kinds
  <2> HIDE DEF b
  <2>4. /\ b.access = a.access /\ b.saved = a.saved /\ b.active = a.active /\ b.sending = a.sending
        /\ b.waiting = a.waiting /\ b.refreshing = a.refreshing /\ b.requests = {q}
    BY <1>1, <2>2 DEF Requested, App
  <2>5. q.kind = "validate" /\ q.flag /\ q.token = saved
    BY <1>1, <2>2 DEF Requested
  <2> QED BY <1>1, <1>5, <2>3, <2>4, <2>5 DEF b
<1> QED BY <1>4, <1>5

-----------------------------------------------------------------------------
(* The composer *)

NewRefresh(a) == \E q \in a.requests : q.kind = "refresh" /\ ~q.stale

\* The composer is blocked while its message is on its way or waits for a refresh; the
\* message that waits, and the one Twitch has not acted on, is not in the chat.
Composer(a, n) ==
  /\ n \in 0 .. 1
  /\ a.sending => a.waiting \/ \E q \in a.requests : q.kind = "send"
  /\ a.waiting => a.refreshing /\ a.sending /\ a.user # 0 /\ n = 0
  /\ a.refreshing => NewRefresh(a)
  /\ \A p, q \in a.requests : p.kind = "send" /\ q.kind = "send" => p = q
  /\ \A q \in a.requests :
       q.kind = "send" => a.sending /\ ~a.waiting /\ a.user # 0 /\ (~q.served => n = 0)

LEMMA QuietComposer ==
  ASSUME NEW a, Sane(a), NEW b, Sane(b), Quiet(a, b), NEW n, Composer(a, n)
  PROVE  Composer(b, n)
<1>1. a.requests \subseteq Request /\ b.requests \subseteq Request
  BY Members DEF Sane, Typed
<1>2. \A q \in Request : q.kind \in {"send", "refresh"} => (q \in b.requests <=> q \in a.requests)
  BY DEF Quiet
<1>3. NewRefresh(a) => NewRefresh(b)
  BY <1>1, <1>2 DEF NewRefresh
<1>4. \A q \in b.requests : q.kind = "send" => q \in a.requests
  BY <1>1, <1>2
<1>5. (\E q \in a.requests : q.kind = "send") => \E q \in b.requests : q.kind = "send"
  BY <1>1, <1>2
<1> QED BY <1>3, <1>4, <1>5 DEF Quiet, Composer

-----------------------------------------------------------------------------
(* Tokens *)

\* A token in hand is one Twitch has granted, and is not from the future.
Held(token, tw) ==
  token # NoToken => token.n <= tw[token.login].n /\ tw[token.login].age # "none"

\* The refreshes Twitch has acted on, with the token they carry.
Carried(a) == {q \in a.requests : q.kind = "refresh" /\ q.served}

\* What a refresh carries is newer than everything else of its login.
Tokens(a, tw) ==
  /\ Held(a.access, tw) /\ Held(a.saved, tw)
  /\ \A q \in a.requests : Held(q.token, tw)
  /\ \A q \in Carried(a) :
       /\ q.token.n = tw[q.token.login].n
       /\ a.access.login = q.token.login => a.access.n < q.token.n
       /\ a.saved.login = q.token.login => a.saved.n < q.token.n
       /\ \A p \in a.requests :
            p.kind = "refresh" /\ p.token.login = q.token.login =>
              p = q \/ (~p.served /\ p.token.n < q.token.n)

Unused(tw) == \A l \in Login : tw[l].age = "none" => tw[l].n = 1

\* A token can still be refreshed, or its successor is on its way, or was lost.
Works(token, a, tw, lost) ==
  token # NoToken /\ token.n # tw[token.login].n =>
    token.login \in lost \/ \E q \in Carried(a) : q.token.login = token.login

LEMMA QuietTokens ==
  ASSUME NEW a, Sane(a), NEW b, Sane(b), Quiet(a, b), NEW tw, Tokens(a, tw)
  PROVE  Tokens(b, tw) /\ Carried(b) = Carried(a)
<1>1. a.requests \subseteq Request /\ b.requests \subseteq Request
  BY Members DEF Sane, Typed
<1>2. \A q \in Request : q.kind \in {"send", "refresh"} => (q \in b.requests <=> q \in a.requests)
  BY DEF Quiet
<1>3. Carried(b) = Carried(a)
  BY <1>1, <1>2 DEF Carried
<1>4. \A p \in b.requests : p.kind = "refresh" => p \in a.requests
  BY <1>1, <1>2
<1>5. /\ b.access = a.access /\ b.saved \in {a.saved, a.access}
      /\ \A q \in b.requests : q \in a.requests \/ q.token = a.access
  BY DEF Quiet
<1> QED BY <1>3, <1>4, <1>5 DEF Tokens

-----------------------------------------------------------------------------
(* The connection *)

\* A token that Twitch refuses or will soon refuse: only a refresh helps.
Bad(token, tw) ==
  \/ token = NoToken
  \/ token.n < tw[token.login].since
  \/ tw[token.login].age \in {"revoked", "ending"}

\* A validation that starts the connection is under way or will be.
Restoring(a) ==
  a.retryTimer \/ \E q \in a.requests : q.kind = "validate" /\ q.flag

\* What brings the chat back.
Looking(a, tw) ==
  \/ Restoring(a) \/ a.active # 0
  \/ /\ Bad(a.access, tw)
     /\ a.tokenTimer \/ NewRefresh(a) \/ \E q \in a.requests : q.kind = "validate"

\* A subscription that is under way with an older token is followed by a connection
\* with the newer one, or the newer one is bad too.
Looked(a, tw) ==
  /\ a.access # NoToken /\ ~a.subscribed => a.told \/ Looking(a, tw)
  /\ \A q \in a.requests :
       q.kind = "subscribe" => q.token = a.access \/ Restoring(a) \/ Bad(a.access, tw)

\* b keeps what a does to bring the chat back.
Keeps(a, b) ==
  /\ b.access = a.access
  /\ a.subscribed => b.subscribed
  /\ a.told => b.told
  /\ a.retryTimer => b.retryTimer
  /\ a.tokenTimer => b.tokenTimer
  /\ a.active # 0 => b.active # 0
  /\ \A q \in a.requests : q.kind \in {"validate", "refresh"} /\ ~q.stale => q \in b.requests
  /\ \A q \in b.requests : q.kind = "subscribe" => q \in a.requests \/ q.token = a.access

LEMMA KeepsLooked ==
  ASSUME NEW a, Sane(a), NEW b, Sane(b), Keeps(a, b), NEW tw, Looked(a, tw)
  PROVE  Looked(b, tw)
<1>1. \A q \in a.requests : q.kind = "validate" => ~q.stale
  BY Members DEF Sane, Asks, Typed, Request
<1>2. Restoring(a) => Restoring(b)
  BY <1>1 DEF Keeps, Restoring
<1>3. NewRefresh(a) => NewRefresh(b)
  BY DEF Keeps, NewRefresh
<1>4. (\E q \in a.requests : q.kind = "validate") => \E q \in b.requests : q.kind = "validate"
  BY <1>1 DEF Keeps
<1>5. Looking(a, tw) => Looking(b, tw)
  BY <1>2, <1>3, <1>4 DEF Keeps, Looking
<1> QED BY <1>2, <1>5 DEF Keeps, Looked

\* A validation that starts the connection settles it, so does a new connection.
LEMMA RestoringLooked ==
  ASSUME NEW b, Sane(b), NEW tw, b.access # NoToken => Restoring(b)
  PROVE  Looked(b, tw)
<1>1. b.access = NoToken => \A q \in b.requests : q.kind # "subscribe"
  BY DEF Sane, Sockets
<1> QED BY <1>1 DEF Looked, Looking

LEMMA ConnectionLooked ==
  ASSUME NEW b, Sane(b), NEW tw, b.active # 0 \/ b.told \/ b.access = NoToken,
         \A q \in b.requests : q.kind # "subscribe"
  PROVE  Looked(b, tw)
BY DEF Looked, Looking

LEMMA RefreshLooked ==
  ASSUME NEW b, Sane(b), NEW tw, NewRefresh(b) \/ b.tokenTimer, Bad(b.access, tw)
  PROVE  Looked(b, tw)
BY DEF Looked, Looking

\* With no login and none saved, nothing connects and no reply does more than
\* continue the device login.
Silenced(a) ==
  /\ a.access = NoToken /\ a.saved = NoToken
  /\ \A q \in a.requests : q.stale \/ q.kind \in {"device", "poll"}

LEMMA SilencedFacts ==
  ASSUME NEW a, Sane(a), Silenced(a)
  PROVE  a.active = 0 /\ a.pending = 0 /\ a.threads = {} /\ ~a.subscribed
<1>1. a.active = 0 /\ a.pending = 0 /\ ~a.subscribed
  BY DEF Sane, Sockets, Silenced
<1>2. \A t \in a.threads : t.id # 0
  BY Members DEF Sane, Typed, Thread
<1>3. a.threads = {}
  BY <1>1, <1>2 DEF Sane, Sockets
<1> QED BY <1>1, <1>3

-----------------------------------------------------------------------------
(* The invariant *)

Rest ==
  /\ posts \in Seq(Post) /\ twitch \in [Login -> Grant]
  /\ acts \in 0 .. MaxActs /\ incidents \in 0 .. MaxIncidents
  /\ out \in BOOLEAN /\ spent \subseteq Login

Accounts ==
  /\ Composer(app, shown)
  /\ Tokens(app, twitch) /\ Unused(twitch)
  /\ Works(app.access, app, twitch, spent) /\ Works(app.saved, app, twitch, spent)

IInv == Rest /\ Sane(app) /\ Accounts /\ Looked(app, twitch) /\ (out => Silenced(app))

LEMMA InvariantHolds ==
  ASSUME IInv
  PROVE  /\ NoGhostLogin /\ NoForgottenConnection /\ SocketsAccounted
         /\ ComposerFrees /\ NotSentTwice /\ SavedLoginWorks
<1>1. NoGhostLogin
  BY SilencedFacts DEF IInv, NoGhostLogin, Silenced
<1>2. NoForgottenConnection
  <2> SUFFICES ASSUME app.access # NoToken, ~app.subscribed, ~app.told PROVE Recovering
    BY DEF NoForgottenConnection
  <2>1. Looking(app, twitch)
    BY DEF IInv, Looked
  <2>2. \A q \in app.requests : q.kind = "validate" => ~q.stale
    BY DEF IInv, Sane, Asks
  <2>3. CASE Restoring(app)
    BY <2>2, <2>3 DEF Restoring, Recovering
  <2>4. CASE app.active # 0
    BY <2>4 DEF IInv, Sane, Sockets, Recovering
  <2>5. CASE NewRefresh(app)
    BY <2>5 DEF NewRefresh, Recovering
  <2>6. CASE Bad(app.access, twitch) /\ (app.tokenTimer \/ \E q \in app.requests : q.kind = "validate")
    <3>1. app.access \in Token /\ twitch \in [Login -> Grant]
      BY Members DEF IInv, Sane, Typed, Rest
    <3>2. ~Valid(app.access) \/ twitch[app.access.login].age = "ending"
      BY <2>6, <3>1 DEF Bad, Valid, Token, Grant, NoToken
    <3> QED BY <2>2, <2>6, <3>2 DEF Recovering
  <2> QED BY <2>1, <2>3, <2>4, <2>5, <2>6 DEF Looking
<1>3. SocketsAccounted
  BY DEF IInv, Sane, Sockets, SocketsAccounted
<1>4. ComposerFrees
  <2>1. \A q \in app.requests : q.kind = "send" => ~q.stale
    BY DEF IInv, Sane, Asks
  <2> QED BY <2>1 DEF IInv, Accounts, Composer, NewRefresh, ComposerFrees
<1>5. NotSentTwice
  BY DEF IInv, Accounts, Composer, NotSentTwice
<1>6. SavedLoginWorks
  BY DEF IInv, Accounts, Works, Carried, SavedLoginWorks
<1> QED BY <1>1, <1>2, <1>3, <1>4, <1>5, <1>6

\* A step of the program that leaves composer, refreshes and tokens alone.
LEMMA QuietStep ==
  ASSUME IInv, Rest', Sane(app'), Quiet(app, app'), twitch' = twitch, shown' = shown,
         spent' = spent, Looked(app', twitch), out' => Silenced(app')
  PROVE  IInv'
<1>1. Composer(app', shown)
  BY QuietComposer DEF IInv, Accounts
<1>2. Tokens(app', twitch) /\ Carried(app') = Carried(app)
  BY QuietTokens DEF IInv, Accounts
<1>3. Works(app'.access, app', twitch, spent) /\ Works(app'.saved, app', twitch, spent)
  BY <1>2 DEF IInv, Accounts, Works, Quiet
<1> QED BY <1>1, <1>2, <1>3 DEF IInv, Accounts

-----------------------------------------------------------------------------
(* The operator *)

Stale(q) == [q EXCEPT !.stale = TRUE]

LEMMA StaleMembers ==
  ASSUME NEW q \in Request
  PROVE  /\ Stale(q).kind = q.kind /\ Stale(q).token = q.token /\ Stale(q).served = q.served
         /\ Stale(q).stale
BY DEF Stale, Request

\* BeginLogin and ClearLogin: the refreshes go on as stale ones.
Forgotten(a, b) ==
  /\ ~b.refreshing /\ ~b.waiting /\ ~b.sending
  /\ b.access \in {a.access, NoToken} /\ b.saved \in {a.saved, NoToken}
  /\ \A p \in a.requests : p.kind = "refresh" => Stale(p) \in b.requests
  /\ \A q \in b.requests :
       \/ \E p \in a.requests : p.kind = "refresh" /\ q = Stale(p)
       \/ q.kind = "device" /\ q.token = b.access

LEMMA ForgottenAccounts ==
  ASSUME IInv, NEW b, Sane(b), Forgotten(app, b)
  PROVE  /\ Composer(b, shown) /\ Tokens(b, twitch)
         /\ Works(b.access, b, twitch, spent) /\ Works(b.saved, b, twitch, spent)
<1>0. app.requests \subseteq Request /\ b.requests \subseteq Request
  BY Members DEF IInv, Sane, Typed
<1>1. \A q \in b.requests : q.kind = "send" => FALSE
  BY <1>0, StaleMembers DEF Forgotten
<1>2. Composer(b, shown)
  BY <1>1 DEF Forgotten, Composer, IInv, Accounts
<1>3. \A q \in b.requests : q.kind = "refresh" =>
        \E p \in app.requests : /\ p.kind = "refresh" /\ q = Stale(p)
                               /\ p.token = q.token /\ p.served = q.served
  BY <1>0, StaleMembers DEF Forgotten
<1>4. \A q \in b.requests : Held(q.token, twitch)
  <2>1. ASSUME NEW q \in b.requests PROVE Held(q.token, twitch)
    <3>1. CASE q.kind = "refresh"
      BY <1>3, <3>1 DEF IInv, Accounts, Tokens
    <3>2. CASE q.kind # "refresh"
      <4>1. q.token = b.access
        BY <1>0, <3>2, StaleMembers DEF Forgotten
      <4> QED BY <4>1 DEF Forgotten, IInv, Accounts, Tokens, Held
    <3> QED BY <3>1, <3>2
  <2> QED BY <2>1
<1>5. Tokens(b, twitch)
  <2>1. Held(b.access, twitch) /\ Held(b.saved, twitch)
    BY DEF Forgotten, IInv, Accounts, Tokens, Held
  <2>2. ASSUME NEW q \in Carried(b)
        PROVE  /\ q.token.n = twitch[q.token.login].n
               /\ b.access.login = q.token.login => b.access.n < q.token.n
               /\ b.saved.login = q.token.login => b.saved.n < q.token.n
    <3>1. PICK p \in Carried(app) : p.token = q.token
      BY <1>3, <2>2 DEF Carried
    <3>2. q.token.login # 0
      BY <1>0, <2>2 DEF Carried, Sane, Asks, Request, Token, Login, NoToken
    <3> QED BY <3>1, <3>2 DEF Forgotten, IInv, Accounts, Tokens, NoToken
  <2>3. ASSUME NEW q \in Carried(b), NEW r \in b.requests,
               r.kind = "refresh", r.token.login = q.token.login
        PROVE  r = q \/ (~r.served /\ r.token.n < q.token.n)
    <3>1. PICK p \in Carried(app) : p.token = q.token /\ q = Stale(p)
      BY <1>3, <2>3 DEF Carried
    <3>2. PICK s \in app.requests :
            s.kind = "refresh" /\ r = Stale(s) /\ s.token = r.token /\ s.served = r.served
      BY <1>3, <2>3
    <3>3. s = p \/ (~s.served /\ s.token.n < p.token.n)
      BY <2>3, <3>1, <3>2 DEF IInv, Accounts, Tokens
    <3> QED BY <3>1, <3>2, <3>3
  <2> QED BY <1>4, <2>1, <2>2, <2>3 DEF Tokens
<1>6. ASSUME NEW token, Works(token, app, twitch, spent)
      PROVE  Works(token, b, twitch, spent)
  <2>1. \A p \in Carried(app) : Stale(p) \in Carried(b) /\ Stale(p).token = p.token
    BY <1>0, StaleMembers DEF Forgotten, Carried
  <2> QED BY <1>6, <2>1 DEF Works
<1>7. Works(b.access, b, twitch, spent) /\ Works(b.saved, b, twitch, spent)
  BY <1>6 DEF Forgotten, IInv, Accounts, Works
<1> QED BY <1>2, <1>5, <1>7

LEMMA ForgetForgotten ==
  ASSUME NEW a, Sane(a)
  PROVE  /\ \A p \in a.requests : p.kind = "refresh" => Stale(p) \in Forget(a).requests
         /\ \A q \in Forget(a).requests : \E p \in a.requests : p.kind = "refresh" /\ q = Stale(p)
<1>1. Forget(a).requests = {Stale(q) : q \in {p \in a.requests : p.kind = "refresh"}}
  BY ForgetMembers DEF Stale
<1> QED BY <1>1

LEMMA BeginLoginStep ==
  ASSUME IInv, BeginLogin, Rest'
  PROVE  IInv'
<1> DEFINE f == Forget(app)
           a == [f EXCEPT !.told = TRUE]
           b == Ask(a, "device", FALSE)
<1>1. Sane(f)
  BY ForgetSane DEF IInv
<1>2. /\ ~f.refreshing /\ ~f.waiting /\ ~f.sending /\ f.access = app.access /\ f.saved = app.saved
      /\ \A p \in app.requests : p.kind = "refresh" => Stale(p) \in f.requests
      /\ \A q \in f.requests : \E p \in app.requests : p.kind = "refresh" /\ q = Stale(p)
  BY ForgetMembers, ForgetForgotten DEF IInv
<1> HIDE DEF f
<1>3. Flagged(f, a) /\ a.told
  BY <1>1 DEF Flagged, Sane, Typed, App
<1>4. Sane(a)
  BY <1>1, <1>3, FlaggedSane
<1> HIDE DEF a
<1>5. PICK q \in Request : Requested(a, b, q, "device", FALSE)
  BY <1>4, AskMembers DEF Sane, Kinds
<1>6. Sane(b)
  BY <1>4, AskSane DEF Kinds
<1> HIDE DEF b
<1>7. /\ b.access = a.access /\ b.saved = a.saved /\ b.told /\ b.requests = a.requests \cup {q}
      /\ ~b.refreshing /\ ~b.waiting /\ ~b.sending
      /\ q.kind = "device" /\ q.token = a.access /\ ~q.stale
  BY <1>2, <1>3, <1>4, <1>5 DEF Requested, Flagged, Sane, Typed, App
<1>8. Forgotten(app, b)
  BY <1>2, <1>3, <1>7 DEF Forgotten, Flagged
<1>9. \A r \in b.requests : r.kind # "subscribe" /\ (r.stale \/ r.kind = "device")
  <2>1. app.requests \subseteq Request
    BY Members DEF IInv, Sane, Typed
  <2>2. \A r \in f.requests : r.kind = "refresh" /\ r.stale
    BY <1>2, <2>1, StaleMembers
  <2> QED BY <1>3, <1>7, <2>2 DEF Flagged
<1>10. Looked(b, twitch)
  BY <1>6, <1>7, <1>9, ConnectionLooked
<1>11. out => Silenced(b)
  BY <1>2, <1>3, <1>7, <1>9 DEF Flagged, IInv, Silenced
<1>12. app' = b /\ UNCHANGED <<twitch, shown, out, spent>>
  BY DEF BeginLogin, b, a, f
<1> QED BY <1>6, <1>8, <1>10, <1>11, <1>12, ForgottenAccounts DEF IInv, Accounts

\* Signing out, or losing the authorisation.
LEMMA ClearLoginStep ==
  ASSUME IInv, app' = ClearLogin(app), UNCHANGED <<twitch, shown, spent>>, Rest'
  PROVE  IInv'
<1> DEFINE b == ClearLogin(app)
<1>1. /\ Sane(b) /\ b.access = NoToken /\ b.saved = NoToken /\ b.active = 0
      /\ ~b.refreshing /\ ~b.waiting /\ ~b.sending /\ b.requests = Forget(app).requests
  BY ClearLoginMembers DEF IInv
<1>2. /\ \A p \in app.requests : p.kind = "refresh" => Stale(p) \in b.requests
      /\ \A q \in b.requests : \E p \in app.requests : p.kind = "refresh" /\ q = Stale(p)
  BY <1>1, ForgetForgotten DEF IInv
<1> HIDE DEF b
<1>3. Forgotten(app, b)
  BY <1>1, <1>2 DEF Forgotten
<1>4. \A r \in b.requests : r.kind # "subscribe" /\ r.stale
  <2>1. app.requests \subseteq Request
    BY Members DEF IInv, Sane, Typed
  <2> QED BY <1>2, <2>1, StaleMembers
<1>5. Looked(b, twitch) /\ Silenced(b)
  BY <1>1, <1>4, ConnectionLooked DEF Silenced
<1> QED BY <1>1, <1>3, <1>5, ForgottenAccounts DEF IInv, Accounts, b

LEMMA ReconnectStep ==
  ASSUME IInv, Reconnect, Rest'
  PROVE  IInv'
<1> DEFINE b == StartSocket(app)
<1>1. /\ Sane(b) /\ Quiet(app, b) /\ b.active # 0
      /\ \A q \in b.requests : q.kind # "subscribe"
  BY StartSocketSane DEF Reconnect, IInv, Rest
<1>2. Looked(b, twitch)
  BY <1>1, ConnectionLooked
<1>3. ~out
  BY DEF Reconnect, IInv, Silenced
<1>4. app' = b /\ UNCHANGED <<twitch, shown, out, spent>>
  BY DEF Reconnect
<1> HIDE DEF b
<1> QED BY <1>1, <1>2, <1>3, <1>4, QuietStep

\* What a request to send adds to members that are otherwise those of a.
LEMMA SendAccounts ==
  ASSUME NEW a, Sane(a), NEW b, Sane(b), NEW q \in Request, Sending(a, b, q), NEW tw
  PROVE  /\ Tokens(a, tw) => Tokens(b, tw)
         /\ Carried(b) = Carried(a)
         /\ Looked(a, tw) => Looked(b, tw)
         /\ NewRefresh(a) => NewRefresh(b)
<1>1. Carried(b) = Carried(a)
  BY DEF Sending, Carried
<1>2. Keeps(a, b)
  BY DEF Sending, Keeps
<1>3. ASSUME Tokens(a, tw) PROVE Tokens(b, tw)
  BY <1>1, <1>3 DEF Sending, Tokens
<1>4. NewRefresh(a) => NewRefresh(b)
  BY DEF Sending, NewRefresh
<1> QED BY <1>1, <1>2, <1>3, <1>4, KeepsLooked

LEMMA SendStep ==
  ASSUME IInv, Send, Rest'
  PROVE  IInv'
<1> DEFINE b == SendMessage(app, FALSE)
<1>1. app' = b /\ shown' = 0 /\ UNCHANGED <<twitch, out, spent>> /\ ~app.sending
  BY DEF Send
<1>2. \A q \in app.requests : q.kind # "send"
  BY <1>1 DEF IInv, Accounts, Composer
<1>3. CASE app.access = NoToken \/ app.user = 0
  <2>1. app' = app
    BY <1>1, <1>3 DEF SendMessage
  <2>2. Composer(app, 0)
    BY DEF IInv, Accounts, Composer
  <2> QED BY <1>1, <2>1, <2>2 DEF IInv, Accounts
<1>4. CASE app.access # NoToken /\ app.user # 0
  <2>1. Sane(b)
    BY <1>4, SendMembers DEF IInv
  <2>2. PICK q \in Request : Sending(app, b, q)
    BY <1>4, SendMembers DEF IInv
  <2> HIDE DEF b
  <2>3. /\ Tokens(b, twitch) /\ Carried(b) = Carried(app) /\ Looked(b, twitch)
        /\ NewRefresh(app) => NewRefresh(b)
    BY <2>1, <2>2, SendAccounts DEF IInv, Accounts
  <2>4. Composer(b, 0)
    <3>1. ~app.waiting
      BY <1>1 DEF IInv, Accounts, Composer
    <3> QED BY <1>2, <1>4, <2>2, <2>3, <3>1 DEF Sending, Composer, IInv, Accounts
  <2>5. Works(b.access, b, twitch, spent) /\ Works(b.saved, b, twitch, spent)
    BY <2>2, <2>3 DEF Sending, Works, IInv, Accounts
  <2>6. ~out
    BY <1>4 DEF IInv, Silenced
  <2> QED BY <1>1, <2>1, <2>3, <2>4, <2>5, <2>6 DEF IInv, Accounts
<1> QED BY <1>3, <1>4

-----------------------------------------------------------------------------
(* Timers *)

LEMMA AskKeeps ==
  ASSUME NEW a, Sane(a), NEW kind \in Kinds, NEW flag \in BOOLEAN
  PROVE  /\ Keeps(a, Ask(a, kind, flag))
         /\ \E q \in Ask(a, kind, flag).requests : q.kind = kind /\ q.flag = flag
         /\ kind \in {"device", "poll"} /\ Silenced(a) => Silenced(Ask(a, kind, flag))
<1> DEFINE b == Ask(a, kind, flag)
<1>1. PICK q \in Request : Requested(a, b, q, kind, flag)
  BY AskMembers DEF Sane
<1> HIDE DEF b
<1>2. /\ b.requests = a.requests \cup {q} /\ b.access = a.access /\ b.saved = a.saved
      /\ b.subscribed = a.subscribed /\ b.told = a.told /\ b.retryTimer = a.retryTimer
      /\ b.tokenTimer = a.tokenTimer /\ b.active = a.active
      /\ q.kind = kind /\ q.flag = flag /\ q.token = a.access
  BY <1>1 DEF Requested, Sane, Typed, App
<1>3. Keeps(a, b)
  BY <1>2 DEF Keeps
<1>4. kind \in {"device", "poll"} /\ Silenced(a) => Silenced(b)
  BY <1>2 DEF Silenced
<1> QED BY <1>2, <1>3, <1>4 DEF b

LEMMA ValidateTokenLooked ==
  ASSUME NEW a, Sane(a), NEW restart \in BOOLEAN, NEW tw
  PROVE  /\ Looked(a, tw) => Looked(ValidateToken(a, restart), tw)
         /\ Looked(ValidateToken(a, TRUE), tw)
         /\ Bad(a.access, tw) => Looked(ValidateToken(a, restart), tw)
         /\ Silenced(a) => Silenced(ValidateToken(a, restart))
<1> DEFINE b == ValidateToken(a, restart)
           c == ValidateToken(a, TRUE)
<1>1. Sane(b) /\ Sane(c)
  BY ValidateTokenSane
<1>2. CASE a.access = NoToken
  <2>1. b = a /\ c = a
    BY <1>2 DEF ValidateToken
  <2>2. Looked(a, tw)
    BY <1>2, RestoringLooked
  <2> QED BY <2>1, <2>2
<1>3. CASE a.access # NoToken
  <2>1. b = Ask(a, "validate", restart) /\ c = Ask(a, "validate", TRUE)
    BY <1>3 DEF ValidateToken
  <2> HIDE DEF b, c
  <2>0. "validate" \in Kinds
    BY DEF Kinds
  <2>2. /\ Keeps(a, b) /\ Keeps(a, c)
        /\ \E q \in c.requests : q.kind = "validate" /\ q.flag
        /\ \E q \in b.requests : q.kind = "validate"
    <3>1. ASSUME NEW flag \in BOOLEAN
          PROVE  LET d == Ask(a, "validate", flag) IN
                 Keeps(a, d) /\ \E q \in d.requests : q.kind = "validate" /\ q.flag = flag
      BY <2>0, <3>1, AskKeeps
    <3> QED BY <2>1, <3>1
  <2>3. Looked(a, tw) => Looked(b, tw)
    BY <1>1, <2>2, KeepsLooked
  <2>4. Looked(c, tw)
    BY <1>1, <2>2, RestoringLooked DEF Restoring
  <2>5. Bad(a.access, tw) => Looked(b, tw)
    BY <2>2 DEF Keeps, Looked, Looking
  <2>6. ~Silenced(a)
    BY <1>3 DEF Silenced
  <2> QED BY <2>3, <2>4, <2>5, <2>6 DEF b, c
<1> QED BY <1>2, <1>3

LEMMA PollTimerStep ==
  ASSUME IInv, PollTimer, Rest'
  PROVE  IInv'
<1> DEFINE a == [app EXCEPT !.pollTimer = FALSE]
           b == [app EXCEPT !.pollTimer = FALSE, !.polling = TRUE]
           c == Ask(b, "poll", FALSE)
<1>1. Sane(app) /\ app \in App
  BY DEF IInv, Sane, Typed
<1>2. UNCHANGED <<twitch, shown, out, spent>> /\ (app' = a \/ app' = c)
  BY DEF PollTimer, Timer
<1>3. /\ Flagged(app, a) /\ a.told = app.told
      /\ a.retryTimer = app.retryTimer /\ a.tokenTimer = app.tokenTimer
  BY <1>1 DEF Flagged, App
<1>4. /\ Flagged(app, b) /\ b.told = app.told
      /\ b.retryTimer = app.retryTimer /\ b.tokenTimer = app.tokenTimer
  BY <1>1 DEF Flagged, App
<1> HIDE DEF a, b, c
<1>5. Sane(a) /\ Quiet(app, a) /\ Sane(b) /\ Quiet(app, b)
  BY <1>1, <1>3, <1>4, FlaggedSane
<1>6. Keeps(app, a) /\ Keeps(app, b)
  BY <1>3, <1>4 DEF Flagged, Keeps
<1>7. Looked(a, twitch) /\ Looked(b, twitch)
  BY <1>1, <1>5, <1>6, KeepsLooked DEF IInv
<1>8. out => Silenced(a) /\ Silenced(b)
  BY <1>3, <1>4 DEF Flagged, Silenced, IInv
<1>9. /\ Sane(c) /\ Quiet(b, c) /\ Keeps(b, c)
      /\ Silenced(b) => Silenced(c)
  BY <1>5, AskSane, AskQuiet, AskKeeps DEF Kinds, c
<1>10. Looked(c, twitch) /\ Quiet(app, c)
  <2>1. Looked(c, twitch)
    BY <1>5, <1>7, <1>9, KeepsLooked
  <2> QED BY <1>5, <1>9, <2>1, QuietTwice
<1>11. /\ Sane(app') /\ Quiet(app, app') /\ Looked(app', twitch) /\ (out => Silenced(app'))
  <2>1. CASE app' = a
    BY <1>2, <1>5, <1>7, <1>8, <2>1
  <2>2. CASE app' = c
    BY <1>2, <1>8, <1>9, <1>10, <2>2
  <2> QED BY <1>2, <2>1, <2>2
<1> QED BY <1>2, <1>11, QuietStep

LEMMA TokenTimerStep ==
  ASSUME IInv, TokenTimer \/ RetryTimer, Rest'
  PROVE  IInv'
<1> DEFINE a == [app EXCEPT !.tokenTimer = FALSE]
           b == [app EXCEPT !.retryTimer = FALSE]
           c == ValidateToken(a, FALSE)
           d == ValidateToken(b, TRUE)
<1>1. Sane(app) /\ app \in App
  BY DEF IInv, Sane, Typed
<1>2. UNCHANGED <<twitch, shown, out, spent>> /\ (app' = c \/ app' = d)
  BY DEF TokenTimer, RetryTimer, Timer
<1>3. /\ Flagged(app, a) /\ a.told = app.told /\ a.retryTimer = app.retryTimer
  BY <1>1 DEF Flagged, App
<1>4. Flagged(app, b)
  BY <1>1 DEF Flagged, App
<1> HIDE DEF a, b
<1>5. Sane(a) /\ Quiet(app, a) /\ Sane(b) /\ Quiet(app, b)
  BY <1>1, <1>3, <1>4, FlaggedSane
<1>6. out => Silenced(a) /\ Silenced(b)
  BY <1>3, <1>4 DEF Flagged, Silenced, IInv
<1>7. Sane(c) /\ Quiet(a, c) /\ Sane(d) /\ Quiet(b, d)
  BY <1>5, ValidateTokenSane
<1>8. /\ Looked(a, twitch) => Looked(c, twitch)
      /\ Bad(a.access, twitch) => Looked(c, twitch)
      /\ Looked(d, twitch)
      /\ Silenced(a) => Silenced(c)
      /\ Silenced(b) => Silenced(d)
  BY <1>5, ValidateTokenLooked
<1>9. Looked(c, twitch)
  <2>1. CASE Bad(a.access, twitch)
    BY <1>8, <2>1
  <2>2. CASE ~Bad(a.access, twitch)
    <3>1. Looked(a, twitch)
      BY <1>3, <2>2 DEF Flagged, IInv, Looked, Looking, Restoring
    <3> QED BY <1>8, <3>1
  <2> QED BY <2>1, <2>2
<1> HIDE DEF c, d
<1>10. /\ Sane(app') /\ Quiet(app, app') /\ Looked(app', twitch) /\ (out => Silenced(app'))
  BY <1>2, <1>5, <1>6, <1>7, <1>8, <1>9, QuietTwice
<1> QED BY <1>2, <1>10, QuietStep

\* The connections are stopped and a retry is scheduled.
LEMMA RetryLater ==
  ASSUME NEW a, Sane(a), NEW tw
  PROVE  LET b == ScheduleReconnect(StopSocket(a)) IN
         /\ Sane(b) /\ Quiet(a, b) /\ Looked(b, tw)
         /\ Silenced(a) => Silenced(b)
<1> DEFINE c == StopSocket(a)
           b == ScheduleReconnect(c)
<1>1. Sane(c) /\ Quiet(a, c) /\ Stopped(a, c)
  BY StopSocketSane, StopSocketMembers DEF Sane, Typed
<1> HIDE DEF c
<1>2. /\ Sane(b) /\ Quiet(c, b) /\ b.access = c.access /\ b.saved = c.saved
      /\ b.requests = c.requests /\ (c.access # NoToken => b.retryTimer)
  BY <1>1, ScheduleReconnectSane, ScheduleReconnectMembers
<1> HIDE DEF b
<1>3. Looked(b, tw)
  BY <1>2, RestoringLooked DEF Restoring
<1>4. Silenced(a) => Silenced(b)
  BY <1>1, <1>2 DEF Stopped, Silenced
<1>5. Quiet(a, b)
  BY <1>1, <1>2, QuietTwice
<1> QED BY <1>2, <1>3, <1>4, <1>5 DEF b, c

LEMMA WatchdogStep ==
  ASSUME IInv, Watchdog, Rest'
  PROVE  IInv'
<1> DEFINE b == ScheduleReconnect(StopSocket(app))
<1>1. /\ Sane(b) /\ Quiet(app, b) /\ Looked(b, twitch)
      /\ Silenced(app) => Silenced(b)
  BY RetryLater DEF IInv
<1>2. app' = b /\ UNCHANGED <<twitch, shown, out, spent>>
  BY DEF Watchdog, Timer
<1> HIDE DEF b
<1> QED BY <1>1, <1>2, QuietStep DEF IInv

-----------------------------------------------------------------------------
(* Twitch *)

\* A refused token stays refused, whatever Twitch does.
BadStays(tw, later) == \A token \in Token : Held(token, tw) /\ Bad(token, tw) => Bad(token, later)

LEMMA BadStaysLooked ==
  ASSUME NEW a, Sane(a), NEW tw, NEW later, BadStays(tw, later), Held(a.access, tw), Looked(a, tw)
  PROVE  Looked(a, later)
<1>1. a.access \in Token
  BY Members DEF Sane, Typed
<1>2. Bad(a.access, tw) => Bad(a.access, later)
  BY <1>1 DEF BadStays
<1>3. Looking(a, tw) => Looking(a, later)
  BY <1>2 DEF Looking
<1> QED BY <1>2, <1>3 DEF Looked

LEMMA GrantMembers ==
  ASSUME NEW g \in Grant
  PROVE  /\ g.n \in Nat /\ g.n # 0 /\ g.since \in Nat
         /\ g.age \in {"none", "fresh", "ending", "revoked"}
BY DEF Grant

LEMMA TokenMembers ==
  ASSUME NEW token \in Token
  PROVE  IF token = NoToken THEN token.login = 0 /\ token.n = 0
         ELSE token.login \in Login /\ token.n \in Nat \ {0} /\ token.login # 0
BY DEF Token, NoToken, Login

\* The reply that q will bring, once Twitch has acted on it.
Served(q, token) == [q EXCEPT !.served = TRUE, !.token = token]

LEMMA ServedMembers ==
  ASSUME NEW q \in Request, NEW token \in Token
  PROVE  LET p == Served(q, token) IN
         /\ p \in Request /\ p.kind = q.kind /\ p.token = token /\ p.user = q.user
         /\ p.flag = q.flag /\ p.served /\ p.stale = q.stale
BY DEF Served, Request

\* Of the members only the request changes.
Serves(a, b, q, p) ==
  /\ b \in App /\ b.access = a.access /\ b.saved = a.saved /\ b.user = a.user
  /\ b.refreshing = a.refreshing /\ b.waiting = a.waiting /\ b.sending = a.sending
  /\ b.watchdog = a.watchdog /\ b.active = a.active /\ b.pending = a.pending
  /\ b.tokenTimer = a.tokenTimer /\ b.retryTimer = a.retryTimer /\ b.told = a.told
  /\ b.threads = a.threads /\ b.subscribed = a.subscribed
  /\ b.requests = (a.requests \ {q}) \cup {p}

LEMMA ServeMembers ==
  ASSUME Sane(app), NEW q \in app.requests, NEW token \in Token, token # NoToken,
         q.kind \in {"refresh", "send"}, Serve(q, token)
  PROVE  Serves(app, app', q, Served(q, token)) /\ Sane(app')
<1> DEFINE p == Served(q, token)
<1>1. q \in Request
  BY Members DEF Sane, Typed
<1>2. /\ p \in Request /\ p.kind = q.kind /\ p.token = token /\ p.served /\ p.stale = q.stale
  BY <1>1, ServedMembers
<1>3. app' = [app EXCEPT !.requests = (app.requests \ {q}) \cup {p}]
  BY DEF Serve, Served, Sane, Typed, App
<1> HIDE DEF p
<1>4. Serves(app, app', q, p)
  BY <1>2, <1>3 DEF Serves, Sane, Typed, App
<1>5. IsFiniteSet(app'.requests)
  <2>1. IsFiniteSet(app.requests \ {q})
    BY FS_RemoveElement DEF Sane, Typed
  <2> QED BY <1>4, <2>1, FS_AddElement DEF Serves
<1>6. Typed(app') /\ Sockets(app')
  BY <1>2, <1>4, <1>5 DEF Serves, Sane, Typed, Sockets
<1>7. Asks(app')
  BY <1>2, <1>4 DEF Serves, Sane, Asks
<1> QED BY <1>4, <1>6, <1>7 DEF Sane, p

LEMMA ServeRefreshStep ==
  ASSUME IInv, NEW q, ServeRefresh(q), Rest'
  PROVE  IInv'
<1> DEFINE l == q.token.login
           n == twitch[l].n
           token == [q.token EXCEPT !.n = @ + 1]
           p == Served(q, token)
           b == app'
<1>1. /\ q \in app.requests /\ q.kind = "refresh" /\ ~q.served /\ q.token.n = n
      /\ twitch[l].age # "revoked" /\ Serve(q, token)
      /\ twitch' = [twitch EXCEPT ![l] = Granted(twitch[l], q.token.n + 1)]
      /\ UNCHANGED <<posts, shown, acts, incidents, out, spent>>
  BY DEF ServeRefresh, Grants
<1>2. /\ Sane(app) /\ q \in Request /\ q.token \in Token /\ q.token # NoToken
      /\ twitch \in [Login -> Grant] /\ app.requests \subseteq Request
  BY <1>1, Members DEF IInv, Sane, Typed, Asks, Request, Rest
<1>3. /\ l \in Login /\ n \in Nat \ {0} /\ twitch[l] \in Grant
      /\ token \in Token /\ token # NoToken /\ token.login = l /\ token.n = n + 1
  BY <1>1, <1>2 DEF Token, NoToken, Login
<1>4. Serves(app, b, q, p) /\ Sane(b)
  BY <1>1, <1>2, <1>3, ServeMembers
<1>5. /\ p.kind = "refresh" /\ p.token = token /\ p.served /\ p.stale = q.stale
  BY <1>1, <1>2, <1>3, ServedMembers
<1>6. /\ twitch'[l].n = n + 1 /\ twitch'[l].age = "fresh"
      /\ twitch'[l].since = IF twitch[l].age = "ending" THEN n + 1 ELSE twitch[l].since
      /\ \A m \in Login : m # l => twitch'[m] = twitch[m]
  BY <1>1, <1>2, <1>3 DEF Granted, Grant
<1> HIDE DEF token, p, l, n, b
<1>7. \A r \in Request : r.token \in Token
  BY DEF Request
<1>8. \A t \in Token : Held(t, twitch) => Held(t, twitch')
  <2> SUFFICES ASSUME NEW t \in Token, t # NoToken, Held(t, twitch)
               PROVE  t.n <= twitch'[t.login].n /\ twitch'[t.login].age # "none"
    BY DEF Held
  <2>1. t.login \in Login /\ t.n \in Nat /\ t.n <= twitch[t.login].n
    BY TokenMembers DEF Held
  <2>2. CASE t.login = l
    BY <1>3, <1>6, <2>1, <2>2 DEF n
  <2>3. CASE t.login # l
    BY <1>6, <2>1, <2>3 DEF Held
  <2> QED BY <2>2, <2>3
<1>9. \A r \in Carried(app) : r.token.login # l
  <2> SUFFICES ASSUME NEW r \in Carried(app), r.token.login = l PROVE FALSE
    OBVIOUS
  <2>1. r.token.n = n
    BY DEF IInv, Accounts, Tokens, n
  <2>2. q = r \/ q.token.n < r.token.n
    BY <1>1 DEF IInv, Accounts, Tokens, l
  <2> QED BY <1>1, <1>3, <2>1, <2>2 DEF Carried
<1>10. Carried(b) = Carried(app) \cup {p}
  BY <1>1, <1>4, <1>5 DEF Carried, Serves
<1>11. Tokens(b, twitch')
  <2>1. Held(b.access, twitch') /\ Held(b.saved, twitch')
    BY <1>4, <1>8, Members DEF Serves, IInv, Sane, Typed, Accounts, Tokens
  <2>2. ASSUME NEW r \in b.requests PROVE Held(r.token, twitch')
    <3>1. CASE r = p
      BY <1>5, <1>6, <1>3, <3>1 DEF Held
    <3>2. CASE r # p
      BY <1>2, <1>4, <1>7, <1>8, <3>2 DEF Serves, IInv, Accounts, Tokens
    <3> QED BY <3>1, <3>2
  <2>3. ASSUME NEW t \in Token, Held(t, twitch), t.login = l
        PROVE  t.n < p.token.n
    BY <1>3, <1>5, <2>3, TokenMembers DEF Held, n
  <2>4. ASSUME NEW r \in Carried(app)
        PROVE  /\ r.token.n = twitch'[r.token.login].n
               /\ b.access.login = r.token.login => b.access.n < r.token.n
               /\ b.saved.login = r.token.login => b.saved.n < r.token.n
               /\ \A s \in b.requests :
                    s.kind = "refresh" /\ s.token.login = r.token.login =>
                      s = r \/ (~s.served /\ s.token.n < r.token.n)
    <3>1. r.token.login # l /\ r.token.login \in Login
      BY <1>2, <1>9, TokenMembers, <1>7 DEF Carried, Sane, Asks
    <3>2. \A s \in b.requests : s.token.login = r.token.login => s \in app.requests
      BY <1>3, <1>4, <1>5, <3>1 DEF Serves
    <3> QED BY <1>4, <1>6, <3>1, <3>2 DEF Serves, IInv, Accounts, Tokens
  <2>5. /\ p.token.n = twitch'[p.token.login].n
        /\ b.access.login = p.token.login => b.access.n < p.token.n
        /\ b.saved.login = p.token.login => b.saved.n < p.token.n
    <3>1. app.access \in Token /\ app.saved \in Token
      BY <1>2, Members DEF Sane, Typed
    <3> QED BY <1>3, <1>4, <1>5, <1>6, <2>3, <3>1 DEF Serves, IInv, Accounts, Tokens
  <2>6. ASSUME NEW s \in b.requests, s.kind = "refresh", s.token.login = p.token.login
        PROVE  s = p \/ (~s.served /\ s.token.n < p.token.n)
    <3>1. s = p \/ s \in app.requests
      BY <1>4 DEF Serves
    <3>2. CASE s \in app.requests
      <4>1. ~s.served
        BY <1>3, <1>5, <1>9, <2>6, <3>2 DEF Carried
      <4>2. s.token \in Token /\ Held(s.token, twitch)
        BY <1>2, <1>7, <3>2 DEF IInv, Accounts, Tokens
      <4> QED BY <1>3, <1>5, <2>3, <2>6, <4>1, <4>2
    <3> QED BY <3>1, <3>2
  <2> QED BY <1>10, <2>1, <2>2, <2>4, <2>5, <2>6 DEF Tokens
<1>12. ASSUME NEW t \in Token, Works(t, app, twitch, spent)
       PROVE  Works(t, b, twitch', spent)
  BY <1>3, <1>5, <1>6, <1>10, <1>12, TokenMembers DEF Works
<1>13. Composer(b, shown)
  <2>1. NewRefresh(app) => NewRefresh(b)
    BY <1>4, <1>5 DEF NewRefresh, Serves
  <2>2. \A r \in Request : r.kind = "send" => (r \in b.requests <=> r \in app.requests)
    BY <1>1, <1>4, <1>5 DEF Serves
  <2>3. b.requests \subseteq Request
    BY <1>4, Members DEF Sane, Typed
  <2> QED BY <1>2, <1>4, <2>1, <2>2, <2>3 DEF Composer, IInv, Accounts, Serves
<1>14. Looked(b, twitch')
  <2>1. BadStays(twitch, twitch')
    <3> SUFFICES ASSUME NEW t \in Token, Held(t, twitch), Bad(t, twitch), t # NoToken
                 PROVE  Bad(t, twitch')
      BY DEF BadStays, Bad
    <3>1. t.login \in Login /\ t.n \in Nat
      BY TokenMembers
    <3>2. CASE t.login = l
      BY <1>1, <1>3, <1>6, <3>1, <3>2 DEF Held, Bad, n
    <3>3. CASE t.login # l
      BY <1>6, <3>1, <3>3 DEF Bad
    <3> QED BY <3>2, <3>3
  <2>2. Looked(b, twitch)
    <3>1. Restoring(app) => Restoring(b)
      BY <1>1, <1>4 DEF Serves, Restoring
    <3>2. NewRefresh(app) => NewRefresh(b)
      BY <1>4, <1>5 DEF NewRefresh, Serves
    <3>3. (\E r \in app.requests : r.kind = "validate") => \E r \in b.requests : r.kind = "validate"
      BY <1>1, <1>4 DEF Serves
    <3>4. \A r \in b.requests : r.kind = "subscribe" => r \in app.requests
      BY <1>4, <1>5 DEF Serves
    <3>5. Looking(app, twitch) => Looking(b, twitch)
      BY <1>4, <3>1, <3>2, <3>3 DEF Looking, Serves
    <3> QED BY <1>4, <3>1, <3>4, <3>5 DEF IInv, Looked, Serves
  <2> QED BY <1>4, <2>1, <2>2, BadStaysLooked DEF IInv, Accounts, Tokens, Serves
<1>15. out => Silenced(b)
  BY <1>1, <1>4, <1>5 DEF IInv, Silenced, Serves
<1>16. Unused(twitch')
  BY <1>6 DEF Unused, IInv, Accounts
<1>17. Works(b.access, b, twitch', spent) /\ Works(b.saved, b, twitch', spent)
  BY <1>2, <1>4, <1>12, Members DEF Serves, IInv, Accounts, Sane, Typed
<1> QED BY <1>1, <1>4, <1>11, <1>13, <1>14, <1>15, <1>16, <1>17 DEF IInv, Accounts, b

LEMMA ServeMessageStep ==
  ASSUME IInv, NEW q, ServeMessage(q), Rest'
  PROVE  IInv'
<1> DEFINE p == Served(q, q.token)
           b == app'
<1>1. /\ q \in app.requests /\ q.kind = "send" /\ ~q.served /\ Serve(q, q.token)
      /\ shown' = shown + 1 /\ UNCHANGED <<twitch, out, spent>>
  BY DEF ServeMessage
<1>2. /\ Sane(app) /\ q \in Request /\ q.token \in Token /\ q.token # NoToken /\ ~q.stale
  BY <1>1, Members DEF IInv, Sane, Typed, Asks, Request
<1>3. Serves(app, b, q, p) /\ Sane(b)
  BY <1>1, <1>2, ServeMembers
<1>4. /\ p.kind = "send" /\ p.token = q.token /\ p.served /\ ~p.stale
  BY <1>1, <1>2, ServedMembers
<1> HIDE DEF p, b
<1>5. Carried(b) = Carried(app)
  BY <1>1, <1>3, <1>4 DEF Serves, Carried
<1>6. Tokens(b, twitch)
  BY <1>1, <1>3, <1>4, <1>5 DEF Serves, Tokens, IInv, Accounts
<1>7. Composer(b, shown + 1)
  <2>1. shown = 0 /\ ~app.waiting /\ app.sending /\ app.user # 0
    BY <1>1 DEF IInv, Accounts, Composer
  <2>2. \A r \in b.requests : r.kind = "send" => r = p
    BY <1>1, <1>3 DEF Serves, IInv, Accounts, Composer
  <2>3. NewRefresh(app) => NewRefresh(b)
    BY <1>1, <1>3 DEF NewRefresh, Serves
  <2>4. p \in b.requests
    BY <1>3 DEF Serves
  <2> QED BY <1>3, <1>4, <2>1, <2>2, <2>3, <2>4 DEF Serves, Composer, IInv, Accounts
<1>8. Looked(b, twitch)
  <2>1. Keeps(app, b)
    BY <1>1, <1>3, <1>4 DEF Serves, Keeps
  <2> QED BY <1>2, <1>3, <2>1, KeepsLooked DEF IInv
<1>9. ~out
  BY <1>1, <1>2 DEF IInv, Silenced
<1>10. Works(b.access, b, twitch, spent) /\ Works(b.saved, b, twitch, spent)
  BY <1>3, <1>5 DEF Serves, Works, IInv, Accounts
<1> QED BY <1>1, <1>3, <1>6, <1>7, <1>8, <1>9, <1>10 DEF IInv, Accounts, b

\* Twitch lets a token age, or revokes a login.
Ages(l) ==
  /\ \A m \in Login : twitch'[m].n = twitch[m].n
  /\ \A m \in Login : m # l => twitch'[m] = twitch[m]
  /\ twitch[l].age # "none" /\ twitch'[l].age \in {"ending", "revoked"}

LEMMA AgesStep ==
  ASSUME IInv, NEW b, Sane(b), Tokens(b, twitch), Looked(b, twitch), NEW l \in Login, Ages(l)
  PROVE  Tokens(b, twitch') /\ Looked(b, twitch') /\ Unused(twitch')
<1>1. \A t \in Token : Held(t, twitch) => Held(t, twitch')
  BY TokenMembers DEF Held, Ages
<1>2. b.requests \subseteq Request /\ b.access \in Token /\ b.saved \in Token
  BY Members DEF Sane, Typed
<1>3. \A r \in Request : r.token \in Token
  BY DEF Request
<1>4. \A q \in Carried(b) : q.token.login \in Login
  BY <1>2, <1>3, TokenMembers DEF Carried, Sane, Asks
<1>5. Tokens(b, twitch')
  BY <1>1, <1>2, <1>3, <1>4 DEF Tokens, Ages
<1>6. BadStays(twitch, twitch')
  BY TokenMembers DEF BadStays, Bad, Ages
<1>7. Unused(twitch')
  BY DEF Unused, Ages, IInv, Accounts
<1> QED BY <1>5, <1>6, <1>7, BadStaysLooked DEF Tokens

LEMMA AgesWorks ==
  ASSUME NEW b, NEW token \in Token, NEW l \in Login, Ages(l), Works(token, b, twitch, spent)
  PROVE  Works(token, b, twitch', spent)
BY TokenMembers DEF Works, Ages

LEMMA AgeStep ==
  ASSUME IInv, Age, Rest'
  PROVE  IInv'
<1>1. PICK l \in Login :
        \/ /\ twitch[l].age = "fresh"
           /\ twitch' = [twitch EXCEPT ![l].age = "ending"]
        \/ /\ twitch[l].age = "ending"
           /\ twitch' = [twitch EXCEPT ![l].since = twitch[l].n + 1]
  BY DEF Age
<1>2. UNCHANGED <<app, shown, out, spent>>
  BY DEF Age
<1>3. Ages(l)
  <2>1. twitch \in [Login -> Grant] /\ twitch[l] \in Grant
    BY DEF IInv, Rest
  <2> QED BY <1>1, <2>1 DEF Ages, Grant
<1>4. Tokens(app, twitch') /\ Looked(app, twitch') /\ Unused(twitch')
  BY <1>3, AgesStep DEF IInv, Accounts
<1>5. Works(app.access, app, twitch', spent) /\ Works(app.saved, app, twitch', spent)
  BY <1>3, AgesWorks, Members DEF IInv, Sane, Typed, Accounts
<1> QED BY <1>2, <1>4, <1>5 DEF IInv, Accounts

-----------------------------------------------------------------------------
(* Replies *)

\* A reply that is handled: Twitch's verdict, or the request has failed.
Answers(q, answer) ==
  /\ q \in app.requests /\ ~q.stale /\ shown' = shown
  /\ \/ answer \in Verdict(q) /\ spent' = spent
     \/ answer = "failed" /\ spent' = spent \cup Lost(q)

LEMMA RequestMembers ==
  ASSUME Sane(app), NEW q \in app.requests
  PROVE  /\ q \in Request /\ q.kind \in Kinds /\ q.token \in Token /\ q.flag \in BOOLEAN
         /\ q.kind \notin {"device", "poll"} => q.token # NoToken /\ q.token.login \in Login
BY Members, TokenMembers DEF Sane, Typed, Asks, Request

\* A refresh that is dropped, refused or lost.
LEMMA RefreshGone ==
  ASSUME IInv, NEW q \in app.requests, q.kind = "refresh", NEW lost, lost = spent \cup Lost(q)
  PROVE  /\ Tokens(Handled(q), twitch)
         /\ Works(app.access, Handled(q), twitch, lost) /\ Works(app.saved, Handled(q), twitch, lost)
<1> DEFINE b == Handled(q)
<1>1. b.requests = app.requests \ {q} /\ b.access = app.access /\ b.saved = app.saved
  BY HandledMembers DEF IInv, Sane, Typed
<1> HIDE DEF b
<1>2. Carried(b) = Carried(app) \ {q}
  BY <1>1 DEF Carried
<1>3. Tokens(b, twitch)
  BY <1>1, <1>2 DEF IInv, Accounts, Tokens
<1>4. ASSUME NEW token, Works(token, app, twitch, spent) PROVE Works(token, b, twitch, lost)
  BY <1>2, <1>4 DEF Works, Lost, Carried
<1> QED BY <1>3, <1>4 DEF b, IInv, Accounts

LEMMA DropReplyStep ==
  ASSUME IInv, NEW q \in app.requests, DropReply(q), shown' = shown, Rest'
  PROVE  IInv'
<1> DEFINE b == Handled(q)
<1>1. q.kind = "refresh" /\ q.stale /\ app' = b /\ spent' = spent \cup Lost(q) /\ UNCHANGED <<twitch, out>>
  BY DEF DropReply, IInv, Sane, Asks
<1>2. /\ Tokens(b, twitch)
      /\ Works(app.access, b, twitch, spent') /\ Works(app.saved, b, twitch, spent')
  BY <1>1, RefreshGone
<1>3. /\ Sane(b) /\ b.requests = app.requests \ {q} /\ b.access = app.access /\ b.saved = app.saved
      /\ b.user = app.user /\ b.refreshing = app.refreshing /\ b.waiting = app.waiting
      /\ b.sending = app.sending /\ b.tokenTimer = app.tokenTimer /\ b.active = app.active
      /\ b.retryTimer = app.retryTimer /\ b.told = app.told /\ b.subscribed = app.subscribed
  BY HandledMembers, HandledSane DEF IInv, Sane, Typed
<1> HIDE DEF b
<1>4. Composer(b, shown)
  <2>1. NewRefresh(app) => NewRefresh(b)
    BY <1>1, <1>3 DEF NewRefresh
  <2>2. \A r : r.kind = "send" => (r \in b.requests <=> r \in app.requests)
    BY <1>1, <1>3
  <2> QED BY <1>3, <2>1, <2>2 DEF Composer, IInv, Accounts
<1>5. Looked(b, twitch)
  <2>1. Keeps(app, b)
    BY <1>1, <1>3 DEF Keeps
  <2> QED BY <1>3, <2>1, KeepsLooked DEF IInv
<1>6. out => Silenced(b)
  BY <1>3 DEF Silenced, IInv
<1> QED BY <1>1, <1>2, <1>3, <1>4, <1>5, <1>6 DEF IInv, Accounts

LEMMA DeviceReplyStep ==
  ASSUME IInv, NEW q, NEW answer, Answers(q, answer), DeviceReply(q, answer), Rest'
  PROVE  IInv'
<1> DEFINE a == Handled(q)
           b == [a EXCEPT !.pollTimer = (answer = "ok")]
<1>1. /\ q \in app.requests /\ q.kind = "device" /\ app' = b /\ UNCHANGED <<twitch, out, shown, spent>>
  BY DEF DeviceReply, Answers, Lost
<1>2. /\ Sane(a) /\ Quiet(app, a) /\ a.requests = app.requests \ {q} /\ a.access = app.access
      /\ a.saved = app.saved /\ a.tokenTimer = app.tokenTimer /\ a.active = app.active
      /\ a.retryTimer = app.retryTimer /\ a.told = app.told /\ a.subscribed = app.subscribed
  BY <1>1, HandledMembers, HandledSane DEF IInv, Sane, Typed
<1> HIDE DEF a
<1>3. /\ Flagged(a, b) /\ b.tokenTimer = a.tokenTimer /\ b.retryTimer = a.retryTimer
      /\ b.told = a.told
  BY <1>2 DEF Flagged, Sane, Typed, App
<1> HIDE DEF b
<1>4. Sane(b) /\ Quiet(app, b)
  BY <1>2, <1>3, FlaggedSane, QuietTwice
<1>5. Keeps(app, b)
  BY <1>1, <1>2, <1>3 DEF Flagged, Keeps
<1>6. Looked(b, twitch)
  BY <1>4, <1>5, KeepsLooked DEF IInv
<1>7. out => Silenced(b)
  BY <1>2, <1>3 DEF Flagged, Silenced, IInv
<1> QED BY <1>1, <1>4, <1>6, <1>7, QuietStep

LEMMA NewLoginExists ==
  ASSUME \E l \in Login : twitch[l].age = "none"
  PROVE  NewLogin \in Login /\ twitch[NewLogin].age = "none"
<1> DEFINE S == {l \in Login : twitch[l].age = "none"}
<1>1. S \subseteq Nat /\ S # {}
  BY DEF Login
<1>2. PICK l \in S : Least(l, S)
  <2> HIDE DEF S
  <2> QED BY <1>1, LeastExists
<1>3. \A k \in 1 .. l - 1 : k \in Login /\ twitch[k].age # "none"
  BY <1>2, BoundAssumption DEF Least, Login
<1> QED BY <1>2, <1>3 DEF NewLogin

\* A login is granted that nobody has a token of, and it is used from now on.
LEMMA LoggedInStep ==
  ASSUME IInv, NEW q \in app.requests, q.kind = "poll", NewLogin \in Login,
         twitch[NewLogin].age = "none", twitch' = [twitch EXCEPT ![NewLogin].age = "fresh"],
         app' = ValidateToken(
           [UseToken([Handled(q) EXCEPT !.polling = FALSE], [login |-> NewLogin, n |-> 1])
              EXCEPT !.told = FALSE], TRUE),
         ~out', UNCHANGED <<shown, spent>>, Rest'
  PROVE  IInv'
<1> DEFINE token == [login |-> NewLogin, n |-> 1]
           h == Handled(q)
           a == [h EXCEPT !.polling = FALSE]
           u == UseToken(a, token)
           t == [u EXCEPT !.told = FALSE]
           b == ValidateToken(t, TRUE)
<1>1. token \in Token /\ token # NoToken /\ token.n = 1 /\ token.login = NewLogin
  BY DEF Token, NoToken, Login
<1>2. /\ Sane(h) /\ Quiet(app, h) /\ h.requests = app.requests \ {q}
  BY HandledMembers, HandledSane DEF IInv, Sane, Typed
<1> HIDE DEF h, token
<1>3. Flagged(h, a)
  BY <1>2 DEF Flagged, Sane, Typed, App
<1>4. Sane(a) /\ Quiet(app, a)
  BY <1>2, <1>3, FlaggedSane, QuietTwice
<1> HIDE DEF a
<1>5. /\ Sane(u) /\ u.access = token /\ u.saved = a.saved /\ u.user = a.user
      /\ u.refreshing = a.refreshing /\ u.waiting = a.waiting /\ u.sending = a.sending
      /\ u.requests = {r \in a.requests : r.kind # "validate" \/ r.token = token}
  BY <1>1, <1>4, UseTokenSane, UseTokenMembers DEF Sane, Typed
<1> HIDE DEF u
<1>6. Flagged(u, t)
  BY <1>5 DEF Flagged, Sane, Typed, App
<1>7. Sane(t) /\ Quiet(u, t)
  BY <1>5, <1>6, FlaggedSane
<1> HIDE DEF t
<1>8. Sane(b) /\ Quiet(u, b) /\ Looked(b, twitch')
  BY <1>7, ValidateTokenSane, ValidateTokenLooked, QuietTwice
<1> HIDE DEF b
<1>9. Composer(b, shown)
  <2>1. Composer(a, shown)
    BY <1>4, QuietComposer DEF IInv, Accounts
  <2>2. NewRefresh(a) => NewRefresh(u)
    BY <1>5 DEF NewRefresh
  <2>3. Composer(u, shown)
    BY <1>5, <2>1, <2>2 DEF Composer
  <2> QED BY <1>5, <1>8, <2>3, QuietComposer
<1>10. Tokens(a, twitch) /\ Carried(a) = Carried(app)
  BY <1>4, QuietTokens DEF IInv, Accounts
<1>11. twitch \in [Login -> Grant]
  BY DEF IInv, Rest
<1>12. /\ \A l \in Login : twitch'[l].n = twitch[l].n
       /\ \A l \in Login : l # NewLogin => twitch'[l] = twitch[l]
       /\ twitch'[NewLogin].age = "fresh" /\ twitch[NewLogin].n = 1
  BY <1>11 DEF Grant, IInv, Accounts, Unused
<1>13. \A x \in Token : Held(x, twitch) => x.login # NewLogin \/ x = NoToken
  BY DEF Held
<1>14. \A x \in Token : Held(x, twitch) => Held(x, twitch')
  BY <1>12, TokenMembers DEF Held
<1>15. /\ a.requests \subseteq Request /\ a.saved \in Token /\ \A r \in Request : r.token \in Token
  BY <1>4, Members DEF Sane, Typed, Request
<1>16. Carried(u) = Carried(app)
  BY <1>5, <1>10 DEF Carried
<1>17. \A r \in Carried(app) : r.token.login \in Login /\ r.token.login # NewLogin
  BY <1>10, <1>13, <1>15, TokenMembers DEF Tokens, Carried, IInv, Sane, Asks
<1>18. Tokens(u, twitch')
  <2>1. Held(u.access, twitch') /\ Held(u.saved, twitch')
    BY <1>1, <1>5, <1>10, <1>12, <1>14, <1>15 DEF Tokens, Held
  <2>2. \A r \in u.requests : Held(r.token, twitch')
    BY <1>5, <1>10, <1>14, <1>15 DEF Tokens
  <2>3. ASSUME NEW r \in Carried(u)
        PROVE  /\ r.token.n = twitch'[r.token.login].n
               /\ u.access.login # r.token.login
               /\ u.saved.login = r.token.login => u.saved.n < r.token.n
               /\ \A p \in u.requests :
                    p.kind = "refresh" /\ p.token.login = r.token.login =>
                      p = r \/ (~p.served /\ p.token.n < r.token.n)
    BY <1>1, <1>5, <1>10, <1>12, <1>16, <1>17, <2>3 DEF Tokens
  <2> QED BY <2>1, <2>2, <2>3 DEF Tokens
<1>19. Tokens(b, twitch') /\ Carried(b) = Carried(app)
  BY <1>5, <1>8, <1>16, <1>18, QuietTokens
<1>20. Works(token, b, twitch', spent)
  BY <1>1, <1>12 DEF Works
<1>21. Works(app.access, b, twitch', spent) /\ Works(app.saved, b, twitch', spent)
  <2>1. app.access \in Token /\ app.saved \in Token
    BY Members DEF IInv, Sane, Typed
  <2> QED BY <1>12, <1>19, <2>1, TokenMembers DEF Works, IInv, Accounts
<1>22. b.access = token /\ b.saved \in {app.saved, app.access, token}
  BY <1>4, <1>5, <1>8 DEF Quiet
<1>23. Unused(twitch')
  BY <1>12 DEF Unused, IInv, Accounts
<1>24. app' = b
  BY DEF b, t, u, a, h, token
<1> QED BY <1>8, <1>9, <1>19, <1>20, <1>21, <1>22, <1>23, <1>24 DEF IInv, Accounts

LEMMA PollReplyStep ==
  ASSUME IInv, NEW q, NEW answer, Answers(q, answer), PollReply(q, answer), Rest'
  PROVE  IInv'
<1> DEFINE h == Handled(q)
           a == [h EXCEPT !.polling = FALSE]
           b == [a EXCEPT !.pollTimer = (answer = "pending")]
<1>1. q \in app.requests /\ q.kind = "poll" /\ UNCHANGED <<shown, spent>>
  BY DEF PollReply, Answers, Lost
<1>2. CASE answer = "ok"
  <2>1. \E l \in Login : twitch[l].age = "none"
    BY <1>1, <1>2 DEF Answers, Verdict
  <2>2. NewLogin \in Login /\ twitch[NewLogin].age = "none"
    BY <2>1, NewLoginExists
  <2>3. /\ app' = ValidateToken(
             [UseToken([Handled(q) EXCEPT !.polling = FALSE], [login |-> NewLogin, n |-> 1])
                EXCEPT !.told = FALSE], TRUE)
        /\ twitch' = [twitch EXCEPT ![NewLogin].age = "fresh"] /\ ~out'
    BY <1>2 DEF PollReply
  <2> QED BY <1>1, <2>2, <2>3, LoggedInStep
<1>3. CASE answer # "ok"
  <2>1. app' = b /\ UNCHANGED <<twitch, out>>
    BY <1>3 DEF PollReply
  <2>2. /\ Sane(h) /\ Quiet(app, h) /\ h.requests = app.requests \ {q} /\ h.access = app.access
        /\ h.saved = app.saved /\ h.tokenTimer = app.tokenTimer /\ h.active = app.active
        /\ h.retryTimer = app.retryTimer /\ h.told = app.told /\ h.subscribed = app.subscribed
    BY <1>1, HandledMembers, HandledSane DEF IInv, Sane, Typed
  <2> HIDE DEF h
  <2>3. /\ Flagged(h, b) /\ b.tokenTimer = h.tokenTimer /\ b.retryTimer = h.retryTimer
        /\ b.told = h.told
    BY <2>2 DEF Flagged, Sane, Typed, App
  <2> HIDE DEF b
  <2>4. Sane(b) /\ Quiet(app, b)
    BY <2>2, <2>3, FlaggedSane, QuietTwice
  <2>5. Keeps(app, b)
    BY <1>1, <2>2, <2>3 DEF Flagged, Keeps
  <2>6. Looked(b, twitch)
    BY <2>4, <2>5, KeepsLooked DEF IInv
  <2>7. out => Silenced(b)
    BY <2>2, <2>3 DEF Flagged, Silenced, IInv
  <2> QED BY <1>1, <2>1, <2>4, <2>6, <2>7, QuietStep
<1> QED BY <1>2, <1>3

\* What asking for a refresh adds to members that are otherwise those of a.
LEMMA RefreshAccounts ==
  ASSUME NEW a, Sane(a), NEW b, Sane(b), NEW q \in Request, NEW message \in BOOLEAN,
         Refreshing(a, b, message, q), NEW tw, Tokens(a, tw), a.refreshing => NewRefresh(a)
  PROVE  /\ Tokens(b, tw) /\ Carried(b) = Carried(a) /\ NewRefresh(b)
         /\ \A n : Composer(a, n) /\ ~message => Composer(b, n)
<1>1. \A r \in b.requests : r \in a.requests \/ r = q
  BY DEF Refreshing
<1>2. Carried(b) = Carried(a)
  BY DEF Carried, Refreshing
<1>3. NewRefresh(b)
  BY DEF NewRefresh, Refreshing
<1>4. Tokens(b, tw)
  <2>1. Held(b.access, tw) /\ Held(b.saved, tw) /\ \A r \in b.requests : Held(r.token, tw)
    BY <1>1 DEF Tokens, Refreshing
  <2>2. ASSUME NEW r \in Carried(b)
        PROVE  /\ r.token.n = tw[r.token.login].n
               /\ b.access.login = r.token.login => b.access.n < r.token.n
               /\ b.saved.login = r.token.login => b.saved.n < r.token.n
               /\ \A p \in b.requests :
                    p.kind = "refresh" /\ p.token.login = r.token.login =>
                      p = r \/ (~p.served /\ p.token.n < r.token.n)
    BY <1>1, <1>2, <2>2 DEF Tokens, Refreshing
  <2> QED BY <2>1, <2>2 DEF Tokens
<1>5. \A n : Composer(a, n) /\ ~message => Composer(b, n)
  <2>1. \A r : r.kind = "send" => (r \in b.requests <=> r \in a.requests)
    BY DEF Refreshing
  <2> QED BY <1>3, <2>1 DEF Composer, Refreshing
<1> QED BY <1>2, <1>3, <1>4, <1>5

\* A request is answered: what the reply takes out changes no token.
LEMMA HandledAccounts ==
  ASSUME IInv, NEW q \in app.requests, q.kind # "refresh"
  PROVE  /\ Tokens(Handled(q), twitch) /\ Carried(Handled(q)) = Carried(app)
         /\ NewRefresh(app) => NewRefresh(Handled(q))
<1> DEFINE h == Handled(q)
<1>1. h.requests = app.requests \ {q} /\ h.access = app.access /\ h.saved = app.saved
  BY HandledMembers DEF IInv, Sane, Typed
<1> HIDE DEF h
<1>2. Carried(h) = Carried(app)
  BY <1>1 DEF Carried
<1>3. Tokens(h, twitch)
  BY <1>1, <1>2 DEF Tokens, IInv, Accounts
<1>4. NewRefresh(app) => NewRefresh(h)
  BY <1>1 DEF NewRefresh
<1> QED BY <1>2, <1>3, <1>4 DEF h

LEMMA SubscribeReplyStep ==
  ASSUME IInv, NEW q, NEW answer, Answers(q, answer), SubscribeReply(q, answer), Rest'
  PROVE  IInv'
<1> DEFINE h == Handled(q)
           s == StopSocket(h)
<1>1. q \in app.requests /\ q.kind = "subscribe" /\ ~q.stale /\ UNCHANGED <<twitch, out, shown, spent>>
  BY DEF SubscribeReply, Answers, Lost
<1>2. ~out /\ app.active # 0 /\ app.access # NoToken
  BY <1>1 DEF IInv, Silenced, Sane, Sockets
<1>3. /\ Sane(h) /\ Quiet(app, h) /\ h.requests = app.requests \ {q} /\ h.access = app.access
      /\ h.tokenTimer = app.tokenTimer /\ h.active = app.active
      /\ h.retryTimer = app.retryTimer /\ h.told = app.told /\ h.subscribed = app.subscribed
  BY <1>1, HandledMembers, HandledSane DEF IInv, Sane, Typed
<1> HIDE DEF h
<1>4. Sane(s) /\ Quiet(h, s) /\ Stopped(h, s)
  BY <1>3, StopSocketSane, StopSocketMembers DEF Sane, Typed
<1> HIDE DEF s
<1>5. CASE answer = "ok"
  <2> DEFINE b == [h EXCEPT !.subscribed = TRUE]
  <2>1. /\ b \in App /\ b.access = h.access /\ b.saved = h.saved /\ b.user = h.user
        /\ b.refreshing = h.refreshing /\ b.waiting = h.waiting /\ b.sending = h.sending
        /\ b.watchdog = h.watchdog /\ b.active = h.active /\ b.pending = h.pending
        /\ b.threads = h.threads /\ b.subscribed /\ b.requests = h.requests
        /\ b.tokenTimer = h.tokenTimer /\ b.retryTimer = h.retryTimer /\ b.told = h.told
    BY <1>3 DEF Sane, Typed, App
  <2>2. app' = b
    BY <1>5 DEF SubscribeReply, h
  <2> HIDE DEF b
  <2>3. Sane(b)
    BY <1>2, <1>3, <2>1 DEF Sane, Typed, Sockets, Asks
  <2>4. Quiet(h, b)
    BY <2>1 DEF Quiet
  <2>5. Keeps(app, b)
    BY <1>1, <1>3, <2>1 DEF Keeps
  <2>6. Looked(b, twitch)
    BY <2>3, <2>5, KeepsLooked DEF IInv
  <2> QED BY <1>1, <1>2, <1>3, <2>2, <2>3, <2>4, <2>6, QuietTwice, QuietStep
<1>6. CASE answer = "401"
  <2> DEFINE b == RefreshAccessToken(s, FALSE)
  <2>1. s.access = app.access
    BY <1>3, <1>4 DEF Stopped
  <2>2. Sane(b) /\ \E r \in Request : Refreshing(s, b, FALSE, r)
    BY <1>2, <1>4, <2>1, RefreshMembers
  <2>3. app' = b
    BY <1>6 DEF SubscribeReply, s, h
  <2> HIDE DEF b
  <2>4. PICK r \in Request : Refreshing(s, b, FALSE, r)
    BY <2>2
  <2>5. Composer(s, shown) /\ Tokens(s, twitch) /\ Carried(s) = Carried(app)
    BY <1>3, <1>4, QuietTwice, QuietComposer, QuietTokens DEF IInv, Accounts
  <2>6. s.refreshing => NewRefresh(s)
    BY <2>5 DEF Composer
  <2>7. Tokens(b, twitch) /\ Carried(b) = Carried(app) /\ NewRefresh(b) /\ Composer(b, shown)
    BY <1>4, <2>2, <2>4, <2>5, <2>6, RefreshAccounts
  <2>8. b.access = app.access /\ b.saved \in {app.saved, app.access}
    BY <1>3, <1>4, <2>1, <2>4 DEF Refreshing, Quiet, Stopped
  <2>9. Looked(b, twitch)
    <3>1. q.token = app.access \/ Restoring(app) \/ Bad(app.access, twitch)
      BY <1>1 DEF IInv, Looked
    <3>2. ~Valid(q.token)
      BY <1>1, <1>6 DEF Answers, Verdict
    <3>3. q.token = app.access => Bad(app.access, twitch)
      <4>1. app.access \in Token /\ twitch \in [Login -> Grant]
        BY Members DEF IInv, Sane, Typed, Rest
      <4> QED BY <3>2, <4>1, TokenMembers, GrantMembers DEF Valid, Bad
    <3>4. Restoring(app) => Restoring(b)
      BY <1>1, <1>3, <1>4, <2>4 DEF Restoring, Refreshing, Stopped
    <3> QED BY <2>2, <2>7, <2>8, <3>1, <3>3, <3>4, RestoringLooked, RefreshLooked
  <2>10. Works(b.access, b, twitch, spent) /\ Works(b.saved, b, twitch, spent)
    BY <2>7, <2>8 DEF Works, IInv, Accounts
  <2> QED BY <1>1, <1>2, <2>2, <2>3, <2>7, <2>9, <2>10 DEF IInv, Accounts
<1>7. CASE answer = "403"
  <2> DEFINE b == [s EXCEPT !.told = TRUE]
  <2>1. Flagged(s, b) /\ b.told
    BY <1>4 DEF Flagged, Stopped, App
  <2>2. app' = b
    BY <1>7 DEF SubscribeReply, s, h
  <2> HIDE DEF b
  <2>3. Sane(b) /\ Quiet(app, b)
    BY <1>3, <1>4, <2>1, FlaggedSane, QuietTwice
  <2>4. \A r \in b.requests : r.kind # "subscribe"
    BY <1>4, <2>1 DEF Flagged, Stopped
  <2>5. Looked(b, twitch)
    BY <2>1, <2>3, <2>4, ConnectionLooked
  <2> QED BY <1>1, <1>2, <2>2, <2>3, <2>5, QuietStep
<1>8. CASE answer = "failed"
  <2>1. app' = ScheduleReconnect(StopSocket(h))
    BY <1>8 DEF SubscribeReply, h
  <2>2. Sane(app') /\ Quiet(h, app') /\ Looked(app', twitch)
    BY <1>3, <2>1, RetryLater
  <2> QED BY <1>1, <1>2, <1>3, <2>2, QuietTwice, QuietStep
<1> QED BY <1>5, <1>6, <1>7, <1>8 DEF SubscribeReply

LEMMA SendReplyStep ==
  ASSUME IInv, NEW q, NEW answer, Answers(q, answer), SendReply(q, answer), Rest'
  PROVE  IInv'
<1> DEFINE h == Handled(q)
<1>1. q \in app.requests /\ q.kind = "send" /\ ~q.stale /\ UNCHANGED <<twitch, out, shown, spent>>
  BY DEF SendReply, Answers, Lost
<1>2. ~out /\ app.sending /\ ~app.waiting /\ app.user # 0
  BY <1>1 DEF IInv, Silenced, Accounts, Composer
<1>3. /\ Sane(h) /\ h.requests = app.requests \ {q} /\ h.access = app.access
      /\ h.saved = app.saved /\ h.user = app.user /\ h.refreshing = app.refreshing
      /\ h.waiting = app.waiting /\ h.sending = app.sending
      /\ h.tokenTimer = app.tokenTimer /\ h.active = app.active
      /\ h.retryTimer = app.retryTimer /\ h.told = app.told /\ h.subscribed = app.subscribed
  BY <1>1, HandledMembers, HandledSane DEF IInv, Sane, Typed
<1>4. Tokens(h, twitch) /\ Carried(h) = Carried(app) /\ (NewRefresh(app) => NewRefresh(h))
  BY <1>1, HandledAccounts
<1>5. \A r \in h.requests : r.kind # "send"
  BY <1>1, <1>3 DEF IInv, Accounts, Composer
<1>6. CASE Retried(q, answer)
  <2> DEFINE b == RefreshAccessToken(h, TRUE)
  <2>1. app' = b /\ app.access # NoToken
    BY <1>6 DEF SendReply, Retried
  <2>2. Sane(b) /\ \E r \in Request : Refreshing(h, b, TRUE, r)
    BY <1>3, <2>1, RefreshMembers
  <2> HIDE DEF b, h
  <2>3. PICK r \in Request : Refreshing(h, b, TRUE, r)
    BY <2>2
  <2>4. h.refreshing => NewRefresh(h)
    BY <1>3, <1>4 DEF IInv, Accounts, Composer
  <2>5. Tokens(b, twitch) /\ Carried(b) = Carried(app) /\ NewRefresh(b)
    BY <1>3, <1>4, <2>2, <2>3, <2>4, RefreshAccounts
  <2>6. shown = 0
    <3>1. answer = "401" /\ answer \in Verdict(q)
      BY <1>6 DEF Retried, Answers
    <3>2. ~q.served
      BY <1>1, <3>1 DEF Verdict
    <3> QED BY <1>1, <3>2 DEF IInv, Accounts, Composer
  <2>7. Composer(b, shown)
    <3>1. \A p \in b.requests : p.kind # "send"
      BY <1>5, <2>3 DEF Refreshing
    <3>2. b.refreshing /\ b.sending /\ b.user # 0 /\ shown = 0
      BY <1>2, <1>3, <2>3, <2>6 DEF Refreshing
    <3>3. b.waiting
      BY <2>3 DEF Refreshing
    <3> QED BY <2>5, <3>1, <3>2, <3>3 DEF Composer
  <2>8. Looked(b, twitch)
    <3>1. Keeps(app, b)
      BY <1>1, <1>3, <2>3 DEF Keeps, Refreshing
    <3> QED BY <2>2, <3>1, KeepsLooked DEF IInv
  <2>9. b.access = app.access /\ b.saved = app.saved
    BY <1>3, <2>3 DEF Refreshing
  <2>10. Works(b.access, b, twitch, spent) /\ Works(b.saved, b, twitch, spent)
    BY <2>5, <2>9 DEF Works, IInv, Accounts
  <2> QED BY <1>1, <1>2, <2>1, <2>2, <2>5, <2>7, <2>8, <2>10 DEF IInv, Accounts
<1>7. CASE ~Retried(q, answer)
  <2> DEFINE b == [h EXCEPT !.sending = FALSE]
  <2>1. app' = b
    BY <1>7 DEF SendReply
  <2> HIDE DEF h
  <2>2. /\ b \in App /\ b.access = h.access /\ b.saved = h.saved /\ b.user = h.user
        /\ b.refreshing = h.refreshing /\ b.waiting = h.waiting /\ ~b.sending
        /\ b.watchdog = h.watchdog /\ b.active = h.active /\ b.pending = h.pending
        /\ b.threads = h.threads /\ b.subscribed = h.subscribed /\ b.requests = h.requests
        /\ b.tokenTimer = h.tokenTimer /\ b.retryTimer = h.retryTimer /\ b.told = h.told
    BY <1>3 DEF Sane, Typed, App
  <2> HIDE DEF b
  <2>3. Sane(b)
    BY <1>3, <2>2 DEF Sane, Typed, Sockets, Asks
  <2>4. Tokens(b, twitch) /\ Carried(b) = Carried(app) /\ (NewRefresh(app) => NewRefresh(b))
    BY <1>4, <2>2 DEF Tokens, Carried, NewRefresh
  <2>5. Composer(b, shown)
    <3>1. shown \in 0 .. 1 /\ (b.refreshing => NewRefresh(b)) /\ ~b.waiting
      BY <1>2, <1>3, <2>2, <2>4 DEF IInv, Accounts, Composer
    <3> QED BY <1>5, <2>2, <3>1 DEF Composer
  <2>6. Keeps(app, b)
    BY <1>1, <1>3, <2>2 DEF Keeps
  <2>7. Looked(b, twitch)
    BY <2>3, <2>6, KeepsLooked DEF IInv
  <2>8. Works(b.access, b, twitch, spent) /\ Works(b.saved, b, twitch, spent)
    BY <1>3, <2>2, <2>4 DEF Works, IInv, Accounts
  <2> QED BY <1>1, <1>2, <2>1, <2>3, <2>4, <2>5, <2>7, <2>8 DEF IInv, Accounts
<1> QED BY <1>6, <1>7

LEMMA ValidateReplyStep ==
  ASSUME IInv, NEW q, NEW answer, Answers(q, answer), ValidateReply(q, answer), Rest'
  PROVE  IInv'
<1> DEFINE h == Handled(q)
           b == [h EXCEPT !.tokenTimer = TRUE, !.user = q.token.login]
<1>1. /\ q \in app.requests /\ q.kind = "validate" /\ ~q.stale
      /\ UNCHANGED <<twitch, out, shown, spent>>
  BY DEF ValidateReply, Answers, Lost
<1>2. ~out /\ app.access # NoToken /\ q.token = app.access
  BY <1>1 DEF IInv, Silenced, Sane, Asks
<1>3. /\ Sane(h) /\ Quiet(app, h) /\ h.requests = app.requests \ {q} /\ h.access = app.access
      /\ h.tokenTimer = app.tokenTimer /\ h.active = app.active
      /\ h.retryTimer = app.retryTimer /\ h.told = app.told /\ h.subscribed = app.subscribed
  BY <1>1, HandledMembers, HandledSane DEF IInv, Sane, Typed
<1>4. q.token.login \in Login /\ q.token.login # 0
  BY <1>1, RequestMembers DEF IInv, Login
<1> HIDE DEF h
<1>6. /\ b \in App /\ b.access = h.access /\ b.saved = h.saved /\ b.user # 0
      /\ b.refreshing = h.refreshing /\ b.waiting = h.waiting /\ b.sending = h.sending
      /\ b.watchdog = h.watchdog /\ b.active = h.active /\ b.pending = h.pending
      /\ b.threads = h.threads /\ b.subscribed = h.subscribed /\ b.requests = h.requests
      /\ b.tokenTimer /\ b.retryTimer = h.retryTimer /\ b.told = h.told
  BY <1>3, <1>4 DEF Sane, Typed, App
<1>7. Sane(b) /\ Quiet(app, b)
  <2> HIDE DEF b
  <2>1. Sane(b)
    BY <1>3, <1>6 DEF Sane, Typed, Sockets, Asks
  <2>2. Quiet(h, b)
    BY <1>6 DEF Quiet
  <2> QED BY <1>3, <2>1, <2>2, QuietTwice
<1>8. CASE answer = "failed" /\ q.flag
  <2> DEFINE c == ScheduleReconnect(h)
  <2>1. app' = c
    BY <1>8 DEF ValidateReply, h
  <2>2. Sane(c) /\ Quiet(h, c) /\ c.access = h.access /\ c.retryTimer
    BY <1>2, <1>3, ScheduleReconnectSane, ScheduleReconnectMembers
  <2> HIDE DEF c
  <2>3. Looked(c, twitch)
    BY <2>2, RestoringLooked DEF Restoring
  <2> QED BY <1>1, <1>2, <1>3, <2>1, <2>2, <2>3, QuietTwice, QuietStep
<1>9. CASE answer = "failed" /\ ~q.flag
  <2> DEFINE c == [h EXCEPT !.tokenTimer = TRUE]
  <2>1. app' = c
    BY <1>9 DEF ValidateReply, h
  <2>2. /\ Flagged(h, c) /\ c.tokenTimer /\ c.retryTimer = h.retryTimer /\ c.told = h.told
    BY <1>3 DEF Flagged, Sane, Typed, App
  <2> HIDE DEF c
  <2>3. Sane(c) /\ Quiet(app, c)
    BY <1>3, <2>2, FlaggedSane, QuietTwice
  <2>4. Restoring(app) => Restoring(c)
    BY <1>3, <1>9, <2>2 DEF Restoring, Flagged
  <2>5. Looked(c, twitch)
    BY <1>1, <1>3, <2>2, <2>4 DEF IInv, Looked, Looking, Flagged
  <2> QED BY <1>1, <1>2, <2>1, <2>3, <2>5, QuietStep
<1>10. CASE answer \in {"401", "ending"}
  <2> DEFINE c == RefreshAccessToken(h, FALSE)
  <2>1. app' = c
    BY <1>10 DEF ValidateReply, h
  <2>2. Sane(c) /\ \E r \in Request : Refreshing(h, c, FALSE, r)
    BY <1>2, <1>3, RefreshMembers
  <2> HIDE DEF c
  <2>3. PICK r \in Request : Refreshing(h, c, FALSE, r)
    BY <2>2
  <2>4. Composer(h, shown) /\ Tokens(h, twitch) /\ Carried(h) = Carried(app)
    BY <1>3, QuietComposer, QuietTokens DEF IInv, Accounts
  <2>5. h.refreshing => NewRefresh(h)
    BY <2>4 DEF Composer
  <2>6. Tokens(c, twitch) /\ Carried(c) = Carried(app) /\ NewRefresh(c) /\ Composer(c, shown)
    BY <1>3, <2>2, <2>3, <2>4, <2>5, RefreshAccounts
  <2>7. c.access = app.access /\ c.saved \in {app.saved, app.access}
    BY <1>3, <2>3 DEF Refreshing, Quiet
  <2>8. Bad(app.access, twitch)
    <3>1. answer \in Verdict(q)
      BY <1>10 DEF Answers
    <3>2. ~Valid(q.token) \/ twitch[q.token.login].age = "ending"
      BY <1>1, <1>10, <3>1 DEF Verdict
    <3>3. app.access \in Token /\ twitch \in [Login -> Grant]
      BY Members DEF IInv, Sane, Typed, Rest
    <3> QED BY <1>2, <3>2, <3>3, TokenMembers, GrantMembers DEF Valid, Bad
  <2>9. Looked(c, twitch)
    BY <2>2, <2>6, <2>7, <2>8, RefreshLooked
  <2>10. Works(c.access, c, twitch, spent) /\ Works(c.saved, c, twitch, spent)
    BY <2>6, <2>7 DEF Works, IInv, Accounts
  <2> QED BY <1>1, <1>2, <2>1, <2>2, <2>6, <2>9, <2>10 DEF IInv, Accounts
<1>11. CASE answer = "foreign"
  <2> DEFINE s == StopSocket(h)
             c == [s EXCEPT !.tokenTimer = FALSE, !.retryTimer = FALSE, !.told = TRUE]
  <2>1. app' = c
    BY <1>11 DEF ValidateReply, h
  <2>2. Sane(s) /\ Quiet(h, s) /\ Stopped(h, s)
    BY <1>3, StopSocketSane, StopSocketMembers DEF Sane, Typed
  <2> HIDE DEF s
  <2>3. Flagged(s, c) /\ c.told
    BY <2>2 DEF Flagged, Stopped, App
  <2> HIDE DEF c
  <2>4. Sane(c) /\ Quiet(app, c)
    BY <1>3, <2>2, <2>3, FlaggedSane, QuietTwice
  <2>5. Looked(c, twitch)
    BY <2>2, <2>3, <2>4, ConnectionLooked DEF Flagged, Stopped
  <2> QED BY <1>1, <1>2, <2>1, <2>4, <2>5, QuietStep
<1>12. CASE answer = "narrow"
  <2> DEFINE s == StopSocket(b)
             c == [s EXCEPT !.retryTimer = FALSE, !.told = TRUE]
  <2>1. app' = c
    BY <1>12 DEF ValidateReply, h
  <2> HIDE DEF b
  <2>2. Sane(s) /\ Quiet(b, s) /\ Stopped(b, s)
    BY <1>7, StopSocketSane, StopSocketMembers DEF Sane, Typed
  <2> HIDE DEF s
  <2>3. Flagged(s, c) /\ c.told
    BY <2>2 DEF Flagged, Stopped, App
  <2> HIDE DEF c
  <2>4. Sane(c) /\ Quiet(app, c)
    BY <1>7, <2>2, <2>3, FlaggedSane, QuietTwice
  <2>5. Looked(c, twitch)
    BY <2>2, <2>3, <2>4, ConnectionLooked DEF Flagged, Stopped
  <2> QED BY <1>1, <1>2, <2>1, <2>4, <2>5, QuietStep
<1>13. CASE answer = "ok" /\ q.flag
  <2> DEFINE s == SaveLogin(b)
             c == StartSocket(s)
  <2>1. app' = c
    BY <1>13 DEF ValidateReply, h
  <2> HIDE DEF b
  <2>2. Sane(s) /\ Quiet(b, s)
    BY <1>7, SaveLoginSane
  <2>3. s.access # NoToken /\ s.user # 0
    BY <1>2, <1>3, <1>6, <2>2 DEF Quiet
  <2> HIDE DEF s
  <2>4. /\ Sane(c) /\ Quiet(s, c) /\ c.active # 0
        /\ \A r \in c.requests : r.kind # "subscribe"
    BY <2>2, <2>3, StartSocketSane DEF IInv, Rest
  <2> HIDE DEF c
  <2>5. Looked(c, twitch)
    BY <2>4, ConnectionLooked
  <2>6. Quiet(app, c)
    BY <1>7, <2>2, <2>4, QuietTwice
  <2> QED BY <1>1, <1>2, <2>1, <2>4, <2>5, <2>6, QuietStep
<1>14. CASE answer = "ok" /\ ~q.flag
  <2>1. app' = b
    BY <1>14 DEF ValidateReply, h
  <2> HIDE DEF b
  <2>2. answer \in Verdict(q)
    BY <1>14 DEF Answers
  <2>3. Valid(q.token) /\ twitch[q.token.login].age # "ending"
    BY <1>1, <1>14, <2>2 DEF Verdict
  <2>4. ~Bad(app.access, twitch)
    <3>1. app.access \in Token /\ twitch \in [Login -> Grant]
      BY Members DEF IInv, Sane, Typed, Rest
    <3> QED BY <1>2, <2>3, <3>1, TokenMembers, GrantMembers DEF Valid, Bad
  <2>5. Restoring(app) => Restoring(b)
    BY <1>3, <1>6, <1>14 DEF Restoring
  <2>6. Looked(b, twitch)
    BY <1>1, <1>3, <1>6, <2>4, <2>5 DEF IInv, Looked, Looking
  <2> QED BY <1>1, <1>2, <1>7, <2>1, <2>6, QuietStep
<1> QED BY <1>8, <1>9, <1>10, <1>11, <1>12, <1>13, <1>14 DEF ValidateReply

\* The refresh is over, and the message that waited for it is given up.
LEMMA GiveUpMembers ==
  ASSUME Sane(app), NEW q \in app.requests
  PROVE  LET a == [Handled(q) EXCEPT !.refreshing = FALSE]
             b == GiveUp(a)
             c == [a EXCEPT !.waiting = FALSE] IN
         /\ Sane(b) /\ b.access = app.access /\ b.saved = app.saved /\ b.user = app.user
         /\ ~b.refreshing /\ ~b.waiting /\ b.sending = (app.sending /\ ~app.waiting)
         /\ b.retryTimer = app.retryTimer /\ b.told = app.told /\ b.active = app.active
         /\ b.subscribed = app.subscribed
         /\ b.requests = app.requests \ {q}
         /\ Sane(c) /\ c.saved = app.saved /\ c.user = app.user
         /\ ~c.refreshing /\ ~c.waiting /\ c.sending = app.sending
         /\ c.requests = app.requests \ {q}
<1> DEFINE h == Handled(q)
           a == [h EXCEPT !.refreshing = FALSE]
           b == [a EXCEPT !.waiting = FALSE, !.sending = @ /\ ~a.waiting]
           c == [a EXCEPT !.waiting = FALSE]
<1>1. /\ Sane(h) /\ h.requests = app.requests \ {q} /\ h.access = app.access
      /\ h.saved = app.saved /\ h.user = app.user /\ h.waiting = app.waiting
      /\ h.sending = app.sending /\ h.retryTimer = app.retryTimer /\ h.told = app.told
      /\ h.active = app.active /\ h.subscribed = app.subscribed
  BY HandledMembers, HandledSane DEF Sane, Typed
<1> HIDE DEF h
<1>2. /\ b \in App /\ b.access = h.access /\ b.saved = h.saved /\ b.user = h.user
      /\ ~b.refreshing /\ ~b.waiting
      /\ b.watchdog = h.watchdog /\ b.active = h.active /\ b.pending = h.pending
      /\ b.threads = h.threads /\ b.subscribed = h.subscribed /\ b.requests = h.requests
      /\ b.retryTimer = h.retryTimer /\ b.told = h.told
  BY <1>1 DEF Sane, Typed, App
<1>3. b.sending = (h.sending /\ ~h.waiting)
  BY <1>1 DEF Sane, Typed, App
<1>4. /\ c \in App /\ c.access = h.access /\ c.saved = h.saved /\ c.user = h.user
      /\ ~c.refreshing /\ ~c.waiting /\ c.sending = h.sending
      /\ c.watchdog = h.watchdog /\ c.active = h.active /\ c.pending = h.pending
      /\ c.threads = h.threads /\ c.subscribed = h.subscribed /\ c.requests = h.requests
  BY <1>1 DEF Sane, Typed, App
<1>5. b = GiveUp(a)
  BY DEF GiveUp
<1> HIDE DEF b, c
<1>6. Sane(b)
  BY <1>1, <1>2 DEF Sane, Typed, Sockets, Asks
<1>7. Sane(c)
  BY <1>1, <1>4 DEF Sane, Typed, Sockets, Asks
<1> QED BY <1>1, <1>2, <1>3, <1>4, <1>5, <1>6, <1>7 DEF c, h

\* A refresh that fails is tried again when the token timer fires.
LEMMA RefreshFailedStep ==
  ASSUME IInv, NEW q \in app.requests, q.kind = "refresh", ~q.stale, Rest',
         app' = [GiveUp([Handled(q) EXCEPT !.refreshing = FALSE]) EXCEPT !.tokenTimer = TRUE],
         spent' = spent \cup Lost(q), UNCHANGED <<twitch, shown, out>>
  PROVE  IInv'
<1> DEFINE b == GiveUp([Handled(q) EXCEPT !.refreshing = FALSE])
           c == [b EXCEPT !.tokenTimer = TRUE]
<1>1. /\ Sane(b) /\ b.access = app.access /\ b.saved = app.saved /\ b.user = app.user
      /\ ~b.refreshing /\ ~b.waiting /\ b.sending = (app.sending /\ ~app.waiting)
      /\ b.retryTimer = app.retryTimer /\ b.told = app.told /\ b.active = app.active
      /\ b.subscribed = app.subscribed /\ b.requests = app.requests \ {q}
  BY GiveUpMembers DEF IInv
<1>2. app' = c
  OBVIOUS
<1> HIDE DEF b
<1>3. Flagged(b, c) /\ c.tokenTimer /\ c.retryTimer = b.retryTimer /\ c.told = b.told
  BY <1>1 DEF Flagged, Sane, Typed, App
<1> HIDE DEF c
<1>4. Sane(c) /\ Quiet(b, c)
  BY <1>1, <1>3, FlaggedSane
<1>5. ~out
  BY DEF IInv, Silenced
<1>6. /\ Tokens(c, twitch)
      /\ Works(c.access, c, twitch, spent') /\ Works(c.saved, c, twitch, spent')
  <2>1. Handled(q).requests = c.requests /\ Handled(q).access = c.access /\ Handled(q).saved = c.saved
    BY <1>1, <1>3, HandledMembers DEF Flagged, IInv, Sane, Typed
  <2>2. /\ Tokens(Handled(q), twitch)
        /\ Works(app.access, Handled(q), twitch, spent') /\ Works(app.saved, Handled(q), twitch, spent')
    BY RefreshGone
  <2> QED BY <1>1, <1>3, <2>1, <2>2 DEF Tokens, Works, Carried, Flagged
<1>7. Composer(c, shown)
  <2>1. \A r : r.kind = "send" => (r \in c.requests <=> r \in app.requests)
    BY <1>1, <1>3 DEF Flagged
  <2>2. ~c.refreshing /\ ~c.waiting /\ c.user = app.user /\ (c.sending <=> app.sending /\ ~app.waiting)
    BY <1>1, <1>3 DEF Flagged
  <2> QED BY <2>1, <2>2 DEF Composer, IInv, Accounts
<1>8. Looked(c, twitch)
  <2>1. Restoring(app) => Restoring(c)
    BY <1>1, <1>3 DEF Restoring, Flagged
  <2> QED BY <1>1, <1>3, <2>1 DEF IInv, Looked, Looking, Flagged
<1> QED BY <1>2, <1>4, <1>5, <1>6, <1>7, <1>8 DEF IInv, Accounts

\* A refused refresh ends the login.
LEMMA RefreshDeniedStep ==
  ASSUME IInv, NEW q \in app.requests, q.kind = "refresh", ~q.stale, Rest',
         app' = SaveLogin(
           [StopSocket(UseToken(GiveUp([Handled(q) EXCEPT !.refreshing = FALSE]), NoToken)) EXCEPT
              !.tokenTimer = FALSE, !.retryTimer = FALSE]),
         ~q.served, UNCHANGED <<twitch, shown, out, spent>>
  PROVE  IInv'
<1> DEFINE b == GiveUp([Handled(q) EXCEPT !.refreshing = FALSE])
           u == UseToken(b, NoToken)
           s == StopSocket(u)
           c == [s EXCEPT !.tokenTimer = FALSE, !.retryTimer = FALSE]
           d == [c EXCEPT !.saved = c.access]
<1>1. /\ Sane(b) /\ b.access = app.access /\ b.saved = app.saved /\ b.user = app.user
      /\ ~b.refreshing /\ ~b.waiting /\ b.sending = (app.sending /\ ~app.waiting)
      /\ b.requests = app.requests \ {q}
  BY GiveUpMembers DEF IInv
<1>2. app' = d
  BY DEF SaveLogin
<1> HIDE DEF b
<1>3. /\ u \in App /\ u.access = NoToken /\ u.user = b.user /\ u.refreshing = b.refreshing
      /\ u.waiting = b.waiting /\ u.sending = b.sending /\ u.threads = b.threads
      /\ u.active = b.active /\ u.pending = b.pending
      /\ u.requests = {r \in b.requests : r.kind # "validate" \/ r.token = NoToken}
  BY <1>1, UseTokenMembers DEF Sane, Typed, Token
<1> HIDE DEF u
<1>4. Stopped(u, s)
  BY <1>3, StopSocketMembers
<1> HIDE DEF s
<1>5. /\ d \in App /\ d.access = NoToken /\ d.saved = NoToken /\ d.user = app.user
      /\ ~d.refreshing /\ ~d.waiting /\ d.sending = b.sending
      /\ d.active = 0 /\ d.pending = 0 /\ ~d.subscribed
      /\ d.threads = s.threads /\ d.requests = s.requests
  BY <1>1, <1>3, <1>4 DEF Stopped, App
<1> HIDE DEF d, c
<1>6. d.threads = {}
  BY <1>1, <1>3, <1>4, <1>5 DEF Stopped, Sane, Sockets
<1>7. d.requests = {r \in app.requests \ {q} : r.kind \notin {"validate", "subscribe"}}
  BY <1>1, <1>3, <1>4, <1>5 DEF Stopped, Sane, Asks
<1>8. Sane(d)
  <2>1. Typed(d)
    <3>1. IsFiniteSet(d.requests)
      BY <1>7, FS_Subset DEF IInv, Sane, Typed
    <3> QED BY <1>5, <1>6, <3>1, FS_EmptySet DEF Typed
  <2>2. Sockets(d)
    BY <1>5, <1>6, <1>7 DEF Sockets
  <2>3. Asks(d)
    BY <1>5, <1>7 DEF Asks, IInv, Sane
  <2> QED BY <2>1, <2>2, <2>3 DEF Sane
<1>9. Composer(d, shown)
  <2>1. \A r : r.kind = "send" => (r \in d.requests <=> r \in app.requests)
    BY <1>7
  <2>2. d.sending <=> app.sending /\ ~app.waiting
    BY <1>1, <1>5
  <2> QED BY <1>5, <2>1, <2>2 DEF Composer, IInv, Accounts
<1>10. Tokens(d, twitch)
  <2>1. Carried(d) \subseteq Carried(app)
    BY <1>7 DEF Carried
  <2>2. \A r \in Carried(d) : r.token.login # NoToken.login
    BY <2>1, RequestMembers DEF Carried, NoToken, Login, IInv
  <2>3. Held(NoToken, twitch) /\ \A r \in d.requests : Held(r.token, twitch)
    BY <1>7 DEF Held, Tokens, IInv, Accounts
  <2> QED BY <1>5, <1>7, <2>1, <2>2, <2>3 DEF Tokens, IInv, Accounts
<1>11. Works(d.access, d, twitch, spent) /\ Works(d.saved, d, twitch, spent)
  BY <1>5 DEF Works
<1>12. Looked(d, twitch)
  BY <1>5, <1>7, <1>8, ConnectionLooked
<1>13. ~out
  BY DEF IInv, Silenced
<1> QED BY <1>2, <1>8, <1>9, <1>10, <1>11, <1>12, <1>13 DEF IInv, Accounts

\* A refreshed token is used and saved, and the message that met the 401 is sent again.
LEMMA RefreshedStep ==
  ASSUME IInv, NEW q \in app.requests, q.kind = "refresh", ~q.stale, q.served, Rest',
         NEW c, c = ValidateToken(SaveLogin(UseToken(
           [[Handled(q) EXCEPT !.refreshing = FALSE] EXCEPT !.waiting = FALSE], q.token)), TRUE),
         app' = IF app.waiting THEN SendMessage(c, TRUE) ELSE c,
         UNCHANGED <<twitch, shown, out, spent>>
  PROVE  IInv'
<1> DEFINE a == [[Handled(q) EXCEPT !.refreshing = FALSE] EXCEPT !.waiting = FALSE]
           u == UseToken(a, q.token)
           s == SaveLogin(u)
<1>1. /\ Sane(a) /\ a.saved = app.saved /\ a.user = app.user
      /\ ~a.refreshing /\ ~a.waiting /\ a.sending = app.sending
      /\ a.requests = app.requests \ {q}
  BY GiveUpMembers DEF IInv
<1>2. q.token \in Token /\ q.token # NoToken /\ q.token.login \in Login
  BY RequestMembers DEF IInv
<1> HIDE DEF a
<1>3. /\ Sane(u) /\ u.access = q.token /\ u.user = app.user /\ ~u.refreshing /\ ~u.waiting
      /\ u.sending = app.sending
      /\ u.requests = {r \in a.requests : r.kind # "validate" \/ r.token = q.token}
  <2> DEFINE token == q.token
  <2>1. token \in Token /\ token # NoToken /\ a \in App
    BY <1>1, <1>2 DEF Sane, Typed
  <2> HIDE DEF token
  <2>2. Sane(UseToken(a, token))
    BY <1>1, <2>1, UseTokenSane
  <2>3. LET b == UseToken(a, token) IN
        /\ b.access = token /\ b.user = a.user /\ b.refreshing = a.refreshing
        /\ b.waiting = a.waiting /\ b.sending = a.sending
        /\ b.requests = {r \in a.requests : r.kind # "validate" \/ r.token = token}
    BY <2>1, UseTokenMembers
  <2> QED BY <1>1, <2>2, <2>3 DEF token
<1>4. s.saved = u.access /\ Sane(s) /\ Quiet(u, s) /\ s.requests = u.requests
  <2>1. u \in App
    BY <1>3 DEF Sane, Typed
  <2> HIDE DEF u
  <2>2. s.saved = u.access /\ s.requests = u.requests
    BY <2>1 DEF SaveLogin, App
  <2> QED BY <1>3, <2>2, SaveLoginSane
<1>5. c = ValidateToken(s, TRUE)
  BY DEF a
<1> HIDE DEF u, s
<1>6. Sane(c) /\ Quiet(s, c) /\ Looked(c, twitch)
  <2>1. /\ Sane(ValidateToken(s, TRUE)) /\ Quiet(s, ValidateToken(s, TRUE))
        /\ Looked(ValidateToken(s, TRUE), twitch)
    BY <1>4, ValidateTokenSane, ValidateTokenLooked
  <2> QED BY <1>5, <2>1
<1>7. /\ c.access = q.token /\ c.saved = q.token /\ c.sending = app.sending /\ ~c.refreshing
      /\ ~c.waiting /\ (app.user # 0 => c.user # 0)
  BY <1>3, <1>4, <1>6 DEF Quiet
<1>8. \A r \in c.requests : r \in app.requests \ {q} \/ r.token = q.token
  BY <1>1, <1>3, <1>4, <1>6 DEF Quiet
<1>9. /\ \A r : r.kind = "send" => (r \in c.requests <=> r \in app.requests)
      /\ \A r : r.kind = "refresh" => (r \in c.requests <=> r \in app.requests \ {q})
  <2>1. \A r : r \in app.requests \/ r \in c.requests => r \in Request
    BY <1>6, Members DEF Sane, Typed, IInv
  <2> QED BY <1>1, <1>3, <1>4, <1>6, <2>1 DEF Quiet
<1>10. Carried(c) = Carried(app) \ {q}
  <2>1. \A r : r \in Carried(c) <=> r \in Carried(app) \ {q}
    BY <1>9 DEF Carried
  <2> QED BY <2>1
<1>11. q \in Carried(app) /\ q.token.n = twitch[q.token.login].n
  BY DEF Carried, IInv, Accounts, Tokens
<1>12. \A r \in Carried(c) : r.token.login # q.token.login
  BY <1>10, <1>11 DEF IInv, Accounts, Tokens, Carried
<1>13. Tokens(c, twitch)
  <2>1. Held(q.token, twitch) /\ \A r \in c.requests : Held(r.token, twitch)
    BY <1>8 DEF IInv, Accounts, Tokens
  <2>2. ASSUME NEW r \in Carried(c)
        PROVE  /\ r.token.n = twitch[r.token.login].n
               /\ \A p \in c.requests :
                    p.kind = "refresh" /\ p.token.login = r.token.login =>
                      p = r \/ (~p.served /\ p.token.n < r.token.n)
    BY <1>9, <1>10, <2>2 DEF IInv, Accounts, Tokens
  <2> QED BY <1>7, <1>12, <2>1, <2>2 DEF Tokens
<1>14. Works(q.token, c, twitch, spent)
  BY <1>11 DEF Works
<1>15. ~out
  BY DEF IInv, Silenced
<1>16. CASE ~app.waiting
  <2>1. Composer(c, shown)
    <3> QED BY <1>7, <1>9, <1>16 DEF Composer, IInv, Accounts
  <2> QED BY <1>6, <1>7, <1>13, <1>14, <1>15, <1>16, <2>1 DEF IInv, Accounts
<1>17. CASE app.waiting
  <2> DEFINE b == SendMessage(c, TRUE)
  <2>1. app' = b /\ app.sending /\ app.user # 0 /\ shown = 0
    BY <1>17 DEF IInv, Accounts, Composer
  <2>2. Sane(b) /\ \E r \in Request : Sending(c, b, r)
    BY <1>2, <1>6, <1>7, <2>1, SendMembers
  <2> HIDE DEF b
  <2>3. PICK r \in Request : Sending(c, b, r)
    BY <2>2
  <2>4. Tokens(b, twitch) /\ Carried(b) = Carried(c) /\ Looked(b, twitch)
    BY <1>6, <1>13, <2>2, <2>3, SendAccounts
  <2>5. b.access = q.token /\ b.saved = q.token
    BY <1>7, <2>3 DEF Sending
  <2>6. Works(q.token, b, twitch, spent)
    BY <1>14, <2>4 DEF Works
  <2>7. Composer(b, shown)
    <3>1. \A p \in b.requests : p.kind = "send" => p = r
      BY <1>9, <1>17, <2>3 DEF Sending, IInv, Accounts, Composer
    <3>2. b.sending /\ ~b.refreshing /\ ~b.waiting /\ b.user # 0 /\ r \in b.requests /\ r.kind = "send"
      BY <1>7, <2>1, <2>3 DEF Sending
    <3> QED BY <2>1, <3>1, <3>2 DEF Composer
  <2> QED BY <1>15, <2>1, <2>2, <2>4, <2>5, <2>6, <2>7 DEF IInv, Accounts
<1> QED BY <1>16, <1>17

LEMMA RefreshReplyStep ==
  ASSUME IInv, NEW q, NEW answer, Answers(q, answer), RefreshReply(q, answer), Rest'
  PROVE  IInv'
<1>1. q \in app.requests /\ q.kind = "refresh" /\ ~q.stale /\ UNCHANGED <<twitch, out, shown>>
  BY DEF RefreshReply, Answers
<1>2. CASE answer = "denied"
  <2>1. answer \in Verdict(q) /\ spent' = spent
    BY <1>2 DEF Answers
  <2>2. ~q.served
    BY <1>1, <1>2, <2>1 DEF Verdict
  <2>3. app' = SaveLogin(
           [StopSocket(UseToken(GiveUp([Handled(q) EXCEPT !.refreshing = FALSE]), NoToken)) EXCEPT
              !.tokenTimer = FALSE, !.retryTimer = FALSE])
    BY <1>2 DEF RefreshReply
  <2> QED BY <1>1, <2>1, <2>2, <2>3, RefreshDeniedStep
<1>3. CASE answer = "failed"
  <2>1. answer \notin Verdict(q)
    BY <1>1, <1>3 DEF Verdict
  <2>2. spent' = spent \cup Lost(q)
    BY <2>1 DEF Answers
  <2>3. app' = [GiveUp([Handled(q) EXCEPT !.refreshing = FALSE]) EXCEPT !.tokenTimer = TRUE]
    BY <1>3 DEF RefreshReply
  <2> QED BY <1>1, <2>2, <2>3, RefreshFailedStep
<1>4. CASE answer = "ok"
  <2> DEFINE c == ValidateToken(SaveLogin(UseToken(
           [[Handled(q) EXCEPT !.refreshing = FALSE] EXCEPT !.waiting = FALSE], q.token)), TRUE)
  <2>1. answer \in Verdict(q) /\ spent' = spent
    BY <1>4 DEF Answers
  <2>2. q.served
    BY <1>1, <1>4, <2>1 DEF Verdict
  <2>3. app' = IF app.waiting THEN SendMessage(c, TRUE) ELSE c
    BY <1>4 DEF RefreshReply
  <2> QED BY <1>1, <2>1, <2>2, <2>3, RefreshedStep
<1> QED BY <1>2, <1>3, <1>4 DEF RefreshReply

\* Every reply, whether Twitch has answered or the request has failed.
LEMMA ReplyStep ==
  ASSUME IInv, NEW q \in app.requests, Reply(q), Rest'
  PROVE  IInv'
<1>1. CASE DropReply(q)
  BY <1>1, DropReplyStep DEF Reply
<1>2. CASE \E answer \in Verdict(q) : Answered(q, answer) /\ UNCHANGED spent
  <2>1. PICK answer \in Verdict(q) : Answered(q, answer) /\ UNCHANGED spent
    BY <1>2
  <2>2. Answers(q, answer)
    BY <2>1 DEF Answers, Answered, Reply
  <2> QED BY <2>1, <2>2, DeviceReplyStep, PollReplyStep, ValidateReplyStep, RefreshReplyStep,
             SendReplyStep, SubscribeReplyStep DEF Answered
<1> QED BY <1>1, <1>2 DEF Reply

LEMMA FailStep ==
  ASSUME IInv, Fail, Rest'
  PROVE  IInv'
<1>1. PICK q \in app.requests : Answered(q, "failed") /\ spent' = spent \cup Lost(q)
  BY DEF Fail
<1>2. Answers(q, "failed")
  BY <1>1 DEF Answers, Answered, Fail
<1> QED BY <1>1, <1>2, DeviceReplyStep, PollReplyStep, ValidateReplyStep, RefreshReplyStep,
           SendReplyStep, SubscribeReplyStep DEF Answered

-----------------------------------------------------------------------------
(* The socket threads *)

\* A thread moves on or ends: nothing else of the members changes.
LEMMA MovedMembers ==
  ASSUME Sane(app), NEW t \in app.threads, NEW at \in {"open", "mute", "ended"}, NEW what,
         Moved(t, at, what)
  PROVE  /\ Sane(app') /\ Quiet(app, app') /\ Keeps(app, app')
         /\ Silenced(app) => Silenced(app')
<1> DEFINE moved == [t EXCEPT !.at = at]
           new == IF at = "ended" THEN {} ELSE {moved}
           b == [app EXCEPT !.threads = (app.threads \ {t}) \cup new]
<1>1. app \in App /\ t \in Thread
  BY Members DEF Sane, Typed
<1>2. app' = b
  BY <1>1 DEF Moved, App
<1>3. /\ at # "ended" => moved \in Thread /\ moved.id = t.id
  BY <1>1 DEF Thread
<1> HIDE DEF moved
<1>4. new \subseteq Thread /\ IsFiniteSet(new) /\ \A u \in new : u.id = t.id /\ u = moved
  BY <1>3, FS_EmptySet, FS_Singleton
<1> HIDE DEF new
<1>5. /\ b \in App /\ b.access = app.access /\ b.saved = app.saved /\ b.user = app.user
      /\ b.refreshing = app.refreshing /\ b.waiting = app.waiting /\ b.sending = app.sending
      /\ b.tokenTimer = app.tokenTimer /\ b.retryTimer = app.retryTimer /\ b.told = app.told
      /\ b.watchdog = app.watchdog /\ b.active = app.active /\ b.pending = app.pending
      /\ b.threads = (app.threads \ {t}) \cup new /\ b.subscribed = app.subscribed
      /\ b.requests = app.requests
  BY <1>1, <1>4 DEF App
<1> HIDE DEF b
<1>6. Typed(b)
  <2>1. IsFiniteSet(app.threads \ {t})
    BY FS_Subset DEF Sane, Typed
  <2>2. IsFiniteSet(b.threads)
    <3> DEFINE old == app.threads \ {t}
    <3> HIDE DEF old
    <3>1. IsFiniteSet(old)
      BY <2>1 DEF old
    <3>2. IsFiniteSet(old \cup new)
      BY <1>4, <3>1, FS_Union
    <3> QED BY <1>5, <3>2 DEF old
  <2> QED BY <1>5, <2>2 DEF Sane, Typed
<1>7. Sockets(b)
  <2>1. \A u \in b.threads : (u \in app.threads /\ u # t) \/ (u = moved /\ u.id = t.id)
    BY <1>4, <1>5
  <2>2. \A u \in b.threads : u.id \in {b.active, b.pending}
    BY <1>5, <2>1 DEF Sane, Sockets
  <2>3. \A u, v \in b.threads : u.id = v.id => u = v
    BY <2>1 DEF Sane, Sockets
  <2> QED BY <1>5, <2>2, <2>3 DEF Sane, Sockets
<1>8. Asks(b) /\ Quiet(app, b) /\ Keeps(app, b) /\ (Silenced(app) => Silenced(b))
  BY <1>5 DEF Sane, Asks, Quiet, Keeps, Silenced
<1> QED BY <1>2, <1>6, <1>7, <1>8 DEF Sane

LEMMA MovedStep ==
  ASSUME IInv, NEW t \in app.threads, NEW at \in {"open", "mute", "ended"}, NEW what,
         Moved(t, at, what), UNCHANGED twitch, Rest'
  PROVE  IInv'
<1>1. /\ Sane(app') /\ Quiet(app, app') /\ Keeps(app, app')
      /\ Silenced(app) => Silenced(app')
  BY MovedMembers DEF IInv
<1>2. UNCHANGED <<shown, out, spent>>
  BY DEF Moved
<1>3. Looked(app', twitch)
  BY <1>1, KeepsLooked DEF IInv
<1>4. out' => Silenced(app')
  BY <1>1, <1>2 DEF IInv
<1> QED BY <1>1, <1>2, <1>3, <1>4, QuietStep

LEMMA ThreadStep ==
  ASSUME IInv, Connect \/ Break \/ Retire \/ Notice, Rest'
  PROVE  IInv'
BY MovedStep DEF Connect, Break, Retire, Notice

LEMMA RevokeStep ==
  ASSUME IInv, Revoke, Rest'
  PROVE  IInv'
<1>1. PICK t \in app.threads, l \in Login :
        /\ twitch[l].age \notin {"none", "revoked"}
        /\ Moved(t, "open", "access revoked")
        /\ twitch' = [twitch EXCEPT ![l].age = "revoked"]
  BY DEF Revoke
<1>2. /\ Sane(app') /\ Quiet(app, app') /\ Keeps(app, app')
      /\ Silenced(app) => Silenced(app')
  BY <1>1, MovedMembers DEF IInv
<1>3. UNCHANGED <<shown, out, spent>>
  BY <1>1 DEF Moved
<1>4. Ages(l)
  <2>1. twitch \in [Login -> Grant]
    BY DEF IInv, Rest
  <2> QED BY <1>1, <2>1 DEF Ages, Grant
<1>5. Composer(app', shown) /\ Tokens(app', twitch) /\ Carried(app') = Carried(app)
  BY <1>2, QuietComposer, QuietTokens DEF IInv, Accounts
<1>6. Looked(app', twitch)
  BY <1>2, KeepsLooked DEF IInv
<1>7. Tokens(app', twitch') /\ Looked(app', twitch') /\ Unused(twitch')
  BY <1>2, <1>4, <1>5, <1>6, AgesStep
<1>8. app'.access = app.access /\ app'.saved \in {app.saved, app.access}
  BY <1>2 DEF Quiet
<1>9. Works(app'.access, app', twitch', spent) /\ Works(app'.saved, app', twitch', spent)
  <2>1. Works(app'.access, app', twitch, spent) /\ Works(app'.saved, app', twitch, spent)
    BY <1>5, <1>8 DEF Works, IInv, Accounts
  <2>2. app'.access \in Token /\ app'.saved \in Token
    BY <1>2, Members DEF Sane, Typed
  <2> DEFINE b == app'
  <2> HIDE DEF b
  <2>3. Works(b.access, b, twitch, spent) /\ Works(b.saved, b, twitch, spent)
        /\ b.access \in Token /\ b.saved \in Token
    BY <2>1, <2>2 DEF b
  <2>4. Works(b.access, b, twitch', spent) /\ Works(b.saved, b, twitch', spent)
    BY <1>4, <2>3, AgesWorks
  <2> QED BY <2>4 DEF b
<1> QED BY <1>2, <1>3, <1>5, <1>7, <1>9 DEF IInv, Accounts

-----------------------------------------------------------------------------
(* The queued calls, and a restart *)

LEMMA PromoteKeeps ==
  ASSUME NEW a, Sane(a), a.pending # 0
  PROVE  Keeps(a, Promote(a))
<1> DEFINE b == Promote(a)
<1>1. b = [a EXCEPT !.threads = {t \in a.threads : t.id # a.active},
                    !.active = a.pending, !.pending = 0]
  BY DEF Promote, CloseWorker, Sane, Typed, App
<1>2. /\ b.access = a.access /\ b.subscribed = a.subscribed /\ b.told = a.told
      /\ b.retryTimer = a.retryTimer /\ b.tokenTimer = a.tokenTimer /\ b.active = a.pending
      /\ b.requests = a.requests
  BY <1>1 DEF Sane, Typed, App
<1> HIDE DEF b
<1> QED BY <1>2 DEF Keeps, b

LEMMA HandOverKeeps ==
  ASSUME NEW a, Sane(a)
  PROVE  Keeps(a, HandOver(a))
<1> DEFINE b == HandOver(a)
<1>1. /\ b.access = a.access /\ b.subscribed = a.subscribed /\ b.told = a.told
      /\ b.retryTimer = a.retryTimer /\ b.tokenTimer = a.tokenTimer /\ b.active = a.active
      /\ b.requests = a.requests
  BY DEF HandOver, LaunchSocket, Sane, Typed, App
<1> HIDE DEF b
<1> QED BY <1>1 DEF Keeps, b

\* A call of a connection in use.
LEMMA HandleStep ==
  ASSUME IInv, NEW worker, NEW what, worker # 0, worker \in {app.active, app.pending},
         Handle(worker, what), out' => out \/ what = "access revoked",
         twitch' = twitch, shown' = shown, spent' = spent, Rest'
  PROVE  IInv'
<1>1. ~out /\ app.active # 0 /\ app.access # NoToken
  <2>1. app.active # 0 /\ app.access # NoToken
    BY DEF IInv, Sane, Sockets
  <2> QED BY <2>1 DEF IInv, Silenced
<1>2. Sane(app) /\ posts \in Seq(Post)
  BY DEF IInv, Rest
<1>3. ASSUME what # "access revoked", Sane(app'), Quiet(app, app'), Looked(app', twitch)
      PROVE  IInv'
  BY <1>1, <1>3, QuietStep
<1>4. ASSUME what # "access revoked", Sane(app'), Quiet(app, app'), Keeps(app, app')
      PROVE  IInv'
  <2>1. Looked(app', twitch)
    BY <1>2, <1>4, KeepsLooked DEF IInv
  <2> QED BY <1>3, <1>4, <2>1
<1>5. CASE what = "welcome" /\ worker = app.pending /\ app' = Promote(app)
  <2>1. Sane(Promote(app)) /\ Quiet(app, Promote(app)) /\ Keeps(app, Promote(app))
    BY <1>2, <1>5, PromoteSane, PromoteKeeps
  <2> QED BY <1>4, <1>5, <2>1
<1>6. CASE what = "welcome" /\ app' = Ask(app, "subscribe", FALSE)
  <2>1. Sane(Ask(app, "subscribe", FALSE))
    BY <1>1, <1>2, AskSane DEF Kinds
  <2>2. Quiet(app, Ask(app, "subscribe", FALSE)) /\ Keeps(app, Ask(app, "subscribe", FALSE))
    BY <1>2, AskQuiet, AskKeeps DEF Kinds
  <2> QED BY <1>4, <1>6, <2>1, <2>2
<1>7. CASE what = "reconnect" /\ app' = HandOver(app)
  <2>1. Sane(HandOver(app)) /\ Quiet(app, HandOver(app)) /\ Keeps(app, HandOver(app))
    BY <1>1, <1>2, HandOverSane, HandOverKeeps
  <2> QED BY <1>4, <1>7, <2>1
<1>8. CASE what # "access revoked" /\ app' = ScheduleReconnect(StopSocket(app))
  <2>1. Sane(app') /\ Quiet(app, app') /\ Looked(app', twitch)
    BY <1>2, <1>8, RetryLater
  <2> QED BY <1>3, <1>8, <2>1
<1>9. CASE what # "access revoked" /\ app' = app
  <2>1. Quiet(app, app) /\ Keeps(app, app)
    BY DEF Quiet, Keeps
  <2> QED BY <1>2, <1>4, <1>9, <2>1
<1>10. CASE what = "access revoked" /\ app' = ClearLogin(app)
  BY <1>10, ClearLoginStep
<1> QED BY <1>5, <1>6, <1>7, <1>8, <1>9, <1>10 DEF Handle

LEMMA DeliverStep ==
  ASSUME IInv, Deliver, Rest'
  PROVE  IInv'
<1> DEFINE p == Head(posts)
<1>0. p \in Post
  <2>1. posts \in Seq(Post) /\ posts # <<>>
    BY DEF Deliver, IInv, Rest
  <2> QED BY <2>1
<1>1. /\ IF Current(p.from) THEN Handle(p.from, p.what) ELSE UNCHANGED app
      /\ out' = (out \/ (Current(p.from) /\ p.what = "access revoked"))
      /\ UNCHANGED <<twitch, shown, spent>>
  BY DEF Deliver
<1>2. p.from # 0
  BY <1>0 DEF Post
<1> HIDE DEF p
<1>3. CASE Current(p.from)
  <2>1. PICK worker, what : worker = p.from /\ what = p.what
    OBVIOUS
  <2>2. worker \in {app.active, app.pending} /\ Handle(worker, what) /\ worker # 0
        /\ UNCHANGED <<twitch, shown, spent>>
    BY <1>1, <1>2, <1>3, <2>1 DEF Current
  <2>3. out' => out \/ what = "access revoked"
    BY <1>1, <2>1
  <2>4. Handle(worker, what)
    BY <2>2
  <2>5. worker # 0 /\ worker \in {app.active, app.pending} /\ twitch' = twitch /\ shown' = shown
        /\ spent' = spent
    BY <2>2
  <2> QED BY <2>3, <2>4, <2>5, HandleStep, Zenon
<1>4. CASE ~Current(p.from)
  <2>1. UNCHANGED <<app, twitch, shown, spent>> /\ out' = out
    BY <1>1, <1>4 DEF IInv, Rest
  <2> QED BY <2>1 DEF IInv, Accounts, Unused, Works
<1> QED BY <1>3, <1>4

LEMMA RestartStep ==
  ASSUME IInv, Restart, Rest'
  PROVE  IInv'
<1> DEFINE b == Start(app.saved)
<1>1. /\ app' = b /\ spent' = spent \cup UNION {Lost(q) : q \in app.requests}
      /\ UNCHANGED <<twitch, shown, out>>
  BY DEF Restart
<1>2. app.saved \in Token
  BY Members DEF IInv, Sane, Typed
<1>3. /\ Sane(b) /\ b.access = app.saved /\ b.saved = app.saved /\ b.active = 0
      /\ ~b.sending /\ ~b.waiting /\ ~b.refreshing
      /\ app.saved = NoToken => b.requests = {}
      /\ \A q \in b.requests : q.kind = "validate" /\ q.token = app.saved
      /\ app.saved # NoToken => \E q \in b.requests : q.kind = "validate" /\ q.flag
  BY <1>2, StartMembers
<1> HIDE DEF b
<1>4. Composer(b, shown)
  BY <1>3 DEF Composer, IInv, Accounts
<1>5. Tokens(b, twitch)
  <2>1. Carried(b) = {}
    BY <1>3 DEF Carried
  <2> QED BY <1>3, <2>1 DEF Tokens, IInv, Accounts
<1>6. \A q \in Carried(app) : q.token.login \in spent'
  BY <1>1 DEF Carried, Lost
<1>7. Works(app.saved, b, twitch, spent')
  BY <1>1, <1>6 DEF Works, IInv, Accounts
<1>8. Looked(b, twitch)
  BY <1>3, RestoringLooked DEF Restoring
<1>9. out => Silenced(b)
  BY <1>3 DEF Silenced, IInv
<1> QED BY <1>1, <1>3, <1>4, <1>5, <1>7, <1>8, <1>9 DEF IInv, Accounts

-----------------------------------------------------------------------------
(* The whole program *)

LEMMA InitHolds == Init => IInv
<1> SUFFICES ASSUME Init PROVE IInv
  OBVIOUS
<1>1. PICK saved \in {NoToken, [login |-> 1, n |-> 1]}, use \in {"chat", "narrow", "foreign"},
           since \in {1, 2} :
        /\ app = Start(saved)
        /\ twitch = [l \in Login |->
             IF l = 1 /\ saved # NoToken
             THEN [n |-> 1, since |-> since, use |-> use,
                   age |-> IF since = 1 THEN "fresh" ELSE "ending"]
             ELSE [n |-> 1, since |-> 1, use |-> "chat", age |-> "none"]]
  BY DEF Init
<1>2. /\ posts = <<>> /\ shown = 0 /\ acts = 0 /\ incidents = 0 /\ out = FALSE /\ spent = {}
  BY DEF Init
<1>3. 1 \in Login /\ saved \in Token
  BY BoundAssumption DEF Login, Token
<1>4. /\ Sane(app) /\ app.access = saved /\ app.saved = saved /\ app.active = 0
      /\ ~app.sending /\ ~app.waiting /\ ~app.refreshing
      /\ saved = NoToken => app.requests = {}
      /\ \A q \in app.requests : q.kind = "validate" /\ q.token = saved
      /\ saved # NoToken => \E q \in app.requests : q.kind = "validate" /\ q.flag
  BY <1>1, <1>3, StartMembers
<1>5. twitch \in [Login -> Grant]
  BY <1>1 DEF Grant
<1>6. /\ \A l \in Login : twitch[l].n = 1
      /\ saved # NoToken => saved.login = 1 /\ saved.n = 1 /\ twitch[1].age # "none"
  BY <1>1, <1>3 DEF NoToken
<1>7. Rest
  <2>1. posts \in Seq(Post) /\ acts \in 0 .. MaxActs /\ incidents \in 0 .. MaxIncidents
        /\ spent \subseteq Login
    BY <1>2, BoundAssumption
  <2>2. out \in BOOLEAN
    BY <1>2
  <2> QED BY <1>5, <2>1, <2>2 DEF Rest
<1>8. Composer(app, shown)
  BY <1>2, <1>4 DEF Composer
<1>9. Held(saved, twitch)
  BY <1>3, <1>6 DEF Held
<1>10. Tokens(app, twitch)
  <2>1. Carried(app) = {}
    BY <1>4 DEF Carried
  <2> QED BY <1>4, <1>9, <2>1 DEF Tokens
<1>11. Unused(twitch) /\ Works(saved, app, twitch, spent)
  BY <1>3, <1>6 DEF Unused, Works
<1>12. Looked(app, twitch)
  BY <1>4, RestoringLooked DEF Restoring
<1> QED BY <1>2, <1>4, <1>7, <1>8, <1>10, <1>11, <1>12 DEF IInv, Accounts

LEMMA LostLogins ==
  ASSUME Sane(app), NEW q \in app.requests
  PROVE  Lost(q) \subseteq Login
BY RequestMembers DEF Lost

LEMMA AppendedSeq ==
  ASSUME NEW S, NEW s \in Seq(S), NEW e \in S
  PROVE  Append(s, e) \in Seq(S)
OBVIOUS

LEMMA MovedPosts ==
  ASSUME Rest, app \in App, NEW t \in app.threads, NEW at, NEW what, Moved(t, at, what),
         what \in Message \cup {""}
  PROVE  posts' \in Seq(Post) /\ UNCHANGED <<acts, out, spent>>
<1>1. t \in Thread
  BY Members
<1>2. what \in Message => [from |-> t.id, what |-> what] \in Post
  BY <1>1 DEF Thread, Post
<1>3. posts' = posts \/ \E p \in Post : posts' = Append(posts, p)
  BY <1>2 DEF Moved, Message
<1>4. posts \in Seq(Post)
  BY DEF Rest
<1>5. \A p \in Post : Append(posts, p) \in Seq(Post)
  BY <1>4, AppendedSeq
<1>6. posts' \in Seq(Post)
  BY <1>3, <1>4, <1>5, Zenon
<1> QED BY <1>6 DEF Moved

LEMMA AnsweredRest ==
  ASSUME Rest, NEW q \in app.requests, NEW answer, Answered(q, answer),
         answer \in Verdict(q) \/ answer = "failed"
  PROVE  twitch' \in [Login -> Grant] /\ out' \in BOOLEAN
<1>1. twitch \in [Login -> Grant] /\ out \in BOOLEAN
  BY DEF Rest
<1>2. CASE UNCHANGED <<twitch, out>>
  BY <1>1, <1>2
<1>3. CASE out' = FALSE /\ twitch' = [twitch EXCEPT ![NewLogin].age = "fresh"]
           /\ q.kind = "poll" /\ answer = "ok"
  <2>1. \E l \in Login : twitch[l].age = "none"
    BY <1>3 DEF Verdict
  <2>2. NewLogin \in Login
    BY <2>1, NewLoginExists
  <2>3. [twitch[NewLogin] EXCEPT !.age = "fresh"] \in Grant
    BY <1>1, <2>2 DEF Grant
  <2> QED BY <1>1, <1>3, <2>2, <2>3
<1> QED BY <1>2, <1>3 DEF Answered, DeviceReply, PollReply, ValidateReply, RefreshReply,
                          SendReply, SubscribeReply

LEMMA NextNumber ==
  ASSUME NEW g \in Grant
  PROVE  g.n + 1 \in Nat \ {0}
<1>1. g.n \in Nat
  BY DEF Grant
<1> QED BY <1>1

LEMMA GrantedMembers ==
  ASSUME NEW g \in Grant, NEW n \in Nat \ {0}
  PROVE  Granted(g, n) \in Grant
<1>1. g.since \in Nat \ {0}
  BY DEF Grant
<1> DEFINE since == IF g.age = "ending" THEN n ELSE g.since
<1>2. since \in Nat \ {0}
  BY <1>1
<1>3. Granted(g, n) = [g EXCEPT !.n = n, !.age = "fresh", !.since = since]
  BY DEF Granted, Grant
<1> HIDE DEF since
<1> QED BY <1>2, <1>3 DEF Grant

LEMMA RestStep == IInv /\ [Next]_vars => Rest'
<1> SUFFICES ASSUME IInv, [Next]_vars PROVE Rest'
  OBVIOUS
<1>1. /\ Rest /\ Sane(app) /\ app \in App
      /\ posts \in Seq(Post) /\ twitch \in [Login -> Grant]
      /\ acts \in 0 .. MaxActs /\ incidents \in 0 .. MaxIncidents
      /\ out \in BOOLEAN /\ spent \subseteq Login
      /\ MaxActs \in Nat /\ MaxIncidents \in Nat
  BY BoundAssumption DEF IInv, Rest, Sane, Typed
<1>2. Act => acts' \in 0 .. MaxActs
  BY <1>1 DEF Act
<1>3. Incident => incidents' \in 0 .. MaxIncidents
  BY <1>1 DEF Incident
<1>4. CASE Operator
  BY <1>1, <1>2, <1>4 DEF Operator, BeginLogin, SignOut, Reconnect, Send, Rest
<1>5. CASE PollTimer \/ TokenTimer \/ RetryTimer \/ Watchdog
  BY <1>1, <1>5 DEF PollTimer, TokenTimer, RetryTimer, Watchdog, Timer, Rest
<1>6. CASE Fail
  <2>1. PICK q \in app.requests : Answered(q, "failed") /\ spent' = spent \cup Lost(q)
    BY <1>6 DEF Fail
  <2>2. twitch' \in [Login -> Grant] /\ out' \in BOOLEAN
    BY <1>1, <2>1, AnsweredRest
  <2>3. spent' \subseteq Login
    BY <1>1, <2>1, LostLogins
  <2> QED BY <1>1, <1>3, <1>6, <2>2, <2>3 DEF Fail, Rest
<1>7. CASE Age
  <2>1. PICK l \in Login :
          \/ twitch' = [twitch EXCEPT ![l].age = "ending"]
          \/ twitch' = [twitch EXCEPT ![l].since = twitch[l].n + 1]
    BY <1>7 DEF Age
  <2>2. [twitch[l] EXCEPT !.age = "ending"] \in Grant
    BY <1>1 DEF Grant
  <2>3. [twitch[l] EXCEPT !.since = twitch[l].n + 1] \in Grant
    BY <1>1, NextNumber DEF Grant
  <2>4. twitch' \in [Login -> Grant]
    BY <1>1, <2>1, <2>2, <2>3
  <2> QED BY <1>1, <1>3, <1>7, <2>4 DEF Age, Rest
<1>8. CASE Connect \/ Break \/ Retire \/ Notice
  <2>1. PICK t \in app.threads, at \in {"open", "mute", "ended"}, what \in Message \cup {""} :
          Moved(t, at, what)
    BY <1>8 DEF Connect, Break, Retire, Notice, Message
  <2>2. posts' \in Seq(Post) /\ UNCHANGED <<acts, out, spent>>
    BY <1>1, <2>1, MovedPosts
  <2>3. UNCHANGED twitch /\ incidents' \in 0 .. MaxIncidents
    BY <1>1, <1>3, <1>8 DEF Connect, Break, Retire, Notice
  <2> QED BY <1>1, <2>2, <2>3 DEF Rest
<1>9. CASE Revoke
  <2>1. PICK t \in app.threads, l \in Login :
          /\ Moved(t, "open", "access revoked")
          /\ twitch' = [twitch EXCEPT ![l].age = "revoked"]
    BY <1>9 DEF Revoke
  <2>2. posts' \in Seq(Post) /\ UNCHANGED <<acts, out, spent>>
    BY <1>1, <2>1, MovedPosts DEF Message
  <2>3. [twitch[l] EXCEPT !.age = "revoked"] \in Grant
    BY <1>1 DEF Grant
  <2>4. twitch' \in [Login -> Grant]
    BY <1>1, <2>1, <2>3
  <2> QED BY <1>1, <1>3, <1>9, <2>2, <2>4 DEF Revoke, Rest
<1>10. CASE Restart
  <2>1. spent' \subseteq Login
    BY <1>1, <1>10, LostLogins DEF Restart
  <2>2. posts' \in Seq(Post)
    BY <1>10 DEF Restart
  <2> QED BY <1>1, <1>3, <1>10, <2>1, <2>2 DEF Restart, Rest
<1>11. ASSUME NEW q \in app.requests, ServeRefresh(q) \/ ServeMessage(q)
       PROVE  Rest'
  <2>1. CASE ServeRefresh(q)
    <3>1. q.token \in Token /\ q.token.login \in Login /\ q.token.n \in Nat
      BY <1>1, <2>1, RequestMembers, TokenMembers DEF ServeRefresh
    <3>2. Granted(twitch[q.token.login], q.token.n + 1) \in Grant
      <4>1. twitch[q.token.login] \in Grant /\ q.token.n + 1 \in Nat \ {0}
        BY <1>1, <3>1
      <4> QED BY <4>1, GrantedMembers
    <3>3. twitch' \in [Login -> Grant]
      BY <1>1, <2>1, <3>1, <3>2 DEF ServeRefresh
    <3> QED BY <1>1, <2>1, <3>3 DEF ServeRefresh, Rest
  <2>2. CASE ServeMessage(q)
    BY <1>1, <2>2 DEF ServeMessage, Rest
  <2> QED BY <1>11, <2>1, <2>2
<1>12. ASSUME NEW q \in app.requests, Reply(q)
       PROVE  Rest'
  <2>1. UNCHANGED <<posts, acts, incidents>>
    BY <1>12 DEF Reply
  <2>2. CASE DropReply(q)
    <3>1. spent' \subseteq Login
      BY <1>1, <2>2, LostLogins DEF DropReply
    <3> QED BY <1>1, <2>1, <2>2, <3>1 DEF DropReply, Rest
  <2>3. CASE \E answer \in Verdict(q) : Answered(q, answer) /\ UNCHANGED spent
    <3>1. PICK answer \in Verdict(q) : Answered(q, answer) /\ UNCHANGED spent
      BY <2>3
    <3>2. twitch' \in [Login -> Grant] /\ out' \in BOOLEAN
      BY <1>1, <3>1, AnsweredRest
    <3> QED BY <1>1, <2>1, <3>1, <3>2 DEF Rest
  <2> QED BY <1>12, <2>2, <2>3 DEF Reply
<1>13. CASE Deliver
  <2>1. posts' = Tail(posts) /\ posts # <<>>
    BY <1>13 DEF Deliver
  <2>3. posts' \in Seq(Post)
    BY <1>1, <2>1
  <2>2. out' \in BOOLEAN
    <3>1. \E c \in BOOLEAN : out' = (out \/ c)
      <4> DEFINE c == Current(Head(posts).from) /\ Head(posts).what = "access revoked"
      <4>1. c \in BOOLEAN /\ out' = (out \/ c)
        BY <1>13 DEF Deliver
      <4> HIDE DEF c
      <4> QED BY <4>1
    <3> QED BY <1>1, <3>1
  <2> QED BY <1>1, <1>13, <2>2, <2>3 DEF Deliver, Rest
<1>14. CASE UNCHANGED vars
  BY <1>1, <1>14 DEF vars, Rest
<1> QED BY <1>4, <1>5, <1>6, <1>7, <1>8, <1>9, <1>10, <1>11, <1>12, <1>13, <1>14
        DEF Next, Trouble

LEMMA NextStep == IInv /\ [Next]_vars => IInv'
<1> SUFFICES ASSUME IInv, [Next]_vars PROVE IInv'
  OBVIOUS
<1>1. Rest'
  BY RestStep
<1>2. CASE Operator
  <2>1. CASE SignOut
    BY <1>1, <2>1, ClearLoginStep DEF SignOut
  <2> QED BY <1>1, <1>2, <2>1, BeginLoginStep, ReconnectStep, SendStep DEF Operator
<1>3. CASE Trouble
  BY <1>1, <1>3, FailStep, AgeStep, ThreadStep, RevokeStep, RestartStep DEF Trouble
<1>4. CASE PollTimer \/ TokenTimer \/ RetryTimer \/ Watchdog
  BY <1>1, <1>4, PollTimerStep, TokenTimerStep, WatchdogStep
<1>5. CASE \E q \in app.requests : ServeRefresh(q) \/ ServeMessage(q) \/ Reply(q)
  BY <1>1, <1>5, ServeRefreshStep, ServeMessageStep, ReplyStep
<1>6. CASE Connect \/ Retire \/ Deliver
  BY <1>1, <1>6, ThreadStep, DeliverStep
<1>7. CASE UNCHANGED vars
  BY <1>1, <1>7 DEF vars, IInv, Accounts, Unused, Works
<1> QED BY <1>2, <1>3, <1>4, <1>5, <1>6, <1>7 DEF Next

LEMMA Invariant == Spec => []IInv
BY InitHolds, NextStep, PTL DEF Spec

-----------------------------------------------------------------------------
(* The theorems *)

LEMMA TwoThreads ==
  ASSUME NEW a, Sane(a)
  PROVE  Cardinality(a.threads) <= 2
<1> DEFINE T == a.threads
<1>1. /\ IsFiniteSet(T) /\ \A t \in T : t.id \in {a.active, a.pending}
      /\ \A t, u \in T : t.id = u.id => t = u
  BY DEF Sane, Typed, Sockets
<1> HIDE DEF T
<1>2. \E x, y : T \subseteq {x, y}
  <2>1. CASE T = {}
    BY <2>1
  <2>2. CASE T # {}
    <3>1. PICK x : x \in T
      BY <2>2
    <3>2. CASE \A y \in T : y = x
      BY <3>2
    <3>3. CASE \E y \in T : y # x
      <4>1. PICK y \in T : y # x
        BY <3>3
      <4>2. \A z \in T : z = x \/ z = y
        BY <1>1, <3>1, <4>1
      <4> QED BY <4>2
    <3> QED BY <3>2, <3>3
  <2> QED BY <2>1, <2>2
<1>3. PICK x, y : T \subseteq {x, y}
  BY <1>2
<1>4. IsFiniteSet({x, y}) /\ Cardinality({x, y}) <= 2
  <2>1. IsFiniteSet({x}) /\ Cardinality({x}) = 1
    BY FS_Singleton
  <2>2. /\ IsFiniteSet({x} \cup {y})
        /\ Cardinality({x} \cup {y}) = IF y \in {x} THEN Cardinality({x}) ELSE Cardinality({x}) + 1
    BY <2>1, FS_AddElement
  <2>3. {x} \cup {y} = {x, y}
    OBVIOUS
  <2> QED BY <2>1, <2>2, <2>3
<1>5. Cardinality(T) <= Cardinality({x, y}) /\ Cardinality(T) \in Nat
  BY <1>1, <1>3, <1>4, FS_Subset, FS_CardinalityType
<1>6. Cardinality({x, y}) \in Nat
  BY <1>4, FS_CardinalityType
<1> QED BY <1>4, <1>5, <1>6 DEF T

\* The members keep their types, and there are at most two socket threads: the one
\* in use and the one a hand-over prepares.
THEOREM TypeCorrect == Spec => []TypeOK
<1>1. IInv => TypeOK
  BY TwoThreads DEF IInv, Rest, Accounts, Composer, Sane, Typed, App, TypeOK
<1> QED BY <1>1, Invariant, PTL

\* Signing out and losing the authorisation are final (ClearLogin), whatever is on
\* its way: no late reply, call or timer brings a login, a thread or a subscription.
THEOREM SignedOutStays == Spec => []NoGhostLogin
<1>1. IInv => NoGhostLogin
  BY InvariantHolds
<1> QED BY <1>1, Invariant, PTL

\* A login whose chat is not connected has something under way or armed that brings
\* it back, or the operator has been told, after every reply, call, loss and restart.
THEOREM NothingForgotten == Spec => []NoForgottenConnection
<1>1. IInv => NoForgottenConnection
  BY InvariantHolds
<1> QED BY <1>1, Invariant, PTL

\* No socket thread is left over from an old connection, and chat is shown as
\* connected only over a connection that the watchdog watches.
THEOREM NoLeakedSocket == Spec => []SocketsAccounted
<1>1. IInv => SocketsAccounted
  BY InvariantHolds
<1> QED BY <1>1, Invariant, PTL

\* While the composer is blocked a reply that frees it is due: a message's, or that of
\* the refresh it waits for.
THEOREM ComposerIsFreed == Spec => []ComposerFrees
<1>1. IInv => ComposerFrees
  BY InvariantHolds
<1> QED BY <1>1, Invariant, PTL

\* One retry after a 401 and none after a lost reply: a message is never shown twice.
THEOREM SentOnce == Spec => []NotSentTwice
<1>1. IInv => NotSentTwice
  BY InvariantHolds
<1> QED BY <1>1, Invariant, PTL

\* Refresh tokens work once: the saved one is the one Twitch accepts next, unless its
\* successor is on its way or was lost with a reply.
THEOREM SavedTokenCounts == Spec => []SavedLoginWorks
<1>1. IInv => SavedLoginWorks
  BY InvariantHolds
<1> QED BY <1>1, Invariant, PTL

=============================================================================
