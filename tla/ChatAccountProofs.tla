------------------------- MODULE ChatAccountProofs -------------------------
(***************************************************************************)
(* The accounting of YouTubeChat: for every choice of the constants, a     *)
(* session's flags agree with the workers and completions that exist,      *)
(* there is at most one sender, and the queue implements ChatOutbox.       *)
(***************************************************************************)
EXTENDS YouTubeChatProofs

-----------------------------------------------------------------------------
(* Accounting: a piece of work of a generation is a running worker or, after  *)
(* it, a completion on its way to the UI thread.                              *)

Act(kind, R, g) == {w \in Worker : w.kind = kind /\ w.route \in R /\ w.gen = g}
Results(kind, R, g) == {e \in Event : e.kind = kind /\ e.route \in R /\ e.gen = g}
Hits(s, P) == {i \in DOMAIN s : s[i] \in P}

\* None, or exactly one, of the workers W and completions E is of that kind.
None(W, E, kind, R, g) == NoneOf(W \intersect Act(kind, R, g), Hits(E, Results(kind, R, g)))
One(W, E, kind, R, g) == OneOf(W \intersect Act(kind, R, g), Hits(E, Results(kind, R, g)))

\* The routes over which work of a kind is counted: a sender changes its route.
Scope(kind, R) == kind = "send" => R = Route

LEMMA HitsAppend ==
  ASSUME NEW S, NEW P, NEW s \in Seq(S), NEW e \in S
  PROVE  /\ e \notin P => Hits(Append(s, e), P) = Hits(s, P)
         /\ e \in P => Hits(Append(s, e), P) = Hits(s, P) \union {Len(s) + 1}
BY DEF Hits

LEMMA HitsTail ==
  ASSUME NEW S, NEW P, NEW s \in Seq(S), s # <<>>
  PROVE  Hits(Tail(s), P) = {i \in 1 .. Len(s) - 1 : i + 1 \in Hits(s, P)}
BY DEF Hits

LEMMA OneReplace ==
  ASSUME NEW W \in SUBSET Worker, NEW E \in Seq(Event), NEW kind, NEW R, NEW g, Scope(kind, R),
         NEW w \in W, NEW v \in Worker, v.kind = w.kind, v.gen = w.gen,
         w.kind = "send" \/ v.route = w.route
  PROVE  LET V == (W \ {w}) \union {v}
         IN /\ None(W, E, kind, R, g) => None(V, E, kind, R, g)
            /\ One(W, E, kind, R, g) => One(V, E, kind, R, g)
<1>1. w \in Act(kind, R, g) <=> v \in Act(kind, R, g)
  BY DEF Act, Scope, Worker
<1> QED BY <1>1 DEF None, One, NoneOf, OneOf, AtMostOne

LEMMA OneExit ==
  ASSUME NEW W \in SUBSET Worker, NEW E \in Seq(Event), NEW kind, NEW R, NEW g,
         NEW w \in W, w.kind # kind
  PROVE  /\ None(W, E, kind, R, g) => None(W \ {w}, E, kind, R, g)
         /\ One(W, E, kind, R, g) => One(W \ {w}, E, kind, R, g)
<1>1. (W \ {w}) \intersect Act(kind, R, g) = W \intersect Act(kind, R, g)
  BY DEF Act
<1> QED BY <1>1 DEF None, One

LEMMA OnePost ==
  ASSUME NEW W \in SUBSET Worker, NEW E \in Seq(Event), NEW kind, NEW R, NEW g,
         NEW e \in Event, e.kind # kind
  PROVE  /\ None(W, E, kind, R, g) => None(W, Append(E, e), kind, R, g)
         /\ One(W, E, kind, R, g) => One(W, Append(E, e), kind, R, g)
<1>1. e \notin Results(kind, R, g)
  BY DEF Results
<1>2. Hits(Append(E, e), Results(kind, R, g)) = Hits(E, Results(kind, R, g))
  BY <1>1, HitsAppend
<1> QED BY <1>2 DEF None, One

LEMMA OneExitPost ==
  ASSUME NEW W \in SUBSET Worker, NEW E \in Seq(Event), NEW kind, NEW R, NEW g, Scope(kind, R),
         NEW w \in W, NEW e \in Event, e.kind = w.kind, e.gen = w.gen, e.route = w.route
  PROVE  /\ None(W, E, kind, R, g) => None(W \ {w}, Append(E, e), kind, R, g)
         /\ One(W, E, kind, R, g) => One(W \ {w}, Append(E, e), kind, R, g)
<1>1. w \in Act(kind, R, g) <=> e \in Results(kind, R, g)
  BY DEF Act, Results
<1>2. CASE w \notin Act(kind, R, g)
  <2>1. Hits(Append(E, e), Results(kind, R, g)) = Hits(E, Results(kind, R, g))
    BY <1>1, <1>2, HitsAppend
  <2>2. (W \ {w}) \intersect Act(kind, R, g) = W \intersect Act(kind, R, g)
    BY <1>2
  <2> QED BY <2>1, <2>2 DEF None, One
<1>3. CASE w \in Act(kind, R, g)
  <2>1. Hits(Append(E, e), Results(kind, R, g)) = Hits(E, Results(kind, R, g)) \union {Len(E) + 1}
    BY <1>1, <1>3, HitsAppend
  <2> QED BY <1>3, <2>1 DEF None, One, NoneOf, OneOf, AtMostOne
<1> QED BY <1>2, <1>3

LEMMA OneTake ==
  ASSUME NEW W \in SUBSET Worker, NEW E \in Seq(Event), NEW kind, NEW R, NEW g, E # <<>>
  PROVE  /\ None(W, E, kind, R, g) => None(W, Tail(E), kind, R, g)
         /\ Head(E) \notin Results(kind, R, g) /\ One(W, E, kind, R, g)
              => One(W, Tail(E), kind, R, g)
         /\ Head(E) \in Results(kind, R, g) /\ One(W, E, kind, R, g)
              => None(W, Tail(E), kind, R, g)
         /\ Head(E) \in Results(kind, R, g) => ~None(W, E, kind, R, g)
<1> DEFINE P == Results(kind, R, g)
<1>1. Len(E) \in Nat /\ Len(E) > 0 /\ DOMAIN E = 1 .. Len(E) /\ Head(E) = E[1]
  OBVIOUS
<1>2. Hits(Tail(E), P) = {i \in 1 .. Len(E) - 1 : i + 1 \in Hits(E, P)}
  BY HitsTail
<1>3. Head(E) \in P <=> 1 \in Hits(E, P)
  BY <1>1 DEF Hits
<1>4. Hits(E, P) \subseteq 1 .. Len(E)
  BY <1>1 DEF Hits
<1>5. Hits(E, P) = {} => Hits(Tail(E), P) = {}
  BY <1>2
<1>6. AtMostOne(Hits(E, P)) => AtMostOne(Hits(Tail(E), P))
  BY <1>1, <1>2 DEF AtMostOne
<1>7. Head(E) \notin P /\ Hits(E, P) # {} => Hits(Tail(E), P) # {}
  <2> SUFFICES ASSUME Head(E) \notin P, NEW i \in Hits(E, P) PROVE Hits(Tail(E), P) # {}
    OBVIOUS
  <2>1. i \in 1 .. Len(E) /\ i # 1
    BY <1>3, <1>4
  <2>2. i - 1 \in 1 .. Len(E) - 1 /\ (i - 1) + 1 = i
    BY <1>1, <2>1
  <2>3. i - 1 \in Hits(Tail(E), P)
    BY <1>2, <2>2
  <2> QED BY <2>3
<1>8. Head(E) \in P /\ AtMostOne(Hits(E, P)) => Hits(Tail(E), P) = {}
  BY <1>1, <1>2, <1>3 DEF AtMostOne
<1> HIDE DEF P
<1>9. Head(E) \in P => Hits(E, P) # {}
  BY <1>3
<1> QED BY <1>5, <1>6, <1>7, <1>8, <1>9 DEF None, One, NoneOf, OneOf, P

LEMMA OneAdd ==
  ASSUME NEW W \in SUBSET Worker, NEW E, NEW kind, NEW R, NEW g, NEW v \in Worker
  PROVE  /\ v \notin Act(kind, R, g) =>
              /\ None(W, E, kind, R, g) => None(W \union {v}, E, kind, R, g)
              /\ One(W, E, kind, R, g) => One(W \union {v}, E, kind, R, g)
         /\ v \in Act(kind, R, g) /\ None(W, E, kind, R, g) => One(W \union {v}, E, kind, R, g)
<1>1. CASE v \notin Act(kind, R, g)
  <2>1. (W \union {v}) \intersect Act(kind, R, g) = W \intersect Act(kind, R, g)
    BY <1>1
  <2> QED BY <1>1, <2>1 DEF None, One
<1>2. CASE v \in Act(kind, R, g) /\ None(W, E, kind, R, g)
  <2>1. (W \union {v}) \intersect Act(kind, R, g) = {v}
    BY <1>2 DEF None, NoneOf
  <2> QED BY <1>2, <2>1 DEF None, One, NoneOf, OneOf, AtMostOne
<1> QED BY <1>1, <1>2

-----------------------------------------------------------------------------
(* The accounts of the current generation: the sessions s and the send flag   *)
(* busy against the workers W and the completions E.                          *)

Held(W, E, kind, r, flag) == IF flag THEN One(W, E, kind, {r}, generation)
                                     ELSE None(W, E, kind, {r}, generation)

SendHeld(W, E, busy) == \/ None(W, E, "send", Route, generation)
                        \/ busy /\ One(W, E, "send", Route, generation)

Accounts(W, E, s, busy) ==
  /\ \A r \in routes : /\ Held(W, E, "scan", r, s[r].pending)
                       /\ Held(W, E, "lookup", r, s[r].looking)
  /\ SendHeld(W, E, busy)

Accounted == ui = "idle" => Accounts(workers, events, session, sending)

\* The inductive invariant: the accounts hold because nothing cancelled outlives its
\* handler and nothing is of a generation to come.
IInv == Core /\ Accounted

\* Nothing of the current generation is left.
Nothing(W, E) == \A kind, R : None(W, E, kind, R, generation)

\* The change from W and E to V and F moves work without ending or beginning any.
Moves(W, E, V, F) ==
  \A kind \in {"scan", "lookup", "send"}, R \in SUBSET Route :
    Scope(kind, R) => /\ None(W, E, kind, R, generation) => None(V, F, kind, R, generation)
                      /\ One(W, E, kind, R, generation) => One(V, F, kind, R, generation)

LEMMA MovesKeepsAccounts ==
  ASSUME NEW W, NEW E, NEW V, NEW F, NEW s, NEW busy, routes \subseteq Route,
         Moves(W, E, V, F), Accounts(W, E, s, busy)
  PROVE  Accounts(V, F, s, busy)
<1>1. ASSUME NEW r \in routes, NEW kind \in {"scan", "lookup"}, NEW flag, Held(W, E, kind, r, flag)
      PROVE  Held(V, F, kind, r, flag)
  <2>1. Scope(kind, {r}) /\ {r} \in SUBSET Route
    BY DEF Scope
  <2> QED BY <1>1, <2>1 DEF Held, Moves
<1>2. SendHeld(V, F, busy)
  <2>1. Scope("send", Route)
    BY DEF Scope
  <2> QED BY <2>1 DEF Accounts, SendHeld, Moves
<1> QED BY <1>1, <1>2 DEF Accounts

LEMMA NothingAccounts ==
  ASSUME NEW W, NEW E, NEW s, NEW busy, Nothing(W, E),
         \A r \in routes : ~s[r].pending /\ ~s[r].looking
  PROVE  Accounts(W, E, s, busy)
BY DEF Nothing, Accounts, Held, SendHeld

\* With the types, the accounts are the three invariants of the runs.
LEMMA AccountsMean ==
  ASSUME TypeOK
  PROVE  Accounted <=> OneSender /\ ReadersAccounted /\ LookupsAccounted
<1>1. ASSUME NEW kind, NEW r \in Route
      PROVE  /\ Running(kind, r) = workers \intersect Act(kind, {r}, generation)
             /\ Reported(kind, r) = Hits(events, Results(kind, {r}, generation))
  <2>1. \A i \in DOMAIN events : events[i] \in Event
    BY DEF TypeOK
  <2> QED BY <2>1 DEF TypeOK, Running, Reported, Act, Results, Hits
<1>2. /\ Sending = workers \intersect Act("send", Route, generation)
      /\ Sent = Hits(events, Results("send", Route, generation))
  <2>1. \A i \in DOMAIN events : events[i] \in Event
    BY DEF TypeOK
  <2>2. \A w \in Worker : w.route \in Route
    BY DEF Worker
  <2>3. \A e \in Event : e.route \in Route
    BY DEF Event
  <2> QED BY <2>1, <2>2, <2>3 DEF TypeOK, Sending, Sent, Act, Results, Hits
<1>3. routes \subseteq Route
  BY DEF TypeOK
<1> QED BY <1>1, <1>2, <1>3 DEF Accounted, Accounts, Held, SendHeld, None, One, OneSender,
           ReadersAccounted, LookupsAccounted

-----------------------------------------------------------------------------
(* The flags of a session *)

LEMMA FlagsAfterFailed ==
  ASSUME NEW x \in Session
  PROVE  Failed(x).pending = x.pending /\ Failed(x).looking = x.looking
<1> DEFINE n == IF x.failures < FailureLimit THEN x.failures + 1 ELSE x.failures
<1>1. Failed(x) = [x EXCEPT !.failures = n, !.suspended = FALSE, !.due = FALSE]
  BY DEF Failed
<1> HIDE DEF n
<1> QED BY <1>1 DEF Session

LEMMA FlagsAfterEnded ==
  ASSUME NEW s \in Session, NEW e \in Event
  PROVE  ~Ended(s, e).pending /\ Ended(s, e).looking = s.looking
<1> DEFINE n == IF e.long THEN 0 ELSE s.failures
           x == [s EXCEPT !.pending = FALSE, !.failures = n]
           b == e.outcome = "terminal" \/ Failed(x).failures >= FailureLimit
<1>1. n \in 0 .. FailureLimit
  BY LimitsAssumption DEF Session
<1>2. x \in Session /\ ~x.pending /\ x.looking = s.looking
  <2> HIDE DEF n
  <2> QED BY <1>1 DEF Session
<1>3. Failed(x) \in Session /\ ~Failed(x).pending /\ Failed(x).looking = s.looking
  BY <1>2, SessionTypes, FlagsAfterFailed
<1>4. LET y == [Failed(x) EXCEPT !.suspended = b] IN ~y.pending /\ y.looking = s.looking
  <2> HIDE DEF x, b
  <2> QED BY <1>3 DEF Session
<1>5. LET y == [s EXCEPT !.pending = FALSE, !.failures = 0, !.due = FALSE]
      IN ~y.pending /\ y.looking = s.looking
  BY DEF Session
<1> QED BY <1>4, <1>5 DEF Ended

LEMMA FlagsAfterPolled ==
  ASSUME NEW s \in Session, NEW l \in BOOLEAN, NEW c \in BOOLEAN,
         NEW lookOk \in BOOLEAN, NEW scanOk \in BOOLEAN, l => NeedsControlLookup(s)
  PROVE  LET y == Polled(s, l, c, lookOk, scanOk)
         IN /\ y.pending = (s.pending \/ (c /\ scanOk))
            /\ y.looking = IF l THEN lookOk ELSE s.looking
<1> DEFINE n == s.lookups + 1
           a == IF l
                THEN [s EXCEPT !.lookups = n, !.looking = lookOk, !.lookDue = s.lookDue /\ lookOk]
                ELSE s
<1>1. l => n \in 0 .. LookupLimit
  BY LimitsAssumption DEF Session, NeedsControlLookup
<1>2. a \in Session /\ a.pending = s.pending /\ a.looking = IF l THEN lookOk ELSE s.looking
  <2> HIDE DEF n
  <2> QED BY <1>1 DEF Session
<1>3. LET y == [a EXCEPT !.pending = TRUE] IN y.pending /\ y.looking = a.looking
  <2> HIDE DEF a
  <2> QED BY <1>2 DEF Session
<1>4. Failed(a).pending = a.pending /\ Failed(a).looking = a.looking
  BY <1>2, FlagsAfterFailed
<1>5. s.pending \in BOOLEAN
  BY DEF Session
<1>6. Polled(s, l, c, lookOk, scanOk) = IF ~c THEN a ELSE IF scanOk THEN [a EXCEPT !.pending = TRUE]
                                        ELSE Failed(a)
  BY DEF Polled
<1> HIDE DEF a
<1> QED BY <1>2, <1>3, <1>4, <1>5, <1>6

-----------------------------------------------------------------------------
(* What a flush and a poll do to the accounts *)

LEMMA FlushAccounts ==
  ASSUME TypeOK, NEW s \in [Route -> Session], NEW q \in SUBSET Queued, NEW busy \in BOOLEAN,
         NEW ws \in SUBSET Worker, NEW t \in ToldType, Flush(s, q, busy, ws, t),
         NEW E, NEW f, Accounts(ws, E, f, busy)
  PROVE  Accounts(workers', E, f, sending')
<1>1. \/ workers' = ws /\ (busy => sending')
      \/ /\ ~busy /\ sending'
         /\ \E m \in Message, targets \in SUBSET routes :
              workers' = ws \union {NewWorker("send", "horizontal", m, targets)}
  <2>1. generation \in Nat /\ epoch \in Nat /\ routes \subseteq Route
    BY DEF TypeOK
  <2> QED BY <2>1, FlushType
<1>2. CASE workers' = ws /\ (busy => sending')
  BY <1>2 DEF Accounts, SendHeld
<1>3. ASSUME ~busy, sending', NEW m \in Message, NEW targets \in SUBSET routes,
             workers' = ws \union {NewWorker("send", "horizontal", m, targets)}
      PROVE  Accounts(workers', E, f, sending')
  <2> DEFINE v == NewWorker("send", "horizontal", m, targets)
  <2>1. v \in Worker
    BY NewWorkerType, LimitsAssumption DEF TypeOK, Message, Route
  <2>2. v.kind = "send" /\ v.gen = generation /\ v.route \in Route
    BY DEF NewWorker, Route
  <2>3. v \in Act("send", Route, generation)
    BY <2>1, <2>2 DEF Act
  <2>4. \A kind \in {"scan", "lookup"} : \A r : v \notin Act(kind, {r}, generation)
    BY <2>2 DEF Act
  <2>5. workers' = ws \union {v}
    BY <1>3
  <2> HIDE DEF v
  <2>6. SendHeld(workers', E, sending')
    BY <1>3, <2>1, <2>3, <2>5, OneAdd DEF Accounts, SendHeld
  <2>7. \A kind \in {"scan", "lookup"} : \A r, flag :
          Held(ws, E, kind, r, flag) => Held(workers', E, kind, r, flag)
    BY <2>1, <2>4, <2>5, OneAdd DEF Held
  <2> QED BY <2>6, <2>7 DEF Accounts
<1> QED BY <1>1, <1>2, <1>3

LEMMA PollAccounts ==
  ASSUME TypeOK, NEW s \in [Route -> Session], PollRoutes(s),
         NEW E, Accounts(workers, E, s, sending)
  PROVE  Accounts(workers', E, session', sending')
<1>1. CASE \A r \in routes : s[r].paused
  BY <1>1 DEF PollRoutes
<1>2. CASE ~ \A r \in routes : s[r].paused
  <2>1. PICK lookOk \in [Route -> BOOLEAN], scanOk \in [Route -> BOOLEAN] :
          LET after == PolledSessions(s, lookOk, scanOk)
              added == PolledWorkers(s, lookOk, scanOk)
          IN /\ after \in [Route -> Session] /\ added \in SUBSET Worker
             /\ session' = after
             /\ Flush(after, queue, sending, workers \union added, told)
    BY <1>2, PollRoutesParts
  <2> DEFINE after == PolledSessions(s, lookOk, scanOk)
             added == PolledWorkers(s, lookOk, scanOk)
             ws == workers \union added
  <2>2. ws \in SUBSET Worker /\ routes \subseteq Route
    BY <2>1 DEF TypeOK
  <2>3. /\ \A v \in added : v.kind \in {"lookup", "scan"}
        /\ \A r \in Route :
             /\ added \intersect Act("scan", {r}, generation)
                  = IF r \in Scans(s) /\ scanOk[r] THEN {NewWorker("scan", r, 0, {})} ELSE {}
             /\ added \intersect Act("lookup", {r}, generation)
                  = IF r \in Looks(s) /\ lookOk[r] THEN {NewWorker("lookup", r, 0, {})} ELSE {}
    <3>1. added \in SUBSET Worker
      BY <2>1
    <3>2. \A kind, r : LET v == NewWorker(kind, r, 0, {})
                      IN v.kind = kind /\ v.route = r /\ v.gen = generation
      BY DEF NewWorker
    <3> QED BY <3>1, <3>2 DEF PolledWorkers, Act
  <2>4. ASSUME NEW r \in routes
        PROVE  /\ after[r].pending = (s[r].pending \/ (r \in Scans(s) /\ scanOk[r]))
               /\ after[r].looking = IF r \in Looks(s) THEN lookOk[r] ELSE s[r].looking
    <3> DEFINE l == r \in Looks(s)
               c == r \in Scans(s)
    <3>1. l \in BOOLEAN /\ c \in BOOLEAN /\ (l => NeedsControlLookup(s[r])) /\ r \in Route
      BY <2>2 DEF Looks
    <3>2. after[r] = Polled(s[r], l, c, lookOk[r], scanOk[r])
      BY <3>1 DEF PolledSessions
    <3> HIDE DEF l, c, after
    <3>3. LET y == Polled(s[r], l, c, lookOk[r], scanOk[r])
          IN y.pending = (s[r].pending \/ (c /\ scanOk[r])) /\ y.looking = IF l THEN lookOk[r] ELSE s[r].looking
      BY <3>1, FlagsAfterPolled
    <3> QED BY <3>2, <3>3 DEF l, c
  <2>5. /\ after \in [Route -> Session] /\ session' = after
        /\ Flush(after, queue, sending, ws, told)
    BY <2>1
  <2>6. \A r : (r \in Scans(s) => ~s[r].pending) /\ (r \in Looks(s) => ~s[r].looking)
    BY DEF Scans, CanScan, Looks, NeedsControlLookup
  <2> HIDE DEF after, added
  <2>7. ASSUME NEW r \in routes
        PROVE  Held(ws, E, "scan", r, after[r].pending) /\ Held(ws, E, "lookup", r, after[r].looking)
    <3>1. ASSUME NEW kind \in {"scan", "lookup"}, NEW flag,
                 Held(workers, E, kind, r, flag),
                 added \intersect Act(kind, {r}, generation) = {}
          PROVE  Held(ws, E, kind, r, flag)
      <4>1. ws \intersect Act(kind, {r}, generation) = workers \intersect Act(kind, {r}, generation)
        BY <3>1
      <4> QED BY <3>1, <4>1 DEF Held, None, One
    <3>2. ASSUME NEW kind \in {"scan", "lookup"}, NEW v,
                 Held(workers, E, kind, r, FALSE),
                 added \intersect Act(kind, {r}, generation) = {v}
          PROVE  Held(ws, E, kind, r, TRUE)
      <4>1. ws \intersect Act(kind, {r}, generation) = {v}
        BY <3>2 DEF Held, None, NoneOf
      <4> QED BY <3>2, <4>1 DEF Held, None, One, NoneOf, OneOf, AtMostOne
    <3>3. /\ Held(workers, E, "scan", r, s[r].pending) /\ Held(workers, E, "lookup", r, s[r].looking)
          /\ r \in Route
          /\ s[r].pending \in BOOLEAN /\ s[r].looking \in BOOLEAN
      BY <2>2 DEF Accounts, Session
    <3>4. Held(ws, E, "scan", r, after[r].pending)
      <4>1. CASE r \in Scans(s) /\ scanOk[r]
        BY <2>3, <2>4, <2>6, <3>2, <3>3, <4>1
      <4>2. CASE ~(r \in Scans(s) /\ scanOk[r])
        BY <2>3, <2>4, <3>1, <3>3, <4>2
      <4> QED BY <4>1, <4>2
    <3>5. Held(ws, E, "lookup", r, after[r].looking)
      <4>1. CASE r \in Looks(s) /\ lookOk[r]
        BY <2>3, <2>4, <2>6, <3>2, <3>3, <4>1
      <4>2. CASE ~(r \in Looks(s) /\ lookOk[r])
        BY <2>3, <2>4, <2>6, <3>1, <3>3, <4>2
      <4> QED BY <4>1, <4>2
    <3> QED BY <3>4, <3>5
  <2>8. SendHeld(ws, E, sending)
    <3>1. ws \intersect Act("send", Route, generation) = workers \intersect Act("send", Route, generation)
      BY <2>3 DEF Act
    <3> QED BY <3>1 DEF Accounts, SendHeld, None, One
  <2>9. Accounts(ws, E, after, sending)
    BY <2>7, <2>8 DEF Accounts
  <2> HIDE DEF ws
  <2> QED BY <2>2, <2>5, <2>9, FlushAccounts DEF TypeOK, ToldType
<1> QED BY <1>1, <1>2

\* Taking a completion off the list closes the account it belongs to, if any.
LEMMA TakeAccounts ==
  ASSUME TypeOK, events # <<>>, Accounts(workers, events, session, sending),
         NEW s \in [Route -> Session], NEW busy \in BOOLEAN,
         \A r \in routes :
           /\ s[r].pending = (session[r].pending /\ Event1 \notin Results("scan", {r}, generation))
           /\ s[r].looking = (session[r].looking /\ Event1 \notin Results("lookup", {r}, generation)),
         sending /\ Event1 \notin Results("send", Route, generation) => busy
  PROVE  Accounts(workers, Tail(events), s, busy)
<1>1. workers \in SUBSET Worker /\ events \in Seq(Event) /\ routes \subseteq Route /\ Event1 = Head(events)
  BY DEF TypeOK, Event1
<1>2. ASSUME NEW kind, NEW r \in routes, NEW flag \in BOOLEAN, NEW after \in BOOLEAN,
             Held(workers, events, kind, r, flag),
             after = (flag /\ Event1 \notin Results(kind, {r}, generation))
      PROVE  Held(workers, Tail(events), kind, r, after)
  BY <1>1, <1>2, OneTake DEF Held
<1>3. \A r \in routes : /\ session[r].pending \in BOOLEAN /\ session[r].looking \in BOOLEAN
                        /\ s[r].pending \in BOOLEAN /\ s[r].looking \in BOOLEAN
  BY <1>1 DEF TypeOK, Session
<1>4. ASSUME NEW r \in routes
      PROVE  /\ Held(workers, Tail(events), "scan", r, s[r].pending)
             /\ Held(workers, Tail(events), "lookup", r, s[r].looking)
  BY <1>2, <1>3 DEF Accounts
<1>5. SendHeld(workers, Tail(events), busy)
  BY <1>1, OneTake DEF Accounts, SendHeld
<1> QED BY <1>4, <1>5 DEF Accounts

-----------------------------------------------------------------------------
(* Every step keeps the accounts *)

\* A handler that waited has waited for everything.
LEMMA NothingLeft ==
  ASSUME Core, ui # "idle"
  PROVE  Nothing(workers, events)
<1>1. \A w \in workers : w \in Worker /\ w.gen < generation
  BY DEF Core, TypeOK, AllOlderWhileWaiting
<1>2. \A i \in DOMAIN events : events[i] \in Event /\ events[i].gen < generation
  BY DEF Core, TypeOK, AllOlderWhileWaiting
<1>3. \A g \in Nat : ~(g < g)
  OBVIOUS
<1>4. generation \in Nat
  BY DEF Core, TypeOK
<1>5. ASSUME NEW kind, NEW R PROVE None(workers, events, kind, R, generation)
  BY <1>1, <1>2, <1>3, <1>4 DEF None, NoneOf, Act, Results, Hits
<1> QED BY <1>5 DEF Nothing

\* Steps that touch none of what the accounts are about.
LEMMA FrameAccounts ==
  ASSUME IInv, UNCHANGED <<ui, generation, routes, sending, workers, events>>,
         \A r \in routes : /\ session'[r].pending = session[r].pending
                          /\ session'[r].looking = session[r].looking
  PROVE  Accounted'
BY DEF IInv, Accounted, Accounts, Held, SendHeld

\* Steps of the UI thread, from the accounts at their end.
LEMMA HandlerAccounts ==
  ASSUME UNCHANGED <<generation, routes>>, Accounts(workers', events', session', sending')
  PROVE  Accounted'
BY DEF Accounted, Accounts, Held, SendHeld

LEMMA UiStepAccounts ==
  ASSUME IInv, TypeOK', UiNext
  PROVE  Accounted'
<1> USE DEF show, chat, cancel, bounds, threads
<1>0. /\ TypeOK /\ Core
      /\ ui = "idle" => Accounts(workers, events, session, sending)
      /\ ui # "idle" => Nothing(workers, events)
  BY NothingLeft DEF IInv, Core, Accounted
<1>1. ASSUME NEW m \in Modes \union {"off"}, SelectMode(m) PROVE Accounted'
  BY <1>1, FrameAccounts DEF SelectMode
<1>2. CASE Prepare \/ StartFails \/ Stop \/ PollCancel
  BY <1>2 DEF Prepare, StartFails, Stop, BeginStop, PollCancel, Accounted
<1>3. CASE FinishPrepare
  <2>1. routes = {} /\ Nothing(workers, events)
    BY <1>0, <1>3 DEF FinishPrepare, Core, ClosedWhileWaiting
  <2>2. \A r \in routes' : ~session'[r].pending /\ ~session'[r].looking
    <3>1. \A r \in Route : \A b : ~FreshSession(b).pending /\ ~FreshSession(b).looking
      BY DEF FreshSession
    <3>2. routes' \subseteq Route
      BY DEF TypeOK
    <3> QED BY <1>3, <2>1, <3>1, <3>2 DEF FinishPrepare
  <2>3. UNCHANGED <<workers, events, generation>>
    BY <1>3 DEF FinishPrepare
  <2> QED BY <2>1, <2>2, <2>3 DEF Nothing, Accounted, Accounts, Held, SendHeld
<1>4. CASE Start
  BY <1>4, FrameAccounts DEF Start
<1>5. CASE FinishStop
  <2>1. Accounts(workers, events, session, sending)
    BY <1>0, <1>5, NothingAccounts DEF FinishStop, Core, ClosedWhileWaiting
  <2> QED BY <1>5, <2>1, HandlerAccounts DEF FinishStop
<1>6. ASSUME NEW g \in secondStarts, SecondStart(g) PROVE Accounted'
  BY <1>6, FrameAccounts DEF SecondStart
<1>7. CASE PollOff
  <2>1. routes' = {} /\ generation' = generation + 1 /\ UNCHANGED <<workers, events>>
    BY <1>7 DEF PollOff, Invalidate
  <2>2. None(workers, events, "send", Route, generation + 1)
    <3>1. generation \in Nat
      BY <1>0 DEF TypeOK
    <3>2. \A w \in workers : w \in Worker /\ w.gen # generation + 1
      <4>1. \A w \in workers : w \in Worker /\ w.gen <= generation
        BY <1>0 DEF Core, NoneNewer, TypeOK
      <4>2. \A w \in workers : w.gen \in Nat
        BY <4>1 DEF Worker
      <4> QED BY <3>1, <4>1, <4>2
    <3>3. \A i \in DOMAIN events : events[i] \in Event /\ events[i].gen # generation + 1
      <4>1. \A i \in DOMAIN events : events[i] \in Event /\ events[i].gen <= generation
        BY <1>0 DEF Core, NoneNewer, TypeOK
      <4>2. \A i \in DOMAIN events : events[i].gen \in Nat
        BY <4>1 DEF Event
      <4> QED BY <3>1, <4>1, <4>2
    <3> QED BY <3>2, <3>3 DEF None, NoneOf, Act, Results, Hits
  <2> QED BY <2>1, <2>2 DEF Accounted, Accounts, SendHeld
<1>8. CASE Poll
  <2>1. Synchronized \in [Route -> Session]
    BY <1>0, SynchronizedType DEF TypeOK
  <2>2. \A r \in routes : /\ Synchronized[r].pending = session[r].pending
                          /\ Synchronized[r].looking = session[r].looking
    <3>1. \A r \in Route : RouteActive(r) \in BOOLEAN
      BY DEF RouteActive
    <3> QED BY <1>0, <3>1 DEF Synchronized, TypeOK, Session
  <2>3. Accounts(workers, events, Synchronized, sending)
    BY <1>0, <1>8, <2>2 DEF Poll, PollReady, Accounts
  <2>4. Accounts(workers', events, session', sending')
    BY <1>0, <1>8, <2>1, <2>3, PollAccounts DEF Poll
  <2> QED BY <1>8, <2>4, HandlerAccounts DEF Poll
<1>9. CASE PollResume
  <2> DEFINE s == [r \in Route |-> Drained(session[r])]
  <2>1. s \in [Route -> Session]
    BY <1>0, SessionTypes DEF TypeOK
  <2>2. \A r \in routes : ~s[r].pending /\ ~s[r].looking
    <3>1. \A x \in Session : ~Drained(x).pending /\ ~Drained(x).looking
      BY DEF Drained, Session
    <3>2. session \in [Route -> Session] /\ routes \subseteq Route
      BY <1>0 DEF TypeOK
    <3> QED BY <3>1, <3>2
  <2>3. PollRoutes(s) /\ ui = "pollWait" /\ UNCHANGED <<events, generation, routes>>
    BY <1>9 DEF PollResume
  <2> HIDE DEF s
  <2>4. Accounts(workers, events, s, sending)
    BY <1>0, <2>2, <2>3, NothingAccounts
  <2>5. Accounts(workers', events, session', sending')
    BY <1>0, <2>1, <2>3, <2>4, PollAccounts
  <2> QED BY <2>3, <2>5, HandlerAccounts
<1>10. CASE SendMessage
  <2>1. PICK q \in SUBSET Queued, t \in ToldType : Flush(session, q, sending, workers, t)
    BY <1>0, <1>10, SendMessageFlush
  <2>2. Accounts(workers', events, session, sending')
    BY <1>0, <1>10, <2>1, FlushAccounts DEF SendMessage, TypeOK
  <2> QED BY <1>10, <2>2, HandlerAccounts DEF SendMessage
<1>11. CASE Moderate
  <2> DEFINE v == NewWorker("moderate", "horizontal", 0, {})
  <2>1. v \in Worker /\ v.kind = "moderate"
    <3>1. 0 \in 0 .. MaxMessages /\ "horizontal" \in Route /\ generation \in Nat /\ epoch \in Nat
      BY <1>0, LimitsAssumption DEF Route, TypeOK
    <3>2. v \in Worker
      BY <3>1, NewWorkerType
    <3> QED BY <3>2 DEF NewWorker
  <2>2. workers' = workers \union {v} /\ ui = "idle"
        /\ UNCHANGED <<events, session, sending, generation, routes>>
    BY <1>11 DEF Moderate
  <2> HIDE DEF v
  <2>3. Moves(workers, events, workers', events)
    <3>1. \A kind \in {"scan", "lookup", "send"} : \A R : v \notin Act(kind, R, generation)
      BY <2>1 DEF Act
    <3> QED BY <1>0, <2>1, <2>2, <3>1, OneAdd DEF Moves, TypeOK
  <2>4. Accounts(workers', events, session, sending)
    BY <1>0, <2>2, <2>3, MovesKeepsAccounts DEF TypeOK
  <2> QED BY <2>2, <2>4, HandlerAccounts
<1>12. \A e \in Event : \A kind, r :
         /\ e.kind # kind => e \notin Results(kind, {r}, generation)
         /\ e.kind # "send" => e \notin Results("send", Route, generation)
         /\ Late(e) /\ kind # "send" /\ r \in routes => e \notin Results(kind, {r}, generation)
         /\ Late(e) => e \notin Results("send", Route, generation)
  BY DEF Results, Late
<1>13. events # <<>> => Event1 \in Event
  BY <1>0, EventTypes DEF TypeOK
<1>14. \A r \in Route : session[r].pending \in BOOLEAN /\ session[r].looking \in BOOLEAN
  BY <1>0 DEF TypeOK, Session
<1>15. routes \subseteq Route /\ session \in [Route -> Session] /\ sending \in BOOLEAN
  BY <1>0 DEF TypeOK
<1>16. CASE DropLate
  <2>1. Accounts(workers, Tail(events), session, sending)
    BY <1>0, <1>12, <1>13, <1>14, <1>15, <1>16, TakeAccounts DEF DropLate
  <2> QED BY <1>16, <2>1, HandlerAccounts DEF DropLate
<1>17. CASE LookupDone
  <2>1. /\ Event1 \in Event /\ events # <<>> /\ ui = "idle" /\ events' = Tail(events)
        /\ Event1.kind = "lookup" /\ Event1.gen = generation /\ Event1.route \in routes
    BY <1>13, <1>17 DEF LookupDone, TakeEvent, Late
  <2>2. /\ session' \in [Route -> Session]
        /\ \/ Flush(session', queue, sending, workers, told)
           \/ UNCHANGED <<queue, sending, workers, told>>
    BY <1>0, <1>17, LookupDoneFlush
  <2>3. \A r \in routes :
          /\ session'[r].pending = session[r].pending
          /\ session'[r].looking = (session[r].looking /\ r # Event1.route)
    <3>1. \A x \in Session : \A known :
            LET y == [x EXCEPT !.looking = FALSE, !.lookDue = FALSE, !.chatId = known]
            IN y.pending = x.pending /\ y.looking = FALSE
      BY DEF Session
    <3>2. \E known : session' =
            [session EXCEPT ![Event1.route] = [session[Event1.route] EXCEPT !.looking = FALSE,
                                                 !.lookDue = FALSE, !.chatId = known]]
      BY <1>17 DEF LookupDone
    <3>3. /\ session'[Event1.route].pending = session[Event1.route].pending
          /\ session'[Event1.route].looking = FALSE
          /\ \A r \in Route : r # Event1.route => session'[r] = session[r]
      BY <1>15, <2>1, <3>1, <3>2
    <3> QED BY <1>14, <1>15, <3>3
  <2>4. Accounts(workers, Tail(events), session', sending)
    <3>1. \A r \in routes : Event1 \in Results("lookup", {r}, generation) <=> r = Event1.route
      BY <2>1 DEF Results
    <3>2. /\ Event1 \notin Results("send", Route, generation)
          /\ \A r \in routes : Event1 \notin Results("scan", {r}, generation)
      BY <1>12, <2>1
    <3>3. \A r \in routes :
            /\ session'[r].pending = (session[r].pending /\ Event1 \notin Results("scan", {r}, generation))
            /\ session'[r].looking = (session[r].looking /\ Event1 \notin Results("lookup", {r}, generation))
      BY <1>14, <1>15, <2>3, <3>1, <3>2
    <3>4. session' \in [Route -> Session] /\ sending \in BOOLEAN /\ events # <<>>
          /\ Accounts(workers, events, session, sending)
      BY <1>0, <1>15, <2>1, <2>2
    <3>5. sending /\ Event1 \notin Results("send", Route, generation) => sending
      OBVIOUS
    <3> QED BY <1>0, <3>3, <3>4, <3>5, TakeAccounts
  <2>5. Accounts(workers', Tail(events), session', sending')
    BY <1>0, <1>15, <2>2, <2>4, FlushAccounts DEF TypeOK, ToldType
  <2> QED BY <1>17, <2>1, <2>5, HandlerAccounts DEF LookupDone
<1>18. CASE BatchArrived
  <2>1. events # <<>> /\ ui = "idle" /\ events' = Tail(events) /\ Event1.kind = "batch"
    BY <1>18 DEF BatchArrived, TakeEvent
  <2>2. \A r \in routes : session'[r].pending = session[r].pending /\ session'[r].looking = session[r].looking
    BY <1>15, <1>18 DEF BatchArrived, Session
  <2>3. session' \in [Route -> Session]
    BY DEF TypeOK
  <2>4. Accounts(workers, Tail(events), session', sending)
    BY <1>0, <1>12, <1>13, <1>14, <1>15, <2>1, <2>2, <2>3, TakeAccounts
  <2> QED BY <1>18, <2>1, <2>4, HandlerAccounts DEF BatchArrived
<1>19. CASE ScanDone
  <2>1. /\ Event1 \in Event /\ events # <<>> /\ ui = "idle" /\ events' = Tail(events)
        /\ Event1.kind = "scan" /\ Event1.gen = generation /\ Event1.route \in routes
    BY <1>13, <1>19 DEF ScanDone, TakeEvent, Late
  <2>2. \A r \in routes :
          /\ session'[r].pending = (session[r].pending /\ r # Event1.route)
          /\ session'[r].looking = session[r].looking
    <3>1. LET y == Ended(session[Event1.route], Event1)
          IN ~y.pending /\ y.looking = session[Event1.route].looking /\ y.pending \in BOOLEAN
      <4>1. session[Event1.route] \in Session
        BY <1>15, <2>1
      <4>2. Ended(session[Event1.route], Event1) \in Session
        BY <2>1, <4>1, SessionTypes
      <4>3. \A y \in Session : y.pending \in BOOLEAN
        BY DEF Session
      <4> QED BY <2>1, <4>1, <4>2, <4>3, FlagsAfterEnded
    <3>2. session' = [session EXCEPT ![Event1.route] = Ended(session[Event1.route], Event1)]
      BY <1>19 DEF ScanDone
    <3> QED BY <1>14, <1>15, <2>1, <3>1, <3>2
  <2>3. session' \in [Route -> Session]
    BY DEF TypeOK
  <2>4. Accounts(workers, Tail(events), session', sending)
    <3>1. \A r \in routes : Event1 \in Results("scan", {r}, generation) <=> r = Event1.route
      BY <2>1 DEF Results
    <3>2. /\ Event1 \notin Results("send", Route, generation)
          /\ \A r \in routes : Event1 \notin Results("lookup", {r}, generation)
      BY <1>12, <2>1
    <3>3. \A r \in routes :
            /\ session'[r].pending = (session[r].pending /\ Event1 \notin Results("scan", {r}, generation))
            /\ session'[r].looking = (session[r].looking /\ Event1 \notin Results("lookup", {r}, generation))
      BY <1>14, <1>15, <2>2, <3>1, <3>2
    <3>4. session' \in [Route -> Session] /\ sending \in BOOLEAN /\ events # <<>>
          /\ Accounts(workers, events, session, sending)
      BY <1>0, <1>15, <2>1, <2>3
    <3>5. sending /\ Event1 \notin Results("send", Route, generation) => sending
      OBVIOUS
    <3> QED BY <1>0, <3>3, <3>4, <3>5, TakeAccounts
  <2> QED BY <1>19, <2>1, <2>4, HandlerAccounts DEF ScanDone
<1>20. CASE SendDone
  <2>1. /\ Event1 \in Event /\ events # <<>> /\ ui = "idle" /\ events' = Tail(events)
        /\ Event1.kind = "send" /\ Event1.gen = generation
        /\ UNCHANGED <<session, generation, routes>>
    BY <1>13, <1>20 DEF SendDone, TakeEvent, Late
  <2>2. Accounts(workers, Tail(events), session, FALSE)
    <3>1. Event1 \in Results("send", Route, generation)
      BY <2>1 DEF Results, Event
    <3> QED BY <1>0, <1>12, <1>14, <1>15, <2>1, <3>1, TakeAccounts
  <2>3. \/ sending' = FALSE /\ UNCHANGED <<queue, workers, told>>
        \/ \E q \in SUBSET Queued, t \in ToldType : Flush(session, q, FALSE, workers, t)
    BY <1>0, <1>20, SendDoneFlush
  <2>4. Accounts(workers', Tail(events), session, sending')
    BY <1>0, <1>15, <2>2, <2>3, FlushAccounts DEF TypeOK
  <2> QED BY <2>1, <2>4, HandlerAccounts
<1> QED
  BY <1>1, <1>2, <1>3, <1>4, <1>5, <1>6, <1>7, <1>8, <1>9, <1>10, <1>11, <1>16, <1>17, <1>18,
     <1>19, <1>20 DEF UiNext

LEMMA WorkerStepAccounts ==
  ASSUME IInv, TypeOK', WorkerNext
  PROVE  Accounted'
<1> USE DEF show, chat, cancel, WorkerFrame, Exit, Replace, Post
<1>0. /\ TypeOK /\ Core /\ workers \in SUBSET Worker /\ events \in Seq(Event)
      /\ routes \subseteq Route
  BY DEF IInv, Core, TypeOK
<1>1. PICK w \in workers : \/ WorkerEnters(w) \/ LookupReturns(w) \/ ModerationReturns(w)
                           \/ \E reply \in Replies : SendReturns(w, reply)
                           \/ ScanStarts(w) \/ ScanBatch(w) \/ ScanEnds(w)
  BY DEF WorkerNext
<1>2. UNCHANGED <<ui, generation, epoch, routes, session, sending>>
  BY <1>1 DEF WorkerEnters, LookupReturns, ModerationReturns, SendReturns, ScanStarts,
              ScanBatch, ScanEnds
<1>3. w \in Worker
  BY <1>0
<1> SUFFICES ASSUME ui = "idle" PROVE Accounted'
  BY <1>2 DEF Accounted
<1>4. Cancelled(w) => w.kind = "moderate"
  BY DEF IInv, Core, NoCancelledWorkerWhenIdle, Cancelled
<1> DEFINE Counted == {"scan", "lookup", "send"}
\* A worker that goes on, one that ends without a result, one that posts its result, and
\* one that posts a batch all only move what is counted.
<1>5. ASSUME NEW v \in Worker, v.kind = w.kind, v.gen = w.gen,
             w.kind = "send" \/ v.route = w.route,
             workers' = (workers \ {w}) \union {v}, events' = events
      PROVE  Moves(workers, events, workers', events')
  BY <1>0, <1>5, OneReplace DEF Moves
<1>6. ASSUME w.kind = "moderate", workers' = workers \ {w}, events' = events
      PROVE  Moves(workers, events, workers', events')
  <2>1. \A kind \in Counted : w.kind # kind
    BY <1>6
  <2> QED BY <1>0, <1>6, <2>1, OneExit DEF Moves
<1>7. ASSUME NEW e \in Event, e.kind = w.kind, e.gen = w.gen, e.route = w.route,
             workers' = workers \ {w}, events' = Append(events, e)
      PROVE  Moves(workers, events, workers', events')
  BY <1>0, <1>7, OneExitPost DEF Moves
<1>8. ASSUME NEW e \in Event, e.kind = "batch", workers' = workers, events' = Append(events, e)
      PROVE  Moves(workers, events, workers', events')
  <2>1. \A kind \in Counted : e.kind # kind
    BY <1>8
  <2> QED BY <1>0, <1>8, <2>1, OnePost DEF Moves
<1>9. ASSUME WorkerEnters(w) PROVE Moves(workers, events, workers', events')
  <2>1. CASE Cancelled(w)
    BY <1>4, <1>6, <1>9, <2>1 DEF WorkerEnters
  <2>2. CASE ~Cancelled(w)
    <3>1. PICK r \in (IF w.kind = "send" THEN w.todo ELSE {w.route}) :
            workers' = (workers \ {w}) \union {[w EXCEPT !.pc = "call", !.route = r]}
      BY <1>9, <2>2 DEF WorkerEnters
    <3> DEFINE v == [w EXCEPT !.pc = "call", !.route = r]
    <3>2. /\ v \in Worker /\ v.kind = w.kind /\ v.gen = w.gen
          /\ w.kind = "send" \/ v.route = w.route
      BY <1>3 DEF Worker
    <3>3. events' = events
      BY <1>9 DEF WorkerEnters
    <3> HIDE DEF v
    <3>4. workers' = (workers \ {w}) \union {v}
      BY <3>1 DEF v
    <3> QED BY <1>5, <3>2, <3>3, <3>4
  <2> QED BY <2>1, <2>2
<1>10. ASSUME LookupReturns(w) PROVE Moves(workers, events, workers', events')
  <2>1. PICK outcome \in {"ok", "error"} :
          events' = Append(events, Completion(w, "lookup", outcome, FALSE))
    BY <1>10 DEF LookupReturns
  <2>2. w.kind = "lookup" /\ workers' = workers \ {w}
    BY <1>10 DEF LookupReturns
  <2> DEFINE e == Completion(w, "lookup", outcome, FALSE)
  <2>3. e \in Event /\ e.kind = "lookup" /\ e.gen = w.gen /\ e.route = w.route
    BY <1>3, CompletionType DEF Completion
  <2> HIDE DEF e
  <2>4. events' = Append(events, e)
    BY <2>1 DEF e
  <2> QED BY <1>7, <2>2, <2>3, <2>4
<1>11. ASSUME ModerationReturns(w) PROVE Moves(workers, events, workers', events')
  BY <1>6, <1>11 DEF ModerationReturns
<1>12. ASSUME ScanBatch(w) PROVE Moves(workers, events, workers', events')
  <2> DEFINE e == Completion(w, "batch", "ok", TRUE)
  <2>1. workers' = workers /\ events' = Append(events, e)
    BY <1>12 DEF ScanBatch
  <2>2. e \in Event /\ e.kind = "batch"
    BY <1>3, CompletionType DEF Completion
  <2> HIDE DEF e
  <2> QED BY <1>8, <2>1, <2>2
<1>13. ASSUME ScanStarts(w) PROVE Moves(workers, events, workers', events')
  <2>1. CASE Cancelled(w)
    <3> DEFINE e == Completion(w, "scan", "error", FALSE)
    <3>1. workers' = workers \ {w} /\ events' = Append(events, e) /\ w.kind = "scan"
      BY <1>13, <2>1 DEF ScanStarts
    <3>2. e \in Event /\ e.kind = "scan" /\ e.gen = w.gen /\ e.route = w.route
      BY <1>3, CompletionType DEF Completion
    <3> HIDE DEF e
    <3> QED BY <1>7, <3>1, <3>2
  <2>2. CASE ~Cancelled(w)
    <3> DEFINE v == [w EXCEPT !.pc = "call"]
    <3>1. workers' = (workers \ {w}) \union {v} /\ events' = events
      BY <1>13, <2>2 DEF ScanStarts
    <3>2. v \in Worker /\ v.kind = w.kind /\ v.gen = w.gen /\ v.route = w.route
      BY <1>3 DEF Worker
    <3> HIDE DEF v
    <3> QED BY <1>5, <3>1, <3>2
  <2> QED BY <2>1, <2>2
<1>14. ASSUME ScanEnds(w) PROVE Moves(workers, events, workers', events')
  <2>1. PICK outcome \in {"ok", "error", "terminal"}, long \in BOOLEAN :
          events' = Append(events, Completion(w, "scan", outcome, long))
    BY <1>14, ChoicesAssumption DEF ScanEnds
  <2>2. w.kind = "scan" /\ workers' = workers \ {w}
    BY <1>14 DEF ScanEnds
  <2> DEFINE e == Completion(w, "scan", outcome, long)
  <2>3. e \in Event /\ e.kind = "scan" /\ e.gen = w.gen /\ e.route = w.route
    BY <1>3, CompletionType DEF Completion
  <2> HIDE DEF e
  <2>4. events' = Append(events, e)
    BY <2>1 DEF e
  <2> QED BY <1>7, <2>2, <2>3, <2>4
<1>15. ASSUME NEW reply \in Replies, SendReturns(w, reply)
       PROVE  Moves(workers, events, workers', events')
  <2> DEFINE done == IF reply = "ok" THEN w.done \union {w.route} ELSE w.done
             v == [w EXCEPT !.todo = @ \ {w.route}, !.done = done]
             e == Completion(v, "send", "ok", FALSE)
  <2>1. v \in Worker /\ v.kind = "send" /\ w.kind = "send" /\ v.gen = w.gen /\ v.route = w.route
    <3>1. done \in SUBSET Route /\ w.kind = "send"
      BY <1>3, <1>15 DEF Worker, SendReturns
    <3> HIDE DEF done
    <3> QED BY <1>3, <3>1 DEF Worker
  <2>2. e \in Event /\ e.kind = "send" /\ e.gen = w.gen /\ e.route = w.route
    BY <2>1, CompletionType DEF Completion
  <2>3. \A r \in v.todo : LET u == [v EXCEPT !.route = r]
                          IN u \in Worker /\ u.kind = w.kind /\ u.gen = w.gen
    BY <2>1 DEF Worker
  <2>4. \/ workers' = workers \ {w} /\ events' = Append(events, e)
        \/ Cancelled(w) /\ workers' = workers \ {w} /\ events' = events
        \/ \E r \in v.todo : workers' = (workers \ {w}) \union {[v EXCEPT !.route = r]} /\ events' = events
    BY <1>15 DEF SendReturns
  <2> HIDE DEF v, e
  <2>5. ~Cancelled(w)
    BY <1>4, <2>1
  <2> QED BY <1>5, <1>7, <2>1, <2>2, <2>3, <2>4, <2>5
<1>16. Moves(workers, events, workers', events')
  BY <1>1, <1>9, <1>10, <1>11, <1>12, <1>13, <1>14, <1>15
<1>17. Accounts(workers', events', session, sending)
  BY <1>0, <1>16, MovesKeepsAccounts DEF IInv, Accounted
<1> QED BY <1>2, <1>17, HandlerAccounts

LEMMA EnvStepAccounts ==
  ASSUME IInv, EnvNext
  PROVE  Accounted'
<1> USE DEF show, chat, cancel, bounds, threads, EnvFrame
<1>0. session \in [Route -> Session] /\ routes \subseteq Route
  BY DEF IInv, Core, TypeOK
<1>1. CASE PrimaryChanges
  BY <1>1, FrameAccounts DEF PrimaryChanges
<1>2. CASE SecondaryChanges
  BY <1>2, FrameAccounts DEF SecondaryChanges
<1>3. ASSUME NEW c \in queue, MessageAges(c) \/ RetryComesDue(c) PROVE Accounted'
  BY <1>3, FrameAccounts DEF MessageAges, RetryComesDue
<1>4. ASSUME NEW r \in Route, ScanComesDue(r) \/ LookupComesDue(r) PROVE Accounted'
  <2>1. \A x \in routes : session'[x].pending = session[x].pending /\ session'[x].looking = session[x].looking
    BY <1>0, <1>4 DEF ScanComesDue, LookupComesDue, Session
  <2> QED BY <1>4, <2>1, FrameAccounts DEF ScanComesDue, LookupComesDue
<1>5. CASE QuotaPause \/ QuotaResume
  BY <1>5, FrameAccounts DEF QuotaPause, QuotaResume, Pause
<1> QED BY <1>1, <1>2, <1>3, <1>4, <1>5 DEF EnvNext

LEMMA IInvInit == Init => IInv
<1> SUFFICES ASSUME Init PROVE IInv
  OBVIOUS
<1>1. routes = {} /\ workers = {} /\ Hits(events, Results("send", Route, generation)) = {}
  BY DEF Init, Hits
<1>2. Accounted
  BY <1>1 DEF Accounted, Accounts, SendHeld, None, NoneOf
<1> QED BY <1>2, CoreInit DEF IInv

LEMMA IInvStep == IInv /\ [Next]_vars => IInv'
<1> SUFFICES ASSUME IInv, [Next]_vars PROVE IInv'
  OBVIOUS
<1>1. Core'
  BY CoreStep DEF IInv
<1>2. ASSUME UNCHANGED vars PROVE Accounted'
  BY <1>2, FrameAccounts DEF vars, show, chat, cancel, bounds, threads
<1>3. ASSUME Next PROVE Accounted'
  BY <1>1, <1>3, UiStepAccounts, WorkerStepAccounts, EnvStepAccounts DEF Next, Core
<1> QED BY <1>1, <1>2, <1>3 DEF IInv

LEMMA IInvImplies == IInv => OneSender /\ ReadersAccounted /\ LookupsAccounted
BY AccountsMean DEF IInv, Core

\* In a generation at most one message is being sent, and the send flag covers it from the
\* flush that starts the sender to the handler that takes its completion.
THEOREM AtMostOneSender == Spec => []OneSender
<1> QED BY IInvInit, IInvStep, IInvImplies, PTL DEF Spec

\* requestPending says exactly whether the route's reader runs or has just reported: a
\* cancellation, a late result or a thread that did not start neither loses nor doubles it.
THEOREM ReadersHold == Spec => []ReadersAccounted
<1> QED BY IInvInit, IInvStep, IInvImplies, PTL DEF Spec

\* The same of controlLookupPending and the lookup of the route's chat id.
THEOREM LookupsHold == Spec => []LookupsAccounted
<1> QED BY IInvInit, IInvStep, IInvImplies, PTL DEF Spec

-----------------------------------------------------------------------------
(* What an operator may conclude from ChatOutbox, for any routes and any      *)
(* number of messages: order, no duplicates, and true verdicts.               *)

OutboxTyped == /\ arrived \in [Route -> Seq(Message)]
               /\ told \in [Message -> {"none", "queued"} \union Outbox!Verdict]

OutboxOrdered == OutboxTyped /\ Outbox!ArrivedInOrder

OutboxHonest == OutboxTyped /\ Outbox!HonestVerdicts

LEMMA OutboxTypedStep ==
  ASSUME OutboxTyped, [Outbox!Next]_(Outbox!vars)
  PROVE  OutboxTyped'
<1>1. CASE Outbox!Report
  BY <1>1 DEF Outbox!Report, OutboxTyped
<1>2. ASSUME NEW m \in Message, NEW r \in Route, Outbox!Deliver(m, r) PROVE OutboxTyped'
  <2>1. Append(arrived[r], m) \in Seq(Message)
    BY DEF OutboxTyped
  <2> QED BY <1>2, <2>1 DEF Outbox!Deliver, OutboxTyped
<1>3. CASE UNCHANGED Outbox!vars
  BY <1>3 DEF Outbox!vars, OutboxTyped
<1> QED BY <1>1, <1>2, <1>3 DEF Outbox!Next

\* Only a message newer than all of a chat's is appended to it.
LEMMA OutboxOrderedStep ==
  ASSUME OutboxOrdered, [Outbox!Next]_(Outbox!vars)
  PROVE  OutboxOrdered'
<1>t. OutboxTyped /\ OutboxTyped' /\ Outbox!ArrivedInOrder
  BY OutboxTypedStep DEF OutboxOrdered
<1>1. CASE Outbox!Report
  BY <1>t, <1>1 DEF Outbox!Report, OutboxOrdered, Outbox!ArrivedInOrder
<1>2. ASSUME NEW m \in Message, NEW r \in Route, Outbox!Deliver(m, r) PROVE Outbox!ArrivedInOrder'
  <2>1. ASSUME NEW q \in Route, NEW i \in DOMAIN arrived'[q], NEW j \in DOMAIN arrived'[q], i < j
        PROVE  arrived'[q][i] < arrived'[q][j]
    <3>1. CASE q # r
      <4>1. arrived'[q] = arrived[q]
        BY <1>2, <3>1 DEF Outbox!Deliver
      <4> QED BY <1>t, <2>1, <4>1 DEF Outbox!ArrivedInOrder
    <3>2. CASE q = r
      <4> DEFINE shown == arrived[r]
      <4>1. shown \in Seq(Message) /\ arrived'[q] = Append(shown, m)
        BY <1>t, <1>2, <3>2 DEF Outbox!Deliver, OutboxTyped
      <4>2. \A k \in DOMAIN shown : shown[k] < m
        BY <1>2 DEF Outbox!Deliver, Outbox!ArrivedAt
      <4>3. \A k, l \in DOMAIN shown : k < l => shown[k] < shown[l]
        BY <1>t DEF Outbox!ArrivedInOrder
      <4> HIDE DEF shown
      <4>4. i \in 1 .. Len(shown) + 1 /\ j \in 1 .. Len(shown) + 1
        BY <4>1
      <4>5. i \in 1 .. Len(shown) /\ Append(shown, m)[i] = shown[i]
        BY <2>1, <4>1, <4>4
      <4>6. CASE j = Len(shown) + 1
        BY <4>1, <4>2, <4>5, <4>6
      <4>7. CASE j \in 1 .. Len(shown)
        BY <2>1, <4>1, <4>3, <4>5, <4>7
      <4> QED BY <4>4, <4>1, <4>6, <4>7
    <3> QED BY <3>1, <3>2
  <2> QED BY <2>1 DEF Outbox!ArrivedInOrder
<1>3. CASE UNCHANGED Outbox!vars
  BY <1>t, <1>3 DEF Outbox!vars, Outbox!ArrivedInOrder, OutboxOrdered
<1> QED BY <1>t, <1>1, <1>2, <1>3 DEF Outbox!Next, OutboxOrdered

\* A verdict is true when it is given, and the message arrives nowhere afterwards.
LEMMA OutboxHonestStep ==
  ASSUME OutboxHonest, [Outbox!Next]_(Outbox!vars)
  PROVE  OutboxHonest'
<1>t. OutboxTyped /\ OutboxTyped' /\ Outbox!HonestVerdicts
  BY OutboxTypedStep DEF OutboxHonest
<1>1. ASSUME Outbox!Report, NEW m \in Message, told'[m] \in Outbox!Verdict
      PROVE  Outbox!Truthful(m, told[m])'
  <2>1. arrived' = arrived
    BY <1>1 DEF Outbox!Report
  <2>2. CASE told'[m] = told[m]
    BY <1>t, <1>1, <2>1, <2>2 DEF Outbox!HonestVerdicts, Outbox!Truthful, Outbox!ArrivedAt
  <2>3. CASE told'[m] # told[m]
    <3>1. told'[m] # "queued"
      BY <1>1 DEF Outbox!Verdict
    <3>2. Outbox!Truthful(m, told'[m])
      BY <1>1, <2>3, <3>1 DEF Outbox!Report
    <3> QED BY <2>1, <3>2 DEF Outbox!Truthful, Outbox!ArrivedAt
  <2> QED BY <2>2, <2>3
<1>2. ASSUME NEW n \in Message, NEW r \in Route, Outbox!Deliver(n, r),
             NEW m \in Message, told'[m] \in Outbox!Verdict
      PROVE  Outbox!Truthful(m, told[m])'
  <2>1. told' = told /\ arrived' = [arrived EXCEPT ![r] = Append(@, n)] /\ told[n] = "queued"
    BY <1>2 DEF Outbox!Deliver
  <2>2. m # n
    BY <1>2, <2>1 DEF Outbox!Verdict
  <2>3. Outbox!Truthful(m, told[m])
    BY <1>t, <1>2, <2>1 DEF Outbox!HonestVerdicts
  <2>4. \A q \in Route : m \in Outbox!ArrivedAt(q) <=> m \in Outbox!ArrivedAt(q)'
    <3>1. TAKE q \in Route
    <3>2. CASE q # r
      BY <1>t, <2>1, <3>2 DEF Outbox!ArrivedAt, OutboxTyped
    <3>3. CASE q = r
      <4> DEFINE shown == arrived[r]
      <4>1. shown \in Seq(Message) /\ arrived'[r] = Append(shown, n)
        BY <1>t, <2>1 DEF OutboxTyped
      <4>2. Outbox!ArrivedAt(q) = {shown[i] : i \in DOMAIN shown}
        BY <3>3 DEF Outbox!ArrivedAt
      <4>3. Outbox!ArrivedAt(q)' = {Append(shown, n)[i] : i \in DOMAIN Append(shown, n)}
        BY <3>3, <4>1 DEF Outbox!ArrivedAt
      <4> HIDE DEF shown
      <4>4. /\ DOMAIN shown = 1 .. Len(shown) /\ DOMAIN Append(shown, n) = 1 .. Len(shown) + 1
            /\ \A i \in 1 .. Len(shown) : Append(shown, n)[i] = shown[i]
            /\ Append(shown, n)[Len(shown) + 1] = n /\ Len(shown) \in Nat
        BY <4>1
      <4>5. {Append(shown, n)[i] : i \in 1 .. Len(shown) + 1} = {shown[i] : i \in 1 .. Len(shown)} \union {n}
        <5>1. 1 .. Len(shown) + 1 = (1 .. Len(shown)) \union {Len(shown) + 1}
          BY <4>4
        <5> QED BY <4>4, <5>1
      <4> QED BY <2>2, <4>2, <4>3, <4>4, <4>5
    <3> QED BY <3>2, <3>3
  <2> QED BY <2>1, <2>3, <2>4 DEF Outbox!Truthful
<1>3. ASSUME UNCHANGED Outbox!vars, NEW m \in Message, told'[m] \in Outbox!Verdict
      PROVE  Outbox!Truthful(m, told[m])'
  BY <1>t, <1>3 DEF Outbox!vars, Outbox!HonestVerdicts, Outbox!Truthful, Outbox!ArrivedAt
<1>4. Outbox!HonestVerdicts'
  BY <1>1, <1>2, <1>3 DEF Outbox!Next, Outbox!HonestVerdicts
<1> QED BY <1>t, <1>4 DEF OutboxHonest

LEMMA OutboxInit ==
  ASSUME Outbox!Init
  PROVE  OutboxOrdered /\ OutboxHonest
BY DEF Outbox!Init, OutboxOrdered, OutboxHonest, OutboxTyped, Outbox!ArrivedInOrder,
       Outbox!HonestVerdicts, Outbox!Verdict

\* What pulseYouTubeChatQueue and its Flush are to achieve: each chat shows the messages
\* in the order they were sent, and none twice.
THEOREM OrderHolds == Outbox!Spec => []Outbox!ArrivedInOrder
<1>1. OutboxOrdered => Outbox!ArrivedInOrder
  BY DEF OutboxOrdered
<1> QED BY <1>1, OutboxInit, OutboxOrderedStep, PTL DEF Outbox!Spec

\* The verdicts of the composer's status line, once given, stay true: what "could not be
\* sent" is in no chat and gets into none, what was sent is in one.
THEOREM VerdictsHold == Outbox!Spec => []Outbox!HonestVerdicts
<1>1. OutboxHonest => Outbox!HonestVerdicts
  BY DEF OutboxHonest
<1> QED BY <1>1, OutboxInit, OutboxHonestStep, PTL DEF Outbox!Spec

-----------------------------------------------------------------------------
(* The queue implements ChatOutbox.  The invariant keeps books of each queued *)
(* message: what has arrived of it is credited to it or in the hands of the   *)
(* one sender or its completion, and no later message has overtaken it.       *)

At(m) == {r \in Route : m \in Outbox!ArrivedAt(r)}
Newer(m, r) == \A n \in Outbox!ArrivedAt(r) : n < m
Senders(W) == {w \in W : w.kind = "send"}

\* The queue q against the verdicts t: what is queued has none yet, and once.
Entries(q, t) == /\ \A c \in q : t[c.id] = "queued"
                 /\ \A c, d \in q : c.id = d.id => c = d

\* No later message has reached a route that is still owed one.
InTurn(q) ==
  \A c \in q : ~c.aged => \A r \in Owed(c) : \A n \in Outbox!ArrivedAt(r) : n <= c.id

\* What has arrived of the messages of q is credited, but for done of message m.
Settled(q, m, done) ==
  \A c \in q : At(c.id) = c.delivered \union (IF c.id = m THEN done ELSE {})

\* A sender's message has no verdict, is newer than all its targets have, and no
\* earlier one is owed to them.
Fit(w, q, t) ==
  /\ w.msg \in Message /\ t[w.msg] = "queued"
  /\ w.pc = "call" => w.route \in w.todo
  /\ \A r \in w.todo : Newer(w.msg, r)
  /\ \A c \in q : c.id < w.msg /\ ~c.aged => w.todo \intersect Owed(c) = {}

Sends(q, W, t) == /\ AtMostOne(Senders(W))
                  /\ \A w \in Senders(W) : Fit(w, q, t)

\* What is not credited is in the hands of the sender, or of its completion E[i].
Credits(q, busy, W, E) ==
  /\ ~busy => Settled(q, 0, {})
  /\ \A w \in Senders(W) : w.gen = generation => Settled(q, w.msg, w.done)
  /\ \A i \in DOMAIN E :
       E[i].kind = "send" /\ E[i].gen = generation => Settled(q, E[i].msg, E[i].done)

Ledger(q, busy, W, E, t) ==
  Entries(q, t) /\ InTurn(q) /\ Sends(q, W, t) /\ Credits(q, busy, W, E)

\* Messages are told of, arrive and are reported in the order of their numbers.
Numbered(t, n, E) ==
  /\ \A m \in Message : t[m] = "none" <=> m > n
  /\ \A r \in Route : \A m \in Outbox!ArrivedAt(r) : m \in Message /\ m <= n
  /\ \A i \in DOMAIN E : E[i].kind = "send" => E[i].msg \in Message /\ E[i].msg <= n

Covered(busy, W) == Senders(W) = {} \/ busy

Closing == ui \in {"prepWait", "stopWait"}

\* A cancellation gives the epoch and the generation a new value together.
Lockstep == generation = epoch /\ \A w \in workers : w.gen = w.epoch

Book == /\ Lockstep /\ Numbered(told, sequence, events)
        /\ Ledger(queue, sending, workers, events, told)
        /\ Closing => queue = {}
        /\ Closing \/ Covered(sending, workers)

\* The inductive invariant of the refinement.
LInv == IInv /\ Book

\* Facts that depend only on ids, ages and credits of the queued messages.
LEMMA UpdateLedger ==
  ASSUME NEW q, NEW busy, NEW W, NEW E, NEW t, Ledger(q, busy, W, E, t),
         NEW c \in q, NEW d, d.id = c.id, d.delivered = c.delivered, c.aged => d.aged
  PROVE  Ledger(Update(q, c, d), busy, W, E, t)
<1>1. \A e \in Update(q, c, d) :
        \E f \in q : e.id = f.id /\ e.delivered = f.delivered /\ (f.aged => e.aged) /\ Owed(e) = Owed(f)
              /\ (e = d => f = c) /\ (e # d => f = e)
  BY DEF Update, Owed
<1>2. Entries(Update(q, c, d), t)
  <2>1. Entries(q, t)
    BY DEF Ledger
  <2>2. \A e \in Update(q, c, d) : t[e.id] = "queued"
    BY <1>1, <2>1 DEF Entries
  <2>3. ASSUME NEW e \in Update(q, c, d), NEW f \in Update(q, c, d), e.id = f.id PROVE e = f
    BY <2>1, <2>3 DEF Entries, Update
  <2> QED BY <2>2, <2>3 DEF Entries
<1>3. InTurn(Update(q, c, d))
  BY <1>1 DEF Ledger, InTurn
<1>4. ASSUME NEW w \in Senders(W), Fit(w, q, t) PROVE Fit(w, Update(q, c, d), t)
  BY <1>1, <1>4 DEF Fit
<1>5. ASSUME NEW m, NEW done, Settled(q, m, done) PROVE Settled(Update(q, c, d), m, done)
  BY <1>1, <1>5 DEF Settled
<1>6. Sends(Update(q, c, d), W, t)
  BY <1>4 DEF Ledger, Sends
<1>7. Credits(Update(q, c, d), busy, W, E)
  BY <1>5 DEF Ledger, Credits
<1> QED BY <1>2, <1>3, <1>6, <1>7 DEF Ledger

\* Verdicts u given after t on messages that had none and were in q.
Judged(q, t, u) ==
  \A m \in Message : \/ u[m] = t[m]
                     \/ /\ t[m] = "queued" /\ u[m] \in Outbox!Verdict /\ Outbox!Truthful(m, u[m])
                        /\ \E c \in q : c.id = m /\ ~Kept(c)

LEMMA ExpiryTruth ==
  ASSUME NEW c, ~Kept(c), At(c.id) = c.delivered
  PROVE  ExpiryVerdict(c) \in Outbox!Verdict /\ Outbox!Truthful(c.id, ExpiryVerdict(c))
<1>1. Complete(c) => c.delivered # {}
  BY DEF Complete
<1>2. At(c.id) = {} <=> \A r \in Route : c.id \notin Outbox!ArrivedAt(r)
  BY DEF At
<1> QED BY <1>1, <1>2 DEF Kept, ExpiryVerdict, Outbox!Verdict, Outbox!Truthful

\* A message that can be sent now is older than none its targets have.
LEMMA TargetsFit ==
  ASSUME NEW q \in SUBSET Queued, NEW t, Entries(q, t), InTurn(q), Settled(q, 0, {}),
         arrived \in [Route -> Seq(0 .. MaxMessages)], routes \subseteq Route,
         NEW s, NEW c \in Dispatchable(s, q), NEW p \in SUBSET q, NEW w,
         w.msg = c.id, w.pc = "start", w.todo = PendingTargets(s, q, c)
  PROVE  Fit(w, p, t)
<1>1. c \in q /\ Kept(c) /\ c.id \in Message /\ c.id \in Nat
  BY LimitsAssumption DEF Dispatchable, Queued, Message
<1>2. ASSUME NEW r \in w.todo PROVE Newer(c.id, r)
  <2>1. r \in routes /\ r \notin c.delivered /\ r \in Route
    BY <1>2 DEF PendingTargets
  <2>2. \A n \in Outbox!ArrivedAt(r) : n <= c.id
    BY <1>1, <2>1 DEF InTurn, Kept, Owed
  <2>3. c.id \notin Outbox!ArrivedAt(r)
    BY <1>1, <2>1 DEF Settled, At
  <2>4. \A n \in Outbox!ArrivedAt(r) : n \in Nat
    BY <2>1, LimitsAssumption DEF Outbox!ArrivedAt
  <2> QED BY <1>1, <2>2, <2>3, <2>4 DEF Newer
<1>3. ASSUME NEW d \in p, d.id < c.id, ~d.aged PROVE w.todo \intersect Owed(d) = {}
  <2>1. CASE Complete(d)
    BY <2>1 DEF Complete, Owed
  <2>2. CASE ~Complete(d)
    <3>1. Owed(d) \subseteq BlockedBefore(q, c)
      BY <1>3, <2>2 DEF BlockedBefore, Kept
    <3> QED BY <3>1 DEF PendingTargets
  <2> QED BY <2>1, <2>2
<1> QED BY <1>1, <1>2, <1>3 DEF Fit, Entries

\* A flush keeps the ledger, and its verdicts are true.
LEMMA FlushLedger ==
  ASSUME TypeOK, NEW s \in [Route -> Session], NEW q \in SUBSET Queued, NEW busy \in BOOLEAN,
         NEW W \in SUBSET Worker, NEW E, NEW t \in ToldType,
         Flush(s, q, busy, W, t), Ledger(q, busy, W, E, t), Covered(busy, W),
         ~busy => \A i \in DOMAIN E : E[i].kind = "send" => E[i].gen # generation
  PROVE  /\ Ledger(queue', sending', workers', E, told') /\ Covered(sending', workers')
         /\ Judged(q, t, told') /\ told' \in ToldType
<1> DEFINE ready == Dispatchable(s, q)
           gone == {c \in q : ~Kept(c) /\ \A d \in ready : c.id < d.id}
<1>0. /\ generation \in Nat /\ epoch \in Nat /\ routes \subseteq Route
      /\ arrived \in [Route -> Seq(0 .. MaxMessages)]
  BY DEF TypeOK
<1>t. told' \in ToldType
  BY <1>0, FlushType
<1>1. CASE NothingToFlush(busy, q)
  <2>1. queue' = q /\ sending' = busy /\ workers' = W /\ told' = t
    BY <1>1 DEF Flush
  <2> QED BY <1>t, <2>1 DEF Judged
<1>2. CASE ~NothingToFlush(busy, q)
  <2>1. busy = FALSE /\ Senders(W) = {}
    BY <1>2 DEF NothingToFlush, Covered
  <2>2. Entries(q, t) /\ InTurn(q) /\ Settled(q, 0, {})
    BY <2>1 DEF Ledger, Credits
  <2>3. told' = [m \in Message |-> IF \E c \in gone : c.id = m
                                   THEN ExpiryVerdict(CHOOSE c \in gone : c.id = m)
                                   ELSE t[m]]
    BY <1>2 DEF Flush
  <2>4. ASSUME NEW m \in Message, NEW c \in gone, c.id = m
        PROVE  /\ told'[m] = ExpiryVerdict(c) /\ t[m] = "queued" /\ c \in q /\ ~Kept(c)
               /\ ExpiryVerdict(c) \in Outbox!Verdict /\ Outbox!Truthful(m, ExpiryVerdict(c))
    <3>1. c \in q /\ ~Kept(c) /\ t[m] = "queued" /\ \A d \in q : d.id = m => d = c
      BY <2>2, <2>4 DEF Entries
    <3>2. (CHOOSE d \in gone : d.id = m) = c
      BY <2>4, <3>1
    <3>3. told'[m] = ExpiryVerdict(c)
      BY <2>3, <2>4, <3>2
    <3>4. At(c.id) = c.delivered
      BY <2>2, <3>1 DEF Settled
    <3> QED BY <2>4, <3>1, <3>3, <3>4, ExpiryTruth
  <2>5. \A m \in Message : (\A c \in gone : c.id # m) => told'[m] = t[m]
    BY <2>3
  <2>6. Judged(q, t, told')
    <3> DEFINE OneJudged(m) == \/ told'[m] = t[m]
                               \/ /\ t[m] = "queued" /\ told'[m] \in Outbox!Verdict
                                  /\ Outbox!Truthful(m, told'[m])
                                  /\ \E c \in q : c.id = m /\ ~Kept(c)
    <3>1. ASSUME NEW m \in Message, NEW c \in gone, c.id = m PROVE OneJudged(m)
      <4>1. told'[m] = ExpiryVerdict(c)
        BY <2>4, <3>1
      <4>2. /\ t[m] = "queued" /\ ExpiryVerdict(c) \in Outbox!Verdict
            /\ Outbox!Truthful(m, ExpiryVerdict(c)) /\ c \in q /\ ~Kept(c)
        BY <2>4, <3>1
      <4> QED BY <3>1, <4>1, <4>2
    <3>2. \A m \in Message : OneJudged(m)
      BY <2>5, <3>1
    <3> QED BY <3>2 DEF Judged
  <2>7. Entries(q \ gone, told')
    <3>1. ASSUME NEW c \in q \ gone PROVE told'[c.id] = "queued"
      <4>1. c.id \in Message /\ \A d \in gone : d.id # c.id
        BY <2>2, <3>1 DEF Entries, Queued
      <4> QED BY <2>2, <2>5, <4>1 DEF Entries
    <3> QED BY <2>2, <3>1 DEF Entries
  <2>8. InTurn(q \ gone) /\ Settled(q \ gone, 0, {}) /\ \A m : Settled(q \ gone, m, {})
    BY <2>2 DEF InTurn, Settled
  <2>9. Ledger(q \ gone, FALSE, W, E, told')
    BY <2>1, <2>7, <2>8 DEF Ledger, Sends, Credits, AtMostOne
  <2> HIDE DEF gone, ready
  <2>10. CASE queue' = q \ gone /\ sending' = FALSE /\ workers' = W
    BY <1>t, <2>1, <2>6, <2>9, <2>10 DEF Covered
  <2>11. ASSUME NEW c \in ready, queue' = q \ gone, sending' = TRUE,
                workers' = W \union {NewWorker("send", "horizontal", c.id, PendingTargets(s, q, c))}
         PROVE  Ledger(queue', sending', workers', E, told') /\ Covered(sending', workers')
    <3> DEFINE w == NewWorker("send", "horizontal", c.id, PendingTargets(s, q, c))
    <3>1. /\ w.kind = "send" /\ w.msg = c.id /\ w.pc = "start" /\ w.done = {}
          /\ w.todo = PendingTargets(s, q, c)
      BY DEF NewWorker
    <3>2. c \in Dispatchable(s, q) /\ q \ gone \in SUBSET q
      BY <2>11 DEF ready
    <3> HIDE DEF w
    <3>3. Fit(w, q \ gone, t)
      BY <1>0, <2>2, <3>1, <3>2, TargetsFit
    <3>4. c \in q /\ c \notin gone
      BY <2>11 DEF gone, ready, Dispatchable
    <3>5. Fit(w, q \ gone, told')
      BY <2>7, <3>1, <3>3, <3>4 DEF Fit, Entries
    <3>6. Senders(workers') = {w}
      BY <2>1, <2>11, <3>1 DEF Senders, w
    <3>7. Sends(queue', workers', told')
      BY <2>11, <3>5, <3>6 DEF Sends, AtMostOne
    <3>8. Credits(queue', sending', workers', E)
      BY <2>1, <2>8, <2>11, <3>1, <3>6 DEF Credits
    <3> QED BY <2>7, <2>8, <2>11, <3>7, <3>8 DEF Ledger, Covered
  <2>12. ASSUME NEW c \in ready, queue' = Update(q \ gone, c, [c EXCEPT !.waiting = TRUE]),
                sending' = FALSE, workers' = W
         PROVE  Ledger(queue', sending', workers', E, told') /\ Covered(sending', workers')
    <3> DEFINE d == [c EXCEPT !.waiting = TRUE]
    <3>1. c \in q \ gone /\ c \in Queued
      BY <2>12 DEF gone, ready, Dispatchable
    <3>2. d.id = c.id /\ d.delivered = c.delivered /\ (c.aged => d.aged)
      BY <3>1 DEF Queued
    <3> HIDE DEF d
    <3>3. Ledger(Update(q \ gone, c, d), FALSE, W, E, told')
      BY <2>9, <3>1, <3>2, UpdateLedger
    <3> QED BY <2>1, <2>12, <3>3 DEF Covered, d
  <2>13. \/ queue' = q \ gone /\ sending' = FALSE /\ workers' = W
         \/ \E c \in ready, ok \in Spawns :
              /\ sending' = ok
              /\ queue' = IF ok THEN q \ gone ELSE Update(q \ gone, c, [c EXCEPT !.waiting = TRUE])
              /\ workers' = IF ok THEN W \union {NewWorker("send", "horizontal", c.id,
                                                          PendingTargets(s, q, c))}
                                  ELSE W
    BY <1>2 DEF Flush, gone, ready
  <2>14. \A ok \in Spawns : ok = TRUE \/ ok = FALSE
    BY ChoicesAssumption
  <2> QED BY <1>t, <2>6, <2>10, <2>11, <2>12, <2>13, <2>14
<1> QED BY <1>1, <1>2



-----------------------------------------------------------------------------
(* The ledger through the steps that do not flush *)

\* Completions that are taken, or posted by others than the sender, do not count.
LEMMA EventsLedger ==
  ASSUME NEW q, NEW busy, NEW W, NEW E, NEW t, Ledger(q, busy, W, E, t), NEW F,
         \A i \in DOMAIN F : F[i].kind = "send" => \E j \in DOMAIN E : F[i] = E[j]
  PROVE  Ledger(q, busy, W, F, t)
BY DEF Ledger, Credits

LEMMA TailEvents ==
  ASSUME NEW E \in Seq(Event), E # <<>>
  PROVE  \A i \in DOMAIN Tail(E) : \E j \in DOMAIN E : Tail(E)[i] = E[j]
<1> SUFFICES ASSUME NEW i \in DOMAIN Tail(E) PROVE i + 1 \in DOMAIN E /\ Tail(E)[i] = E[i + 1]
  OBVIOUS
<1> QED OBVIOUS

LEMMA AppendEvents ==
  ASSUME NEW E \in Seq(Event), NEW e \in Event
  PROVE  \A i \in DOMAIN Append(E, e) : Append(E, e)[i] = e \/ \E j \in DOMAIN E : Append(E, e)[i] = E[j]
<1> SUFFICES ASSUME NEW i \in DOMAIN Append(E, e)
             PROVE  Append(E, e)[i] = e \/ (i \in DOMAIN E /\ Append(E, e)[i] = E[i])
  OBVIOUS
<1> QED OBVIOUS

\* Neither do workers of other kinds; a sender may leave.
LEMMA WorkersLedger ==
  ASSUME NEW q, NEW busy, NEW W, NEW E, NEW t, Ledger(q, busy, W, E, t), NEW V,
         Senders(V) \subseteq Senders(W)
  PROVE  Ledger(q, busy, V, E, t) /\ (Covered(busy, W) => Covered(busy, V))
BY DEF Ledger, Sends, Credits, Covered, AtMostOne

\* A step that leaves the chats, the verdicts, the routes and the generation alone.
LEMMA SameLedger ==
  ASSUME Ledger(queue', sending', workers', events', told'),
         UNCHANGED <<arrived, routes, generation>>
  PROVE  Ledger(queue, sending, workers, events, told)'
BY DEF Ledger, Entries, InTurn, Owed, Outbox!ArrivedAt, Sends, Fit, Newer, Credits, Settled, At

LEMMA SameNumbers ==
  ASSUME Numbered(told, sequence, events), UNCHANGED <<arrived, sequence>>,
         \A m \in Message : told'[m] = "none" <=> told[m] = "none",
         \A i \in DOMAIN events' :
           events'[i].kind = "send" => \E j \in DOMAIN events : events'[i] = events[j]
  PROVE  Numbered(told, sequence, events)'
BY DEF Numbered, Outbox!ArrivedAt

\* Clearing the queue, the send flag or the routes with a new generation leaves only
\* the sender to answer for.
LEMMA ClearedLedger ==
  ASSUME Ledger(queue, sending, workers, events, told), queue' = {},
         UNCHANGED <<arrived, told, workers>>
  PROVE  Ledger(queue, sending, workers, events, told)'
<1>1. Sends(queue, workers, told)'
  <2>1. \A w \in Senders(workers) : Fit(w, queue, told)
    BY DEF Ledger, Sends
  <2>2. Senders(workers)' = Senders(workers)
    BY DEF Senders
  <2>3. \A w \in Senders(workers) : Fit(w, queue, told)'
    BY <2>1 DEF Fit, Newer, Outbox!ArrivedAt
  <2> QED BY <2>2, <2>3 DEF Ledger, Sends
<1>2. Entries(queue, told)' /\ InTurn(queue)' /\ Credits(queue, sending, workers, events)'
  BY DEF Entries, InTurn, Credits, Settled
<1> QED BY <1>1, <1>2 DEF Ledger

\* Steps of the abstract queue.
LEMMA SilentStep ==
  ASSUME UNCHANGED <<arrived, told>>
  PROVE  [Outbox!Next]_(Outbox!vars)
BY DEF Outbox!vars

LEMMA JudgedReports ==
  ASSUME NEW q, Judged(q, told, told'), told' \in ToldType, UNCHANGED arrived
  PROVE  [Outbox!Next]_(Outbox!vars)
<1>1. told' \in [Message -> {"none", "queued"} \union Outbox!Verdict]
  BY DEF ToldType, Outbox!Verdict
<1>2. Outbox!Report
  BY <1>1 DEF Outbox!Report, Judged
<1> QED BY <1>2 DEF Outbox!Next

LEMMA JudgedNumbers ==
  ASSUME NEW q, NEW t, NEW u, Judged(q, t, u)
  PROVE  \A m \in Message : u[m] = "none" <=> t[m] = "none"
BY DEF Judged, Outbox!Verdict



-----------------------------------------------------------------------------
(* The steps *)

\* A sender's completion is on its way only when no sender is left and the flag is set.
LEMMA SendersAlone ==
  ASSUME IInv, Lockstep
  PROVE  /\ Senders(workers) # {} => \A i \in DOMAIN events :
                                       events[i].kind = "send" => events[i].gen # generation
         /\ ui # "idle" \/ ~sending => \A i \in DOMAIN events :
                                       events[i].kind = "send" => events[i].gen # generation
<1>1. CASE ui # "idle"
  <2>1. \A i \in DOMAIN events : events[i] \in Event /\ events[i].gen < generation
    BY <1>1 DEF IInv, Core, TypeOK, AllOlderWhileWaiting
  <2>2. generation \in Nat
    BY DEF IInv, Core, TypeOK
  <2> QED BY <2>1, <2>2 DEF Event
<1>2. CASE ui = "idle"
  <2>1. NoneOf(Sending, Sent) \/ (sending /\ OneOf(Sending, Sent))
    BY <1>2, IInvImplies DEF OneSender
  <2>2. Senders(workers) # {} => Sending # {}
    BY <1>2 DEF IInv, Core, NoCancelledWorkerWhenIdle, Lockstep, Senders, Sending
  <2>3. Sent = {} => \A i \in DOMAIN events : events[i].kind = "send" => events[i].gen # generation
    BY DEF Sent
  <2> QED BY <1>2, <2>1, <2>2, <2>3 DEF NoneOf, OneOf
<1> QED BY <1>1, <1>2

\* Steps that leave the queue, the verdicts, the chats and the sender alone.
LEMMA QuietBook ==
  ASSUME Book, UNCHANGED <<queue, sending, told, sequence, arrived, routes, generation, epoch>>,
         \A w \in workers' : w \in workers \/ (w.kind # "send" /\ w.gen = w.epoch),
         \A i \in DOMAIN events' :
           events'[i].kind = "send" => \E j \in DOMAIN events : events'[i] = events[j],
         Closing' => Closing, Closing /\ ~Closing' => workers' = {}
  PROVE  Book'
<1>1. Senders(workers') \subseteq Senders(workers)
  BY DEF Senders
<1>2. Ledger(queue, sending, workers', events, told)
  BY <1>1, WorkersLedger DEF Book
<1>3. Ledger(queue', sending', workers', events', told')
  BY <1>2, EventsLedger
<1>4. Ledger(queue, sending, workers, events, told)'
  BY <1>3, SameLedger
<1>5. Numbered(told, sequence, events)' /\ Lockstep'
  BY SameNumbers DEF Book, Lockstep
<1>6. Closing' \/ Covered(sending, workers)'
  BY <1>1 DEF Book, Covered, Senders
<1> QED BY <1>4, <1>5, <1>6 DEF Book

\* Handlers that end with a flush.
LEMMA FlushBook ==
  ASSUME TypeOK, NEW s \in [Route -> Session], NEW q \in SUBSET Queued, NEW busy \in BOOLEAN,
         NEW W \in SUBSET Worker, NEW t \in ToldType,
         Flush(s, q, busy, W, t), Ledger(q, busy, W, events', t), Covered(busy, W),
         ~busy => \A i \in DOMAIN events' : events'[i].kind = "send" => events'[i].gen # generation,
         generation = epoch, \A w \in W : w.gen = w.epoch, ui' = "idle",
         UNCHANGED <<arrived, routes, generation, epoch>>,
         Numbered(t, sequence', events')
  PROVE  Book' /\ Judged(q, t, told') /\ told' \in ToldType
<1> DEFINE E == events'
<1>1. ~busy => \A i \in DOMAIN E : E[i].kind = "send" => E[i].gen # generation
  OBVIOUS
<1>2. Ledger(q, busy, W, E, t)
  OBVIOUS
<1> HIDE DEF E
<1>3. /\ Ledger(queue', sending', workers', E, told') /\ Covered(sending', workers')
      /\ Judged(q, t, told') /\ told' \in ToldType
  BY <1>1, <1>2, FlushLedger
<1>4. Ledger(queue, sending, workers, events, told)'
  BY <1>3, SameLedger DEF E
<1>5. Numbered(told, sequence, events)'
  <2>1. \A m \in Message : told'[m] = "none" <=> t[m] = "none"
    BY <1>3, JudgedNumbers
  <2> QED BY <2>1 DEF Numbered, Outbox!ArrivedAt
<1>6. \A w \in workers' : w.gen = w.epoch
  <2>1. \/ workers' = W
        \/ \E m \in Message, targets \in SUBSET routes :
             workers' = W \union {NewWorker("send", "horizontal", m, targets)}
    <3>1. generation \in Nat /\ epoch \in Nat /\ routes \subseteq Route
      BY DEF TypeOK
    <3> QED BY <3>1, FlushType
  <2>2. \A m, targets : LET v == NewWorker("send", "horizontal", m, targets)
                        IN v.gen = generation /\ v.epoch = epoch
    BY DEF NewWorker
  <2> QED BY <2>1, <2>2
<1>7. Lockstep' /\ ~Closing'
  BY <1>6 DEF Lockstep, Closing
<1> QED BY <1>3, <1>4, <1>5, <1>7 DEF Book, Covered, Senders

\* A step of the sender w, by which its message has arrived over got.
LEMMA SenderBook ==
  ASSUME IInv, Book, NEW w \in Senders(workers), NEW got \in SUBSET w.todo,
         NEW v \in Worker, v.kind = "send", v.msg = w.msg, v.gen = w.gen, v.epoch = w.epoch,
         v.todo \subseteq w.todo \ got, v.done = w.done \union got, v.route \in v.todo \/ v.pc # "call",
         \A r \in Route : Outbox!ArrivedAt(r)' =
                            Outbox!ArrivedAt(r) \union (IF r \in got THEN {w.msg} ELSE {}),
         UNCHANGED <<ui, queue, sending, told, sequence, routes, generation, epoch>>,
         workers' = workers \ {w} \/ workers' = (workers \ {w}) \union {v},
         \/ events' = events
         \/ \E e \in Event : /\ e.kind = "send" /\ e.gen = w.gen /\ e.msg = w.msg /\ e.done = v.done
                             /\ events' = Append(events, e)
  PROVE  Book'
<1>0. /\ workers \subseteq Worker /\ routes \subseteq Route /\ queue \subseteq Queued
      /\ w.kind = "send" /\ w \in workers /\ w.todo \subseteq Route
  BY DEF IInv, Core, TypeOK, Senders, Worker
<1>1. Fit(w, queue, told) /\ \A x \in Senders(workers) : x = w
  BY DEF Book, Ledger, Sends, AtMostOne
<1>2. /\ w.msg \in Message /\ told[w.msg] = "queued"
      /\ \A r \in w.todo : Newer(w.msg, r)
      /\ \A c \in queue : c.id < w.msg /\ ~c.aged => w.todo \intersect Owed(c) = {}
  BY <1>1 DEF Fit
<1>3. \A c : Owed(c)' = Owed(c)
  BY DEF Owed
<1>4. Senders(workers') \subseteq {v}
  BY <1>1 DEF Senders
<1>5. Entries(queue, told)'
  BY DEF Book, Ledger, Entries
<1>6. InTurn(queue)'
  <2>1. ASSUME NEW c \in queue, ~c.aged, NEW r \in Owed(c), NEW n \in Outbox!ArrivedAt(r)'
        PROVE  n <= c.id
    <3>1. r \in Route
      BY <1>0, <2>1 DEF Owed
    <3>2. CASE n \in Outbox!ArrivedAt(r)
      BY <2>1, <3>2 DEF Book, Ledger, InTurn
    <3>3. CASE n = w.msg /\ r \in got
      <4>1. ~(c.id < w.msg)
        BY <1>2, <2>1, <3>3
      <4>2. c.id \in Nat /\ w.msg \in Nat
        BY <1>0, <1>2 DEF Queued, Message
      <4> QED BY <3>3, <4>1, <4>2
    <3> QED BY <2>1, <3>1, <3>2, <3>3
  <2> QED BY <1>3, <2>1 DEF InTurn
<1>7. Sends(queue, workers, told)'
  <2>1. ASSUME NEW r \in v.todo, NEW n \in Outbox!ArrivedAt(r)' PROVE n < v.msg
    <3>1. n \in Outbox!ArrivedAt(r) /\ r \in w.todo
      BY <1>0, <2>1
    <3> QED BY <1>2, <3>1 DEF Newer
  <2>2. Fit(v, queue, told)'
    BY <1>2, <1>3, <2>1 DEF Fit, Newer
  <2> QED BY <1>4, <2>2 DEF Sends, AtMostOne, Senders
<1> DEFINE After(m) == {r \in Route : m \in Outbox!ArrivedAt(r)'}
           Square(m, done) == \A c \in queue : After(c.id) = c.delivered \union (IF c.id = m THEN done ELSE {})
<1>8. ASSUME w.gen = generation PROVE Square(w.msg, v.done)
  <2>1. Settled(queue, w.msg, w.done)
    BY <1>8 DEF Book, Ledger, Credits
  <2>2. \A m : After(m) = At(m) \union (IF m = w.msg THEN got ELSE {})
    BY <1>0 DEF At
  <2> HIDE DEF After
  <2>3. ASSUME NEW c \in queue
        PROVE  After(c.id) = c.delivered \union (IF c.id = w.msg THEN v.done ELSE {})
    BY <2>1, <2>2 DEF Settled
  <2> QED BY <2>3
<1>9. Credits(queue, sending, workers, events)'
  <2>1. ~sending' => Square(0, {})
    <3>1. sending \/ queue = {}
      BY DEF Book, Covered
    <3> QED BY <3>1
  <2>2. ASSUME NEW x \in Senders(workers'), x.gen = generation' PROVE Square(x.msg, x.done)
    <3>1. x = v
      BY <1>4
    <3> QED BY <1>8, <2>2, <3>1
  <2>3. ASSUME NEW i \in DOMAIN events', events'[i].kind = "send", events'[i].gen = generation'
        PROVE  Square(events'[i].msg, events'[i].done)
    <3>1. events \in Seq(Event) /\ \A j \in DOMAIN events : events[j].kind = "send" => events[j].gen # generation
      BY SendersAlone DEF IInv, Core, TypeOK, Book
    <3>2. PICK e \in Event : /\ e.gen = w.gen /\ e.msg = w.msg /\ e.done = v.done
                             /\ events' = Append(events, e)
      BY <2>3, <3>1
    <3>3. events'[i] = e
      BY <2>3, <3>1, <3>2, AppendEvents
    <3>4. Square(e.msg, e.done)
      BY <1>8, <2>3, <3>2, <3>3
    <3> HIDE DEF Square
    <3> QED BY <3>3, <3>4
  <2> QED BY <2>1, <2>2, <2>3 DEF Credits, Settled, At, Senders
<1> HIDE DEF Square
<1>10. Numbered(told, sequence, events)'
  <2>1. w.msg <= sequence
    <3>1. sequence \in Nat /\ w.msg \in Nat /\ ~(w.msg > sequence)
      BY <1>2, LimitsAssumption DEF IInv, Core, TypeOK, Book, Numbered, Message
    <3> QED BY <3>1
  <2>2. \A r \in Route : \A n \in Outbox!ArrivedAt(r)' : n \in Message /\ n <= sequence
    BY <1>2, <2>1 DEF Book, Numbered
  <2>3. ASSUME NEW i \in DOMAIN events', events'[i].kind = "send"
        PROVE  events'[i].msg \in Message /\ events'[i].msg <= sequence
    <3>1. CASE events' = events
      BY <2>3, <3>1 DEF Book, Numbered
    <3>2. ASSUME NEW e \in Event, e.msg = w.msg, events' = Append(events, e)
          PROVE  events'[i].msg \in Message /\ events'[i].msg <= sequence
      <4>1. events'[i] = e \/ \E j \in DOMAIN events : events'[i] = events[j]
        BY <2>3, <3>2, AppendEvents DEF IInv, Core, TypeOK
      <4> QED BY <1>2, <2>1, <2>3, <3>2, <4>1 DEF Book, Numbered
    <3> QED BY <3>1, <3>2
  <2> QED BY <2>2, <2>3 DEF Book, Numbered
<1>11. Lockstep'
  BY DEF Book, Lockstep, Senders
<1>12. Closing' \/ Covered(sending, workers)'
  BY DEF Book, Closing, Covered, Senders
<1> QED BY <1>5, <1>6, <1>7, <1>9, <1>10, <1>11, <1>12 DEF Book, Ledger, Closing

LEMMA AppendRange ==
  ASSUME NEW S, NEW s \in Seq(S), NEW m
  PROVE  {Append(s, m)[i] : i \in DOMAIN Append(s, m)} = {s[i] : i \in DOMAIN s} \union {m}
<1>1. /\ DOMAIN s = 1 .. Len(s) /\ DOMAIN Append(s, m) = 1 .. Len(s) + 1
      /\ \A i \in 1 .. Len(s) : Append(s, m)[i] = s[i]
      /\ Append(s, m)[Len(s) + 1] = m /\ Len(s) \in Nat
  OBVIOUS
<1>2. 1 .. Len(s) + 1 = (1 .. Len(s)) \union {Len(s) + 1}
  BY <1>1
<1> QED BY <1>1, <1>2


LEMMA QuietWorker ==
  ASSUME IInv, Book, NEW w \in workers,
         UNCHANGED <<ui, queue, sending, told, sequence, arrived, routes, generation, epoch>>,
         \/ workers' = workers
         \/ workers' = workers \ {w}
         \/ \E v \in Worker : /\ v.kind # "send" /\ v.gen = w.gen /\ v.epoch = w.epoch
                              /\ workers' = (workers \ {w}) \union {v},
         \/ events' = events
         \/ \E e \in Event : e.kind # "send" /\ events' = Append(events, e)
  PROVE  Book'
<1>1. \A v \in workers' : v \in workers \/ (v.kind # "send" /\ v.gen = v.epoch)
  BY DEF Book, Lockstep
<1>2. ASSUME NEW i \in DOMAIN events', events'[i].kind = "send"
      PROVE  \E j \in DOMAIN events : events'[i] = events[j]
  <2>1. CASE events' = events
    BY <1>2, <2>1
  <2>2. ASSUME NEW e \in Event, e.kind # "send", events' = Append(events, e)
        PROVE  \E j \in DOMAIN events : events'[i] = events[j]
    <3>1. events \in Seq(Event) /\ i \in DOMAIN Append(events, e) /\ Append(events, e)[i] # e
      BY <1>2, <2>2 DEF IInv, Core, TypeOK
    <3>2. \E j \in DOMAIN events : Append(events, e)[i] = events[j]
      BY <2>2, <3>1, AppendEvents
    <3> QED BY <2>2, <3>2
  <2> QED BY <2>1, <2>2
<1>3. Closing' <=> Closing
  BY DEF Closing
<1> QED BY <1>1, <1>2, <1>3, QuietBook

\* A request of the sender has returned.
LEMMA SendReturnsBook ==
  ASSUME IInv, Book, NEW w \in workers, NEW reply \in Replies, SendReturns(w, reply), reply # "lost"
  PROVE  Book' /\ [Outbox!Next]_(Outbox!vars)
<1> USE DEF show, chat, cancel, WorkerFrame, Exit, Replace, Post
<1> DEFINE got == IF reply = "ok" THEN {w.route} ELSE {}
           todo == w.todo \ {w.route}
           done == w.done \union got
           v == [w EXCEPT !.todo = todo, !.done = done]
           e == Completion(v, "send", "ok", FALSE)
<1>1. /\ w \in Worker /\ w \in Senders(workers) /\ w.pc = "call" /\ w.route \in Route
      /\ arrived \in [Route -> Seq(0 .. MaxMessages)]
  BY DEF IInv, Core, TypeOK, SendReturns, Senders, Worker
<1>2. Fit(w, queue, told)
  BY <1>1 DEF Book, Ledger, Sends
<1>3. w.route \in w.todo /\ w.msg \in Message /\ told[w.msg] = "queued" /\ Newer(w.msg, w.route)
  BY <1>1, <1>2 DEF Fit
<1>4. reply \in {"ok", "error"}
  BY ChoicesAssumption DEF SendReturns
<1>5. UNCHANGED <<ui, queue, sending, told, sequence, routes, generation, epoch>>
  BY DEF SendReturns
<1>6. [w EXCEPT !.todo = w.todo \ {w.route},
                !.done = IF reply = "ok" THEN w.done \union {w.route} ELSE w.done] = v
  BY DEF SendReturns
<1>7. /\ v \in Worker /\ v.kind = "send" /\ v.msg = w.msg /\ v.gen = w.gen /\ v.epoch = w.epoch
      /\ v.todo = todo /\ v.done = done /\ v.route = w.route /\ w.pc = v.pc
  <2>1. todo \in SUBSET Route /\ done \in SUBSET Route /\ w.kind = "send"
    BY <1>1 DEF Worker, Senders
  <2> HIDE DEF todo, done
  <2> QED BY <1>1, <2>1 DEF Worker
<1>8. /\ e \in Event /\ e.kind = "send" /\ e.gen = w.gen /\ e.msg = w.msg /\ e.done = v.done
  <2> HIDE DEF v
  <2> QED BY <1>7, CompletionType DEF Completion
<1>9. \/ v.todo = {} /\ workers' = workers \ {w} /\ events' = Append(events, e)
      \/ workers' = workers \ {w} /\ events' = events
      \/ \E r \in v.todo : workers' = (workers \ {w}) \union {[v EXCEPT !.route = r]} /\ events' = events
  BY <1>6 DEF SendReturns
<1>10. \A r \in v.todo :
         LET u == [v EXCEPT !.route = r]
         IN /\ u \in Worker /\ u.kind = "send" /\ u.msg = w.msg /\ u.gen = w.gen /\ u.epoch = w.epoch
            /\ u.todo = v.todo /\ u.done = v.done /\ u.route = r
  <2> HIDE DEF v
  <2> QED BY <1>7 DEF Worker
<1>11. \A r \in Route : Outbox!ArrivedAt(r)' =
                          Outbox!ArrivedAt(r) \union (IF r \in got THEN {w.msg} ELSE {})
  <2>1. CASE reply = "error"
    <3>1. arrived' = arrived
      BY <2>1 DEF SendReturns
    <3> QED BY <2>1, <3>1 DEF Outbox!ArrivedAt
  <2>2. CASE reply = "ok"
    <3>1. arrived' = [arrived EXCEPT ![w.route] = Append(arrived[w.route], w.msg)]
      BY <2>2 DEF SendReturns
    <3>2. ASSUME NEW r \in Route, r # w.route PROVE Outbox!ArrivedAt(r)' = Outbox!ArrivedAt(r)
      <4>1. arrived'[r] = arrived[r]
        BY <1>1, <3>1, <3>2
      <4> QED BY <4>1 DEF Outbox!ArrivedAt
    <3>3. Outbox!ArrivedAt(w.route)' = Outbox!ArrivedAt(w.route) \union {w.msg}
      <4> DEFINE has == arrived[w.route]
                 m == w.msg
      <4>1. has \in Seq(0 .. MaxMessages) /\ arrived'[w.route] = Append(has, m)
        BY <1>1, <3>1
      <4>2. Outbox!ArrivedAt(w.route) = {has[i] : i \in DOMAIN has}
        BY DEF Outbox!ArrivedAt
      <4>3. Outbox!ArrivedAt(w.route)' = {Append(has, m)[i] : i \in DOMAIN Append(has, m)}
        <5>1. w.route' = w.route
          OBVIOUS
        <5> QED BY <4>1, <5>1 DEF Outbox!ArrivedAt
      <4> HIDE DEF has, m
      <4>4. {Append(has, m)[i] : i \in DOMAIN Append(has, m)} = {has[i] : i \in DOMAIN has} \union {m}
        BY <4>1, AppendRange
      <4> QED BY <4>2, <4>3, <4>4 DEF m
    <3> QED BY <2>2, <3>2, <3>3
  <2> QED BY <1>4, <2>1, <2>2
<1>12. got \in SUBSET w.todo /\ v.todo \subseteq w.todo \ got /\ v.done = w.done \union got
  BY <1>3, <1>7
<1> HIDE DEF v, e, got, todo, done
<1>13. Book'
  <2>1. CASE v.todo = {} /\ workers' = workers \ {w} /\ events' = Append(events, e)
    <3> DEFINE u == [v EXCEPT !.pc = "start"]
    <3>1. /\ u \in Worker /\ u.kind = "send" /\ u.msg = w.msg /\ u.gen = w.gen /\ u.epoch = w.epoch
          /\ u.todo = v.todo /\ u.done = v.done /\ u.pc # "call"
      BY <1>7 DEF Worker
    <3> HIDE DEF u
    <3>2. u.todo \subseteq w.todo \ got /\ u.done = w.done \union got
      BY <1>12, <3>1
    <3>3. \E x \in Event : /\ x.kind = "send" /\ x.gen = w.gen /\ x.msg = w.msg /\ x.done = u.done
                           /\ events' = Append(events, x)
      BY <1>8, <2>1, <3>1
    <3>4. got \in SUBSET w.todo /\ w \in Senders(workers) /\ workers' = workers \ {w}
      BY <1>1, <1>12, <2>1
    <3> QED BY <1>5, <1>11, <3>1, <3>2, <3>3, <3>4, SenderBook
  <2>2. CASE workers' = workers \ {w} /\ events' = events
    <3> DEFINE u == [v EXCEPT !.pc = "start"]
    <3>1. /\ u \in Worker /\ u.kind = "send" /\ u.msg = w.msg /\ u.gen = w.gen /\ u.epoch = w.epoch
          /\ u.todo = v.todo /\ u.done = v.done /\ u.pc # "call"
      BY <1>7 DEF Worker
    <3> HIDE DEF u
    <3>2. u.todo \subseteq w.todo \ got /\ u.done = w.done \union got
      BY <1>12, <3>1
    <3>3. got \in SUBSET w.todo /\ w \in Senders(workers)
      BY <1>1, <1>12
    <3> QED BY <1>5, <1>11, <2>2, <3>1, <3>2, <3>3, SenderBook
  <2>3. ASSUME NEW r \in v.todo, workers' = (workers \ {w}) \union {[v EXCEPT !.route = r]},
               events' = events
        PROVE  Book'
    <3> DEFINE u == [v EXCEPT !.route = r]
    <3>1. /\ u \in Worker /\ u.kind = "send" /\ u.msg = w.msg /\ u.gen = w.gen /\ u.epoch = w.epoch
          /\ u.todo = v.todo /\ u.done = v.done /\ u.route \in u.todo
      BY <1>10
    <3>2. workers' = (workers \ {w}) \union {u}
      BY <2>3
    <3>3. events' = events
      BY <2>3
    <3> HIDE DEF u
    <3>4. u.todo \subseteq w.todo \ got /\ u.done = w.done \union got
      BY <1>12, <3>1
    <3>5. got \in SUBSET w.todo /\ w \in Senders(workers)
      BY <1>1, <1>12
    <3> QED BY <1>5, <1>11, <3>1, <3>2, <3>3, <3>4, <3>5, SenderBook
  <2> QED BY <1>9, <2>1, <2>2, <2>3
<1>14. [Outbox!Next]_(Outbox!vars)
  <2>1. CASE reply = "error"
    <3>1. arrived' = arrived
      BY <2>1 DEF SendReturns
    <3> QED BY <1>5, <3>1, SilentStep
  <2>2. CASE reply = "ok"
    <3>1. arrived' = [arrived EXCEPT ![w.route] = Append(@, w.msg)]
      BY <2>2 DEF SendReturns
    <3>2. Outbox!Deliver(w.msg, w.route)
      BY <1>3, <1>5, <3>1 DEF Outbox!Deliver, Newer
    <3> QED BY <1>1, <1>3, <3>2 DEF Outbox!Next
  <2> QED BY <1>4, <2>1, <2>2
<1> QED BY <1>13, <1>14


LEMMA WorkerStepBook ==
  ASSUME "lost" \notin Replies, IInv, Book, WorkerNext
  PROVE  Book' /\ [Outbox!Next]_(Outbox!vars)
<1> USE DEF show, chat, cancel, WorkerFrame, Exit, Replace, Post
<1>1. PICK w \in workers : \/ WorkerEnters(w) \/ LookupReturns(w) \/ ModerationReturns(w)
                           \/ \E reply \in Replies : SendReturns(w, reply)
                           \/ ScanStarts(w) \/ ScanBatch(w) \/ ScanEnds(w)
  BY DEF WorkerNext
<1>2. w \in Worker
  BY DEF IInv, Core, TypeOK
<1>3. CASE \E reply \in Replies : SendReturns(w, reply)
  BY <1>3, SendReturnsBook
<1>4. CASE ~ \E reply \in Replies : SendReturns(w, reply)
  <2>1. UNCHANGED <<ui, queue, sending, told, sequence, arrived, routes, generation, epoch>>
    BY <1>1, <1>4 DEF WorkerEnters, LookupReturns, ModerationReturns, ScanStarts, ScanBatch, ScanEnds
  <2>2. [Outbox!Next]_(Outbox!vars)
    BY <2>1, SilentStep
  <2>3. \A kind \in {"lookup", "batch", "scan", "send"}, outcome \in {"ok", "error", "terminal"},
           long \in BOOLEAN :
          LET e == Completion(w, kind, outcome, long) IN e \in Event /\ e.kind = kind
    BY <1>2, CompletionType DEF Completion
  <2>4. CASE WorkerEnters(w)
    <3>1. events' = events /\ w.kind # "scan"
      BY <2>4 DEF WorkerEnters
    <3>2. CASE Cancelled(w)
      <4>1. workers' = workers \ {w}
        BY <2>4, <3>2 DEF WorkerEnters
      <4> QED BY <2>1, <2>2, <3>1, <4>1, QuietWorker
    <3>3. CASE ~Cancelled(w)
      <4>1. PICK r \in (IF w.kind = "send" THEN w.todo ELSE {w.route}) :
              workers' = (workers \ {w}) \union {[w EXCEPT !.pc = "call", !.route = r]}
        BY <2>4, <3>3 DEF WorkerEnters
      <4> DEFINE v == [w EXCEPT !.pc = "call", !.route = r]
      <4>2. r \in Route
        BY <1>2, <4>1 DEF Worker
      <4>3. /\ v \in Worker /\ v.kind = w.kind /\ v.msg = w.msg /\ v.gen = w.gen /\ v.epoch = w.epoch
            /\ v.todo = w.todo /\ v.done = w.done /\ v.route = r
        BY <1>2, <4>2 DEF Worker
      <4>4. workers' = (workers \ {w}) \union {v}
        BY <4>1
      <4> HIDE DEF v
      <4>5. CASE w.kind # "send"
        BY <2>1, <2>2, <3>1, <4>3, <4>4, <4>5, QuietWorker
      <4>6. CASE w.kind = "send"
        <5>1. v.kind = "send" /\ w \in Senders(workers) /\ v.route \in v.todo
          BY <4>1, <4>3, <4>6 DEF Senders
        <5>2. \A x \in Route : Outbox!ArrivedAt(x)' =
                Outbox!ArrivedAt(x) \union (IF x \in {} THEN {w.msg} ELSE {})
          BY <2>1 DEF Outbox!ArrivedAt
        <5>3. {} \in SUBSET w.todo /\ v.todo \subseteq w.todo \ {} /\ v.done = w.done \union {}
          BY <4>3
        <5>4. Book'
          BY <2>1, <3>1, <4>3, <4>4, <5>1, <5>2, <5>3, SenderBook
        <5> QED BY <2>2, <5>4
      <4> QED BY <4>5, <4>6
    <3> QED BY <3>2, <3>3
  <2>5. CASE LookupReturns(w)
    <3>1. PICK outcome \in {"ok", "error"} :
            events' = Append(events, Completion(w, "lookup", outcome, FALSE))
      BY <2>5 DEF LookupReturns
    <3>2. \E e \in Event : e.kind # "send" /\ events' = Append(events, e)
      BY <2>3, <3>1
    <3>3. workers' = workers \ {w}
      BY <2>5 DEF LookupReturns
    <3> QED BY <2>1, <2>2, <3>2, <3>3, QuietWorker
  <2>6. CASE ModerationReturns(w)
    <3>1. workers' = workers \ {w} /\ events' = events
      BY <2>6 DEF ModerationReturns
    <3> QED BY <2>1, <2>2, <3>1, QuietWorker
  <2>7. CASE ScanStarts(w)
    <3>1. CASE Cancelled(w)
      <4>1. workers' = workers \ {w} /\ events' = Append(events, Completion(w, "scan", "error", FALSE))
        BY <2>7, <3>1 DEF ScanStarts
      <4>2. \E e \in Event : e.kind # "send" /\ events' = Append(events, e)
        BY <2>3, <4>1
      <4> QED BY <2>1, <2>2, <4>1, <4>2, QuietWorker
    <3>2. CASE ~Cancelled(w)
      <4> DEFINE v == [w EXCEPT !.pc = "call"]
      <4>1. workers' = (workers \ {w}) \union {v} /\ events' = events /\ w.kind = "scan"
        BY <2>7, <3>2 DEF ScanStarts
      <4>2. v \in Worker /\ v.kind = w.kind /\ v.gen = w.gen /\ v.epoch = w.epoch
        BY <1>2 DEF Worker
      <4> HIDE DEF v
      <4>3. v.kind # "send"
        BY <4>1, <4>2
      <4> QED BY <2>1, <2>2, <4>1, <4>2, <4>3, QuietWorker
    <3> QED BY <3>1, <3>2
  <2>8. CASE ScanBatch(w)
    <3>1. workers' = workers /\ events' = Append(events, Completion(w, "batch", "ok", TRUE))
      BY <2>8 DEF ScanBatch
    <3>2. \E e \in Event : e.kind # "send" /\ events' = Append(events, e)
      BY <2>3, <3>1
    <3> QED BY <2>1, <2>2, <3>1, <3>2, QuietWorker
  <2>9. CASE ScanEnds(w)
    <3>1. PICK outcome \in {"ok", "error", "terminal"}, long \in BOOLEAN :
            events' = Append(events, Completion(w, "scan", outcome, long))
      BY <2>9, ChoicesAssumption DEF ScanEnds
    <3>2. \E e \in Event : e.kind # "send" /\ events' = Append(events, e)
      BY <2>3, <3>1
    <3>3. workers' = workers \ {w}
      BY <2>9 DEF ScanEnds
    <3> QED BY <2>1, <2>2, <3>2, <3>3, QuietWorker
  <2> QED BY <1>1, <1>4, <2>4, <2>5, <2>6, <2>7, <2>8, <2>9
<1> QED BY <1>3, <1>4

LEMMA EnvStepBook ==
  ASSUME IInv, Book, EnvNext
  PROVE  Book' /\ [Outbox!Next]_(Outbox!vars)
<1> USE DEF show, chat, cancel, bounds, threads, EnvFrame
<1>1. UNCHANGED <<ui, sending, told, sequence, arrived, routes, generation, epoch, workers, events>>
  BY DEF EnvNext, PrimaryChanges, SecondaryChanges, MessageAges, RetryComesDue, ScanComesDue,
         LookupComesDue, QuotaPause, QuotaResume, Pause
<1>2. [Outbox!Next]_(Outbox!vars)
  BY <1>1, SilentStep
<1>3. ASSUME NEW c \in queue, MessageAges(c) \/ RetryComesDue(c) PROVE Book'
  <2>1. c \in Queued
    BY DEF IInv, Core, TypeOK
  <2>2. PICK d \in Queued : /\ d.id = c.id /\ d.delivered = c.delivered /\ (c.aged => d.aged)
                            /\ queue' = Update(queue, c, d)
    <3>1. \A x \in BOOLEAN : LET d == [c EXCEPT !.waiting = x]
                             IN d \in Queued /\ d.id = c.id /\ d.delivered = c.delivered /\ d.aged = c.aged
      BY <2>1 DEF Queued
    <3>2. LET d == [c EXCEPT !.aged = TRUE]
          IN d \in Queued /\ d.id = c.id /\ d.delivered = c.delivered /\ d.aged
      BY <2>1 DEF Queued
    <3>3. \/ queue' = Update(queue, c, [c EXCEPT !.aged = TRUE])
          \/ queue' = Update(queue, c, [c EXCEPT !.waiting = FALSE])
      BY <1>3 DEF MessageAges, RetryComesDue
    <3> QED BY <3>1, <3>2, <3>3
  <2>3. Ledger(queue', sending, workers, events, told)
    BY <2>2, UpdateLedger DEF Book
  <2>4. Ledger(queue, sending, workers, events, told)'
    BY <1>1, <2>3, SameLedger
  <2>5. Numbered(told, sequence, events)' /\ Lockstep'
    BY <1>1, SameNumbers DEF Book, Lockstep
  <2>6. ~Closing
    BY DEF Book
  <2> QED BY <1>1, <2>4, <2>5, <2>6 DEF Book, Closing, Covered, Senders
<1>4. CASE queue' = queue
  <2>1. Closing' <=> Closing
    BY <1>1 DEF Closing
  <2>2. \A i \in DOMAIN events' : \E j \in DOMAIN events : events'[i] = events[j]
    BY <1>1
  <2> QED BY <1>1, <1>4, <2>1, <2>2, QuietBook, <1>2
<1>5. queue' = queue \/ \E c \in queue : MessageAges(c) \/ RetryComesDue(c)
  BY DEF EnvNext, PrimaryChanges, SecondaryChanges, ScanComesDue, LookupComesDue, QuotaPause, QuotaResume
<1> QED BY <1>2, <1>3, <1>4, <1>5



\* Handlers that clear the queue.
LEMMA ClearingBook ==
  ASSUME Book, queue' = {}, UNCHANGED <<sequence, workers, events, arrived, told>>, Invalidate,
         generation \in Nat, Closing' \/ (~Closing /\ UNCHANGED sending)
  PROVE  Book' /\ [Outbox!Next]_(Outbox!vars)
<1>1. Ledger(queue, sending, workers, events, told)'
  BY ClearedLedger DEF Book
<1>2. Numbered(told, sequence, events)' /\ Lockstep'
  BY SameNumbers DEF Book, Lockstep, Invalidate
<1>3. Closing' \/ Covered(sending, workers)'
  BY DEF Book, Covered, Senders
<1> QED BY <1>1, <1>2, <1>3, SilentStep DEF Book

\* The rest of the poll, with the sessions s.
LEMMA PollBook ==
  ASSUME IInv, Book, ~Closing, NEW s \in [Route -> Session], PollRoutes(s), ui' = "idle",
         UNCHANGED <<routes, sequence, generation, epoch, events, arrived>>
  PROVE  Book' /\ [Outbox!Next]_(Outbox!vars)
<1>0. /\ TypeOK /\ queue \in SUBSET Queued /\ sending \in BOOLEAN /\ workers \in SUBSET Worker
      /\ told \in ToldType
  BY DEF IInv, Core, TypeOK, ToldType
<1>1. CASE \A r \in routes : s[r].paused
  <2>1. UNCHANGED <<queue, sending, workers, told>>
    BY <1>1 DEF PollRoutes
  <2>2. ~Closing'
    BY DEF Closing
  <2>3. Book'
    BY <2>1, <2>2, QuietBook
  <2> QED BY <2>1, <2>3, SilentStep
<1>2. CASE ~ \A r \in routes : s[r].paused
  <2>1. PICK lookOk \in [Route -> BOOLEAN], scanOk \in [Route -> BOOLEAN] :
          LET after == PolledSessions(s, lookOk, scanOk)
              added == PolledWorkers(s, lookOk, scanOk)
          IN /\ after \in [Route -> Session] /\ added \in SUBSET Worker
             /\ session' = after
             /\ Flush(after, queue, sending, workers \union added, told)
    BY <1>0, <1>2, PollRoutesParts
  <2> DEFINE after == PolledSessions(s, lookOk, scanOk)
             added == PolledWorkers(s, lookOk, scanOk)
             W == workers \union added
  <2>2. \A v \in added : v.kind # "send" /\ v.gen = generation /\ v.epoch = epoch
    BY DEF PolledWorkers, NewWorker
  <2>3. /\ after \in [Route -> Session] /\ W \in SUBSET Worker
        /\ Flush(after, queue, sending, W, told)
    BY <1>0, <2>1
  <2>4. Senders(W) \subseteq Senders(workers) /\ \A w \in W : w.gen = w.epoch
    BY <2>2 DEF Senders, Book, Lockstep
  <2> HIDE DEF after, added, W
  <2>5. Ledger(queue, sending, W, events, told) /\ Covered(sending, W)
    BY <2>4, WorkersLedger DEF Book
  <2>6. ~sending => \A i \in DOMAIN events : events[i].kind = "send" => events[i].gen # generation
    BY SendersAlone DEF Book
  <2>7. Book' /\ Judged(queue, told, told') /\ told' \in ToldType
    BY <1>0, <2>3, <2>4, <2>5, <2>6, FlushBook DEF Book, Lockstep
  <2> QED BY <2>7, JudgedReports
<1> QED BY <1>1, <1>2

LEMMA LookupDoneBook ==
  ASSUME IInv, Book, LookupDone
  PROVE  Book' /\ [Outbox!Next]_(Outbox!vars)
<1> USE DEF chat, cancel
<1>0. /\ TypeOK /\ queue \in SUBSET Queued /\ sending \in BOOLEAN /\ workers \in SUBSET Worker
      /\ told \in ToldType /\ events \in Seq(Event)
  BY DEF IInv, Core, TypeOK, ToldType
<1>1. /\ ui = "idle" /\ ui' = "idle" /\ events # <<>> /\ events' = Tail(events)
      /\ UNCHANGED <<routes, sequence, generation, epoch, arrived>>
  BY DEF LookupDone, TakeEvent
<1>2. /\ session' \in [Route -> Session]
      /\ \/ Flush(session', queue, sending, workers, told)
         \/ UNCHANGED <<queue, sending, workers, told>>
  BY <1>0, LookupDoneFlush
<1>3. \A i \in DOMAIN events' : \E j \in DOMAIN events : events'[i] = events[j]
  BY <1>0, <1>1, TailEvents
<1>4. ~Closing /\ ~Closing'
  BY <1>1 DEF Closing
<1>5. CASE UNCHANGED <<queue, sending, workers, told>>
  BY <1>1, <1>3, <1>4, <1>5, QuietBook, SilentStep
<1>6. CASE Flush(session', queue, sending, workers, told)
  <2>1. PICK s \in [Route -> Session] : s = session'
    BY <1>2
  <2>2. Ledger(queue, sending, workers, events', told)
    BY <1>3, EventsLedger DEF Book
  <2>3. ~sending => \A i \in DOMAIN events' : events'[i].kind = "send" => events'[i].gen # generation
    BY <1>3, SendersAlone DEF Book
  <2>4. Covered(sending, workers) /\ Flush(s, queue, sending, workers, told)
    BY <1>4, <1>6, <2>1 DEF Book
  <2>5. Book' /\ Judged(queue, told, told') /\ told' \in ToldType
    <3>1. Numbered(told, sequence', events')
      BY <1>1, <1>3 DEF Book, Numbered
    <3> QED BY <1>0, <1>1, <2>2, <2>3, <2>4, <3>1, FlushBook DEF Book, Lockstep
  <2> QED BY <1>1, <2>5, JudgedReports
<1> QED BY <1>2, <1>5, <1>6

\* The operator's message gets the next number, is queued last and cannot get its verdict yet.
LEMMA SendMessageBook ==
  ASSUME IInv, Book, SendMessage
  PROVE  Book' /\ [Outbox!Next]_(Outbox!vars)
<1> USE DEF chat, cancel
<1>0. /\ TypeOK /\ queue \in SUBSET Queued /\ sending \in BOOLEAN /\ workers \in SUBSET Worker
      /\ told \in ToldType /\ session \in [Route -> Session] /\ sequence \in Nat
      /\ arrived \in [Route -> Seq(0 .. MaxMessages)] /\ MaxMessages \in Nat
  BY LimitsAssumption DEF IInv, Core, TypeOK, ToldType
<1> DEFINE n == sequence + 1
           new == [id |-> n, delivered |-> {}, aged |-> FALSE, waiting |-> FALSE]
           t == [told EXCEPT ![n] = "queued"]
           q == queue \union {new}
<1>1. /\ ui = "idle" /\ ui' = "idle" /\ routes # {} /\ sequence' = n
      /\ Flush(session, q, sending, workers, t)
      /\ UNCHANGED <<routes, generation, epoch, events, arrived>>
  BY DEF SendMessage
<1>2. n \in Message /\ n \in Nat
  BY <1>0 DEF SendMessage, Message
<1>3. \A m \in Message : m \in Nat /\ (told[m] = "none" <=> m >= n)
  BY <1>0 DEF Book, Numbered, Message
<1>4. \A r \in Route : \A m \in Outbox!ArrivedAt(r) : m \in Nat /\ m < n
  BY <1>0 DEF Book, Numbered, Message
<1>5. t \in ToldType /\ t[n] = "queued" /\ \A m \in Message : m # n => t[m] = told[m]
  BY <1>0, <1>2 DEF ToldType
<1>6. new \in Queued /\ new.id = n /\ new.delivered = {} /\ ~new.aged
  BY <1>2 DEF Queued
<1>7. Kept(new)
  BY <1>1, <1>6 DEF Kept, Complete
<1>8. \A c \in queue : c.id \in Message /\ c.id < n /\ t[c.id] = "queued"
  <2>1. ASSUME NEW c \in queue PROVE c.id \in Message /\ told[c.id] = "queued"
    BY <1>0, <2>1 DEF Book, Ledger, Entries, Queued
  <2>2. ASSUME NEW c \in queue PROVE c.id < n /\ c.id # n
    BY <1>2, <1>3, <2>1
  <2> QED BY <1>5, <2>1, <2>2
<1> HIDE DEF n, new, t
<1>9. q \in SUBSET Queued
  BY <1>0, <1>6
<1>10. Ledger(q, sending, workers, events, t)
  <2>1. \A c \in q : c \in queue \/ c = new
    OBVIOUS
  <2>2. Entries(q, t)
    <3>1. \A c \in queue : c.id # n
      BY <1>2, <1>8 DEF Message
    <3> QED BY <1>5, <1>6, <1>8, <2>1, <3>1 DEF Book, Ledger, Entries
  <2>3. InTurn(q)
    <3>1. \A r \in Owed(new) : \A m \in Outbox!ArrivedAt(r) : m <= n
      BY <1>0, <1>2, <1>4 DEF Owed, TypeOK
    <3> QED BY <1>6, <2>1, <3>1 DEF Book, Ledger, InTurn
  <2>4. Sends(q, workers, t)
    <3>1. ASSUME NEW w \in Senders(workers) PROVE Fit(w, q, t)
      <4>1. Fit(w, queue, told)
        BY DEF Book, Ledger, Sends
      <4>2. w.msg \in Message /\ told[w.msg] = "queued"
        BY <4>1 DEF Fit
      <4>3. ~(w.msg >= n) /\ w.msg \in Nat
        BY <1>3, <4>2
      <4>4. w.msg # n /\ ~(n < w.msg)
        BY <1>2, <4>3
      <4>5. t[w.msg] = "queued"
        BY <1>5, <4>2, <4>4
      <4> QED BY <1>6, <2>1, <4>1, <4>2, <4>4, <4>5 DEF Fit
    <3> QED BY <3>1 DEF Book, Ledger, Sends
  <2>5. ASSUME NEW m, m # n, NEW done, Settled(queue, m, done) PROVE Settled(q, m, done)
    <3>1. At(n) = {}
      BY <1>4 DEF At
    <3> QED BY <1>6, <2>1, <2>5, <3>1 DEF Settled
  <2>6. ASSUME NEW w \in Senders(workers), w.gen = generation PROVE Settled(q, w.msg, w.done)
    <3>1. Fit(w, queue, told)
      BY DEF Book, Ledger, Sends
    <3>2. w.msg # n
      BY <1>2, <1>3, <3>1 DEF Fit
    <3> QED BY <2>5, <2>6, <3>2 DEF Book, Ledger, Credits
  <2>7. ~sending => Settled(q, 0, {})
    <3>1. 0 # n
      BY <1>2 DEF Message
    <3> QED BY <2>5, <3>1 DEF Book, Ledger, Credits
  <2>8. ASSUME NEW i \in DOMAIN events, events[i].kind = "send", events[i].gen = generation
        PROVE  Settled(q, events[i].msg, events[i].done)
    <3>1. Settled(queue, events[i].msg, events[i].done)
      BY <2>8 DEF Book, Ledger, Credits
    <3>2. events[i].msg # n
      BY <1>0, <2>8 DEF Book, Numbered, n
    <3> QED BY <2>5, <3>1, <3>2
  <2> QED BY <2>2, <2>3, <2>4, <2>6, <2>7, <2>8 DEF Ledger, Credits
<1>11. Numbered(t, sequence', events')
  <2>1. \A m \in Message : t[m] = "none" <=> m > n
    <3>1. \A m \in Message : m > n <=> m >= n /\ m # n
      BY <1>2, <1>3
    <3> QED BY <1>3, <1>5, <3>1
  <2>2. \A m \in Nat : m < n => m <= n
    BY <1>2
  <2>3. \A r \in Route : \A m \in Outbox!ArrivedAt(r) : m \in Message /\ m <= n
    BY <1>4, <2>2 DEF Book, Numbered
  <2>4. \A m \in Message : m <= sequence => m <= n
    BY <1>0, <1>3 DEF n
  <2>5. \A i \in DOMAIN events : events[i].kind = "send" => events[i].msg \in Message /\ events[i].msg <= n
    BY <2>4 DEF Book, Numbered
  <2> QED BY <1>1, <2>1, <2>3, <2>5 DEF Numbered, Outbox!ArrivedAt
<1>12. ~sending => \A i \in DOMAIN events : events[i].kind = "send" => events[i].gen # generation
  BY SendersAlone DEF Book
<1>13. Book' /\ Judged(q, t, told') /\ told' \in ToldType
  <2>1. generation = epoch /\ (\A w \in workers : w.gen = w.epoch) /\ Covered(sending, workers)
    BY <1>1 DEF Book, Lockstep, Closing
  <2>2. PICK u \in ToldType, p \in SUBSET Queued : u = t /\ p = q
    BY <1>5, <1>9
  <2> QED BY <1>0, <1>1, <1>10, <1>11, <1>12, <2>1, <2>2, FlushBook
<1>14. Outbox!Report
  <2>1. told'[n] = "queued"
    BY <1>2, <1>5, <1>6, <1>7, <1>8, <1>13 DEF Judged
  <2>2. \A m \in Message : m # n => \/ told'[m] = told[m]
                                   \/ /\ told[m] = "queued" /\ told'[m] \in Outbox!Verdict
                                      /\ Outbox!Truthful(m, told'[m])
    BY <1>5, <1>13 DEF Judged
  <2>3. Outbox!IsNext(n)
    BY <1>2, <1>3 DEF Outbox!IsNext
  <2>4. told' \in [Message -> {"none", "queued"} \union Outbox!Verdict]
    BY <1>13 DEF ToldType, Outbox!Verdict
  <2> QED BY <1>1, <1>2, <2>1, <2>2, <2>3, <2>4 DEF Outbox!Report
<1> QED BY <1>13, <1>14 DEF Outbox!Next



LEMMA LastSent ==
  ASSUME IInv, Lockstep, ui = "idle", events # <<>>, Event1.kind = "send", Event1.gen = generation
  PROVE  /\ Senders(workers) = {}
         /\ \A i \in DOMAIN Tail(events) :
              Tail(events)[i].kind = "send" => Tail(events)[i].gen # generation
<1>1. events \in Seq(Event) /\ Event1 = events[1] /\ 1 \in DOMAIN events
  BY DEF IInv, Core, TypeOK, Event1
<1>2. 1 \in Sent
  BY <1>1 DEF Sent
<1>3. AtMostOne(Sent)
  BY <1>2, IInvImplies DEF OneSender, NoneOf, OneOf
<1>4. Senders(workers) = {}
  BY <1>1, SendersAlone
<1>5. ASSUME NEW i \in DOMAIN Tail(events), Tail(events)[i].kind = "send", Tail(events)[i].gen = generation
      PROVE  FALSE
  <2>1. i \in Nat /\ i >= 1 /\ i + 1 \in DOMAIN events /\ Tail(events)[i] = events[i + 1]
    BY <1>1
  <2>2. i + 1 \in Sent
    BY <1>5, <2>1 DEF Sent
  <2>3. i + 1 = 1
    BY <1>2, <1>3, <2>2 DEF AtMostOne
  <2> QED BY <2>1, <2>3
<1> QED BY <1>4, <1>5

\* The sender's completion credits its message; a message that is then complete or too old
\* gets its verdict.
LEMMA SendDoneBook ==
  ASSUME IInv, Book, SendDone
  PROVE  Book' /\ [Outbox!Next]_(Outbox!vars)
<1> USE DEF chat, cancel
<1>0. /\ TypeOK /\ queue \in SUBSET Queued /\ workers \in SUBSET Worker /\ told \in ToldType
      /\ session \in [Route -> Session] /\ events \in Seq(Event) /\ routes \subseteq Route
  BY DEF IInv, Core, TypeOK, ToldType
<1>1. /\ ui = "idle" /\ ui' = "idle" /\ events # <<>> /\ events' = Tail(events)
      /\ UNCHANGED <<routes, session, sequence, generation, epoch, arrived>>
      /\ Event1.kind = "send" /\ Event1.gen = generation
  BY DEF SendDone, TakeEvent, Late
<1>2. PICK e \in Event : e = Event1
  BY <1>0, <1>1 DEF Event1
<1>3. /\ Senders(workers) = {}
      /\ \A i \in DOMAIN events' : events'[i].kind = "send" => events'[i].gen # generation
  BY <1>1, LastSent DEF Book
<1>4. Settled(queue, e.msg, e.done)
  <2>1. 1 \in DOMAIN events /\ events[1] = e
    BY <1>0, <1>1, <1>2 DEF Event1
  <2>2. events[1].kind = "send" /\ events[1].gen = generation
    BY <1>1, <1>2, <2>1
  <2> QED BY <2>1, <2>2 DEF Book, Ledger, Credits
<1>5. Entries(queue, told) /\ InTurn(queue)
  BY DEF Book, Ledger
<1>6. \A i \in DOMAIN events' : \E j \in DOMAIN events : events'[i] = events[j]
  BY <1>0, <1>1, TailEvents
<1>7. /\ generation = epoch /\ (\A w \in workers : w.gen = w.epoch) /\ Covered(FALSE, workers)
      /\ ~Closing' /\ Numbered(told, sequence', events')
  BY <1>1, <1>3, <1>6 DEF Book, Lockstep, Closing, Covered, Numbered
\* The ledger of a queue in which everything is credited.
<1>8. ASSUME NEW q, NEW t, Entries(q, t), InTurn(q), Settled(q, 0, {})
      PROVE  Ledger(q, FALSE, workers, events', t)
  BY <1>3, <1>8 DEF Ledger, Sends, Credits, AtMostOne
<1>9. CASE (\A c \in queue : c.id # e.msg) /\ sending' = FALSE /\ UNCHANGED <<queue, workers, told>>
  <2>1. Settled(queue, 0, {})
    BY <1>4, <1>9 DEF Settled
  <2>2. Ledger(queue', sending', workers', events', told')
    BY <1>5, <1>8, <1>9, <2>1
  <2>3. Ledger(queue, sending, workers, events, told)'
    BY <1>1, <2>2, SameLedger
  <2>4. Numbered(told, sequence, events)'
    BY <1>1, <1>7, <1>9 DEF Numbered, Outbox!ArrivedAt
  <2>5. Lockstep' /\ Covered(sending, workers)'
    BY <1>1, <1>3, <1>7, <1>9 DEF Lockstep, Covered, Senders
  <2> QED BY <1>1, <1>7, <1>9, <2>3, <2>4, <2>5, SilentStep DEF Book
<1>10. ASSUME NEW c \in queue, c.id = e.msg, NEW d, d = Credited(c, e),
              \/ /\ Kept(d)
                 /\ Flush(session, Update(queue, c, d), FALSE, workers, told)
              \/ /\ ~Kept(d)
                 /\ Flush(session, queue \ {c}, FALSE, workers, [told EXCEPT ![c.id] = SendVerdict(d)])
       PROVE  Book' /\ [Outbox!Next]_(Outbox!vars)
  <2>1. c \in Queued
    BY <1>0
  <2>2. d \in Queued /\ d.id = c.id /\ d.aged = c.aged /\ d.delivered = c.delivered \union e.done
    <3>1. d \in Queued
      BY <1>10, <2>1, CreditedType
    <3> DEFINE dels == c.delivered \union e.done
               waits == c.waiting \/ e.done # e.tried
    <3>2. d = [c EXCEPT !.delivered = dels, !.waiting = waits]
      BY <1>10 DEF Credited
    <3> HIDE DEF dels, waits
    <3>3. d.id = c.id /\ d.aged = c.aged /\ d.delivered = dels
      BY <2>1, <3>2 DEF Queued
    <3> QED BY <3>1, <3>3 DEF dels
  <2>3. d.delivered = At(c.id)
    BY <1>4, <1>10, <2>2 DEF Settled
  <2>4. \A b \in queue : b # c => b.id # c.id /\ At(b.id) = b.delivered
    BY <1>4, <1>5, <1>10 DEF Settled, Entries
  <2>5. CASE Kept(d) /\ Flush(session, Update(queue, c, d), FALSE, workers, told)
    <3> DEFINE q == Update(queue, c, d)
    <3>1. q \in SUBSET Queued /\ \A b \in q : b = d \/ (b \in queue /\ b # c)
      BY <1>0, <2>2 DEF Update
    <3>2. Entries(q, told)
      BY <1>5, <2>2, <2>4, <3>1 DEF Entries
    <3>3. InTurn(q)
      <4>1. Owed(d) \subseteq Owed(c)
        BY <2>2 DEF Owed
      <4> QED BY <1>5, <2>2, <3>1, <4>1 DEF InTurn
    <3>4. Settled(q, 0, {})
      BY <2>2, <2>3, <2>4, <3>1 DEF Settled
    <3> HIDE DEF q
    <3>5. Ledger(q, FALSE, workers, events', told)
      BY <1>8, <3>2, <3>3, <3>4
    <3>6. Flush(session, q, FALSE, workers, told)
      BY <2>5 DEF q
    <3>7. PICK s \in [Route -> Session], u \in ToldType, p \in SUBSET Queued :
            s = session /\ u = told /\ p = q
      BY <1>0, <3>1
    <3>8. Book' /\ Judged(q, told, told') /\ told' \in ToldType
      BY <1>0, <1>1, <1>3, <1>7, <3>5, <3>6, <3>7, FlushBook
    <3> QED BY <1>1, <3>8, JudgedReports
  <2>6. CASE ~Kept(d) /\ Flush(session, queue \ {c}, FALSE, workers, [told EXCEPT ![c.id] = SendVerdict(d)])
    <3> DEFINE q == queue \ {c}
               m == c.id
               verdict == SendVerdict(d)
               t == [told EXCEPT ![m] = verdict]
    <3>1. verdict \in Outbox!Verdict /\ Outbox!Truthful(m, verdict)
      <4>1. CASE Complete(d)
        <5>1. At(m) # {}
          BY <2>3, <4>1 DEF Complete
        <5> QED BY <4>1, <5>1 DEF SendVerdict, Outbox!Verdict, Outbox!Truthful, At
      <4>2. CASE ~Complete(d)
        <5>1. At(d.id) = d.delivered /\ d.id = m
          BY <2>2, <2>3
        <5>2. ExpiryVerdict(d) \in Outbox!Verdict /\ Outbox!Truthful(d.id, ExpiryVerdict(d))
          BY <2>6, <5>1, ExpiryTruth
        <5> QED BY <4>2, <5>1, <5>2 DEF SendVerdict
      <4> QED BY <4>1, <4>2
    <3>2. m \in Message /\ told[m] = "queued"
      BY <1>5, <2>1 DEF Entries, Queued
    <3> HIDE DEF m, verdict
    <3>3. t \in ToldType /\ t[m] = verdict /\ \A n \in Message : n # m => t[n] = told[n]
      BY <1>0, <3>1, <3>2 DEF ToldType, Outbox!Verdict
    <3>4. Flush(session, q, FALSE, workers, t)
      BY <2>6 DEF m, verdict
    <3> HIDE DEF t
    <3>5. Entries(q, t)
      <4>1. \A b \in q : b.id \in Message /\ b.id # m
        BY <1>0, <2>4 DEF m, Queued
      <4> QED BY <1>5, <3>3, <4>1 DEF Entries
    <3>6. InTurn(q) /\ Settled(q, 0, {})
      BY <1>5, <2>4 DEF InTurn, Settled
    <3>7. Numbered(t, sequence', events')
      <4>1. \A n \in Message : t[n] = "none" <=> told[n] = "none"
        BY <3>1, <3>2, <3>3 DEF Outbox!Verdict
      <4> QED BY <1>7, <4>1 DEF Numbered
    <3>8. q \in SUBSET Queued
      BY <1>0
    <3> HIDE DEF q
    <3>9. Ledger(q, FALSE, workers, events', t)
      BY <1>8, <3>5, <3>6
    <3>10. PICK s \in [Route -> Session], u \in ToldType, p \in SUBSET Queued :
             s = session /\ u = t /\ p = q
      BY <1>0, <3>3, <3>8
    <3>11. Book' /\ Judged(q, t, told') /\ told' \in ToldType
      BY <1>0, <1>1, <1>3, <1>7, <3>4, <3>7, <3>9, <3>10, FlushBook
    <3>12. told'[m] = verdict
      BY <3>1, <3>2, <3>3, <3>11 DEF Judged, Outbox!Verdict
    <3>13. told' \in [Message -> {"none", "queued"} \union Outbox!Verdict]
      BY <3>11 DEF ToldType, Outbox!Verdict
    <3>14. \A n \in Message : n # m => \/ told'[n] = told[n]
                                       \/ /\ told[n] = "queued" /\ told'[n] \in Outbox!Verdict
                                          /\ Outbox!Truthful(n, told'[n])
      BY <3>3, <3>11 DEF Judged
    <3>15. Outbox!Report
      BY <1>1, <3>1, <3>2, <3>12, <3>13, <3>14 DEF Outbox!Report
    <3> QED BY <3>11, <3>15 DEF Outbox!Next
  <2> QED BY <1>10, <2>5, <2>6
<1>11. \/ (\A c \in queue : c.id # e.msg) /\ sending' = FALSE /\ UNCHANGED <<queue, workers, told>>
       \/ \E c \in queue :
            /\ c.id = e.msg
            /\ \/ /\ Kept(Credited(c, e))
                  /\ Flush(session, Update(queue, c, Credited(c, e)), FALSE, workers, told)
               \/ /\ ~Kept(Credited(c, e))
                  /\ Flush(session, queue \ {c}, FALSE, workers,
                           [told EXCEPT ![c.id] = SendVerdict(Credited(c, e))])
  BY <1>2 DEF SendDone
<1> QED BY <1>9, <1>10, <1>11



LEMMA UiStepBook ==
  ASSUME IInv, Book, TypeOK', UiNext
  PROVE  Book' /\ [Outbox!Next]_(Outbox!vars)
<1> USE DEF show, chat, cancel, bounds, threads
<1>0. /\ TypeOK /\ session \in [Route -> Session] /\ generation \in Nat /\ events \in Seq(Event)
  BY DEF IInv, Core, TypeOK
<1>1. ASSUME UNCHANGED <<queue, sending, told, sequence, arrived, routes, generation, epoch>>,
             \A w \in workers' : w \in workers \/ (w.kind # "send" /\ w.gen = w.epoch),
             events' = events \/ (events # <<>> /\ events' = Tail(events)),
             ui' = "idle", Closing => workers' = {}
      PROVE  Book' /\ [Outbox!Next]_(Outbox!vars)
  <2>1. \A i \in DOMAIN events' : \E j \in DOMAIN events : events'[i] = events[j]
    BY <1>0, <1>1, TailEvents
  <2>2. ~Closing'
    BY <1>1 DEF Closing
  <2>3. Book'
    BY <1>1, <2>1, <2>2, QuietBook
  <2> QED BY <1>1, <2>3, SilentStep
<1>2. ui = "idle" => ~Closing
  BY DEF Closing
<1>3. ASSUME NEW m \in Modes \union {"off"}, SelectMode(m) PROVE Book' /\ [Outbox!Next]_(Outbox!vars)
  BY <1>1, <1>2, <1>3 DEF SelectMode
<1>4. CASE Prepare \/ StartFails \/ Stop
  BY <1>0, <1>4, ClearingBook DEF Prepare, StartFails, Stop, BeginStop, Closing
<1>5. CASE FinishPrepare
  <2>1. /\ workers' = {} /\ queue' = {} /\ ui' = "idle"
        /\ UNCHANGED <<told, sequence, sending, arrived, generation, epoch, events>>
    BY <1>5 DEF FinishPrepare, WorkersIdle, Book, Closing
  <2>2. Entries(queue, told)' /\ InTurn(queue)' /\ Credits(queue, sending, workers, events)'
    BY <2>1 DEF Entries, InTurn, Credits, Settled
  <2>3. Sends(queue, workers, told)' /\ Covered(sending, workers)' /\ ~Closing'
    BY <2>1 DEF Sends, Covered, Senders, AtMostOne, Closing
  <2>4. Numbered(told, sequence, events)' /\ Lockstep'
    BY <2>1, SameNumbers DEF Book, Lockstep
  <2> QED BY <2>1, <2>2, <2>3, <2>4, SilentStep DEF Book, Ledger
<1>6. CASE Start
  BY <1>1, <1>2, <1>6 DEF Start, CanStart
<1>7. CASE FinishStop
  BY <1>1, <1>7 DEF FinishStop, WorkersIdle
<1>8. ASSUME NEW g \in secondStarts, SecondStart(g) PROVE Book' /\ [Outbox!Next]_(Outbox!vars)
  BY <1>1, <1>2, <1>8 DEF SecondStart
<1>9. CASE PollOff
  BY <1>0, <1>9, ClearingBook DEF PollOff, PollReady, Closing
<1>10. CASE PollCancel
  <2>1. /\ ui = "idle" /\ ui' = "pollWait" /\ Invalidate
        /\ UNCHANGED <<queue, sending, told, sequence, arrived, routes, workers, events>>
    BY <1>10 DEF PollCancel, PollReady
  <2>2. \A g \in Nat : g <= generation => g # generation'
    BY <1>0, <2>1 DEF Invalidate
  <2>3. /\ \A w \in workers : w.gen # generation'
        /\ \A i \in DOMAIN events : events[i].gen # generation'
    <3>1. workers \subseteq Worker /\ \A i \in DOMAIN events : events[i] \in Event
      BY <1>0 DEF TypeOK
    <3>2. (\A w \in workers : w.gen \in Nat) /\ (\A i \in DOMAIN events : events[i].gen \in Nat)
      BY <3>1 DEF Worker, Event
    <3> QED BY <2>2, <3>2 DEF IInv, Core, NoneNewer
  <2>4. Credits(queue, sending, workers, events)'
    <3>1. ~sending => Settled(queue, 0, {})
      BY DEF Book, Ledger, Credits
    <3>2. ~sending' => Settled(queue, 0, {})'
      BY <2>1, <3>1 DEF Settled, At, Outbox!ArrivedAt
    <3> QED BY <2>1, <2>3, <3>2 DEF Credits, Senders
  <2>5. Entries(queue, told)' /\ InTurn(queue)' /\ Sends(queue, workers, told)'
    BY <2>1 DEF Book, Ledger, Entries, InTurn, Sends, Senders, Fit, Newer, Owed, Outbox!ArrivedAt
  <2>6. Numbered(told, sequence, events)' /\ Lockstep' /\ ~Closing' /\ Covered(sending, workers)'
    BY <2>1, SameNumbers DEF Book, Lockstep, Invalidate, Closing, Covered, Senders
  <2> QED BY <2>1, <2>4, <2>5, <2>6, SilentStep DEF Book, Ledger
<1>11. CASE Poll
  <2>1. Synchronized \in [Route -> Session]
    BY <1>0, SynchronizedType
  <2>2. /\ PollRoutes(Synchronized) /\ ui' = "idle" /\ ~Closing
        /\ UNCHANGED <<routes, sequence, generation, epoch, events, arrived>>
    BY <1>2, <1>11 DEF Poll, PollReady
  <2> QED BY <2>1, <2>2, PollBook
<1>12. CASE PollResume
  <2> DEFINE s == [r \in Route |-> Drained(session[r])]
  <2>1. s \in [Route -> Session]
    BY <1>0, SessionTypes
  <2>2. /\ PollRoutes(s) /\ ui' = "idle" /\ ~Closing
        /\ UNCHANGED <<routes, sequence, generation, epoch, events, arrived>>
    BY <1>12 DEF PollResume, Closing
  <2> HIDE DEF s
  <2> QED BY <2>1, <2>2, PollBook
<1>13. CASE SendMessage
  BY <1>13, SendMessageBook
<1>14. CASE Moderate
  <2>1. LET v == NewWorker("moderate", "horizontal", 0, {})
        IN v.kind = "moderate" /\ v.gen = generation /\ v.epoch = epoch
    BY DEF NewWorker
  <2>2. \A w \in workers' : w \in workers \/ (w.kind # "send" /\ w.gen = w.epoch)
    BY <1>14, <2>1 DEF Moderate, Book, Lockstep
  <2> QED BY <1>1, <1>2, <1>14, <2>2 DEF Moderate, Pause
<1>15. CASE DropLate
  BY <1>1, <1>2, <1>15 DEF DropLate
<1>16. CASE LookupDone
  BY <1>16, LookupDoneBook
<1>17. CASE BatchArrived
  BY <1>1, <1>2, <1>17 DEF BatchArrived, TakeEvent
<1>18. CASE ScanDone
  BY <1>1, <1>2, <1>18 DEF ScanDone, TakeEvent
<1>19. CASE SendDone
  BY <1>19, SendDoneBook
<1> QED
  BY <1>3, <1>4, <1>5, <1>6, <1>7, <1>8, <1>9, <1>10, <1>11, <1>12, <1>13, <1>14, <1>15, <1>16,
     <1>17, <1>18, <1>19 DEF UiNext

LEMMA BookInit ==
  ASSUME Init
  PROVE  Book /\ Outbox!Init
<1>1. queue = {} /\ workers = {} /\ \A r \in Route : Outbox!ArrivedAt(r) = {}
  BY DEF Init, Outbox!ArrivedAt
<1>2. Ledger(queue, sending, workers, events, told)
  BY <1>1 DEF Init, Ledger, Entries, InTurn, Sends, Senders, Credits, Settled, AtMostOne
<1>3. Numbered(told, sequence, events)
  BY <1>1, LimitsAssumption DEF Init, Numbered, Message
<1>4. Lockstep /\ ~Closing /\ Covered(sending, workers)
  BY <1>1 DEF Init, Lockstep, Closing, Covered, Senders
<1> QED BY <1>2, <1>3, <1>4 DEF Init, Book, Outbox!Init

LEMMA LInvStep ==
  ASSUME "lost" \notin Replies, LInv, [Next]_vars
  PROVE  LInv' /\ [Outbox!Next]_(Outbox!vars)
<1>1. IInv /\ Book /\ IInv'
  BY IInvStep DEF LInv
<1>2. CASE UNCHANGED vars
  <2>1. /\ UNCHANGED <<queue, sending, told, sequence, arrived, routes, generation, epoch>>
        /\ UNCHANGED <<ui, workers, events>>
    BY <1>2 DEF vars, show, chat, cancel, bounds, threads
  <2>2. Closing' <=> Closing
    BY <2>1 DEF Closing
  <2>3. Book'
    BY <1>1, <2>1, <2>2, QuietBook
  <2> QED BY <1>1, <2>1, <2>3, SilentStep DEF LInv
<1>3. CASE UiNext
  BY <1>1, <1>3, UiStepBook DEF LInv, IInv, Core
<1>4. CASE WorkerNext
  BY <1>1, <1>4, WorkerStepBook DEF LInv
<1>5. CASE EnvNext
  BY <1>1, <1>5, EnvStepBook DEF LInv
<1> QED BY <1>2, <1>3, <1>4, <1>5 DEF Next

\* What pulseYouTubeChatQueue, its flushes and its sender are to achieve, they do: when
\* YouTube's replies are not lost, every step is one of the abstract queue or changes nothing
\* it sees, whatever fails, is cancelled, comes late or grows too old.
THEOREM QueueIsOutbox ==
  ASSUME "lost" \notin Replies
  PROVE  Spec => ImplementsOutbox
<1>1. Init => LInv /\ Outbox!Init
  BY BookInit, IInvInit DEF LInv
<1>2. LInv /\ [Next]_vars => LInv' /\ [Outbox!Next]_(Outbox!vars)
  BY LInvStep
<1> QED BY <1>1, <1>2, PTL DEF Spec, ImplementsOutbox, Outbox!Spec

\* So each chat shows the operator's messages in the order they were sent, none twice, and
\* the verdicts in the composer's status line are true and final.
THEOREM ChatKeepsOrder ==
  ASSUME "lost" \notin Replies
  PROVE  Spec => [](Outbox!ArrivedInOrder /\ Outbox!HonestVerdicts)
<1> QED BY QueueIsOutbox, OrderHolds, VerdictsHold, PTL DEF ImplementsOutbox

=============================================================================
