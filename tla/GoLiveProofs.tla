---------------------------- MODULE GoLiveProofs ----------------------------
(***************************************************************************)
(* For every set of modes, every outcome of the requests to YouTube and    *)
(* every number of shows: types, that the program keeps the id of each     *)
(* unfinished broadcast, and that outputs keep the selected format.  For   *)
(* shows without Twitch: that Off means stopped, and that an output that   *)
(* starts feeds the broadcast that was made for it.                        *)
(***************************************************************************)
EXTENDS GoLive, TLAPS

Status == {"none", "ready", "live", "complete", "deleted"}

\* The id of every unfinished broadcast is known.
Kept(y) ==
  \A b \in Broadcast : y.status[b] \in {"ready", "live"} => \E s \in Slot : y.ids[s] = b

Good(y) == y \in YouTubeState /\ Kept(y)

\* y and z differ neither in outputs nor in what is prepared.
SameShow(y, z) == z.out = y.out /\ z.prepared = y.prepared

-----------------------------------------------------------------------------
(* YouTube *)

LEMMA StateFacts ==
  ASSUME NEW y \in YouTubeState
  PROVE  /\ y.ids \in [Slot -> 0 .. MaxBroadcasts] /\ y.status \in [Broadcast -> Status]
         /\ y.out \in [Slot -> Output] /\ y.made \in 0 .. MaxBroadcasts
         /\ y.prepared \in Mode \cup {"none"} /\ y.keys \subseteq Slot
         /\ y.chats \in [Route -> 0 .. MaxBroadcasts] /\ y.bound \in [Route -> 0 .. MaxBroadcasts]
         /\ y.generation \in Nat /\ y.timers \subseteq Nat
BY DEF YouTubeState, Status

LEMMA OverFacts ==
  ASSUME NEW status \in Status
  PROVE  Over(status) \in Status /\ Over(status) \notin {"ready", "live"}
BY DEF Over, Status

LEMMA CancelGood ==
  ASSUME NEW y, Good(y)
  PROVE  /\ Good(Cancel(y)) /\ SameShow(y, Cancel(y))
         /\ Cancel(y).ids = y.ids
<1>1. NoChats \in [Route -> 0 .. MaxBroadcasts]
  BY BoundsAssumption DEF NoChats
<1>2. Cancel(y) \in YouTubeState
  <2>1. y \in YouTubeState /\ y.generation + 1 \in Nat
    BY StateFacts DEF Good
  <2>2. Cancel(y) = [y EXCEPT !.generation = y.generation + 1, !.chats = NoChats]
    BY DEF Cancel
  <2>3. ASSUME NEW n \in Nat, NEW chats \in [Route -> 0 .. MaxBroadcasts]
        PROVE  [y EXCEPT !.generation = n, !.chats = chats] \in YouTubeState
    BY <2>1 DEF YouTubeState
  <2> QED BY <1>1, <2>1, <2>2, <2>3
<1>3. /\ Cancel(y).ids = y.ids /\ Cancel(y).status = y.status
      /\ Cancel(y).out = y.out /\ Cancel(y).prepared = y.prepared
  BY DEF Cancel, Good, YouTubeState
<1> QED BY <1>2, <1>3 DEF Good, Kept, SameShow

LEMMA ForgetGood ==
  ASSUME NEW y, Good(y)
  PROVE  Good(Forget(y)) /\ Forget(y).out = y.out
<1>1. Forget(y) \in YouTubeState
  BY DEF Forget, Good, YouTubeState
<1>2. Forget(y).ids = y.ids /\ Forget(y).status = y.status /\ Forget(y).out = y.out
  BY DEF Forget, Good, YouTubeState
<1> QED BY <1>1, <1>2 DEF Good, Kept

\* Cleaning up either clears the id of a finished broadcast or keeps it.
LEMMA FinishGood ==
  ASSUME NEW y, Good(y), NEW slot \in Slot, NEW r \in Finish(y, slot)
  PROVE  /\ Good(r.youtube) /\ SameShow(y, r.youtube)
         /\ r.ok => r.youtube.ids[slot] = 0
         /\ \A s \in Slot \ {slot} : r.youtube.ids[s] = y.ids[s]
<1> DEFINE b == y.ids[slot]
           done == [y EXCEPT !.status[b] = Over(@)]
           clear == [done EXCEPT !.ids[slot] = 0]
<1>0. y \in YouTubeState
  BY DEF Good
<1>1. CASE b = 0
  <2>1. r = Result(TRUE, y)
    BY <1>1 DEF Finish
  <2> QED BY <1>1, <2>1 DEF Result, SameShow
<1>2. CASE b # 0
  <2>1. b \in Broadcast /\ y.status[b] \in Status /\ y.status \in [Broadcast -> Status]
    BY <1>0, <1>2, BoundsAssumption DEF YouTubeState, Broadcast, Status
  <2>2. Over(y.status[b]) \in Status
    BY <2>1, OverFacts
  <2>3. [y.status EXCEPT ![b] = Over(@)] \in [Broadcast -> Status]
    BY <2>1, <2>2
  <2>4. done \in YouTubeState /\ done.status = [y.status EXCEPT ![b] = Over(@)]
        /\ done.ids = y.ids /\ SameShow(y, done)
    <3> HIDE DEF b
    <3> QED BY <1>0, <2>3 DEF YouTubeState, Status, SameShow
  <2>5. \A c \in Broadcast : done.status[c] \in {"ready", "live"} => c # b /\ y.status[c] = done.status[c]
    BY <2>1, <2>4, OverFacts
  <2>6. Good(done)
    BY <2>4, <2>5 DEF Good, Kept
  <2>7. clear \in YouTubeState /\ clear.status = done.status /\ SameShow(done, clear)
        /\ clear.ids = [done.ids EXCEPT ![slot] = 0]
    <3> HIDE DEF done
    <3> QED BY <2>4, BoundsAssumption DEF YouTubeState, SameShow
  <2>8. y.ids \in [Slot -> 0 .. MaxBroadcasts]
    BY <1>0, StateFacts
  <2>9. clear.ids[slot] = 0 /\ \A s \in Slot \ {slot} : clear.ids[s] = y.ids[s]
    <3> HIDE DEF clear, done
    <3> QED BY <2>4, <2>7, <2>8
  <2>10. Good(clear)
    <3>1. ASSUME NEW c \in Broadcast, clear.status[c] \in {"ready", "live"}
          PROVE  \E s \in Slot : clear.ids[s] = c
      <4>1. done.status[c] \in {"ready", "live"} /\ c # b
        BY <2>5, <2>7, <3>1
      <4>2. PICK s \in Slot : y.ids[s] = c
        BY <2>4, <2>6, <4>1 DEF Good, Kept
      <4>3. s # slot
        BY <4>1, <4>2
      <4> HIDE DEF clear
      <4> QED BY <2>9, <4>2, <4>3
    <3> HIDE DEF clear
    <3> QED BY <2>7, <3>1 DEF Good, Kept
  <2>11. r \in {Result(TRUE, clear), Result(FALSE, y), Result(FALSE, done)}
    BY <1>2 DEF Finish
  <2> HIDE DEF clear, done, b
  <2>12. CASE r = Result(TRUE, clear)
    BY <2>4, <2>7, <2>9, <2>10, <2>12 DEF Result, SameShow
  <2>13. CASE r = Result(FALSE, y)
    BY <2>13 DEF Result, SameShow
  <2>14. CASE r = Result(FALSE, done)
    BY <2>4, <2>6, <2>14 DEF Result, SameShow
  <2> QED BY <2>11, <2>12, <2>13, <2>14
<1> QED BY <1>1, <1>2

LEMMA FinishBothGood ==
  ASSUME NEW y, Good(y), NEW z \in FinishBoth(y)
  PROVE  Good(z) /\ SameShow(y, z)
<1>1. PICK t \in Finish(y, "primary") : z \in {u.youtube : u \in Finish(t.youtube, "second")}
  BY DEF FinishBoth
<1>2. Good(t.youtube) /\ SameShow(y, t.youtube)
  BY FinishGood DEF Slot
<1>. PICK u \in Finish(t.youtube, "second") : z = u.youtube
  BY <1>1
<1>3. Good(u.youtube) /\ SameShow(t.youtube, u.youtube)
  BY <1>2, FinishGood DEF Slot
<1> QED BY <1>1, <1>2, <1>3 DEF SameShow

LEMMA DiscardGood ==
  ASSUME NEW y, Good(y), NEW r \in Discard(y)
  PROVE  /\ Good(r.youtube) /\ SameShow(y, r.youtube)
         /\ r.ok => \A s \in Slot : r.youtube.ids[s] = 0
<1>1. PICK t \in Finish(y, "primary") : r \in IF t.ok THEN Finish(t.youtube, "second") ELSE {t}
  BY DEF Discard
<1>2. Good(t.youtube) /\ SameShow(y, t.youtube) /\ (t.ok => t.youtube.ids["primary"] = 0)
  BY FinishGood DEF Slot
<1>3. CASE t.ok
  <2>1. r \in Finish(t.youtube, "second")
    BY <1>1, <1>3
  <2>2. /\ Good(r.youtube) /\ SameShow(t.youtube, r.youtube) /\ (r.ok => r.youtube.ids["second"] = 0)
        /\ r.youtube.ids["primary"] = t.youtube.ids["primary"]
    BY <1>2, <2>1, FinishGood DEF Slot
  <2> QED BY <1>2, <1>3, <2>2 DEF SameShow, Slot
<1>4. CASE ~t.ok
  BY <1>1, <1>2, <1>4
<1> QED BY <1>3, <1>4

LEMMA StoppedGood ==
  ASSUME NEW y, Good(y), NEW z \in Stopped(y)
  PROVE  Good(z) /\ NoOutputs(z)
<1> DEFINE x == Cancel(y)
           w == [x EXCEPT !.out = [s \in Slot |-> "none"]]
<1>1. Good(x)
  BY CancelGood
<1>2. w \in YouTubeState /\ w.ids = x.ids /\ w.status = x.status /\ w.out = [s \in Slot |-> "none"]
  <2> HIDE DEF x
  <2> QED BY <1>1 DEF Good, YouTubeState, Output
<1>3. Good(w)
  BY <1>1, <1>2 DEF Good, Kept
<1>4. PICK u \in FinishBoth(w) : z = Forget(u)
  BY DEF Stopped
<1>5. Good(u) /\ u.out = w.out
  <2> HIDE DEF w
  <2> QED BY <1>3, <1>4, FinishBothGood DEF SameShow
<1>6. Good(z) /\ z.out = w.out
  BY <1>4, <1>5, ForgetGood
<1> QED BY <1>2, <1>6 DEF NoOutputs

\* A new broadcast takes the place of none: its slot was cleared before.
LEMMA RouteGood ==
  ASSUME NEW y, Good(y), NEW slot \in Slot, NEW m \in Mode, y.ids[slot] = 0,
         NEW r \in PrepareRoute(y, slot, m)
  PROVE  /\ Good(r.youtube) /\ SameShow(y, r.youtube)
         /\ \A s \in Slot \ {slot} : r.youtube.ids[s] = y.ids[s]
<1> DEFINE b == y.made + 1
           inserted == [y EXCEPT !.made = b, !.status[b] = "ready", !.ids[slot] = b]
           whole == [inserted EXCEPT !.bound[RouteOf(slot, m)] = b, !.keys = @ \union {slot}]
<1>0. y \in YouTubeState
  BY DEF Good
<1>1. CASE r = Result(FALSE, y)
  BY <1>1 DEF Result, SameShow
<1>2. CASE b \in Broadcast /\ r \in {Result(FALSE, inserted), Result(TRUE, whole)}
  <2>1. b \in 1 .. MaxBroadcasts /\ b \in 0 .. MaxBroadcasts /\ b \in Broadcast
    BY <1>2, BoundsAssumption DEF Broadcast
  <2>2. y.ids \in [Slot -> 0 .. MaxBroadcasts] /\ y.status \in [Broadcast -> Status]
    BY <1>0, StateFacts
  <2>3. [y.ids EXCEPT ![slot] = b] \in [Slot -> 0 .. MaxBroadcasts]
        /\ [y.status EXCEPT ![b] = "ready"] \in [Broadcast -> Status]
    <3> HIDE DEF b
    <3> QED BY <2>1, <2>2 DEF Status
  <2>4. inserted \in YouTubeState /\ inserted.ids = [y.ids EXCEPT ![slot] = b]
        /\ inserted.status = [y.status EXCEPT ![b] = "ready"] /\ SameShow(y, inserted)
    <3> HIDE DEF b
    <3> QED BY <1>0, <2>1, <2>3 DEF YouTubeState, Status, SameShow
  <2>5. RouteOf(slot, m) \in Route
    BY DEF RouteOf, Route
  <2>6. whole \in YouTubeState /\ whole.ids = inserted.ids /\ whole.status = inserted.status
        /\ SameShow(inserted, whole)
    <3>1. inserted.bound \in [Route -> 0 .. MaxBroadcasts]
      BY <2>4, StateFacts
    <3>2. [inserted.bound EXCEPT ![RouteOf(slot, m)] = b] \in [Route -> 0 .. MaxBroadcasts]
      <4> HIDE DEF inserted, b
      <4> QED BY <2>1, <2>5, <3>1
    <3> HIDE DEF inserted, b
    <3> QED BY <2>4, <3>2 DEF YouTubeState, SameShow
  <2>7. ASSUME NEW c \in Broadcast, inserted.status[c] \in {"ready", "live"}
        PROVE  \E s \in Slot : inserted.ids[s] = c
    <3>1. CASE c = b
      <4> HIDE DEF inserted, b
      <4> QED BY <2>2, <2>4, <3>1
    <3>2. CASE c # b
      <4>1. y.status[c] \in {"ready", "live"}
        <5> HIDE DEF inserted, b
        <5> QED BY <2>2, <2>4, <2>7, <3>2
      <4>2. PICK s \in Slot : y.ids[s] = c
        BY <4>1 DEF Good, Kept
      <4>3. s # slot
        BY <4>2, BoundsAssumption DEF Broadcast
      <4>4. inserted.ids[s] = c
        <5> HIDE DEF inserted, b
        <5> QED BY <2>2, <2>4, <4>2, <4>3
      <4> QED BY <4>4
    <3> QED BY <3>1, <3>2
  <2>8. Good(inserted) /\ Good(whole)
    <3> HIDE DEF inserted, whole, b
    <3> QED BY <2>4, <2>6, <2>7 DEF Good, Kept
  <2>9. \A s \in Slot \ {slot} : inserted.ids[s] = y.ids[s]
    <3> HIDE DEF inserted, b
    <3> QED BY <2>2, <2>4
  <2> HIDE DEF inserted, whole, b
  <2>10. r.youtube \in {inserted, whole}
    BY <1>2 DEF Result
  <2> QED BY <2>4, <2>6, <2>8, <2>9, <2>10 DEF SameShow
<1>3. r = Result(FALSE, y) \/ (b \in Broadcast /\ r \in {Result(FALSE, inserted), Result(TRUE, whole)})
  BY DEF PrepareRoute
<1> QED BY <1>1, <1>2, <1>3

LEMMA RoutesGood ==
  ASSUME NEW y, Good(y), NEW m \in Mode, \A s \in Slot : y.ids[s] = 0,
         NEW r \in PrepareRoutes(y, m)
  PROVE  Good(r.youtube) /\ SameShow(y, r.youtube)
<1>1. CASE m # "dual"
  <2>1. r \in PrepareRoute(y, "primary", m)
    BY <1>1 DEF PrepareRoutes
  <2> QED BY <2>1, RouteGood DEF Slot
<1>2. CASE m = "dual"
  <2>1. PICK t \in PrepareRoute(y, "primary", m) :
          r \in IF t.ok THEN PrepareRoute(t.youtube, "second", m) ELSE {t}
    BY <1>2 DEF PrepareRoutes
  <2>2. Good(t.youtube) /\ SameShow(y, t.youtube) /\ t.youtube.ids["second"] = 0
    BY RouteGood DEF Slot
  <2>3. CASE t.ok
    <3>1. r \in PrepareRoute(t.youtube, "second", m)
      BY <2>1, <2>3
    <3>2. Good(r.youtube) /\ SameShow(t.youtube, r.youtube)
      BY <2>2, <3>1, RouteGood DEF Slot
    <3> QED BY <2>2, <3>2 DEF SameShow
  <2>4. CASE ~t.ok
    BY <2>1, <2>2, <2>4
  <2> QED BY <2>3, <2>4
<1> QED BY <1>1, <1>2

LEMMA PreparedAllGood ==
  ASSUME NEW y, Good(y), NEW m \in Mode
  PROVE  Good(PreparedAll(y, m)) /\ PreparedAll(y, m).out = y.out
<1> DEFINE of(r) == CHOOSE s \in SlotsOf(m) : RouteOf(s, m) = r
           chats == [r \in Route |-> IF \E s \in SlotsOf(m) : RouteOf(s, m) = r THEN y.ids[of(r)] ELSE 0]
<1>1. y \in YouTubeState /\ y.ids \in [Slot -> 0 .. MaxBroadcasts]
  BY StateFacts DEF Good
<1>2. \A r \in Route : (\E s \in SlotsOf(m) : RouteOf(s, m) = r) => of(r) \in Slot
  BY DEF SlotsOf, Slot
<1>3. chats \in [Route -> 0 .. MaxBroadcasts]
  <2> HIDE DEF of
  <2> QED BY <1>1, <1>2, BoundsAssumption
<1>4. PreparedAll(y, m) = [y EXCEPT !.prepared = m, !.chats = chats]
  BY DEF PreparedAll
<1> HIDE DEF chats
<1>5. PreparedAll(y, m) \in YouTubeState
  BY <1>1, <1>3, <1>4 DEF YouTubeState
<1>6. /\ PreparedAll(y, m).ids = y.ids /\ PreparedAll(y, m).status = y.status
      /\ PreparedAll(y, m).out = y.out
  BY <1>1, <1>4 DEF YouTubeState
<1> QED BY <1>5, <1>6 DEF Good, Kept

\* Nothing is prepared while outputs exist.
LEMMA PreparedGood ==
  ASSUME NEW y, Good(y), NEW m \in Mode, NEW z \in Prepared(y, m)
  PROVE  Good(z) /\ (z = y \/ NoOutputs(z))
<1>1. CASE z = y
  BY <1>1
<1>2. CASE z # y
  <2>1. NoOutputs(y)
    BY <1>2 DEF Prepared
  <2>2. PICK d \in Discard(Cancel(y)) :
          z \in IF ~d.ok THEN {d.youtube}
                ELSE UNION {IF t.ok THEN {PreparedAll(t.youtube, m)}
                            ELSE {Forget(u) : u \in FinishBoth(t.youtube)} :
                              t \in PrepareRoutes([d.youtube EXCEPT !.keys = {}], m)}
    BY <1>2 DEF Prepared
  <2>3. /\ Good(d.youtube) /\ d.youtube.out = y.out
        /\ d.ok => \A s \in Slot : d.youtube.ids[s] = 0
    BY CancelGood, DiscardGood DEF SameShow
  <2>4. CASE ~d.ok
    BY <2>1, <2>2, <2>3, <2>4 DEF NoOutputs
  <2>5. CASE d.ok
    <3> DEFINE x == [d.youtube EXCEPT !.keys = {}]
    <3>1. x \in YouTubeState /\ x.ids = d.youtube.ids /\ x.status = d.youtube.status /\ x.out = y.out
      BY <2>3 DEF Good, YouTubeState
    <3>2. Good(x) /\ \A s \in Slot : x.ids[s] = 0
      BY <2>3, <2>5, <3>1 DEF Good, Kept
    <3> HIDE DEF x
    <3>3. PICK t \in PrepareRoutes(x, m) :
            z \in IF t.ok THEN {PreparedAll(t.youtube, m)} ELSE {Forget(u) : u \in FinishBoth(t.youtube)}
      BY <2>2, <2>5 DEF x
    <3>4. Good(t.youtube) /\ t.youtube.out = y.out
      BY <3>1, <3>2, RoutesGood DEF SameShow
    <3>5. CASE t.ok
      BY <2>1, <3>3, <3>4, <3>5, PreparedAllGood DEF NoOutputs
    <3>6. CASE ~t.ok
      <4>1. PICK u \in FinishBoth(t.youtube) : z = Forget(u)
        BY <3>3, <3>6
      <4>2. Good(u) /\ u.out = y.out
        BY <3>4, FinishBothGood DEF SameShow
      <4> QED BY <2>1, <4>1, <4>2, ForgetGood DEF NoOutputs
    <3> QED BY <3>5, <3>6
  <2> QED BY <2>4, <2>5
<1> QED BY <1>1, <1>2

\* What a handler that starts in mode m makes of y.
Reaches(y, z, m) == Good(z) /\ (z = y \/ NoOutputs(z) \/ z.prepared = m)

Opens(y, slot, o, timers) == [y EXCEPT !.out[slot] = o, !.timers = timers]

LEMMA OutGood ==
  ASSUME NEW y, Good(y), NEW slot \in Slot, NEW o \in Output, NEW timers \in SUBSET Nat
  PROVE  /\ Good(Opens(y, slot, o, timers)) /\ Opens(y, slot, o, timers).prepared = y.prepared
         /\ Good([y EXCEPT !.out[slot] = o]) /\ [y EXCEPT !.out[slot] = o].prepared = y.prepared
         /\ Good([y EXCEPT !.timers = timers]) /\ SameShow(y, [y EXCEPT !.timers = timers])
<1> DEFINE u == [y EXCEPT !.out[slot] = o, !.timers = timers]
           v == [y EXCEPT !.out[slot] = o]
           w == [y EXCEPT !.timers = timers]
<1>1. y \in YouTubeState /\ [y.out EXCEPT ![slot] = o] \in [Slot -> Output]
  BY StateFacts DEF Good
<1>2. u \in YouTubeState /\ u.ids = y.ids /\ u.status = y.status /\ u.prepared = y.prepared
  BY <1>1 DEF YouTubeState
<1>3. v \in YouTubeState /\ v.ids = y.ids /\ v.status = y.status /\ v.prepared = y.prepared
  BY <1>1 DEF YouTubeState
<1>4. w \in YouTubeState /\ w.ids = y.ids /\ w.status = y.status /\ SameShow(y, w)
  BY <1>1 DEF YouTubeState, SameShow
<1> HIDE DEF u, v, w
<1>5. Good(u) /\ Good(v) /\ Good(w)
  BY <1>2, <1>3, <1>4 DEF Good, Kept
<1>6. u = Opens(y, slot, o, timers)
  BY DEF u, Opens
<1> QED BY <1>2, <1>3, <1>4, <1>5, <1>6 DEF v, w

LEMMA StartedGood ==
  ASSUME NEW y, Good(y), NEW m \in Mode, NEW z \in Started(y, m)
  PROVE  Reaches(y, z, m)
<1> DEFINE timers == IF m = "dual" THEN y.timers \union {y.generation} ELSE y.timers
           u == [y EXCEPT !.out["primary"] = "connecting", !.timers = timers]
           v == [y EXCEPT !.out["primary"] = "failed"]
<1>0. timers \in SUBSET Nat /\ "primary" \in Slot /\ "connecting" \in Output /\ "failed" \in Output
  BY StateFacts DEF Good, Slot, Output
<1>1. Good(u) /\ u.prepared = y.prepared /\ Good(v)
  <2> HIDE DEF timers
  <2>1. Good(u) /\ u.prepared = y.prepared
    <3>1. u = Opens(y, "primary", "connecting", timers)
      BY DEF Opens
    <3> HIDE DEF u
    <3> QED BY <1>0, <3>1, OutGood
  <2>2. Good(v)
    <3>1. {} \in SUBSET Nat
      OBVIOUS
    <3> QED BY <1>0, <3>1, OutGood
  <2> QED BY <2>1, <2>2
<1>2. \/ z = y
      \/ y.prepared = m /\ z = u
      \/ z \in Stopped(v)
  BY DEF Started, IsPrepared
<1> HIDE DEF u, v
<1> QED BY <1>1, <1>2, StoppedGood DEF Reaches

LEMMA PrepareAndStartGood ==
  ASSUME NEW y, Good(y), NEW m \in Mode, NEW z \in PrepareAndStart(y, m)
  PROVE  Reaches(y, z, m)
<1>1. PICK x \in Prepared(y, m) : z \in IF IsPrepared(x, m) THEN Started(x, m) ELSE {x}
  BY DEF PrepareAndStart
<1>2. Good(x) /\ (x = y \/ NoOutputs(x))
  BY PreparedGood
<1>3. z = x \/ z \in Started(x, m)
  BY <1>1
<1>4. z = x \/ Reaches(x, z, m)
  BY <1>2, <1>3, StartedGood
<1> QED BY <1>2, <1>4 DEF Reaches

\* What a step may make of YouTube's state: outputs that are new have the
\* selected format, others keep theirs.
Moved ==
  /\ Good(youtube')
  /\ \/ youtube' = youtube \/ NoOutputs(youtube') \/ youtube'.prepared = mode["youtube"]
     \/ ~NoOutputs(youtube) /\ youtube'.prepared = youtube.prepared

\* The handlers leave it alone, stop it, prepare it, start it, or both.
Handled ==
  \/ youtube' = youtube
  \/ youtube' \in Stopped(youtube)
  \/ youtube' \in Prepared(youtube, mode["youtube"])
  \/ youtube' \in Started(youtube, mode["youtube"])
  \/ youtube' \in PrepareAndStart(youtube, mode["youtube"])

LEMMA HandledMoved ==
  ASSUME Good(youtube), mode["youtube"] \in Mode, Handled
  PROVE  Moved
<1>1. CASE youtube' = youtube
  BY <1>1 DEF Moved
<1>2. CASE youtube' \in Stopped(youtube)
  BY <1>2, StoppedGood DEF Moved
<1>3. CASE youtube' \in Prepared(youtube, mode["youtube"])
  BY <1>3, PreparedGood DEF Moved
<1>4. CASE youtube' \in Started(youtube, mode["youtube"])
  BY <1>4, StartedGood DEF Moved, Reaches
<1>5. CASE youtube' \in PrepareAndStart(youtube, mode["youtube"])
  BY <1>5, PrepareAndStartGood DEF Moved, Reaches
<1> QED BY <1>1, <1>2, <1>3, <1>4, <1>5 DEF Handled

LEMMA SecondStartMoved ==
  ASSUME Good(youtube), NEW g \in youtube.timers, SecondStart(g)
  PROVE  Moved
<1> DEFINE y == [youtube EXCEPT !.timers = @ \ {g}]
<1>1. youtube.timers \ {g} \in SUBSET Nat /\ "second" \in Slot /\ "primary" \in Slot
  BY StateFacts DEF Good, Slot
<1>2. Good(y) /\ SameShow(youtube, y)
  BY <1>1, OutGood DEF Output
<1>3. CASE youtube' = y
  BY <1>2, <1>3 DEF Moved, SameShow, NoOutputs
<1>4. ASSUME y.out["primary"] = "active", NEW o \in {"connecting", "failed"},
             youtube' = [y EXCEPT !.out["second"] = o]
      PROVE  Moved
  <2>1. ~NoOutputs(youtube)
    BY <1>1, <1>2, <1>4 DEF SameShow, NoOutputs
  <2>2. o \in Output
    BY DEF Output
  <2>3. Good(youtube') /\ youtube'.prepared = y.prepared
    <3> HIDE DEF y
    <3> QED BY <1>1, <1>2, <1>4, <2>2, OutGood
  <2> QED BY <1>2, <2>1, <2>3 DEF Moved, SameShow
<1>5. \/ youtube' = y
      \/ y.out["primary"] = "active" /\ \E o \in {"connecting", "failed"} : youtube' = [y EXCEPT !.out["second"] = o]
  BY DEF SecondStart
<1> QED BY <1>3, <1>4, <1>5

LEMMA ChangesMoved ==
  ASSUME Good(youtube), NEW s \in Slot, YouTubeChanges(s)
  PROVE  Moved
<1>1. PICK o \in NextOutput(youtube.out[s]) : youtube' = [youtube EXCEPT !.out[s] = o]
  BY DEF YouTubeChanges
<1>2. youtube.out[s] # "none" /\ o \in Output
  BY DEF NextOutput, Output
<1>3. {} \in SUBSET Nat
  OBVIOUS
<1>4. Good(youtube') /\ youtube'.prepared = youtube.prepared
  BY <1>1, <1>2, <1>3, OutGood
<1> QED BY <1>2, <1>4 DEF Moved, NoOutputs

LEMMA BroadcastMoved ==
  ASSUME Good(youtube), NEW b \in Broadcast, BroadcastMoves(b)
  PROVE  Moved
<1>1. PICK to \in {"live", "complete"} :
        youtube' = [youtube EXCEPT !.status[b] = to] /\ youtube.status[b] \in {"ready", "live"}
  BY DEF BroadcastMoves
<1>2. youtube \in YouTubeState /\ youtube.status \in [Broadcast -> Status]
  BY StateFacts DEF Good
<1>3. [youtube.status EXCEPT ![b] = to] \in [Broadcast -> Status]
  BY <1>2 DEF Status
<1>4. /\ youtube' \in YouTubeState /\ SameShow(youtube, youtube') /\ youtube'.ids = youtube.ids
      /\ youtube'.status = [youtube.status EXCEPT ![b] = to]
  BY <1>1, <1>2, <1>3 DEF YouTubeState, Status, SameShow
<1>5. \A c \in Broadcast : youtube'.status[c] \in {"ready", "live"} => youtube.status[c] \in {"ready", "live"}
  BY <1>1, <1>2, <1>4
<1>6. Good(youtube')
  BY <1>4, <1>5 DEF Good, Kept
<1> QED BY <1>4, <1>6 DEF Moved, SameShow, NoOutputs

-----------------------------------------------------------------------------
(* Twitch *)

Signal == {"start", "stop", "refused", "restart"}

LEMMA TwitchFacts ==
  ASSUME NEW t \in TwitchState
  PROVE  /\ t.attempt \in Nat /\ t.setup \in Nat /\ t.signals \in Seq(Signal)
         /\ t = [phase |-> t.phase, attempt |-> t.attempt, setup |-> t.setup, stream |-> t.stream,
                 signals |-> t.signals]
BY DEF TwitchState, Signal

LEMMA OutcomeFacts ==
  \A t, o : o \in {Outcome(t, FALSE), Outcome(t, TRUE)} => o.twitch = t /\ o.failed \in BOOLEAN
<1> TAKE t, o
<1>1. ASSUME o = Outcome(t, FALSE) PROVE o.twitch = t /\ o.failed \in BOOLEAN
  <2>1. o.twitch = t
    BY <1>1 DEF Outcome
  <2>2. o.failed = FALSE
    BY <1>1 DEF Outcome
  <2> QED BY <2>1, <2>2
<1>2. ASSUME o = Outcome(t, TRUE) PROVE o.twitch = t /\ o.failed \in BOOLEAN
  <2>1. o.twitch = t
    BY <1>2 DEF Outcome
  <2>2. o.failed = TRUE
    BY <1>2 DEF Outcome
  <2> QED BY <2>1, <2>2
<1> QED BY <1>1, <1>2

Ended(t, n, stream) == [t EXCEPT !.phase = "idle", !.attempt = n, !.stream = stream]

LEMMA StopTyped ==
  ASSUME NEW t \in TwitchState
  PROVE  StopStreaming(t) \in TwitchState
<1>1. t.attempt + 1 \in Nat
  BY TwitchFacts
<1>2. ASSUME NEW n \in Nat, NEW stream \in {t.stream, "cancelling", "stopping"}
      PROVE  Ended(t, n, stream) \in TwitchState
  BY <1>2 DEF TwitchState, Ended
<1> DEFINE stream == IF t.stream = "connecting" /\ t.phase = "connecting" THEN "cancelling"
                     ELSE IF t.stream = "active" THEN "stopping" ELSE t.stream
<1>3. stream \in {t.stream, "cancelling", "stopping"}
  OBVIOUS
<1>4. StopStreaming(t) = Ended(t, t.attempt + 1, stream)
  BY DEF StopStreaming, Ended
<1> HIDE DEF stream
<1> QED BY <1>1, <1>2, <1>3, <1>4

LEMMA FinishSetupTyped ==
  ASSUME NEW t \in TwitchState, NEW o \in FinishSetup(t)
  PROVE  o.twitch \in TwitchState /\ o.failed \in BOOLEAN
<1> DEFINE u == [t EXCEPT !.setup = 0]
<1>1. u \in TwitchState
  BY DEF TwitchState
<1> DEFINE refused == [u EXCEPT !.phase = "failed"]
           begun == [u EXCEPT !.phase = "connecting", !.stream = "connecting"]
<1>2. refused \in TwitchState /\ begun \in TwitchState
  <2> HIDE DEF u
  <2> QED BY <1>1 DEF TwitchState
<1>3. o \in {Outcome(u, FALSE), Outcome(refused, TRUE), Outcome(begun, FALSE)}
  BY DEF FinishSetup
<1> HIDE DEF u, refused, begun
<1> QED BY <1>1, <1>2, <1>3, OutcomeFacts

LEMMA StartStreamingTyped ==
  ASSUME NEW t \in TwitchState, NEW o \in StartStreaming(t)
  PROVE  o.twitch \in TwitchState /\ o.failed \in BOOLEAN
<1> DEFINE u == [t EXCEPT !.attempt = @ + 1, !.phase = "preparing", !.setup = t.attempt + 1]
<1>1. t.attempt + 1 \in Nat
  BY TwitchFacts
<1>2. ASSUME NEW n \in Nat
      PROVE  [t EXCEPT !.attempt = n, !.phase = "preparing", !.setup = n] \in TwitchState
  BY DEF TwitchState
<1>3. u = [t EXCEPT !.attempt = t.attempt + 1, !.phase = "preparing", !.setup = t.attempt + 1]
  OBVIOUS
<1> HIDE DEF u
<1>4. u \in TwitchState
  BY <1>1, <1>2, <1>3
<1>5. o = Outcome(t, FALSE) \/ o = Outcome(u, FALSE) \/ o \in FinishSetup(u)
  BY DEF StartStreaming, u
<1>6. CASE o = Outcome(t, FALSE)
  BY <1>6 DEF Outcome
<1>7. CASE o = Outcome(u, FALSE)
  BY <1>4, <1>7 DEF Outcome
<1>8. CASE o \in FinishSetup(u)
  BY <1>4, <1>8, FinishSetupTyped
<1> QED BY <1>5, <1>6, <1>7, <1>8

LEMMA StreamActionTyped ==
  ASSUME NEW t \in TwitchState, NEW o \in StreamAction(t)
  PROVE  o.twitch \in TwitchState /\ o.failed \in BOOLEAN
<1>1. o = Outcome(t, FALSE) \/ o = Outcome(StopStreaming(t), FALSE) \/ o \in StartStreaming(t)
  BY DEF StreamAction
<1>2. CASE o \in StartStreaming(t)
  BY <1>2, StartStreamingTyped
<1>3. CASE o = Outcome(t, FALSE) \/ o = Outcome(StopStreaming(t), FALSE)
  BY <1>3, StopTyped, OutcomeFacts
<1> QED BY <1>1, <1>2, <1>3

Posted(t, stream, signal) == [t EXCEPT !.stream = stream, !.signals = Append(@, signal)]

\* The stream's end posts a signal, the UI thread takes one.
LEMMA SignalsTyped ==
  ASSUME NEW t \in TwitchState, NEW stream \in {"active", "none"}, NEW signal \in Signal
  PROVE  /\ Posted(t, stream, signal) \in TwitchState
         /\ t.signals # <<>> => [t EXCEPT !.signals = Tail(@)] \in TwitchState
<1>1. t.signals \in Seq(Signal)
  BY TwitchFacts
<1>2. Append(t.signals, signal) \in Seq(Signal) /\ (t.signals # <<>> => Tail(t.signals) \in Seq(Signal))
  BY <1>1
<1>3. ASSUME NEW q \in Seq(Signal)
      PROVE  [t EXCEPT !.stream = stream, !.signals = q] \in TwitchState /\ [t EXCEPT !.signals = q] \in TwitchState
  BY DEF TwitchState, Signal
<1> QED BY <1>2, <1>3 DEF Posted

-----------------------------------------------------------------------------
(* Steps *)

Rest ==
  /\ mode \in [Provider -> Mode] /\ applied \in [Provider -> Mode \union {"none"}]
  /\ live \in BOOLEAN /\ held \in [Provider -> BOOLEAN] /\ confirming \in BOOLEAN
  /\ deferred \subseteq DeferredStart
  /\ kick \in Output /\ kickLive \in BOOLEAN /\ anyLive \in BOOLEAN

Typed == Rest /\ Good(youtube) /\ twitch \in TwitchState

\* The actions, by who takes them.
Buttons == PressStop \/ PressGoLive \/ CancelGoLive \/ ConfirmGoLive \/ LumiaGoLive \/ LumiaEndShow
Requests == \E p \in Provider : \/ \E m \in Modes(p) : SelectMode(p, m)
                                \/ ApplyChange(p) \/ LumiaStop(p) \/ LumiaStart(p)
Timers == (\E d \in deferred : DeferredTimer(d)) \/ (\E g \in youtube.timers : SecondStart(g)) \/ RefreshShell
Signals == SetupEnds \/ StreamingStart \/ StreamingStop \/ StreamingRestart
Environment == \/ \E s \in Slot : YouTubeChanges(s)
               \/ \E b \in Broadcast : BroadcastMoves(b)
               \/ TwitchMoves \/ KickMoves

LEMMA NextIs == Next => Buttons \/ Requests \/ Timers \/ Signals \/ Environment
BY DEF Next, Buttons, Requests, Timers, Signals, Environment

\* Stopping and preparing a show.
LEMMA StopShowIs ==
  ASSUME Rest, StopShow
  PROVE  /\ Handled
         /\ twitch' \in {twitch, StopStreaming(twitch)} \/ \E o \in StreamAction(twitch) : twitch' = o.twitch
         /\ live' \in BOOLEAN /\ kick' \in Output /\ kickLive' \in BOOLEAN
         /\ UNCHANGED <<mode, applied, held, confirming, deferred, anyLive>>
<1>1. Handled
  BY DEF StopShow, Handled
<1>2. twitch' \in {twitch, StopStreaming(twitch)} \/ \E o \in StreamAction(twitch) : twitch' = o.twitch
  BY DEF StopShow
<1>3. live' \in BOOLEAN /\ kick' \in Output /\ kickLive' \in BOOLEAN
  BY DEF StopShow, Output
<1> QED BY <1>1, <1>2, <1>3 DEF StopShow, selection

LEMMA DeferralTyped ==
  ASSUME NEW t \in TwitchState
  PROVE  Deferral(t) \in DeferredStart
<1>1. t.attempt \in Nat /\ Selected \ {"twitch"} \subseteq {"youtube", "kick"}
  BY TwitchFacts DEF Selected, Provider
<1>2. (IF "twitch" \notin Selected THEN "timer"
       ELSE IF StreamingActive(t) THEN "timerTwitch" ELSE "started") \in {"timer", "timerTwitch", "started"}
  OBVIOUS
<1> QED BY <1>1, <1>2 DEF Deferral, DeferredStart

LEMMA StartShowIs ==
  ASSUME Rest, twitch \in TwitchState, NEW y, StartShow(y)
  PROVE  /\ youtube' = y
         /\ twitch' = twitch \/ \E o \in StreamAction(twitch) : twitch' = o.twitch
         /\ live' \in BOOLEAN /\ held' \in [Provider -> BOOLEAN] /\ deferred' \subseteq DeferredStart
         /\ UNCHANGED <<mode, applied, kick, kickLive, anyLive>>
<1>1. youtube' = y /\ UNCHANGED <<mode, applied, kick, kickLive, anyLive>>
  BY DEF StartShow, selection
<1>2. held' \in [Provider -> BOOLEAN]
  BY DEF StartShow
<1>3. CASE "twitch" \notin Selected
  BY <1>1, <1>2, <1>3, DeferralTyped DEF StartShow, Rest
<1>4. CASE "twitch" \in Selected
  <2>1. \/ live' = TRUE /\ UNCHANGED <<twitch, deferred>>
        \/ \E o \in StreamAction(twitch) :
             /\ twitch' = o.twitch
             /\ live' = (Pending(o.twitch) \/ StreamingActive(o.twitch))
             /\ deferred' = IF live' THEN deferred \union {Deferral(o.twitch)} ELSE deferred
    BY <1>4 DEF StartShow
  <2>2. CASE live' = TRUE /\ UNCHANGED <<twitch, deferred>>
    BY <1>1, <1>2, <2>2 DEF Rest
  <2>3. ASSUME NEW o \in StreamAction(twitch), twitch' = o.twitch,
               live' = (Pending(o.twitch) \/ StreamingActive(o.twitch)),
               deferred' = IF live' THEN deferred \union {Deferral(o.twitch)} ELSE deferred
        PROVE  live' \in BOOLEAN /\ deferred' \subseteq DeferredStart
    <3>1. Deferral(o.twitch) \in DeferredStart
      BY StreamActionTyped, DeferralTyped
    <3> QED BY <2>3, <3>1 DEF Rest
  <2> QED BY <1>1, <1>2, <2>1, <2>2, <2>3
<1> QED BY <1>3, <1>4

LEMMA PrepareShowIs ==
  ASSUME Rest, twitch \in TwitchState, PrepareShow
  PROVE  /\ Handled
         /\ twitch' = twitch \/ \E o \in StreamAction(twitch) : twitch' = o.twitch
         /\ live' \in BOOLEAN /\ held' \in [Provider -> BOOLEAN] /\ deferred' \subseteq DeferredStart
         /\ UNCHANGED <<mode, applied, kick, kickLive, anyLive>>
<1>1. PICK y \in IF KeyReady(youtube) THEN {youtube} ELSE Prepared(youtube, mode["youtube"]) :
        \/ StartShow(y)
        \/ youtube' = y /\ UNCHANGED <<mode, applied, live, held, deferred, twitch, kick, kickLive, anyLive>>
  BY DEF PrepareShow, selection
<1>2. youtube' = y
  BY <1>1, StartShowIs
<1>3. Handled
  BY <1>1, <1>2 DEF Handled
<1>4. CASE StartShow(y)
  BY <1>3, <1>4, StartShowIs
<1>5. CASE UNCHANGED <<mode, applied, live, held, deferred, twitch, kick, kickLive, anyLive>>
  BY <1>3, <1>5 DEF Rest
<1> QED BY <1>1, <1>4, <1>5

LEMMA KickTyped ==
  ASSUME NEW k \in Output, NEW m
  PROVE  KickStarted(k, m) \subseteq Output
BY DEF KickStarted, Output

LEMMA StartOthersIs ==
  ASSUME Rest, NEW d, NEW t, StartOthers(d, t)
  PROVE  Handled /\ kick' \in Output /\ kickLive' \in BOOLEAN
<1>1. Handled
  BY DEF StartOthers, Handled
<1>2. kick' = kick \/ kick' \in KickStarted(kick, mode["kick"])
  BY DEF StartOthers
<1>3. kickLive' = kickLive \/ kickLive' = (kickLive /\ kick = "active")
  BY DEF StartOthers
<1> QED BY <1>1, <1>2, <1>3, KickTyped DEF Rest

\* What each group may do to YouTube.
LEMMA ButtonsHandled == Rest /\ twitch \in TwitchState /\ Buttons => Handled
<1> SUFFICES ASSUME Rest, twitch \in TwitchState, Buttons PROVE Handled
  OBVIOUS
<1>1. CASE PressStop
  BY <1>1, StopShowIs DEF PressStop
<1>2. CASE PressGoLive \/ CancelGoLive
  BY <1>2 DEF PressGoLive, CancelGoLive, Handled
<1>3. CASE ConfirmGoLive
  BY <1>3, PrepareShowIs DEF ConfirmGoLive
<1>4. CASE LumiaGoLive
  BY <1>4, StopShowIs, PrepareShowIs DEF LumiaGoLive
<1>5. CASE LumiaEndShow
  BY <1>5 DEF LumiaEndShow, Handled
<1> QED BY <1>1, <1>2, <1>3, <1>4, <1>5 DEF Buttons

LEMMA RequestsHandled == Requests => Handled
<1> SUFFICES ASSUME NEW p \in Provider,
               (\E m \in Modes(p) : SelectMode(p, m)) \/ ApplyChange(p) \/ LumiaStop(p) \/ LumiaStart(p)
             PROVE  Handled
  BY DEF Requests
<1>1. CASE \E m \in Modes(p) : SelectMode(p, m)
  BY <1>1 DEF SelectMode, Handled
<1>2. CASE ApplyChange(p)
  <2>1. CASE p = "twitch"
    BY <1>2, <2>1 DEF ApplyChange, ApplyLiveChange, ChangeTwitch, Handled
  <2>2. CASE p = "youtube"
    BY <1>2, <2>2 DEF ApplyChange, ApplyLiveChange, ChangeYouTube, Handled
  <2>3. CASE p = "kick"
    BY <1>2, <2>3 DEF ApplyChange, ApplyLiveChange, ChangeKick, Handled
  <2> QED BY <2>1, <2>2, <2>3 DEF Provider
<1>3. CASE LumiaStop(p)
  BY <1>3 DEF LumiaStop, Handled, Provider
<1>4. CASE LumiaStart(p)
  BY <1>4 DEF LumiaStart, Handled
<1> QED BY <1>1, <1>2, <1>3, <1>4

LEMMA YouTubeStep == Typed /\ Next => Moved
<1> SUFFICES ASSUME Typed, Next PROVE Moved
  OBVIOUS
<1>0. Good(youtube) /\ mode["youtube"] \in Mode
  BY DEF Typed, Rest, Provider
<1>1. CASE Buttons
  BY <1>0, <1>1, ButtonsHandled, HandledMoved DEF Typed
<1>2. CASE Requests
  BY <1>0, <1>2, RequestsHandled, HandledMoved
<1>3. ASSUME NEW d \in deferred, DeferredTimer(d) PROVE Moved
  BY <1>0, <1>3, StartOthersIs, HandledMoved DEF DeferredTimer, Typed
<1>4. ASSUME NEW g \in youtube.timers, SecondStart(g) PROVE Moved
  BY <1>0, <1>4, SecondStartMoved
<1>5. CASE RefreshShell
  BY <1>0, <1>5, HandledMoved DEF RefreshShell, Handled
<1>6. CASE SetupEnds \/ StreamingStop \/ StreamingRestart \/ TwitchMoves \/ KickMoves
  BY <1>0, <1>6, HandledMoved
     DEF SetupEnds, StreamingStop, StreamingRestart, TwitchMoves, KickMoves, Handled
<1>7. CASE StreamingStart
  <2>1. youtube' = youtube \/ \E d \in Waiting : StartOthers(d, twitch)
    BY <1>7 DEF StreamingStart
  <2>2. Handled
    BY <2>1, StartOthersIs DEF Typed, Handled
  <2> QED BY <1>0, <2>2, HandledMoved
<1>8. ASSUME NEW s \in Slot, YouTubeChanges(s) PROVE Moved
  BY <1>0, <1>8, ChangesMoved
<1>9. ASSUME NEW b \in Broadcast, BroadcastMoves(b) PROVE Moved
  BY <1>0, <1>9, BroadcastMoved
<1> QED BY <1>1, <1>2, <1>3, <1>4, <1>5, <1>6, <1>7, <1>8, <1>9, NextIs DEF Timers, Signals, Environment

\* A call of Twitch's handlers.
Called ==
  \/ twitch' \in {twitch, StopStreaming(twitch)}
  \/ \E o \in StreamAction(twitch) \cup FinishSetup(twitch) : twitch' = o.twitch

LEMMA CalledTyped ==
  ASSUME twitch \in TwitchState, Called
  PROVE  twitch' \in TwitchState
BY StopTyped, StreamActionTyped, FinishSetupTyped DEF Called

LEMMA RequestsCalled == Requests => Called
<1> SUFFICES ASSUME NEW p \in Provider,
               (\E m \in Modes(p) : SelectMode(p, m)) \/ ApplyChange(p) \/ LumiaStop(p) \/ LumiaStart(p)
             PROVE  Called
  BY DEF Requests
<1>0. Outcome(twitch, FALSE).twitch = twitch
  BY OutcomeFacts
<1>1. CASE \E m \in Modes(p) : SelectMode(p, m)
  BY <1>1 DEF SelectMode, Called
<1>2. CASE ApplyChange(p)
  <2>1. CASE p = "twitch"
    <3>1. UNCHANGED twitch \/ ChangeTwitch(mode["twitch"])
      BY <1>2, <2>1 DEF ApplyChange, ApplyLiveChange
    <3>2. ASSUME NEW ok \in BOOLEAN,
                 NEW o \in IF ok THEN StreamAction(twitch) ELSE {Outcome(twitch, FALSE)}, twitch' = o.twitch
          PROVE  Called
      <4>1. o \in StreamAction(twitch) \/ o = Outcome(twitch, FALSE)
        OBVIOUS
      <4> QED BY <1>0, <3>2, <4>1 DEF Called
    <3>3. \A ok \in TwitchRoutePrepared(mode["twitch"]) : ok \in BOOLEAN
      BY DEF TwitchRoutePrepared
    <3>4. ChangeTwitch(mode["twitch"]) =>
            \/ twitch' \in {twitch, StopStreaming(twitch)}
            \/ \E ok \in TwitchRoutePrepared(mode["twitch"]) :
                 \E o \in IF ok THEN StreamAction(twitch) ELSE {Outcome(twitch, FALSE)} : twitch' = o.twitch
      BY DEF ChangeTwitch
    <3>5. CASE twitch' \in {twitch, StopStreaming(twitch)}
      BY <3>5 DEF Called
    <3> QED BY <3>1, <3>2, <3>3, <3>4, <3>5 DEF Called
  <2>2. CASE p # "twitch"
    <3>1. UNCHANGED twitch
      BY <1>2, <2>2 DEF ApplyChange, ApplyLiveChange, ChangeYouTube, ChangeKick, Provider
    <3> QED BY <3>1 DEF Called
  <2> QED BY <2>1, <2>2
<1>3. CASE LumiaStop(p)
  BY <1>3 DEF LumiaStop, Called, Provider
<1>4. CASE LumiaStart(p)
  <2>1. CASE twitch' = twitch
    BY <2>1 DEF Called
  <2>2. ASSUME twitch' # twitch PROVE Called
    <3>1. PICK o \in IF p = "twitch" THEN StreamAction(twitch) ELSE {Outcome(twitch, FALSE)} :
            twitch' = o.twitch
      BY <1>4, <2>2 DEF LumiaStart
    <3>2. o \in StreamAction(twitch) \/ o = Outcome(twitch, FALSE)
      BY <3>1
    <3> QED BY <1>0, <3>1, <3>2 DEF Called
  <2> QED BY <2>1, <2>2
<1> QED BY <1>1, <1>2, <1>3, <1>4

LEMMA ButtonsCalled == Rest /\ twitch \in TwitchState /\ Buttons => Called
<1> SUFFICES ASSUME Rest, twitch \in TwitchState, Buttons PROVE Called
  OBVIOUS
<1>1. CASE PressStop
  BY <1>1, StopShowIs DEF PressStop, Called
<1>2. CASE PressGoLive \/ CancelGoLive
  BY <1>2 DEF PressGoLive, CancelGoLive, Called
<1>3. CASE ConfirmGoLive
  BY <1>3, PrepareShowIs DEF ConfirmGoLive, Called
<1>4. CASE LumiaGoLive
  BY <1>4, StopShowIs, PrepareShowIs DEF LumiaGoLive, Called
<1>5. CASE LumiaEndShow
  BY <1>5 DEF LumiaEndShow, Called
<1> QED BY <1>1, <1>2, <1>3, <1>4, <1>5 DEF Buttons

LEMMA StopSignalTyped ==
  ASSUME NEW t \in TwitchState, t.signals # <<>>, NEW more \in {<<>>, <<"restart">>}
  PROVE  /\ [t EXCEPT !.phase = "idle", !.attempt = @ + 1, !.signals = Tail(@) \o more] \in TwitchState
         /\ [t EXCEPT !.phase = "live", !.signals = Tail(@)] \in TwitchState
<1>1. t.signals \in Seq(Signal) /\ t.attempt + 1 \in Nat
  BY TwitchFacts
<1>2. Tail(t.signals) \in Seq(Signal)
  BY <1>1
<1>3. more \in Seq(Signal)
  <2>1. <<>> \in Seq(Signal)
    OBVIOUS
  <2>2. "restart" \in Signal
    BY DEF Signal
  <2>3. <<"restart">> \in Seq(Signal)
    BY <2>2
  <2> QED BY <2>1, <2>3
<1>4. Tail(t.signals) \o more \in Seq(Signal)
  BY <1>2, <1>3
<1>5. ASSUME NEW q \in Seq(Signal), NEW n \in Nat
      PROVE  [t EXCEPT !.phase = "idle", !.attempt = n, !.signals = q] \in TwitchState
  BY DEF TwitchState, Signal
<1>6. ASSUME NEW q \in Seq(Signal)
      PROVE  [t EXCEPT !.phase = "live", !.signals = q] \in TwitchState
  BY DEF TwitchState, Signal
<1> QED BY <1>1, <1>2, <1>4, <1>5, <1>6

LEMMA TwitchStep == Typed /\ Next => twitch' \in TwitchState
<1> SUFFICES ASSUME Typed, Next PROVE twitch' \in TwitchState
  OBVIOUS
<1>0. twitch \in TwitchState
  BY DEF Typed
<1>1. CASE Buttons
  BY <1>0, <1>1, ButtonsCalled, CalledTyped DEF Typed
<1>2. CASE Requests
  BY <1>0, <1>2, RequestsCalled, CalledTyped
<1>3. CASE Timers
  BY <1>0, <1>3 DEF Timers, DeferredTimer, SecondStart, RefreshShell
<1>4. CASE SetupEnds
  <2>1. Called
    BY <1>4 DEF SetupEnds, Called
  <2> QED BY <1>0, <2>1, CalledTyped
<1>5. CASE StreamingStart
  <2>1. twitch.signals # <<>> /\ twitch' = [twitch EXCEPT !.phase = "live", !.signals = Tail(@)]
    BY <1>5 DEF StreamingStart
  <2> QED BY <1>0, <2>1, StopSignalTyped
<1>6. CASE StreamingStop
  <2>1. /\ twitch.signals # <<>>
        /\ \E more \in {<<>>, <<"restart">>} :
             twitch' = [twitch EXCEPT !.phase = "idle", !.attempt = @ + 1, !.signals = Tail(@) \o more]
    BY <1>6 DEF StreamingStop
  <2> QED BY <1>0, <2>1, StopSignalTyped
<1>7. CASE StreamingRestart
  <2> DEFINE t == [twitch EXCEPT !.signals = Tail(@)]
  <2>1. t \in TwitchState
    BY <1>0, <1>7, SignalsTyped DEF StreamingRestart, Signal
  <2>2. \E o \in StartStreaming(t) : twitch' = o.twitch
    BY <1>7 DEF StreamingRestart
  <2> HIDE DEF t
  <2> QED BY <2>1, <2>2, StartStreamingTyped
<1>8. CASE TwitchMoves
  <2>1. \E stream \in {"active", "none"}, signal \in Signal :
          twitch' = Posted(twitch, stream, signal)
    BY <1>8 DEF TwitchMoves, Signal, Posted
  <2> QED BY <1>0, <2>1, SignalsTyped
<1>9. CASE Environment /\ ~TwitchMoves
  BY <1>0, <1>9 DEF Environment, YouTubeChanges, BroadcastMoves, KickMoves
<1> QED BY <1>1, <1>2, <1>3, <1>4, <1>5, <1>6, <1>7, <1>8, <1>9, NextIs DEF Signals

-----------------------------------------------------------------------------
(* The rest of the state *)

RestNext == Rest'

LEMMA ModesFacts == \A p \in Provider : Modes(p) \subseteq Mode
BY ModesAssumption DEF Modes, Provider, Mode

LEMMA RequestsRest ==
  ASSUME Rest, Requests
  PROVE  RestNext
<1> PICK p \in Provider :
      (\E m \in Modes(p) : SelectMode(p, m)) \/ ApplyChange(p) \/ LumiaStop(p) \/ LumiaStart(p)
  BY DEF Requests
<1>1. ASSUME NEW m \in Modes(p), SelectMode(p, m) PROVE RestNext
  <2>1. m \in Mode /\ mode[p] \in Mode
    BY ModesFacts DEF Rest
  <2>2. mode' \in [Provider -> Mode] /\ applied' \in [Provider -> Mode \union {"none"}]
    BY <1>1, <2>1 DEF SelectMode, Rest
  <2>3. UNCHANGED <<live, held, confirming, deferred, anyLive, kick, kickLive>>
    BY <1>1 DEF SelectMode, button
  <2> QED BY <2>2, <2>3 DEF Rest, RestNext
<1>2. CASE ApplyChange(p)
  <2>1. applied' \in [Provider -> Mode \union {"none"}] /\ UNCHANGED <<mode, held, confirming, deferred, anyLive>>
    BY <1>2 DEF ApplyChange, button, Rest
  <2>2. kick' \in Output /\ kickLive' \in BOOLEAN /\ live' \in BOOLEAN
    <3>1. CASE UNCHANGED <<kick, kickLive, live>>
      BY <3>1 DEF Rest
    <3>2. CASE p = "twitch"
      <4>1. UNCHANGED <<kick, kickLive>>
        BY <1>2, <3>2 DEF ApplyChange, ApplyLiveChange, ChangeTwitch
      <4>2. live' = live \/ \E o \in StreamAction(twitch) \cup {Outcome(twitch, FALSE)} :
                              live' = SessionAfter(o.failed, youtube, kick)
        <5>1. \/ live' = live
              \/ \E ok \in TwitchRoutePrepared(mode["twitch"]) :
                   \E o \in IF ok THEN StreamAction(twitch) ELSE {Outcome(twitch, FALSE)} :
                     live' = SessionAfter(o.failed, youtube, kick)
          BY <1>2, <3>2 DEF ApplyChange, ApplyLiveChange, ChangeTwitch
        <5> QED BY <5>1
      <4> QED BY <4>1, <4>2 DEF Rest, SessionAfter
    <3>3. CASE p = "youtube"
      BY <1>2, <3>3 DEF ApplyChange, ApplyLiveChange, ChangeYouTube, Rest
    <3>4. CASE p = "kick"
      <4>1. \/ UNCHANGED <<kick, kickLive, live>>
            \/ /\ live' = live
               /\ kick' = "none" \/ kick' \in KickStarted(kick, mode["kick"])
               /\ kickLive' = (kickLive /\ kick = "active" /\ kick' = "active")
        BY <1>2, <3>4 DEF ApplyChange, ApplyLiveChange, ChangeKick
      <4> QED BY <4>1, KickTyped DEF Rest, Output
    <3> QED BY <3>2, <3>3, <3>4 DEF Provider
  <2> QED BY <2>1, <2>2 DEF Rest, RestNext
<1>3. CASE LumiaStop(p)
  <2>1. held' \in [Provider -> BOOLEAN] /\ UNCHANGED <<mode, applied, live, confirming, deferred, anyLive>>
    BY <1>3 DEF LumiaStop, selection, button, Rest
  <2>2. kick' \in Output /\ kickLive' \in BOOLEAN
    BY <1>3 DEF LumiaStop, Rest, Provider, Output
  <2> QED BY <2>1, <2>2 DEF Rest, RestNext
<1>4. CASE LumiaStart(p)
  <2>1. held' \in [Provider -> BOOLEAN] /\ UNCHANGED <<mode, applied, confirming, deferred, anyLive>>
    BY <1>4 DEF LumiaStart, selection, button, Rest
  <2>2. kick' \in Output
    <3>1. kick' = kick \/ \E k \in IF p = "kick" THEN KickStarted(kick, mode[p]) ELSE {kick} : kick' = k
      BY <1>4 DEF LumiaStart
    <3> QED BY <3>1, KickTyped DEF Rest
  <2>3. kickLive' \in BOOLEAN
    <3>1. kickLive' = kickLive \/ \E k \in IF p = "kick" THEN KickStarted(kick, mode[p]) ELSE {kick} :
                                     kickLive' = (kickLive /\ k = kick)
      BY <1>4 DEF LumiaStart
    <3> QED BY <3>1 DEF Rest
  <2>4. live' \in BOOLEAN
    <3>1. live' = live \/ \E a \in BOOLEAN : live' = a
      BY <1>4 DEF LumiaStart
    <3> QED BY <3>1 DEF Rest
  <2> QED BY <2>1, <2>2, <2>3, <2>4 DEF Rest, RestNext
<1> QED BY <1>1, <1>2, <1>3, <1>4

LEMMA ButtonsRest ==
  ASSUME Typed, Buttons
  PROVE  RestNext
<1>0. Rest /\ twitch \in TwitchState
  BY DEF Typed
<1>1. CASE StopShow
  BY <1>0, <1>1, StopShowIs DEF Rest, RestNext
<1>2. ASSUME PrepareShow, confirming' \in BOOLEAN PROVE RestNext
  BY <1>0, <1>2, PrepareShowIs DEF Rest, RestNext
<1>3. CASE PressGoLive \/ CancelGoLive
  <2>1. confirming' \in BOOLEAN /\ UNCHANGED <<mode, applied, live, held, deferred, kick, kickLive, anyLive>>
    BY <1>3 DEF PressGoLive, CancelGoLive, selection
  <2> QED BY <1>0, <2>1 DEF Rest, RestNext
<1>4. CASE LumiaEndShow
  <2>1. /\ held' \in [Provider -> BOOLEAN] /\ live' = FALSE /\ kick' = "none" /\ kickLive' = FALSE
        /\ UNCHANGED <<mode, applied, confirming, deferred, anyLive>>
    BY <1>4 DEF LumiaEndShow, selection, button
  <2> QED BY <1>0, <2>1 DEF Rest, RestNext, Output
<1>5. PressStop \/ ConfirmGoLive \/ LumiaGoLive => StopShow \/ (PrepareShow /\ confirming' \in BOOLEAN)
  BY <1>0 DEF PressStop, ConfirmGoLive, LumiaGoLive, Rest
<1> QED BY <1>1, <1>2, <1>3, <1>4, <1>5 DEF Buttons

LEMMA SessionTyped ==
  ASSUME NEW failed, NEW y, NEW k
  PROVE  SessionAfter(failed, y, k) \in BOOLEAN
BY DEF SessionAfter

LEMMA OthersRest ==
  ASSUME Rest, Timers \/ Signals \/ Environment
  PROVE  RestNext
<1>1. ASSUME NEW d \in deferred, DeferredTimer(d) PROVE RestNext
  BY <1>1, StartOthersIs DEF DeferredTimer, selection, Rest, RestNext
<1>2. ASSUME NEW g \in youtube.timers, SecondStart(g) PROVE RestNext
  BY <1>2 DEF SecondStart, selection, button, Rest, RestNext
<1>3. CASE RefreshShell
  BY <1>3 DEF RefreshShell, selection, Rest, RestNext
<1>4. CASE SetupEnds \/ StreamingStop \/ StreamingRestart
  <2>1. live' \in BOOLEAN
    BY <1>4, SessionTyped DEF SetupEnds, StreamingStop, StreamingRestart
  <2>2. UNCHANGED <<mode, applied, held, confirming, deferred, anyLive, kick, kickLive>>
    BY <1>4 DEF SetupEnds, StreamingStop, StreamingRestart, selection, button
  <2> QED BY <2>1, <2>2 DEF Rest, RestNext
<1>5. CASE StreamingStart
  <2>1. UNCHANGED <<youtube, kick, kickLive>> \/ \E d \in Waiting : StartOthers(d, twitch)
    BY <1>5 DEF StreamingStart
  <2>2. kick' \in Output /\ kickLive' \in BOOLEAN
    BY <2>1, StartOthersIs DEF Rest
  <2>3. deferred' \subseteq DeferredStart /\ UNCHANGED <<mode, applied, live, held, confirming, anyLive>>
    BY <1>5 DEF StreamingStart, selection, Rest
  <2> QED BY <2>2, <2>3 DEF Rest, RestNext
<1>6. CASE Environment
  <2>1. UNCHANGED <<mode, applied, live, held, confirming, deferred, anyLive>>
    BY <1>6 DEF Environment, YouTubeChanges, BroadcastMoves, TwitchMoves, KickMoves, EnvFrame, selection, button
  <2>2. kick' \in Output /\ kickLive' \in BOOLEAN
    <3>1. \/ UNCHANGED <<kick, kickLive>>
          \/ kick' \in NextOutput(kick) /\ UNCHANGED kickLive
          \/ kickLive' = (kick = "active") /\ UNCHANGED kick
      BY <1>6 DEF Environment, YouTubeChanges, BroadcastMoves, TwitchMoves, KickMoves
    <3>2. NextOutput(kick) \subseteq Output
      BY DEF NextOutput, Output
    <3> QED BY <3>1, <3>2 DEF Rest
  <2> QED BY <2>1, <2>2 DEF Rest, RestNext
<1> QED BY <1>1, <1>2, <1>3, <1>4, <1>5, <1>6 DEF Timers, Signals

-----------------------------------------------------------------------------
(* Theorems *)

LEMMA InitTyped == Init => Typed
<1> SUFFICES ASSUME Init PROVE Typed
  OBVIOUS
<1>1. NoYouTube \in YouTubeState
  BY BoundsAssumption DEF NoYouTube, YouTubeState, Output, Mode
<1>2. \A b \in Broadcast : NoYouTube.status[b] = "none"
  BY DEF NoYouTube
<1>3. NoTwitch \in TwitchState
  BY DEF NoTwitch, TwitchState
<1>4. Rest
  BY DEF Init, Rest, Output
<1> QED BY <1>1, <1>2, <1>3, <1>4 DEF Init, Typed, Good, Kept

LEMMA StepTyped == Typed /\ [Next]_vars => Typed'
<1> SUFFICES ASSUME Typed, [Next]_vars PROVE Typed'
  OBVIOUS
<1>1. CASE Next
  <2>1. Good(youtube')
    BY <1>1, YouTubeStep DEF Moved
  <2>2. twitch' \in TwitchState
    BY <1>1, TwitchStep
  <2>3. RestNext
    BY <1>1, NextIs, RequestsRest, ButtonsRest, OthersRest DEF Typed
  <2> QED BY <2>1, <2>2, <2>3 DEF Typed, RestNext
<1>2. CASE UNCHANGED vars
  BY <1>2 DEF vars, Typed, Rest
<1> QED BY <1>1, <1>2

LEMMA TypedIsTypeOK == Typed => TypeOK
BY DEF Typed, Rest, Good, TypeOK

\* Types; here also that every start that waits belongs to YouTube and Kick.
THEOREM TypeCorrect == Spec => []TypeOK
<1> QED BY InitTyped, StepTyped, TypedIsTypeOK, PTL DEF Spec

\* Whatever fails, the program knows the id of every unfinished broadcast.
THEOREM BroadcastsAreKnown == Spec => []NoBroadcastAbandoned
<1>1. Typed => NoBroadcastAbandoned
  BY DEF Typed, Good, Kept, NoBroadcastAbandoned
<1> QED BY <1>1, InitTyped, StepTyped, PTL DEF Spec

LEMMA FormatStep == Typed /\ FormatMatches /\ [Next]_vars => FormatMatches'
<1> SUFFICES ASSUME Typed, FormatMatches, [Next]_vars PROVE FormatMatches'
  OBVIOUS
<1>1. CASE UNCHANGED vars
  BY <1>1 DEF vars, FormatMatches, NoOutputs
<1>2. ASSUME NEW p \in Provider, NEW m \in Modes(p), SelectMode(p, m) PROVE FormatMatches'
  <2>1. youtube' = youtube /\ mode' = [mode EXCEPT ![p] = m] /\ mode \in [Provider -> Mode]
    BY <1>2 DEF SelectMode, Typed, Rest
  <2>2. CASE p = "youtube"
    <3>1. m = "off" \/ m = youtube.prepared \/ NoOutputs(youtube)
      BY <1>2, <2>2 DEF SelectMode
    <3> QED BY <2>1, <2>2, <3>1 DEF FormatMatches, NoOutputs
  <2>3. CASE p # "youtube"
    BY <2>1, <2>3 DEF FormatMatches, NoOutputs, Provider
  <2> QED BY <2>2, <2>3
<1>3. ASSUME Next, mode' = mode PROVE FormatMatches'
  <2>1. \/ youtube' = youtube \/ NoOutputs(youtube') \/ youtube'.prepared = mode["youtube"]
        \/ ~NoOutputs(youtube) /\ youtube'.prepared = youtube.prepared
    BY <1>3, YouTubeStep DEF Moved
  <2> QED BY <1>3, <2>1 DEF FormatMatches, NoOutputs
<1>4. ASSUME Next, mode' # mode
      PROVE  \E p \in Provider : \E m \in Modes(p) : SelectMode(p, m)
  <2>1. Rest /\ twitch \in TwitchState
    BY DEF Typed
  <2>2. ~Buttons
    BY <1>4, <2>1, StopShowIs, PrepareShowIs
       DEF Buttons, PressStop, PressGoLive, CancelGoLive, ConfirmGoLive, LumiaGoLive, LumiaEndShow, selection
  <2>3. ~Timers /\ ~Signals
    BY <1>4 DEF Timers, DeferredTimer, SecondStart, RefreshShell, Signals, SetupEnds, StreamingStart,
                StreamingStop, StreamingRestart, selection
  <2>4. ~Environment
    BY <1>4 DEF Environment, YouTubeChanges, BroadcastMoves, TwitchMoves, KickMoves, EnvFrame, selection
  <2>5. Requests
    BY <1>4, <2>2, <2>3, <2>4, NextIs
  <2>6. PICK p \in Provider :
          (\E m \in Modes(p) : SelectMode(p, m)) \/ ApplyChange(p) \/ LumiaStop(p) \/ LumiaStart(p)
    BY <2>5 DEF Requests
  <2>7. ~ApplyChange(p) /\ ~LumiaStop(p) /\ ~LumiaStart(p)
    BY <1>4 DEF ApplyChange, LumiaStop, LumiaStart, selection
  <2> QED BY <2>6, <2>7
<1> QED BY <1>1, <1>2, <1>3, <1>4

\* The format of a show on air is the selector's, for all starts that were
\* put off, Lumia's requests included.
THEOREM FormatStays == Spec => []FormatMatches
<1>1. Init => FormatMatches
  BY DEF Init, NoYouTube, FormatMatches, NoOutputs
<1> QED BY <1>1, InitTyped, StepTyped, FormatStep, PTL DEF Spec

-----------------------------------------------------------------------------
(* A stopped show *)

\* No output of YouTube or Kick starts, but for the second half of a show on air.
Quiet ==
  /\ youtube.out["primary"] = "active" \/ \A s \in Slot : youtube.out[s] = "none" => youtube'.out[s] = "none"
  /\ kick = "none" => kick' = "none"

LEMMA StopShowQuiet ==
  ASSUME Typed, StopShow
  PROVE  Quiet
<1>1. NoOutputs(youtube') /\ kick' = "none"
  BY StoppedGood DEF StopShow, Typed
<1> QED BY <1>1 DEF Quiet, NoOutputs

LEMMA PrepareShowQuiet ==
  ASSUME Typed, PrepareShow
  PROVE  Quiet
<1>1. Rest /\ twitch \in TwitchState /\ Good(youtube) /\ mode["youtube"] \in Mode
  BY DEF Typed, Rest, Provider
<1>2. PICK y \in IF KeyReady(youtube) THEN {youtube} ELSE Prepared(youtube, mode["youtube"]) :
        StartShow(y) \/ (youtube' = y /\ kick' = kick)
  BY DEF PrepareShow
<1>3. y = youtube \/ NoOutputs(y)
  BY <1>1, <1>2, PreparedGood
<1>4. youtube' = y /\ kick' = kick
  BY <1>1, <1>2, StartShowIs
<1> QED BY <1>3, <1>4 DEF Quiet, NoOutputs

LEMMA StepQuiet ==
  ASSUME Typed, Next, ~live, \A p \in Provider : ~LumiaStart(p)
  PROVE  Quiet
<1>1. CASE Buttons
  <2>1. CASE PressGoLive \/ CancelGoLive
    BY <2>1 DEF PressGoLive, CancelGoLive, Quiet
  <2>2. PressStop \/ ConfirmGoLive \/ LumiaGoLive => StopShow \/ PrepareShow
    BY DEF PressStop, ConfirmGoLive, LumiaGoLive
  <2>3. CASE LumiaEndShow
    <3>1. NoOutputs(youtube') /\ kick' = "none"
      BY <2>3, StoppedGood DEF LumiaEndShow, Typed
    <3> QED BY <3>1 DEF Quiet, NoOutputs
  <2> QED BY <1>1, <2>1, <2>2, <2>3, StopShowQuiet, PrepareShowQuiet DEF Buttons
<1>2. CASE Requests
  <2> PICK p \in Provider : (\E m \in Modes(p) : SelectMode(p, m)) \/ ApplyChange(p) \/ LumiaStop(p)
    BY <1>2 DEF Requests
  <2>1. CASE (\E m \in Modes(p) : SelectMode(p, m)) \/ ApplyChange(p)
    BY <2>1 DEF SelectMode, ApplyChange, Quiet
  <2>2. CASE LumiaStop(p)
    <3>1. youtube' = youtube \/ youtube' \in Stopped(youtube)
      BY <2>2 DEF LumiaStop, Provider
    <3>2. kick' = kick \/ kick' = "none"
      BY <2>2 DEF LumiaStop, Provider
    <3>3. youtube' = youtube \/ NoOutputs(youtube')
      BY <3>1, StoppedGood DEF Typed
    <3> QED BY <3>2, <3>3 DEF Quiet, NoOutputs
  <2> QED BY <2>1, <2>2
<1>3. CASE \E d \in deferred : DeferredTimer(d)
  BY <1>3 DEF DeferredTimer, StartOthers, Quiet
<1>4. ASSUME NEW g \in youtube.timers, SecondStart(g) PROVE Quiet
  <2> DEFINE y == [youtube EXCEPT !.timers = @ \ {g}]
  <2>1. y.out = youtube.out
    BY DEF Typed, Good, YouTubeState
  <2>2. youtube' = y \/ y.out["primary"] = "active"
    BY <1>4 DEF SecondStart
  <2>3. kick' = kick
    BY <1>4 DEF SecondStart
  <2> QED BY <2>1, <2>2, <2>3 DEF Quiet
<1>5. CASE RefreshShell \/ Signals
  BY <1>5 DEF RefreshShell, Signals, SetupEnds, StreamingStart, StreamingStop, StreamingRestart,
              StartOthers, Quiet
<1>6. CASE Environment
  <2>1. ASSUME NEW s \in Slot, YouTubeChanges(s) PROVE Quiet
    <3>1. PICK o \in NextOutput(youtube.out[s]) : youtube' = [youtube EXCEPT !.out[s] = o]
      BY <2>1 DEF YouTubeChanges
    <3>2. youtube.out[s] # "none"
      BY <3>1 DEF NextOutput
    <3>3. youtube'.out = [youtube.out EXCEPT ![s] = o] /\ youtube.out \in [Slot -> Output]
      BY <3>1, StateFacts DEF Typed, Good, YouTubeState
    <3>4. kick' = kick
      BY <2>1 DEF YouTubeChanges
    <3> QED BY <3>2, <3>3, <3>4 DEF Quiet
  <2>2. ASSUME NEW b \in Broadcast, BroadcastMoves(b) PROVE Quiet
    <3>1. youtube'.out = youtube.out
      BY <2>2 DEF BroadcastMoves, Typed, Good, YouTubeState
    <3>2. kick' = kick
      BY <2>2 DEF BroadcastMoves
    <3> QED BY <3>1, <3>2 DEF Quiet
  <2>3. CASE TwitchMoves
    BY <2>3 DEF TwitchMoves, Quiet
  <2>4. CASE KickMoves
    BY <2>4 DEF KickMoves, NextOutput, Quiet
  <2> QED BY <1>6, <2>1, <2>2, <2>3, <2>4 DEF Environment
<1> QED BY <1>1, <1>2, <1>3, <1>4, <1>5, <1>6, NextIs DEF Timers

\* What stopping and the end of a preparation make of a pending start.
LEMMA StopIsIdle ==
  ASSUME NEW t \in TwitchState
  PROVE  ~Pending(StopStreaming(t))
<1>1. StopStreaming(t).phase = "idle"
  BY DEF StopStreaming, TwitchState
<1> QED BY <1>1 DEF Pending

LEMMA SetupStartsNothing ==
  ASSUME NEW t \in TwitchState, NEW o \in FinishSetup(t), Pending(o.twitch)
  PROVE  Pending(t)
<1> DEFINE u == [t EXCEPT !.setup = 0]
           refused == [u EXCEPT !.phase = "failed"]
           begun == [u EXCEPT !.phase = "connecting", !.stream = "connecting"]
<1>1. u.phase = t.phase /\ refused.phase = "failed"
  BY DEF TwitchState
<1>2. \/ o = Outcome(u, FALSE) \/ o = Outcome(refused, TRUE)
      \/ o = Outcome(begun, FALSE) /\ t.phase = "preparing"
  BY <1>1 DEF FinishSetup
<1> HIDE DEF u, refused, begun
<1>3. o.twitch = u \/ o.twitch = refused \/ t.phase = "preparing"
  BY <1>2, OutcomeFacts
<1> QED BY <1>1, <1>3 DEF Pending

LEMMA StopShowSilent ==
  ASSUME Typed, StopShow
  PROVE  ~TwitchStarts
<1>1. CASE Pending(twitch)
  BY <1>1 DEF TwitchStarts
<1>2. CASE ~Pending(twitch) /\ StreamingActive(twitch)
  <2>1. PICK o \in StreamAction(twitch) : twitch' = o.twitch
    BY <1>2 DEF StopShow
  <2>2. o \in {Outcome(twitch, FALSE), Outcome(StopStreaming(twitch), FALSE)}
    BY <1>2 DEF StreamAction
  <2>3. twitch' = twitch \/ twitch' = StopStreaming(twitch)
    BY <2>1, <2>2, OutcomeFacts
  <2>4. CASE twitch' = twitch
    BY <2>4 DEF TwitchStarts
  <2>5. CASE twitch' = StopStreaming(twitch)
    BY <2>5, StopIsIdle DEF Typed, TwitchStarts
  <2> QED BY <2>3, <2>4, <2>5
<1>3. CASE ~Pending(twitch) /\ ~StreamingActive(twitch)
  <2>1. twitch' = twitch
    BY <1>3 DEF StopShow
  <2> QED BY <2>1 DEF TwitchStarts
<1> QED BY <1>1, <1>2, <1>3

LEMMA PrepareShowSilent ==
  ASSUME PrepareShow, ~live'
  PROVE  ~TwitchStarts
<1>1. \/ twitch' = twitch
      \/ \E o \in StreamAction(twitch) :
           twitch' = o.twitch /\ live' = (Pending(o.twitch) \/ StreamingActive(o.twitch))
  BY DEF PrepareShow, StartShow
<1>2. CASE twitch' = twitch
  BY <1>2 DEF TwitchStarts
<1>3. ASSUME NEW o, twitch' = o.twitch, live' = (Pending(o.twitch) \/ StreamingActive(o.twitch))
      PROVE  ~TwitchStarts
  <2>1. ~Pending(o.twitch)
    BY <1>3
  <2> QED BY <1>3, <2>1 DEF TwitchStarts
<1> QED BY <1>1, <1>2, <1>3

LEMMA StepSilent ==
  ASSUME Typed, Next, ~live, ~live', \A p \in Provider : ~LumiaStart(p), ~StreamingRestart
  PROVE  ~TwitchStarts
<1>0. twitch \in TwitchState
  BY DEF Typed
<1>1. twitch' = twitch => ~TwitchStarts
  BY DEF TwitchStarts
<1>2. twitch' = StopStreaming(twitch) => ~TwitchStarts
  BY <1>0, StopIsIdle DEF TwitchStarts
<1>3. CASE Buttons
  <2>1. PressGoLive \/ CancelGoLive => twitch' = twitch
    BY DEF PressGoLive, CancelGoLive
  <2>2. PressStop \/ ConfirmGoLive \/ LumiaGoLive => StopShow \/ PrepareShow
    BY DEF PressStop, ConfirmGoLive, LumiaGoLive
  <2>3. LumiaEndShow => twitch' = StopStreaming(twitch)
    BY DEF LumiaEndShow
  <2> QED BY <1>1, <1>2, <1>3, <2>1, <2>2, <2>3, StopShowSilent, PrepareShowSilent DEF Buttons
<1>4. CASE Requests
  <2>1. PICK p \in Provider : (\E m \in Modes(p) : SelectMode(p, m)) \/ ApplyChange(p) \/ LumiaStop(p)
    BY <1>4 DEF Requests
  <2>2. (\E m \in Modes(p) : SelectMode(p, m)) \/ ApplyChange(p) => twitch' = twitch
    BY DEF SelectMode, ApplyChange
  <2>3. LumiaStop(p) => twitch' = twitch \/ twitch' = StopStreaming(twitch)
    BY DEF LumiaStop, Provider
  <2> QED BY <1>1, <1>2, <2>1, <2>2, <2>3
<1>5. CASE Timers
  BY <1>1, <1>5 DEF Timers, DeferredTimer, SecondStart, RefreshShell
<1>6. CASE Signals
  <2>1. CASE SetupEnds
    <3>1. PICK o \in FinishSetup(twitch) : twitch' = o.twitch
      BY <2>1 DEF SetupEnds
    <3> QED BY <1>0, <3>1, SetupStartsNothing DEF TwitchStarts
  <2>2. CASE StreamingStart \/ StreamingStop
    <3>1. twitch'.phase \in {"live", "idle"}
      BY <1>0, <2>2 DEF StreamingStart, StreamingStop, TwitchState
    <3> QED BY <3>1 DEF TwitchStarts, Pending
  <2> QED BY <1>6, <2>1, <2>2 DEF Signals
<1>7. CASE Environment
  <2>1. CASE TwitchMoves
    <3>1. twitch'.phase = twitch.phase
      BY <1>0, <2>1 DEF TwitchMoves, TwitchState
    <3> QED BY <3>1 DEF TwitchStarts, Pending
  <2>2. ~TwitchMoves => twitch' = twitch
    BY <1>7 DEF Environment, YouTubeChanges, BroadcastMoves, KickMoves
  <2> QED BY <1>1, <2>1, <2>2
<1> QED BY <1>3, <1>4, <1>5, <1>6, <1>7, NextIs

\* After the end of a show no timer, signal or late preparation starts an output, but for
\* the restart of a refused Twitch stream.
THEOREM StoppedIsStopped == Spec => StoppedStaysStopped
<1> DEFINE Silence == ~live /\ ~live' /\ (\A p \in Provider : ~LumiaStart(p)) =>
              /\ Starts("primary") \/ Starts("second") => youtube.out["primary"] = "active"
              /\ ~(kick = "none" /\ kick' # "none")
              /\ TwitchStarts => StreamingRestart
<1>1. Typed /\ [Next]_vars => [Silence]_vars
  <2> SUFFICES ASSUME Typed, Next, ~live, ~live', \A p \in Provider : ~LumiaStart(p)
               PROVE  Silence
    OBVIOUS
  <2>1. Quiet
    BY StepQuiet
  <2>2. /\ Starts("primary") \/ Starts("second") => youtube.out["primary"] = "active"
        /\ ~(kick = "none" /\ kick' # "none")
    BY <2>1 DEF Quiet, Starts, Slot
  <2> QED BY <2>2, StepSilent
<1> QED BY <1>1, InitTyped, StepTyped, PTL DEF Spec, StoppedStaysStopped

-----------------------------------------------------------------------------
(* Off *)

\* Twitch takes no part.
NoTwitchStream ==
  /\ mode["twitch"] = "off" /\ applied["twitch"] = "none"
  /\ twitch.phase = "idle" /\ twitch.setup = 0 /\ twitch.stream = "none" /\ twitch.signals = <<>>

\* The mode a provider's outputs were last brought in line with.
Was(p) == IF applied[p] = "none" THEN mode[p] ELSE applied[p]

OnlyInShow == live \/ (NoOutputs(youtube) /\ kick = "none")

OffIsEmpty ==
  /\ Was("youtube") = "off" => NoOutputs(youtube)
  /\ Was("kick") = "off" => kick = "none"

OffInv == NoTwitchStream /\ OnlyInShow /\ OffIsEmpty

\* Without Twitch, and without Lumia's requests for the others.
NoTwitchShow == TwitchModes = {"off"} /\ Controlled \subseteq {"twitch"}

\* A step that starts nothing, and one that leaves nothing.
Calm ==
  /\ NoOutputs(youtube) => NoOutputs(youtube')
  /\ kick = "none" => kick' = "none"

Emptied == NoOutputs(youtube') /\ kick' = "none"

LEMMA CalmKeeps ==
  ASSUME OnlyInShow, OffIsEmpty, Calm, live => live', UNCHANGED <<mode, applied>>
  PROVE  OnlyInShow' /\ OffIsEmpty'
BY DEF OnlyInShow, OffIsEmpty, Was, Calm, NoOutputs

LEMMA EmptiedKeeps ==
  ASSUME Emptied
  PROVE  OnlyInShow' /\ OffIsEmpty'
BY DEF OnlyInShow, OffIsEmpty, Emptied, NoOutputs

LEMMA StopIdle ==
  ASSUME Typed, NoTwitchStream
  PROVE  LET t == StopStreaming(twitch)
         IN t.phase = "idle" /\ t.setup = 0 /\ t.stream = "none" /\ t.signals = <<>>
<1>1. twitch \in TwitchState
  BY DEF Typed
<1> QED BY <1>1 DEF NoTwitchStream, StopStreaming, TwitchState

LEMMA IdleFacts ==
  ASSUME NoTwitchStream
  PROVE  ~Pending(twitch) /\ ~StreamingActive(twitch) /\ "twitch" \notin Selected
BY DEF NoTwitchStream, Pending, StreamingActive, Selected

LEMMA TwitchStaysOut ==
  ASSUME NoTwitchShow, Typed, NoTwitchStream, Next
  PROVE  NoTwitchStream'
<1> DEFINE same == twitch' = twitch /\ mode' = mode /\ applied' = applied
<1>0. same => NoTwitchStream'
  BY DEF NoTwitchStream
<1>1. ASSUME twitch' = StopStreaming(twitch), mode' = mode, applied' = applied PROVE NoTwitchStream'
  BY <1>1, StopIdle DEF NoTwitchStream
<1>2. ASSUME NEW p \in Provider, NEW m \in Modes(p), SelectMode(p, m) PROVE NoTwitchStream'
  <2>1. p # "twitch"
    BY <1>2 DEF NoTwitchShow, NoTwitchStream, SelectMode, Modes
  <2>2. /\ mode' = [mode EXCEPT ![p] = m] /\ twitch' = twitch
        /\ applied' = [applied EXCEPT ![p] = IF @ = "none" THEN mode[p] ELSE @]
    BY <1>2 DEF SelectMode
  <2> QED BY <2>1, <2>2 DEF NoTwitchStream, Typed, Rest, Provider
<1>3. ASSUME NEW p \in Provider, ApplyChange(p) PROVE NoTwitchStream'
  <2>1. p # "twitch" /\ mode' = mode /\ applied' = [applied EXCEPT ![p] = "none"]
    BY <1>3 DEF ApplyChange, NoTwitchStream
  <2>2. twitch' = twitch
    BY <1>3, <2>1 DEF ApplyChange, ApplyLiveChange, ChangeYouTube, ChangeKick, Provider
  <2> QED BY <2>1, <2>2 DEF NoTwitchStream, Typed, Rest, Provider
<1>4. ASSUME NEW p \in Provider, LumiaStop(p) \/ LumiaStart(p) PROVE NoTwitchStream'
  <2>1. p = "twitch"
    BY <1>4 DEF LumiaStop, LumiaStart, NoTwitchShow
  <2>2. mode' = mode /\ applied' = applied
    BY <1>4 DEF LumiaStop, LumiaStart, selection
  <2>3. LumiaStop(p) => twitch' = StopStreaming(twitch)
    BY <2>1 DEF LumiaStop
  <2>4. LumiaStart(p) => twitch' = twitch
    BY <2>1 DEF LumiaStart, NoTwitchStream
  <2> QED BY <1>0, <1>1, <1>4, <2>2, <2>3, <2>4
<1>5. CASE Buttons
  <2>1. StopShow => same
    BY IdleFacts DEF StopShow, selection
  <2>2. ASSUME NEW y, StartShow(y) PROVE same
    BY <2>2, IdleFacts DEF StartShow, selection
  <2>3. PrepareShow => same
    BY <2>2 DEF PrepareShow, selection
  <2>4. LumiaEndShow => NoTwitchStream'
    BY <1>1 DEF LumiaEndShow, selection
  <2>5. PressGoLive \/ CancelGoLive => same
    BY DEF PressGoLive, CancelGoLive, selection
  <2>6. PressStop \/ ConfirmGoLive \/ LumiaGoLive => StopShow \/ PrepareShow
    BY DEF PressStop, ConfirmGoLive, LumiaGoLive
  <2> QED BY <1>0, <1>5, <2>1, <2>3, <2>4, <2>5, <2>6 DEF Buttons
<1>6. CASE Timers
  BY <1>0, <1>6 DEF Timers, DeferredTimer, SecondStart, RefreshShell, selection
<1>7. ~Signals
  BY DEF Signals, SetupEnds, StreamingStart, StreamingStop, StreamingRestart, NoTwitchStream
<1>8. CASE Environment
  <2>1. ~TwitchMoves
    BY DEF TwitchMoves, NoTwitchStream
  <2> QED BY <1>0, <1>8, <2>1 DEF Environment, YouTubeChanges, BroadcastMoves, KickMoves, EnvFrame, selection
<1> QED BY <1>2, <1>3, <1>4, <1>5, <1>6, <1>7, <1>8, NextIs DEF Requests

LEMMA RequestsOff ==
  ASSUME NoTwitchShow, Typed, OffInv, Requests
  PROVE  OnlyInShow' /\ OffIsEmpty'
<1>0. /\ OnlyInShow /\ OffIsEmpty /\ Good(youtube) /\ live \in BOOLEAN
      /\ mode \in [Provider -> Mode] /\ applied \in [Provider -> Mode \union {"none"}]
  BY DEF OffInv, Typed, Rest
<1> PICK p \in Provider :
      (\E m \in Modes(p) : SelectMode(p, m)) \/ ApplyChange(p) \/ LumiaStop(p) \/ LumiaStart(p)
  BY DEF Requests
<1>1. ASSUME NEW m \in Modes(p), SelectMode(p, m) PROVE OnlyInShow' /\ OffIsEmpty'
  <2>1. /\ mode' = [mode EXCEPT ![p] = m] /\ UNCHANGED <<live, youtube, kick>>
        /\ applied' = [applied EXCEPT ![p] = IF @ = "none" THEN mode[p] ELSE @]
    BY <1>1 DEF SelectMode
  <2>2. \A q \in Provider : mode[q] # "none"
    BY <1>0 DEF Mode
  <2>3. \A q \in Provider : (IF applied'[q] = "none" THEN mode'[q] ELSE applied'[q]) = Was(q)
    BY <1>0, <2>1, <2>2 DEF Was
  <2> QED BY <1>0, <2>1, <2>3 DEF OnlyInShow, OffIsEmpty, NoOutputs, Was, Provider
<1>2. CASE ApplyChange(p)
  <2>1. /\ applied[p] # "none" /\ mode' = mode /\ applied' = [applied EXCEPT ![p] = "none"]
        /\ IF live THEN ApplyLiveChange(p, applied[p], mode[p])
           ELSE UNCHANGED <<youtube, twitch, kick, kickLive, live>>
    BY <1>2 DEF ApplyChange
  <2>2. p # "twitch"
    BY <2>1 DEF OffInv, NoTwitchStream
  <2>3. \A q \in Provider : q # p => applied'[q] = applied[q]
    BY <1>0, <2>1
  <2>4. applied'[p] = "none" /\ Was(p) = applied[p]
    BY <1>0, <2>1 DEF Was
  <2>5. CASE ~live
    BY <1>0, <2>1, <2>5 DEF OnlyInShow, OffIsEmpty, NoOutputs
  <2>6. CASE live
    <3>1. live'
      BY <2>1, <2>2, <2>6 DEF ApplyLiveChange, ChangeYouTube, ChangeKick, Provider
    <3>2. CASE p = "youtube"
      <4>1. kick' = kick
        BY <2>1, <2>6, <3>2 DEF ApplyLiveChange, ChangeYouTube
      <4>2. mode["youtube"] = "off" => NoOutputs(youtube')
        <5>1. ASSUME mode["youtube"] = "off", Was("youtube") = "off" PROVE NoOutputs(youtube')
          <6>1. youtube' = youtube
            BY <2>1, <2>4, <2>6, <3>2, <5>1 DEF ApplyLiveChange
          <6> QED BY <1>0, <5>1, <6>1 DEF OffIsEmpty
        <5>2. ASSUME mode["youtube"] = "off", Was("youtube") # "off" PROVE NoOutputs(youtube')
          <6>1. youtube' \in Stopped(youtube)
            BY <2>1, <2>4, <2>6, <3>2, <5>2 DEF ApplyLiveChange, ChangeYouTube
          <6> QED BY <1>0, <6>1, StoppedGood
        <5> QED BY <5>1, <5>2
      <4>3. applied'["kick"] = applied["kick"]
        BY <2>3, <3>2 DEF Provider
      <4> QED BY <1>0, <2>1, <2>4, <3>1, <3>2, <4>1, <4>2, <4>3 DEF OnlyInShow, OffIsEmpty, Was, NoOutputs
    <3>3. CASE p = "kick"
      <4>1. youtube' = youtube
        BY <2>1, <2>6, <3>3 DEF ApplyLiveChange, ChangeKick
      <4>2. mode["kick"] = "off" => kick' = "none"
        <5>1. ASSUME mode["kick"] = "off", Was("kick") = "off" PROVE kick' = "none"
          <6>1. kick' = kick
            BY <2>1, <2>4, <2>6, <3>3, <5>1 DEF ApplyLiveChange
          <6> QED BY <1>0, <5>1, <6>1 DEF OffIsEmpty
        <5>2. ASSUME mode["kick"] = "off", Was("kick") # "off" PROVE kick' = "none"
          BY <2>1, <2>4, <2>6, <3>3, <5>2 DEF ApplyLiveChange, ChangeKick
        <5> QED BY <5>1, <5>2
      <4>3. applied'["youtube"] = applied["youtube"]
        BY <2>3, <3>3 DEF Provider
      <4> QED BY <1>0, <2>1, <2>4, <3>1, <3>3, <4>1, <4>2, <4>3 DEF OnlyInShow, OffIsEmpty, Was, NoOutputs
    <3> QED BY <2>2, <3>2, <3>3 DEF Provider
  <2> QED BY <2>5, <2>6
<1>3. CASE LumiaStop(p) \/ LumiaStart(p)
  <2>1. p = "twitch"
    BY <1>3 DEF LumiaStop, LumiaStart, NoTwitchShow
  <2>2. UNCHANGED <<mode, applied, live, youtube, kick>>
    BY <1>3, <2>1 DEF LumiaStop, LumiaStart, selection, OffInv, NoTwitchStream
  <2> QED BY <1>0, <2>2, CalmKeeps DEF Calm, NoOutputs
<1> QED BY <1>1, <1>2, <1>3

LEMMA ButtonsOff ==
  ASSUME Typed, OffInv, Buttons
  PROVE  OnlyInShow' /\ OffIsEmpty'
<1>0. OnlyInShow /\ OffIsEmpty /\ Good(youtube) /\ Rest /\ twitch \in TwitchState
  BY DEF OffInv, Typed
<1>1. StopShow \/ LumiaEndShow => Emptied
  BY <1>0, StoppedGood DEF StopShow, LumiaEndShow, Emptied
<1>2. ASSUME PrepareShow PROVE OnlyInShow' /\ OffIsEmpty'
  <2>1. Calm
    <3>1. Quiet
      BY <1>2, PrepareShowQuiet
    <3> QED BY <3>1 DEF Quiet, Calm, NoOutputs, Slot
  <2>2. UNCHANGED <<mode, applied>>
    BY <1>2 DEF PrepareShow, StartShow, selection
  <2>3. live => live'
    BY <1>2, IdleFacts DEF PrepareShow, StartShow, OffInv
  <2> QED BY <1>0, <2>1, <2>2, <2>3, CalmKeeps
<1>3. ASSUME PressGoLive \/ CancelGoLive PROVE OnlyInShow' /\ OffIsEmpty'
  <2>1. UNCHANGED <<mode, applied, live, youtube, kick>>
    BY <1>3 DEF PressGoLive, CancelGoLive, selection
  <2> QED BY <1>0, <2>1, CalmKeeps DEF Calm, NoOutputs
<1>4. PressStop \/ ConfirmGoLive \/ LumiaGoLive => StopShow \/ PrepareShow
  BY DEF PressStop, ConfirmGoLive, LumiaGoLive
<1> QED BY <1>1, <1>2, <1>3, <1>4, EmptiedKeeps DEF Buttons

LEMMA TimersOff ==
  ASSUME Typed, OffInv, Timers
  PROVE  OnlyInShow' /\ OffIsEmpty'
<1>0. OnlyInShow /\ OffIsEmpty
  BY DEF OffInv
<1>1. ASSUME NEW d \in deferred, DeferredTimer(d) PROVE OnlyInShow' /\ OffIsEmpty'
  <2>1. Settled /\ StartOthers(d, twitch) /\ UNCHANGED <<mode, applied, live>>
    BY <1>1 DEF DeferredTimer, selection
  <2>2. CASE ~live
    BY <1>0, <2>1, <2>2, CalmKeeps DEF StartOthers, Calm, NoOutputs
  <2>3. CASE live
    <3>1. Was("youtube") = mode["youtube"] /\ Was("kick") = mode["kick"]
      BY <2>1 DEF Settled, Was, Provider
    <3>2. mode["youtube"] = "off" => youtube' = youtube
      BY <2>1 DEF StartOthers, Started
    <3>3. kick' = kick \/ kick' \in KickStarted(kick, mode["kick"])
      BY <2>1 DEF StartOthers
    <3>4. mode["kick"] = "off" => kick' = "none"
      BY <1>0, <3>1, <3>3 DEF OffIsEmpty, KickStarted
    <3>5. mode["youtube"] = "off" => NoOutputs(youtube')
      BY <1>0, <3>1, <3>2 DEF OffIsEmpty
    <3> QED BY <2>1, <2>3, <3>1, <3>4, <3>5 DEF OnlyInShow, OffIsEmpty, Was, NoOutputs
  <2> QED BY <2>2, <2>3
<1>2. ASSUME NEW g \in youtube.timers, SecondStart(g) PROVE OnlyInShow' /\ OffIsEmpty'
  <2> DEFINE y == [youtube EXCEPT !.timers = @ \ {g}]
  <2>1. y.out = youtube.out
    BY DEF Typed, Good, YouTubeState
  <2>2. youtube' = y \/ y.out["primary"] = "active"
    BY <1>2 DEF SecondStart
  <2>3. UNCHANGED <<mode, applied, live, kick>>
    BY <1>2 DEF SecondStart, selection
  <2>4. Calm
    BY <2>1, <2>2, <2>3 DEF Calm, NoOutputs, Slot
  <2> QED BY <1>0, <2>3, <2>4, CalmKeeps
<1>3. ASSUME RefreshShell PROVE OnlyInShow' /\ OffIsEmpty'
  <2>1. UNCHANGED <<mode, applied, live, youtube, kick>>
    BY <1>3 DEF RefreshShell, selection
  <2> QED BY <1>0, <2>1, CalmKeeps DEF Calm, NoOutputs
<1> QED BY <1>1, <1>2, <1>3 DEF Timers

LEMMA EnvironmentOff ==
  ASSUME Typed, OffInv, Environment
  PROVE  OnlyInShow' /\ OffIsEmpty'
<1>1. UNCHANGED <<mode, applied, live>>
  BY DEF Environment, YouTubeChanges, BroadcastMoves, TwitchMoves, KickMoves, EnvFrame, selection
<1>2. ASSUME NEW s \in Slot, YouTubeChanges(s) PROVE Calm
  <2>1. youtube.out[s] # "none" /\ kick' = kick
    BY <1>2 DEF YouTubeChanges, NextOutput
  <2> QED BY <2>1 DEF Calm, NoOutputs
<1>3. ASSUME NEW b \in Broadcast, BroadcastMoves(b) PROVE Calm
  <2>1. youtube'.out = youtube.out /\ kick' = kick
    BY <1>3 DEF BroadcastMoves, Typed, Good, YouTubeState
  <2> QED BY <2>1 DEF Calm, NoOutputs
<1>4. TwitchMoves => Calm
  BY DEF TwitchMoves, Calm, NoOutputs
<1>5. KickMoves => Calm
  BY DEF KickMoves, NextOutput, Calm, NoOutputs
<1>6. Calm
  BY <1>2, <1>3, <1>4, <1>5 DEF Environment
<1> QED BY <1>1, <1>6, CalmKeeps DEF OffInv

LEMMA InitOff == NoTwitchShow /\ Init => OffInv
<1> SUFFICES ASSUME NoTwitchShow, Init PROVE OffInv
  OBVIOUS
<1>1. mode["twitch"] = "off"
  BY DEF Init, NoTwitchShow, Modes, Provider
<1>2. NoTwitchStream
  BY <1>1 DEF Init, NoTwitchStream, NoTwitch, Provider
<1>3. NoOutputs(youtube) /\ kick = "none"
  BY DEF Init, NoYouTube, NoOutputs
<1> QED BY <1>2, <1>3 DEF OffInv, OnlyInShow, OffIsEmpty

LEMMA StepOff == NoTwitchShow /\ Typed /\ OffInv /\ [Next]_vars => OffInv'
<1> SUFFICES ASSUME NoTwitchShow, Typed, OffInv, [Next]_vars PROVE OffInv'
  OBVIOUS
<1>1. CASE Next
  <2>1. NoTwitchStream'
    BY <1>1, TwitchStaysOut DEF OffInv
  <2>2. ~Signals
    BY DEF Signals, SetupEnds, StreamingStart, StreamingStop, StreamingRestart, OffInv, NoTwitchStream
  <2>3. OnlyInShow' /\ OffIsEmpty'
    BY <1>1, <2>2, NextIs, RequestsOff, ButtonsOff, TimersOff, EnvironmentOff
  <2> QED BY <2>1, <2>3 DEF OffInv
<1>2. CASE UNCHANGED vars
  BY <1>2 DEF vars, OffInv, NoTwitchStream, OnlyInShow, OffIsEmpty, Was, NoOutputs
<1> QED BY <1>1, <1>2

LEMMA OffInvImplies == OffInv => OffMeansStopped
BY DEF OffInv, OffIsEmpty, Was, OffMeansStopped

\* In a show without Twitch, in which Lumia operates neither YouTube nor Kick, a
\* destination that was switched to Off has no output once the change has been applied.
THEOREM OffIsStopped ==
  ASSUME TwitchModes = {"off"}, Controlled \subseteq {"twitch"}
  PROVE  Spec => []OffMeansStopped
<1>1. NoTwitchShow
  BY DEF NoTwitchShow
<1>2. Init => OffInv
  BY <1>1, InitOff
<1>3. Typed /\ OffInv /\ [Next]_vars => OffInv'
  BY <1>1, StepOff
<1> QED BY <1>2, <1>3, InitTyped, StepTyped, OffInvImplies, PTL DEF Spec

-----------------------------------------------------------------------------
(* The broadcasts that outputs feed *)

\* Nothing is prepared, and nothing is left of an earlier preparation.
Blank(y) == y.prepared = "none" /\ y.keys = {} /\ NoOutputs(y)

\* Every slot of mode m has a broadcast of its own, bound to its route.
Loaded(y, m) ==
  /\ \A s \in SlotsOf(m) : /\ y.ids[s] # 0 /\ y.bound[RouteOf(s, m)] = y.ids[s]
                           /\ y.out[s] = "none" => y.status[y.ids[s]] = "ready"
  /\ m = "dual" => y.ids["primary"] # y.ids["second"]

Chatting(y, m) == \A s \in SlotsOf(m) : y.chats[RouteOf(s, m)] = y.ids[s]

Fed(y) ==
  \/ Blank(y)
  \/ /\ y.prepared \in Mode /\ Loaded(y, y.prepared) /\ Chatting(y, y.prepared)
     /\ y.out["second"] # "none" => y.prepared = "dual"

\* Only a show has something prepared, and only while YouTube is selected; so each
\* preparation begins with nothing.
FeedInv ==
  /\ confirming => ~live /\ Settled
  /\ ~live \/ Was("youtube") = "off" => Blank(youtube)
  /\ Fed(youtube)

\* z's outputs that y had not feed the broadcasts made for them.
Feeds(y, z) ==
  \A s \in Slot : y.out[s] = "none" /\ z.out[s] # "none" =>
    LET r == RouteOf(s, z.prepared)
        b == z.bound[r]
    IN b # 0 /\ z.status[b] = "ready" /\ z.ids[s] = b /\ z.chats[r] = b

LEMMA StoppedBlank ==
  ASSUME NEW y, Good(y), NEW z \in Stopped(y)
  PROVE  Blank(z)
<1> DEFINE w == [Cancel(y) EXCEPT !.out = [s \in Slot |-> "none"]]
<1>1. Good(Cancel(y))
  BY CancelGood
<1>2. w \in YouTubeState /\ w.ids = Cancel(y).ids /\ w.status = Cancel(y).status
  <2> DEFINE x == Cancel(y)
  <2>1. x \in YouTubeState
    BY <1>1 DEF Good
  <2> HIDE DEF x
  <2>2. [x EXCEPT !.out = [s \in Slot |-> "none"]] \in YouTubeState
        /\ [x EXCEPT !.out = [s \in Slot |-> "none"]].ids = x.ids
        /\ [x EXCEPT !.out = [s \in Slot |-> "none"]].status = x.status
    BY <2>1 DEF YouTubeState, Output
  <2> QED BY <2>2 DEF x
<1>3. Good(w)
  BY <1>1, <1>2 DEF Good, Kept
<1>4. PICK u \in FinishBoth(w) : z = Forget(u)
  BY DEF Stopped
<1>5. Good(u)
  <2> HIDE DEF w
  <2> QED BY <1>3, FinishBothGood
<1>6. z.prepared = "none" /\ z.keys = {}
  BY <1>4, <1>5 DEF Forget, Good, YouTubeState
<1> QED BY <1>6, StoppedGood DEF Blank

LEMMA FinishKeys ==
  ASSUME NEW y, Good(y), NEW slot \in Slot, NEW r \in Finish(y, slot)
  PROVE  r.youtube.keys = y.keys
<1> DEFINE b == y.ids[slot]
           done == [y EXCEPT !.status[b] = Over(@)]
           clear == [done EXCEPT !.ids[slot] = 0]
<1>1. done.keys = y.keys /\ clear.keys = y.keys
  BY DEF Good, YouTubeState
<1>2. r \in {Result(TRUE, y), Result(TRUE, clear), Result(FALSE, y), Result(FALSE, done)}
  BY DEF Finish
<1> HIDE DEF done, clear, b
<1> QED BY <1>1, <1>2 DEF Result

LEMMA DiscardKeys ==
  ASSUME NEW y, Good(y), NEW r \in Discard(y)
  PROVE  r.youtube.keys = y.keys
<1>1. PICK t \in Finish(y, "primary") : r \in IF t.ok THEN Finish(t.youtube, "second") ELSE {t}
  BY DEF Discard
<1>2. Good(t.youtube) /\ t.youtube.keys = y.keys
  BY FinishGood, FinishKeys DEF Slot
<1>3. r = t \/ r \in Finish(t.youtube, "second")
  BY <1>1
<1> QED BY <1>2, <1>3, FinishKeys DEF Slot

\* A route that was prepared has a new broadcast, bound to it.
LEMMA RouteLoaded ==
  ASSUME NEW y, Good(y), NEW slot \in Slot, NEW m \in Mode,
         NEW r \in PrepareRoute(y, slot, m), r.ok
  PROVE  /\ y.made + 1 \in Broadcast /\ r.youtube.made = y.made + 1
         /\ r.youtube.ids = [y.ids EXCEPT ![slot] = y.made + 1]
         /\ r.youtube.status = [y.status EXCEPT ![y.made + 1] = "ready"]
         /\ r.youtube.bound = [y.bound EXCEPT ![RouteOf(slot, m)] = y.made + 1]
         /\ r.youtube.keys = y.keys \union {slot}
<1> DEFINE b == y.made + 1
           inserted == [y EXCEPT !.made = b, !.status[b] = "ready", !.ids[slot] = b]
           whole == [inserted EXCEPT !.bound[RouteOf(slot, m)] = b, !.keys = @ \union {slot}]
<1>1. b \in Broadcast /\ r = Result(TRUE, whole)
  BY DEF PrepareRoute, Result
<1>2. /\ inserted.made = b /\ inserted.ids = [y.ids EXCEPT ![slot] = b]
      /\ inserted.status = [y.status EXCEPT ![b] = "ready"]
      /\ inserted.bound = y.bound /\ inserted.keys = y.keys
      /\ DOMAIN inserted = DOMAIN y
  <2> HIDE DEF b
  <2> QED BY DEF Good, YouTubeState
<1>3. DOMAIN y = {"prepared", "keys", "ids", "chats", "out", "generation", "timers", "made", "status", "bound"}
  BY DEF Good, YouTubeState
<1>4. /\ whole.made = b /\ whole.ids = inserted.ids /\ whole.status = inserted.status
      /\ whole.bound = [y.bound EXCEPT ![RouteOf(slot, m)] = b] /\ whole.keys = y.keys \union {slot}
  <2> HIDE DEF b, inserted
  <2> QED BY <1>2, <1>3
<1>5. r.youtube = whole
  BY <1>1 DEF Result
<1> HIDE DEF whole, inserted
<1> QED BY <1>1, <1>2, <1>4, <1>5

LEMMA RoutesLoaded ==
  ASSUME NEW y, Good(y), NEW m \in Mode, \A s \in Slot : y.ids[s] = 0, NoOutputs(y),
         NEW r \in PrepareRoutes(y, m), r.ok
  PROVE  Loaded(r.youtube, m) /\ "primary" \in r.youtube.keys
<1> DEFINE b == y.made + 1
<1>0. /\ y.ids \in [Slot -> 0 .. MaxBroadcasts] /\ y.status \in [Broadcast -> Status]
      /\ y.bound \in [Route -> 0 .. MaxBroadcasts] /\ y.made \in Nat
      /\ "primary" \in Slot /\ "second" \in Slot
  BY StateFacts, BoundsAssumption DEF Good, Slot
<1>1. CASE m # "dual"
  <2>1. r \in PrepareRoute(y, "primary", m) /\ SlotsOf(m) = {"primary"} /\ RouteOf("primary", m) \in Route
    BY <1>1 DEF PrepareRoutes, SlotsOf, RouteOf, Route
  <2>2. /\ b \in Broadcast /\ r.youtube.ids = [y.ids EXCEPT !["primary"] = b]
        /\ r.youtube.status = [y.status EXCEPT ![b] = "ready"]
        /\ r.youtube.bound = [y.bound EXCEPT ![RouteOf("primary", m)] = b]
        /\ "primary" \in r.youtube.keys
    BY <1>0, <2>1, RouteLoaded
  <2> HIDE DEF b
  <2>3. b # 0
    BY <2>2, BoundsAssumption DEF Broadcast
  <2>4. r.youtube.ids["primary"] = b /\ r.youtube.status[b] = "ready"
        /\ r.youtube.bound[RouteOf("primary", m)] = b
    BY <1>0, <2>1, <2>2 DEF Slot
  <2> QED BY <1>1, <2>1, <2>2, <2>3, <2>4 DEF Loaded
<1>2. CASE m = "dual"
  <2>1. PICK t \in PrepareRoute(y, "primary", m) :
          r \in IF t.ok THEN PrepareRoute(t.youtube, "second", m) ELSE {t}
    BY <1>2 DEF PrepareRoutes
  <2>2. /\ t.ok /\ t \in PrepareRoute(y, "primary", m) /\ r \in PrepareRoute(t.youtube, "second", m)
        /\ "primary" \in Slot /\ "second" \in Slot
    BY <1>0, <2>1
  <2>3. /\ b \in Broadcast /\ t.youtube.made = b /\ t.youtube.ids = [y.ids EXCEPT !["primary"] = b]
        /\ t.youtube.status = [y.status EXCEPT ![b] = "ready"]
        /\ t.youtube.bound = [y.bound EXCEPT ![RouteOf("primary", m)] = b]
        /\ t.youtube.keys = y.keys \union {"primary"}
    BY <2>2, RouteLoaded
  <2>. Good(t.youtube)
    BY <1>0, RouteGood
  <2> DEFINE c == t.youtube.made + 1
  <2>4. /\ c \in Broadcast /\ r.youtube.ids = [t.youtube.ids EXCEPT !["second"] = c]
        /\ r.youtube.status = [t.youtube.status EXCEPT ![c] = "ready"]
        /\ r.youtube.bound = [t.youtube.bound EXCEPT ![RouteOf("second", m)] = c]
        /\ r.youtube.keys = t.youtube.keys \union {"second"}
    BY <2>2, RouteLoaded
  <2>5. c = b + 1 /\ b # 0 /\ c # 0 /\ c # b
    BY <1>0, <2>3
  <2>6. /\ SlotsOf(m) = {"primary", "second"} /\ RouteOf("primary", m) = "horizontal"
        /\ RouteOf("second", m) = "vertical" /\ Slot = {"primary", "second"} /\ Route = {"horizontal", "vertical"}
    BY <1>2 DEF SlotsOf, RouteOf, Slot, Route
  <2> HIDE DEF b, c
  <2>7. r.youtube.ids["primary"] = b /\ r.youtube.ids["second"] = c
    BY <1>0, <2>3, <2>4, <2>6
  <2>8. r.youtube.bound["horizontal"] = b /\ r.youtube.bound["vertical"] = c
    BY <1>0, <2>3, <2>4, <2>6
  <2>9. r.youtube.status[b] = "ready" /\ r.youtube.status[c] = "ready"
    BY <1>0, <2>3, <2>4, <2>5
  <2> QED BY <2>3, <2>4, <2>5, <2>6, <2>7, <2>8, <2>9 DEF Loaded
<1> QED BY <1>1, <1>2

LEMMA PreparedAllFed ==
  ASSUME NEW y, Good(y), NEW m \in Mode, Loaded(y, m), NoOutputs(y)
  PROVE  LET z == PreparedAll(y, m)
         IN /\ z.prepared = m /\ z.keys = y.keys /\ NoOutputs(z)
            /\ Loaded(z, m) /\ Chatting(z, m)
<1> DEFINE of(r) == CHOOSE s \in SlotsOf(m) : RouteOf(s, m) = r
           chats == [r \in Route |-> IF \E s \in SlotsOf(m) : RouteOf(s, m) = r THEN y.ids[of(r)] ELSE 0]
           z == PreparedAll(y, m)
<1>1. z = [y EXCEPT !.prepared = m, !.chats = chats]
  BY DEF PreparedAll
<1>2. \A s \in SlotsOf(m) : RouteOf(s, m) \in Route /\ chats[RouteOf(s, m)] = y.ids[s]
  <2>1. \A s, t \in SlotsOf(m) : RouteOf(s, m) = RouteOf(t, m) => s = t
    BY DEF SlotsOf, RouteOf, Slot
  <2>2. \A s \in SlotsOf(m) : RouteOf(s, m) \in Route
    BY DEF RouteOf, Route
  <2>3. \A s \in SlotsOf(m) : of(RouteOf(s, m)) = s
    BY <2>1
  <2> QED BY <2>2, <2>3
<1> HIDE DEF chats
<1>3. /\ z.prepared = m /\ z.chats = chats /\ z.keys = y.keys /\ z.out = y.out /\ z.ids = y.ids
      /\ z.status = y.status /\ z.bound = y.bound
  <2> HIDE DEF z
  <2> QED BY <1>1 DEF Good, YouTubeState
<1> HIDE DEF z
<1>4. NoOutputs(z)
  BY <1>3 DEF NoOutputs
<1>5. Loaded(z, m)
  BY <1>3 DEF Loaded
<1>6. Chatting(z, m)
  BY <1>2, <1>3 DEF Chatting
<1> QED BY <1>3, <1>4, <1>5, <1>6 DEF z

\* From nothing, a preparation comes to nothing or to all a show in mode m needs.
LEMMA PreparedFed ==
  ASSUME NEW y, Good(y), Blank(y), NEW m \in Mode, NEW z \in Prepared(y, m)
  PROVE  /\ Fed(z) /\ NoOutputs(z)
         /\ Blank(z) \/ (m # "off" /\ z.prepared = m /\ "primary" \in z.keys)
<1>1. CASE z = y
  BY <1>1 DEF Fed, Blank
<1>2. CASE z # y
  <2>0. m # "off"
    BY <1>2 DEF Prepared
  <2>1. PICK d \in Discard(Cancel(y)) :
          z \in IF ~d.ok THEN {d.youtube}
                ELSE UNION {IF t.ok THEN {PreparedAll(t.youtube, m)}
                            ELSE {Forget(u) : u \in FinishBoth(t.youtube)} :
                              t \in PrepareRoutes([d.youtube EXCEPT !.keys = {}], m)}
    BY <1>2 DEF Prepared
  <2>2. Good(Cancel(y)) /\ SameShow(y, Cancel(y)) /\ Cancel(y).keys = y.keys
    <3>1. Cancel(y).keys = y.keys
      BY DEF Cancel, Good, YouTubeState
    <3> QED BY <3>1, CancelGood
  <2>3. /\ Good(d.youtube) /\ d.youtube.out = y.out /\ d.youtube.prepared = "none" /\ d.youtube.keys = {}
        /\ d.ok => \A s \in Slot : d.youtube.ids[s] = 0
    BY <2>2, DiscardGood, DiscardKeys DEF SameShow, Blank
  <2>4. CASE ~d.ok
    BY <2>1, <2>3, <2>4 DEF Fed, Blank, NoOutputs
  <2>5. CASE d.ok
    <3> DEFINE x == [d.youtube EXCEPT !.keys = {}]
    <3>1. x \in YouTubeState /\ x.ids = d.youtube.ids /\ x.status = d.youtube.status /\ x.out = y.out
      BY <2>3 DEF Good, YouTubeState
    <3>2. Good(x) /\ NoOutputs(x) /\ \A s \in Slot : x.ids[s] = 0
      BY <2>3, <2>5, <3>1 DEF Good, Kept, Blank, NoOutputs
    <3> HIDE DEF x
    <3>3. PICK t \in PrepareRoutes(x, m) :
            z \in IF t.ok THEN {PreparedAll(t.youtube, m)} ELSE {Forget(u) : u \in FinishBoth(t.youtube)}
      BY <2>1, <2>5 DEF x
    <3>4. Good(t.youtube) /\ NoOutputs(t.youtube)
      BY <3>2, RoutesGood DEF SameShow, NoOutputs
    <3>5. CASE t.ok
      <4>1. Loaded(t.youtube, m) /\ "primary" \in t.youtube.keys
        BY <3>2, <3>5, RoutesLoaded
      <4>2. z = PreparedAll(t.youtube, m)
        BY <3>3, <3>5
      <4>3. z.prepared = m /\ z.keys = t.youtube.keys /\ NoOutputs(z) /\ Loaded(z, m) /\ Chatting(z, m)
        BY <3>4, <4>1, <4>2, PreparedAllFed
      <4>4. z.out["second"] = "none"
        BY <4>3 DEF NoOutputs, Slot
      <4> QED BY <2>0, <4>1, <4>3, <4>4 DEF Fed
    <3>6. CASE ~t.ok
      <4>1. PICK u \in FinishBoth(t.youtube) : z = Forget(u)
        BY <3>3, <3>6
      <4>2. Good(u) /\ NoOutputs(u)
        BY <3>4, FinishBothGood DEF SameShow, NoOutputs
      <4>3. z.prepared = "none" /\ z.keys = {} /\ z.out = u.out
        BY <4>1, <4>2 DEF Forget, Good, YouTubeState
      <4> QED BY <4>2, <4>3 DEF Fed, Blank, NoOutputs
    <3> QED BY <3>5, <3>6
  <2> QED BY <2>4, <2>5
<1> QED BY <1>1, <1>2

\* Opening an output of a slot that the prepared mode has, or changing an open one.
LEMMA OpenedFed ==
  ASSUME NEW y, Good(y), Fed(y), ~Blank(y), NEW s \in SlotsOf(y.prepared), NEW o \in Output \ {"none"},
         NEW z, z.out = [y.out EXCEPT ![s] = o],
         z.prepared = y.prepared, z.ids = y.ids, z.status = y.status, z.bound = y.bound, z.chats = y.chats
  PROVE  Fed(z) /\ Feeds(y, z)
<1>1. /\ y.prepared \in Mode /\ Loaded(y, y.prepared) /\ Chatting(y, y.prepared)
      /\ y.out["second"] # "none" => y.prepared = "dual"
  BY DEF Fed
<1>2. y.out \in [Slot -> Output] /\ s \in Slot
  BY StateFacts DEF Good, SlotsOf, Slot
<1>3. \A q \in Slot : z.out[q] = "none" => y.out[q] = "none" /\ q # s
  BY <1>2
<1>4. SlotsOf(y.prepared) \subseteq Slot
  BY DEF SlotsOf, Slot
<1>5. Loaded(z, z.prepared) /\ Chatting(z, z.prepared)
  BY <1>1, <1>3, <1>4 DEF Loaded, Chatting
<1>6. s = "second" => y.prepared = "dual"
  BY DEF SlotsOf
<1>7. z.out["second"] # "none" => z.prepared = "dual"
  BY <1>1, <1>2, <1>6 DEF Slot
<1>8. Fed(z)
  BY <1>1, <1>5, <1>7 DEF Fed
<1>9. ASSUME NEW q \in Slot, y.out[q] = "none", z.out[q] # "none"
      PROVE  LET r == RouteOf(q, z.prepared)
                 b == z.bound[r]
             IN b # 0 /\ z.status[b] = "ready" /\ z.ids[q] = b /\ z.chats[r] = b
  <2>1. q = s
    BY <1>2, <1>9
  <2> QED BY <1>1, <1>9, <2>1 DEF Loaded, Chatting
<1> QED BY <1>8, <1>9 DEF Feeds

\* Without a new output there is nothing to feed.
LEMMA NothingFed ==
  ASSUME NEW y, NEW z, NoOutputs(z) \/ z.out = y.out
  PROVE  Feeds(y, z)
BY DEF Feeds, NoOutputs

LEMMA StartedFed ==
  ASSUME NEW y, Good(y), Fed(y), NEW m \in Mode, NEW z \in Started(y, m)
  PROVE  Fed(z) /\ Feeds(y, z) /\ (z = y \/ m # "off")
<1> DEFINE timers == IF m = "dual" THEN y.timers \union {y.generation} ELSE y.timers
           u == [y EXCEPT !.out["primary"] = "connecting", !.timers = timers]
           v == [y EXCEPT !.out["primary"] = "failed"]
<1>0. m # "off" \/ z = y
  BY DEF Started
<1>1. CASE z = y
  BY <1>1, NothingFed
<1>2. CASE z # y
  <2>1. m # "off" /\ y.prepared = m /\ (z = u \/ z \in Stopped(v))
    BY <1>2 DEF Started, IsPrepared
  <2>2. CASE z = u
    <3>1. /\ z.out = [y.out EXCEPT !["primary"] = "connecting"] /\ z.prepared = y.prepared
          /\ z.ids = y.ids /\ z.status = y.status /\ z.bound = y.bound /\ z.chats = y.chats
      <4> HIDE DEF timers
      <4> QED BY <2>2 DEF Good, YouTubeState
    <3>2. ~Blank(y)
      BY <2>1 DEF Blank, Mode
    <3>3. "primary" \in SlotsOf(y.prepared) /\ "connecting" \in Output \ {"none"}
      BY DEF SlotsOf, Slot, Output
    <3> HIDE DEF u
    <3> QED BY <2>1, <3>1, <3>2, <3>3, OpenedFed
  <2>3. CASE z \in Stopped(v)
    <3>1. {} \in SUBSET Nat /\ "primary" \in Slot /\ "failed" \in Output
      BY DEF Slot, Output
    <3>2. Good(v)
      BY <3>1, OutGood
    <3>3. Blank(z)
      <4> HIDE DEF v
      <4> QED BY <2>3, <3>2, StoppedBlank
    <3> QED BY <2>1, <3>3, NothingFed DEF Fed, Blank
  <2> QED BY <2>1, <2>2, <2>3
<1> QED BY <1>0, <1>1, <1>2

LEMMA PrepareAndStartFed ==
  ASSUME NEW y, Good(y), Blank(y), NEW m \in Mode, m # "off", NEW z \in PrepareAndStart(y, m)
  PROVE  Fed(z) /\ Feeds(y, z)
<1>1. PICK x \in Prepared(y, m) : z \in IF IsPrepared(x, m) THEN Started(x, m) ELSE {x}
  BY DEF PrepareAndStart
<1>2. Good(x) /\ Fed(x) /\ NoOutputs(x)
  BY PreparedGood, PreparedFed
<1>3. z = x \/ z \in Started(x, m)
  BY <1>1
<1>4. Fed(z) /\ Feeds(x, z)
  BY <1>2, <1>3, StartedFed, NothingFed
<1>5. Feeds(y, z)
  BY <1>2, <1>4 DEF Feeds, NoOutputs
<1> QED BY <1>4, <1>5

\* A show without Twitch and without Lumia.
ShowAlone == TwitchModes = {"off"} /\ Controlled = {}

Followed == FeedInv' /\ Feeds(youtube, youtube')

FeedHyp == ShowAlone /\ Typed /\ NoTwitchStream /\ FeedInv

LEMMA HypFacts ==
  ASSUME FeedHyp
  PROVE  /\ Good(youtube) /\ Fed(youtube) /\ live \in BOOLEAN /\ confirming \in BOOLEAN
         /\ mode \in [Provider -> Mode] /\ applied \in [Provider -> Mode \union {"none"}]
         /\ confirming => ~live /\ Settled
         /\ ~live \/ Was("youtube") = "off" => Blank(youtube)
         /\ NoTwitchShow
BY DEF FeedHyp, FeedInv, Typed, Rest, ShowAlone, NoTwitchShow

\* YouTube's outputs and what is prepared stay as they are.
LEMMA SameFollowed ==
  ASSUME FeedHyp, youtube' = youtube, UNCHANGED <<mode, applied>>, live' = live,
         confirming' => confirming \/ (~live /\ Settled)
  PROVE  Followed
<1>1. FeedInv'
  BY HypFacts DEF FeedInv, Was, Settled
<1>2. Feeds(youtube, youtube')
  BY NothingFed
<1> QED BY <1>1, <1>2 DEF Followed

LEMMA BlankFollowed ==
  ASSUME Blank(youtube'), confirming' = FALSE
  PROVE  Followed
<1>1. NoOutputs(youtube')
  BY DEF Blank
<1>2. Feeds(youtube, youtube')
  BY <1>1, NothingFed
<1>3. Fed(youtube')
  BY DEF Fed
<1> QED BY <1>2, <1>3 DEF Followed, FeedInv

\* While a show is on and YouTube selected, anything fed will do.
LEMMA LiveFollowed ==
  ASSUME Fed(youtube'), Feeds(youtube, youtube'), live', mode'["youtube"] # "off",
         applied'["youtube"] = "none", confirming' = FALSE
  PROVE  Followed
BY DEF Followed, FeedInv, Was

LEMMA RequestsFollowed ==
  ASSUME FeedHyp, Requests
  PROVE  Followed
<1>0. /\ Good(youtube) /\ Fed(youtube) /\ live \in BOOLEAN /\ confirming \in BOOLEAN
      /\ mode \in [Provider -> Mode] /\ applied \in [Provider -> Mode \union {"none"}]
      /\ confirming => ~live /\ Settled
      /\ ~live \/ Was("youtube") = "off" => Blank(youtube)
  BY HypFacts
<1> PICK p \in Provider :
      (\E m \in Modes(p) : SelectMode(p, m)) \/ ApplyChange(p) \/ LumiaStop(p) \/ LumiaStart(p)
  BY DEF Requests
<1>1. ASSUME NEW m \in Modes(p), SelectMode(p, m) PROVE Followed
  <2>1. /\ mode' = [mode EXCEPT ![p] = m] /\ youtube' = youtube /\ live' = live
        /\ applied' = [applied EXCEPT ![p] = IF @ = "none" THEN mode[p] ELSE @]
        /\ ~confirming /\ confirming' = confirming
    BY <1>1 DEF SelectMode, button
  <2>2. mode["youtube"] # "none"
    BY <1>0 DEF Mode, Provider
  <2>3. (IF applied'["youtube"] = "none" THEN mode'["youtube"] ELSE applied'["youtube"]) = Was("youtube")
    BY <1>0, <2>1, <2>2 DEF Was, Provider
  <2>4. FeedInv'
    BY <1>0, <2>1, <2>3 DEF FeedInv, Was
  <2> QED BY <2>1, <2>4, NothingFed DEF Followed
<1>2. CASE ApplyChange(p)
  <2>1. /\ applied[p] # "none" /\ mode' = mode /\ applied' = [applied EXCEPT ![p] = "none"]
        /\ IF live THEN ApplyLiveChange(p, applied[p], mode[p])
           ELSE UNCHANGED <<youtube, twitch, kick, kickLive, live>>
        /\ confirming' = confirming
    BY <1>2 DEF ApplyChange, button
  <2>2. p # "twitch" /\ confirming' = FALSE
    BY <1>0, <2>1 DEF FeedHyp, NoTwitchStream, Settled
  <2>3. live' = live
    BY <2>1, <2>2 DEF ApplyLiveChange, ChangeYouTube, ChangeKick, Provider
  <2>4. CASE ~live
    BY <1>0, <2>1, <2>2, <2>4, BlankFollowed
  <2>5. CASE live /\ p = "kick"
    <3>1. youtube' = youtube
      BY <2>1, <2>5 DEF ApplyLiveChange, ChangeKick
    <3>2. applied'["youtube"] = applied["youtube"]
      BY <1>0, <2>1, <2>5 DEF Provider
    <3>3. FeedInv'
      BY <1>0, <2>1, <2>2, <2>3, <3>1, <3>2 DEF FeedInv, Was
    <3> QED BY <3>1, <3>3, NothingFed DEF Followed
  <2>6. CASE live /\ p = "youtube"
    <3> DEFINE m == mode["youtube"]
    <3>1. applied'["youtube"] = "none" /\ Was("youtube") = applied["youtube"] /\ m \in Mode
      BY <1>0, <2>1, <2>6 DEF Was, Provider
    <3>2. CASE m = "off"
      <4>1. Blank(youtube')
        <5>1. ASSUME applied["youtube"] = "off" PROVE Blank(youtube')
          <6>1. youtube' = youtube
            BY <2>1, <2>6, <3>2, <5>1 DEF ApplyLiveChange
          <6> QED BY <1>0, <3>1, <5>1, <6>1
        <5>2. ASSUME applied["youtube"] # "off" PROVE Blank(youtube')
          <6>1. youtube' \in Stopped(youtube)
            BY <2>1, <2>6, <3>2, <5>2 DEF ApplyLiveChange, ChangeYouTube
          <6> QED BY <1>0, <6>1, StoppedBlank
        <5> QED BY <5>1, <5>2
      <4> QED BY <2>2, <4>1, BlankFollowed
    <3>3. CASE m # "off"
      <4>1. Fed(youtube') /\ Feeds(youtube, youtube')
        <5>1. ASSUME applied["youtube"] # "off" PROVE youtube' = youtube
          BY <2>1, <2>6, <3>3, <5>1 DEF ApplyLiveChange
        <5>2. ASSUME applied["youtube"] = "off" PROVE Fed(youtube') /\ Feeds(youtube, youtube')
          <6>1. youtube' \in PrepareAndStart(youtube, m)
            BY <2>1, <2>6, <3>3, <5>2 DEF ApplyLiveChange, ChangeYouTube
          <6>2. Blank(youtube)
            BY <1>0, <3>1, <5>2
          <6> HIDE DEF m
          <6> QED BY <1>0, <3>1, <3>3, <6>1, <6>2, PrepareAndStartFed
        <5> QED BY <1>0, <5>1, <5>2, NothingFed
      <4> QED BY <2>1, <2>2, <2>3, <2>6, <3>1, <3>3, <4>1, LiveFollowed
    <3> QED BY <3>2, <3>3
  <2> QED BY <2>2, <2>4, <2>5, <2>6 DEF Provider
<1>3. ~LumiaStop(p) /\ ~LumiaStart(p)
  BY DEF LumiaStop, LumiaStart, FeedHyp, ShowAlone
<1> QED BY <1>1, <1>2, <1>3

LEMMA ButtonsFollowed ==
  ASSUME FeedHyp, Buttons
  PROVE  Followed
<1>0. /\ Good(youtube) /\ Fed(youtube) /\ live \in BOOLEAN /\ confirming \in BOOLEAN
      /\ mode \in [Provider -> Mode] /\ applied \in [Provider -> Mode \union {"none"}]
      /\ confirming => ~live /\ Settled
      /\ ~live \/ Was("youtube") = "off" => Blank(youtube)
  BY HypFacts
<1>1. ASSUME PressStop PROVE Followed
  <2>1. youtube' \in Stopped(youtube) /\ confirming' = FALSE
    BY <1>0, <1>1 DEF PressStop, StopShow
  <2> QED BY <1>0, <2>1, StoppedBlank, BlankFollowed
<1>2. ASSUME PressGoLive PROVE Followed
  BY <1>2, SameFollowed DEF PressGoLive, StopBranch, selection
<1>3. ASSUME CancelGoLive PROVE Followed
  BY <1>3, SameFollowed DEF CancelGoLive, selection
<1>4. ASSUME ConfirmGoLive PROVE Followed
  <2>1. confirming' = FALSE /\ ~live /\ Settled /\ Blank(youtube) /\ "twitch" \notin Selected
    BY <1>0, <1>4, IdleFacts DEF ConfirmGoLive, FeedHyp
  <2> DEFINE m == mode["youtube"]
  <2>2. PICK y \in IF KeyReady(youtube) THEN {youtube} ELSE Prepared(youtube, m) :
          \/ KeyReady(y) /\ StartShow(y)
          \/ ~KeyReady(y) /\ youtube' = y /\ UNCHANGED <<mode, applied, live>>
    BY <1>4 DEF ConfirmGoLive, PrepareShow, selection
  <2>3. youtube' = y /\ mode' = mode /\ applied' = applied /\ m \in Mode /\ applied["youtube"] = "none"
    BY <1>0, <2>1, <2>2 DEF StartShow, selection, Settled, Provider
  <2>4. KeyReady(y) => live'
    BY <2>1, <2>2 DEF StartShow
  <2>5. CASE m = "off"
    <3>1. y = youtube
      BY <2>2, <2>5 DEF KeyReady
    <3> QED BY <2>1, <2>3, <3>1, BlankFollowed
  <2>6. CASE m # "off"
    <3>1. ~KeyReady(youtube)
      BY <2>1, <2>6 DEF KeyReady, Blank
    <3>2. y \in Prepared(youtube, m)
      BY <2>2, <3>1
    <3>3. Fed(y) /\ NoOutputs(y) /\ (Blank(y) \/ (y.prepared = m /\ "primary" \in y.keys))
      <4> HIDE DEF m
      <4> QED BY <1>0, <2>1, <2>3, <3>2, PreparedFed
    <3>4. CASE Blank(y)
      BY <2>1, <2>3, <3>4, BlankFollowed
    <3>5. CASE ~Blank(y)
      <4>1. live'
        BY <2>4, <3>3, <3>5 DEF KeyReady
      <4>2. Fed(youtube') /\ Feeds(youtube, youtube')
        BY <2>3, <3>3, NothingFed
      <4> QED BY <2>1, <2>3, <2>6, <4>1, <4>2, LiveFollowed
    <3> QED BY <3>4, <3>5
  <2> QED BY <2>5, <2>6
<1>5. ~LumiaGoLive /\ ~LumiaEndShow
  BY DEF LumiaGoLive, LumiaEndShow, FeedHyp, ShowAlone
<1> QED BY <1>1, <1>2, <1>3, <1>4, <1>5 DEF Buttons

LEMMA TimersFollowed ==
  ASSUME FeedHyp, Timers
  PROVE  Followed
<1>0. /\ Good(youtube) /\ Fed(youtube) /\ live \in BOOLEAN /\ confirming \in BOOLEAN
      /\ mode \in [Provider -> Mode] /\ applied \in [Provider -> Mode \union {"none"}]
      /\ confirming => ~live /\ Settled
      /\ ~live \/ Was("youtube") = "off" => Blank(youtube)
  BY HypFacts
<1>1. ASSUME NEW d \in deferred, DeferredTimer(d) PROVE Followed
  <2>1. Settled /\ StartOthers(d, twitch) /\ UNCHANGED <<mode, applied, live, confirming>>
    BY <1>1 DEF DeferredTimer, selection
  <2>2. CASE youtube' = youtube
    BY <2>1, <2>2, SameFollowed
  <2>3. CASE youtube' # youtube
    <3>1. live /\ youtube' \in Started(youtube, mode["youtube"])
      BY <2>1, <2>3 DEF StartOthers
    <3>2. Fed(youtube') /\ Feeds(youtube, youtube') /\ mode["youtube"] # "off"
      <4>1. mode["youtube"] \in Mode
        BY <1>0 DEF Provider
      <4> QED BY <1>0, <2>3, <3>1, <4>1, StartedFed
    <3>3. applied["youtube"] = "none" /\ confirming = FALSE
      BY <1>0, <2>1, <3>1 DEF Settled, Provider
    <3> QED BY <2>1, <3>1, <3>2, <3>3, LiveFollowed
  <2> QED BY <2>2, <2>3
<1>2. ASSUME NEW g \in youtube.timers, SecondStart(g) PROVE Followed
  <2> DEFINE y == [youtube EXCEPT !.timers = @ \ {g}]
  <2>1. UNCHANGED <<mode, applied, live, confirming>> /\ Settled
    BY <1>2 DEF SecondStart, selection, button
  <2>2. /\ y.out = youtube.out /\ y.prepared = youtube.prepared /\ y.keys = youtube.keys
        /\ y.ids = youtube.ids /\ y.status = youtube.status /\ y.bound = youtube.bound
        /\ y.chats = youtube.chats
    BY <1>0 DEF Good, YouTubeState
  <2>3. Good(y)
    <3>1. youtube.timers \ {g} \in SUBSET Nat /\ "second" \in Slot /\ "connecting" \in Output
      BY <1>0, StateFacts DEF Good, Slot, Output
    <3> QED BY <1>0, <3>1, OutGood
  <2>4. CASE youtube' = y
    <3>1. Blank(youtube) => Blank(youtube')
      BY <2>2, <2>4 DEF Blank, NoOutputs
    <3>2. Fed(youtube')
      BY <1>0, <2>2, <2>4, <3>1 DEF Fed, Loaded, Chatting
    <3>3. Feeds(youtube, youtube')
      BY <2>2, <2>4, NothingFed
    <3>4. FeedInv'
      BY <1>0, <2>1, <3>1, <3>2 DEF FeedInv, Was, Settled
    <3> QED BY <3>3, <3>4 DEF Followed
  <2>5. CASE youtube' # y
    <3>1. PICK o \in {"connecting", "failed"} : youtube' = [y EXCEPT !.out["second"] = o]
      BY <1>2, <2>5 DEF SecondStart
    <3>2. youtube.prepared = "dual" /\ youtube.out["primary"] = "active"
      BY <1>2, <2>2, <2>5 DEF SecondStart
    <3>3. ~Blank(youtube)
      BY <3>2 DEF Blank
    <3>4. /\ youtube'.out = [youtube.out EXCEPT !["second"] = o] /\ youtube'.prepared = youtube.prepared
          /\ youtube'.ids = youtube.ids /\ youtube'.status = youtube.status
          /\ youtube'.bound = youtube.bound /\ youtube'.chats = youtube.chats
      <4> HIDE DEF y
      <4> QED BY <2>2, <2>3, <3>1 DEF Good, YouTubeState
    <3>5. "second" \in SlotsOf(youtube.prepared) /\ o \in Output \ {"none"}
      BY <3>2 DEF SlotsOf, Slot, Output
    <3>6. Fed(youtube') /\ Feeds(youtube, youtube')
      <4>1. PICK z : z = youtube'
        OBVIOUS
      <4>2. PICK u : u = youtube
        OBVIOUS
      <4>3. /\ Good(u) /\ Fed(u) /\ ~Blank(u) /\ "second" \in SlotsOf(u.prepared)
            /\ z.out = [u.out EXCEPT !["second"] = o] /\ z.prepared = u.prepared /\ z.ids = u.ids
            /\ z.status = u.status /\ z.bound = u.bound /\ z.chats = u.chats
        BY <1>0, <3>3, <3>4, <3>5, <4>1, <4>2
      <4>4. Fed(z) /\ Feeds(u, z)
        BY <3>5, <4>3, OpenedFed
      <4> QED BY <4>1, <4>2, <4>4
    <3>7. live /\ Was("youtube") # "off" /\ applied["youtube"] = "none" /\ confirming = FALSE
      BY <1>0, <2>1, <3>3 DEF Settled, Provider
    <3> QED BY <2>1, <3>6, <3>7, LiveFollowed DEF Was
  <2> QED BY <2>4, <2>5
<1>3. ASSUME RefreshShell PROVE Followed
  BY <1>3 DEF RefreshShell, FeedHyp, ShowAlone
<1> QED BY <1>1, <1>2, <1>3 DEF Timers

LEMMA EnvironmentFollowed ==
  ASSUME FeedHyp, Environment
  PROVE  Followed
<1>0. /\ Good(youtube) /\ Fed(youtube)
      /\ confirming => ~live /\ Settled
      /\ ~live \/ Was("youtube") = "off" => Blank(youtube)
  BY HypFacts
<1>1. UNCHANGED <<mode, applied, live, confirming>>
  BY DEF Environment, YouTubeChanges, BroadcastMoves, TwitchMoves, KickMoves, EnvFrame, selection, button
<1>2. ASSUME ~Blank(youtube), Fed(youtube'), Feeds(youtube, youtube') PROVE Followed
  <2>1. FeedInv'
    BY <1>0, <1>1, <1>2 DEF FeedInv, Was, Settled
  <2> QED BY <1>2, <2>1 DEF Followed
<1>3. ASSUME NEW s \in Slot, YouTubeChanges(s) PROVE Followed
  <2>1. PICK o \in NextOutput(youtube.out[s]) : youtube' = [youtube EXCEPT !.out[s] = o]
    BY <1>3 DEF YouTubeChanges
  <2>2. youtube.out[s] # "none" /\ o \in Output \ {"none"}
    BY <2>1 DEF NextOutput, Output
  <2>3. ~Blank(youtube)
    BY <2>2 DEF Blank, NoOutputs
  <2>4. s \in SlotsOf(youtube.prepared)
    BY <1>0, <2>2, <2>3 DEF Fed, SlotsOf, Slot
  <2>5. /\ youtube'.out = [youtube.out EXCEPT ![s] = o] /\ youtube'.prepared = youtube.prepared
        /\ youtube'.ids = youtube.ids /\ youtube'.status = youtube.status
        /\ youtube'.bound = youtube.bound /\ youtube'.chats = youtube.chats
    BY <1>0, <2>1 DEF Good, YouTubeState
  <2>6. PICK z : z = youtube'
    OBVIOUS
  <2>7. PICK u : u = youtube
    OBVIOUS
  <2>8. /\ Good(u) /\ Fed(u) /\ ~Blank(u) /\ s \in SlotsOf(u.prepared)
        /\ z.out = [u.out EXCEPT ![s] = o] /\ z.prepared = u.prepared /\ z.ids = u.ids
        /\ z.status = u.status /\ z.bound = u.bound /\ z.chats = u.chats
    BY <1>0, <2>3, <2>4, <2>5, <2>6, <2>7
  <2>9. Fed(z) /\ Feeds(u, z)
    BY <2>2, <2>8, OpenedFed
  <2> QED BY <1>2, <2>3, <2>6, <2>7, <2>9
<1>4. ASSUME NEW b \in Broadcast, BroadcastMoves(b) PROVE Followed
  <2>1. PICK to \in {"live", "complete"} : youtube' = [youtube EXCEPT !.status[b] = to]
    BY <1>4 DEF BroadcastMoves
  <2>2. /\ youtube'.out = youtube.out /\ youtube'.prepared = youtube.prepared
        /\ youtube'.keys = youtube.keys
        /\ youtube'.ids = youtube.ids /\ youtube'.status = [youtube.status EXCEPT ![b] = to]
        /\ youtube'.bound = youtube.bound /\ youtube'.chats = youtube.chats
    BY <1>0, <2>1 DEF Good, YouTubeState
  <2>3. Feeds(youtube, youtube')
    BY <2>2, NothingFed
  <2>4. CASE Blank(youtube)
    <3>1. Blank(youtube')
      BY <2>2, <2>4 DEF Blank, NoOutputs
    <3>2. FeedInv'
      BY <1>0, <1>1, <3>1 DEF FeedInv, Fed, Settled
    <3> QED BY <2>3, <3>2 DEF Followed
  <2>5. CASE ~Blank(youtube)
    <3> DEFINE m == youtube.prepared
    <3>1. /\ m \in Mode /\ Loaded(youtube, m) /\ Chatting(youtube, m)
          /\ youtube.out["second"] # "none" => m = "dual"
      BY <1>0, <2>5 DEF Fed
    <3>2. \A s \in SlotsOf(m) : youtube.out[s] = "none" => youtube.ids[s] # b
      <4>1. CASE youtube.status[b] = "live"
        BY <3>1, <4>1 DEF Loaded
      <4>2. CASE youtube.status[b] # "live"
        <5>1. PICK a \in Slot : youtube.out[a] = "active" /\ youtube.bound[RouteOf(a, m)] = b
          BY <1>4, <4>2 DEF BroadcastMoves
        <5>2. a \in SlotsOf(m)
          BY <3>1, <5>1 DEF SlotsOf, Slot
        <5>3. youtube.ids[a] = b
          BY <3>1, <5>1, <5>2 DEF Loaded
        <5>4. ASSUME NEW s \in SlotsOf(m), s # a PROVE youtube.ids[s] # youtube.ids[a]
          BY <3>1, <5>2, <5>4 DEF Loaded, SlotsOf, Slot
        <5> QED BY <5>1, <5>3, <5>4
      <4> QED BY <4>1, <4>2
    <3>3. Loaded(youtube', m)
      <4>1. youtube.status \in [Broadcast -> Status] /\ youtube.ids \in [Slot -> 0 .. MaxBroadcasts]
        BY <1>0, StateFacts DEF Good
      <4>2. \A s \in SlotsOf(m) : youtube.ids[s] \in Broadcast
        BY <3>1, <4>1, BoundsAssumption DEF Loaded, SlotsOf, Slot, Broadcast
      <4>3. \A s \in SlotsOf(m) : youtube.out[s] = "none" => youtube'.status[youtube.ids[s]] = "ready"
        BY <2>2, <3>1, <3>2, <4>1, <4>2 DEF Loaded
      <4> QED BY <2>2, <3>1, <4>3 DEF Loaded
    <3>4. Chatting(youtube', m)
      BY <2>2, <3>1 DEF Chatting
    <3>5. Fed(youtube')
      BY <2>2, <3>1, <3>3, <3>4 DEF Fed
    <3> QED BY <1>2, <2>3, <2>5, <3>5
  <2> QED BY <2>4, <2>5
<1>5. ASSUME TwitchMoves \/ KickMoves PROVE Followed
  <2>1. youtube' = youtube
    BY <1>5 DEF TwitchMoves, KickMoves
  <2> QED BY <1>1, <2>1, SameFollowed
<1> QED BY <1>3, <1>4, <1>5 DEF Environment

LEMMA StepFollowed ==
  ASSUME FeedHyp, [Next]_vars
  PROVE  Followed /\ NoTwitchStream'
<1>0. ShowAlone /\ Typed /\ NoTwitchStream /\ NoTwitchShow
  BY HypFacts DEF FeedHyp
<1>1. CASE Next
  <2>1. NoTwitchStream'
    BY <1>0, <1>1, TwitchStaysOut
  <2>2. ~Signals
    BY <1>0 DEF Signals, SetupEnds, StreamingStart, StreamingStop, StreamingRestart, NoTwitchStream
  <2> QED BY <1>1, <2>1, <2>2, NextIs, RequestsFollowed, ButtonsFollowed, TimersFollowed, EnvironmentFollowed
<1>2. CASE UNCHANGED vars
  <2>1. Followed
    BY <1>2, SameFollowed DEF vars
  <2>2. NoTwitchStream'
    BY <1>0, <1>2 DEF vars, NoTwitchStream
  <2> QED BY <2>1, <2>2
<1> QED BY <1>1, <1>2

LEMMA InitFeed == ShowAlone /\ Init => NoTwitchStream /\ FeedInv
<1> SUFFICES ASSUME ShowAlone, Init PROVE NoTwitchStream /\ FeedInv
  OBVIOUS
<1>1. NoTwitchStream
  BY InitOff DEF ShowAlone, NoTwitchShow, OffInv
<1>2. Blank(youtube)
  BY DEF Init, NoYouTube, Blank, NoOutputs
<1>3. confirming = FALSE
  BY DEF Init
<1> QED BY <1>1, <1>2, <1>3 DEF FeedInv, Fed

\* In a show without Twitch and Lumia an output that starts feeds the broadcast made for
\* it, which is not finished, and the chat of that broadcast has a session.
THEOREM OutputsFeedTheirBroadcasts ==
  ASSUME TwitchModes = {"off"}, Controlled = {}
  PROVE  Spec => StartsItsBroadcast
<1>0. ShowAlone
  BY DEF ShowAlone
<1> DEFINE Inv == Typed /\ NoTwitchStream /\ FeedInv
<1>1. Init => Inv
  BY <1>0, InitTyped, InitFeed
<1>2. Inv /\ [Next]_vars => Inv'
  BY <1>0, StepTyped, StepFollowed DEF FeedHyp, Followed
<1>3. Inv /\ [Next]_vars =>
        [\A s \in Slot : Starts(s) =>
           LET r == RouteOf(s, youtube'.prepared)
               b == youtube'.bound[r]
           IN b # 0 /\ youtube'.status[b] = "ready" /\ youtube'.ids[s] = b /\ youtube'.chats[r] = b]_vars
  BY <1>0, StepFollowed DEF FeedHyp, Followed, Feeds, Starts
<1> QED BY <1>1, <1>2, <1>3, PTL DEF Spec, StartsItsBroadcast

=============================================================================
