------------------------------- MODULE GoLive -------------------------------
(***************************************************************************)
(* Starting and stopping a show: the destination selectors, the Go Live    *)
(* button, Lumia's destination requests, and behind them the Twitch stream *)
(* with its start attempts, the YouTube outputs with the broadcasts made   *)
(* for them, and the Kick output.                                          *)
(*                                                                         *)
(* Every handler of the UI thread is one action.  A handler that calls     *)
(* YouTube is described by the set of states it may leave behind, one for  *)
(* each way its requests can go.  Chat, which the same handlers cancel, is *)
(* in YouTubeChat.  All accounts are connected.                            *)
(***************************************************************************)
EXTENDS Naturals, FiniteSets, Sequences

CONSTANTS
  TwitchModes,   \* modes the operator selects: subset of {"off", "horizontal", "dual"}
  YouTubeModes,  \* subset of {"off", "horizontal", "vertical", "dual"}
  KickModes,     \* subset of {"off", "horizontal"}
  CleanupFails,  \* whether finishing a broadcast may fail: a set of Booleans
  Controlled,    \* the providers Lumia operates
  MaxBroadcasts, \* bound: broadcasts made in a run
  MaxAttempts    \* bound: start generations of Twitch and YouTube in a run

Provider == {"twitch", "youtube", "kick"}
Mode == {"off", "horizontal", "vertical", "dual"}

ASSUME ModesAssumption == /\ TwitchModes \subseteq {"off", "horizontal", "dual"}
                          /\ YouTubeModes \subseteq Mode
                          /\ KickModes \subseteq {"off", "horizontal"}
ASSUME ChoicesAssumption == CleanupFails \subseteq BOOLEAN /\ Controlled \subseteq Provider
ASSUME BoundsAssumption == MaxBroadcasts \in Nat /\ MaxAttempts \in Nat

Modes(p) == CASE p = "twitch" -> TwitchModes [] p = "youtube" -> YouTubeModes
              [] p = "kick" -> KickModes

VARIABLES
  mode,       \* the selector of each provider
  applied,    \* the mode before changes not applied yet; "none" without such a change
  live,       \* pulseWeaverGoLiveSession
  held,       \* pulseWeaverLumiaStop_<provider>
  confirming, \* the Go Live confirmation is open
  deferred,   \* startOtherOutputs waiting for its timer or for Twitch
  youtube,    \* YouTube's outputs, keys and broadcasts
  twitch,     \* the streaming output and pulseStreamStart
  kick,       \* Kick's output
  kickLive,   \* pulseWeaverKickLive
  anyLive     \* pulseWeaverAnyLive, refreshed by the status timer

vars == <<mode, applied, live, held, confirming, deferred, youtube, twitch, kick,
          kickLive, anyLive>>
selection == <<mode, applied>>
button == <<confirming, deferred, anyLive>>

Slot == {"primary", "second"}
Route == {"horizontal", "vertical"}
Output == {"none", "connecting", "active", "failed"}
Broadcast == 1 .. MaxBroadcasts

RouteOf(slot, m) == IF slot = "second" \/ m = "vertical" THEN "vertical" ELSE "horizontal"
SlotsOf(m) == IF m = "dual" THEN Slot ELSE {"primary"}

NoYouTube ==
  [prepared |-> "none",                       \* pulseYouTubePreparedMode
   keys |-> {},                               \* slots whose stream key is known
   ids |-> [s \in Slot |-> 0],                \* broadcast ids; 0 is the empty string
   chats |-> [r \in Route |-> 0],             \* broadcast ids of the chat sessions
   out |-> [s \in Slot |-> "none"],
   generation |-> 0, timers |-> {},
   made |-> 0,                                \* YouTube: broadcasts made so far,
   status |-> [b \in Broadcast |-> "none"],   \* their status,
   bound |-> [r \in Route |-> 0]]             \* and what a route's stream is bound to

NoTwitch == [phase |-> "idle", attempt |-> 0, setup |-> 0, stream |-> "none",
             signals |-> <<>>]

NoChats == [r \in Route |-> 0]

-----------------------------------------------------------------------------
(* YouTube: what a function may make of the state y *)

Result(ok, y) == [ok |-> ok, youtube |-> y]

\* FinishBroadcast: an unused broadcast is deleted, a live one completed.
Over(status) == CASE status = "ready" -> "deleted" [] status = "live" -> "complete"
                  [] OTHER -> status

\* Cleaning a slot's broadcast up.  A failed request may have been carried out.
Finish(y, slot) ==
  LET b == y.ids[slot]
      done == [y EXCEPT !.status[b] = Over(@)]
  IN IF b = 0 THEN {Result(TRUE, y)}
     ELSE {Result(TRUE, [done EXCEPT !.ids[slot] = 0])}
            \union (IF TRUE \in CleanupFails THEN {Result(FALSE, y), Result(FALSE, done)} ELSE {})

FinishBoth(y) ==
  UNION {{u.youtube : u \in Finish(t.youtube, "second")} : t \in Finish(y, "primary")}

Cancel(y) == [y EXCEPT !.generation = @ + 1, !.chats = NoChats]

\* Fault: the keys of a stopped show are kept.
KeysKept(y) == y

Forget(y) == [y EXCEPT !.keys = {}, !.prepared = "none"]

\* StopPulseWeaverSecondaryOutputs
Stopped(y) ==
  {Forget(z) : z \in FinishBoth([Cancel(y) EXCEPT !.out = [s \in Slot |-> "none"]])}

\* Fault: the id of a new broadcast is noted only once it is bound.
IdAfterBinding(y, slot, m) ==
  LET b == y.made + 1
      inserted == [y EXCEPT !.made = b, !.status[b] = "ready"]
  IN {Result(FALSE, y)}
       \union (IF b \notin Broadcast THEN {}
               ELSE {Result(FALSE, inserted),
                     Result(TRUE, [inserted EXCEPT !.ids[slot] = b, !.keys = @ \union {slot},
                                                   !.bound[RouteOf(slot, m)] = b])})

\* prepareRoute: no broadcast, a broadcast that could not be bound, or all of it.
PrepareRoute(y, slot, m) ==
  LET b == y.made + 1
      inserted == [y EXCEPT !.made = b, !.status[b] = "ready", !.ids[slot] = b]
  IN {Result(FALSE, y)}
       \union (IF b \notin Broadcast THEN {}
               ELSE {Result(FALSE, inserted),
                     Result(TRUE, [inserted EXCEPT !.bound[RouteOf(slot, m)] = b,
                                                   !.keys = @ \union {slot}])})

PrepareRoutes(y, m) ==
  IF m # "dual" THEN PrepareRoute(y, "primary", m)
  ELSE UNION {IF t.ok THEN PrepareRoute(t.youtube, "second", m) ELSE {t} :
                t \in PrepareRoute(y, "primary", m)}

\* Clearing what an earlier preparation left, and the keys if that succeeds.
Discard(y) ==
  UNION {IF t.ok THEN Finish(t.youtube, "second") ELSE {t} : t \in Finish(y, "primary")}

PreparedAll(y, m) ==
  [y EXCEPT !.prepared = m,
            !.chats = [r \in Route |->
                         IF \E s \in SlotsOf(m) : RouteOf(s, m) = r
                         THEN y.ids[CHOOSE s \in SlotsOf(m) : RouteOf(s, m) = r] ELSE 0]]

NoOutputs(y) == \A s \in Slot : y.out[s] = "none"

\* Fault: what is prepared is not compared with the selector.
KeysKnown(y, m) == SlotsOf(m) \subseteq y.keys

IsPrepared(y, m) == y.prepared = m /\ SlotsOf(m) \subseteq y.keys

\* PreparePulseWeaverYouTube; it also returns at once during a quota pause.
Prepared(y, m) ==
  IF m = "off" \/ ~NoOutputs(y) \/ IsPrepared(y, m) THEN {y}
  ELSE {y} \union
       UNION {IF ~d.ok THEN {d.youtube}
              ELSE UNION {IF t.ok THEN {PreparedAll(t.youtube, m)}
                          ELSE {Forget(z) : z \in FinishBoth(t.youtube)} :
                            t \in PrepareRoutes([d.youtube EXCEPT !.keys = {}], m)} :
                d \in Discard(Cancel(y))}

\* StartPulseWeaverSecondaryOutputs
Started(y, m) ==
  IF m = "off" \/ ~IsPrepared(y, m) \/ y.out["primary"] # "none" THEN {y}
  ELSE {[y EXCEPT !.out["primary"] = "connecting",
                  !.timers = IF m = "dual" THEN @ \union {y.generation} ELSE @]}
         \union Stopped([y EXCEPT !.out["primary"] = "failed"])

PrepareAndStart(y, m) ==
  UNION {IF IsPrepared(z, m) THEN Started(z, m) ELSE {z} : z \in Prepared(y, m)}

-----------------------------------------------------------------------------
(* Kick and Twitch *)

\* KickRuntime::startOutput and stopOutput
KickStarted(k, m) == IF k = "active" THEN {k}
                     ELSE IF m = "off" THEN {"none"} ELSE {"connecting", "none"}

Pending(t) == t.phase \in {"preparing", "connecting"}
StreamingActive(t) == t.stream \in {"active", "stopping"}
OthersActive(y, k) == k = "active" \/ \E s \in Slot : y.out[s] = "active"

Outcome(t, failed) == [twitch |-> t, failed |-> failed]

\* StopStreaming; a stream that was still connecting is stopped by force.
StopStreaming(t) ==
  [t EXCEPT !.phase = "idle", !.attempt = @ + 1,
            !.stream = IF @ = "connecting" /\ t.phase = "connecting" THEN "cancelling"
                       ELSE IF @ = "active" THEN "stopping" ELSE @]

\* Fault: the end of a preparation is taken for that of the current attempt.
LateSetup(t) ==
  LET u == [t EXCEPT !.setup = 0]
  IN {Outcome([u EXCEPT !.phase = "failed"], TRUE)}
       \union (IF t.stream = "none"
               THEN {Outcome([u EXCEPT !.phase = "connecting", !.stream = "connecting"], FALSE)}
               ELSE {})

\* finish_stream_setup: refused, or connecting; a cancelled attempt is dropped.
\* It may run within StartStreaming or after it.
FinishSetup(t) ==
  LET u == [t EXCEPT !.setup = 0]
  IN IF t.setup # t.attempt THEN {Outcome(u, FALSE)}
     ELSE {Outcome([u EXCEPT !.phase = "failed"], TRUE)}
            \union (IF t.phase = "preparing" /\ t.stream = "none"
                    THEN {Outcome([u EXCEPT !.phase = "connecting", !.stream = "connecting"], FALSE)}
                    ELSE {})

StartStreaming(t) ==
  IF Pending(t) \/ t.setup # 0 \/ StreamingActive(t) THEN {Outcome(t, FALSE)}
  ELSE LET u == [t EXCEPT !.attempt = @ + 1, !.phase = "preparing", !.setup = t.attempt + 1]
       IN {Outcome(u, FALSE)} \union FinishSetup(u)

\* StreamActionTriggered; the operator may decline a confirmation.
StreamAction(t) ==
  {Outcome(t, FALSE)} \union
  (IF StreamingActive(t) THEN {Outcome(StopStreaming(t), FALSE)} ELSE StartStreaming(t))

\* PreparePulseWeaverTwitchRoute: dual needs a portrait canvas.
TwitchRoutePrepared(m) == IF m = "dual" THEN BOOLEAN ELSE {TRUE}

\* DisplayStreamStartError and StreamingStop end the session when nothing else is
\* active.
SessionAfter(failed, y, k) == live /\ (failed => OthersActive(y, k))

-----------------------------------------------------------------------------
Init ==
  /\ mode \in [Provider -> Mode] /\ \A p \in Provider : mode[p] \in Modes(p)
  /\ applied = [p \in Provider |-> "none"]
  /\ live = FALSE /\ held = [p \in Provider |-> FALSE]
  /\ confirming = FALSE /\ deferred = {}
  /\ youtube = NoYouTube /\ twitch = NoTwitch
  /\ kick = "none" /\ kickLive = FALSE /\ anyLive = FALSE

\* The handler's zero timer runs before any other timer and before the next click; only
\* further selections and posted events may come first.
Settled == \A p \in Provider : applied[p] = "none"

\* A show may be stopped beyond the bound on starts, so that every start can be stopped.
StopsBounded == twitch.attempt <= MaxAttempts + 1 /\ youtube.generation <= MaxAttempts + 1
Bounded == twitch.attempt < MaxAttempts /\ youtube.generation < MaxAttempts

\* The selector's handler.  A refused change puts the old mode back.
SelectMode(p, m) ==
  /\ ~confirming /\ m # mode[p] /\ Bounded
  /\ m # "off" => /\ p = "twitch" => ~Pending(twitch) /\ ~StreamingActive(twitch)
                  /\ p = "youtube" => m = youtube.prepared \/ NoOutputs(youtube)
  /\ mode' = [mode EXCEPT ![p] = m]
  /\ applied' = [applied EXCEPT ![p] = IF @ = "none" THEN mode[p] ELSE @]
  /\ UNCHANGED <<live, held, button, youtube, twitch, kick, kickLive>>

\* ApplyPulseWeaverLiveDestinationChange
ChangeTwitch(m) ==
  /\ UNCHANGED <<youtube, kick, kickLive>>
  /\ IF m = "off"
     THEN /\ twitch' = IF Pending(twitch) \/ StreamingActive(twitch)
                       THEN StopStreaming(twitch) ELSE twitch
          /\ UNCHANGED live
     ELSE IF Pending(twitch) \/ StreamingActive(twitch) THEN UNCHANGED <<twitch, live>>
     ELSE \E ok \in TwitchRoutePrepared(m) :
            \E o \in IF ok THEN StreamAction(twitch) ELSE {Outcome(twitch, FALSE)} :
              twitch' = o.twitch /\ live' = SessionAfter(o.failed, youtube, kick)

\* Fault: only an output that is on air is stopped.
ActiveStopped(m) ==
  /\ youtube' \in IF m # "off" THEN PrepareAndStart(youtube, m)
                 ELSE IF OthersActive(youtube, "none") THEN Stopped(youtube) ELSE {youtube}
  /\ UNCHANGED <<twitch, live, kick, kickLive>>

ChangeYouTube(m) ==
  /\ youtube' \in IF m = "off" THEN Stopped(youtube) ELSE PrepareAndStart(youtube, m)
  /\ UNCHANGED <<twitch, live, kick, kickLive>>

ChangeKick(m) ==
  /\ kick' \in IF m = "off" THEN {"none"} ELSE KickStarted(kick, m)
  /\ kickLive' = (kickLive /\ kick = "active" /\ kick' = "active")
  /\ UNCHANGED <<youtube, twitch, live>>

ApplyLiveChange(p, was, m) ==
  IF (was = "off") = (m = "off") THEN UNCHANGED <<youtube, twitch, kick, kickLive, live>>
  ELSE CASE p = "twitch" -> ChangeTwitch(m)
         [] p = "youtube" -> ChangeYouTube(m)
         [] p = "kick" -> ChangeKick(m)

\* The coalesced part of the selector's handler.
ApplyChange(p) ==
  /\ applied[p] # "none"
  /\ applied' = [applied EXCEPT ![p] = "none"]
  /\ IF live THEN ApplyLiveChange(p, applied[p], mode[p])
     ELSE UNCHANGED <<youtube, twitch, kick, kickLive, live>>
  /\ UNCHANGED <<mode, held, button>>

-----------------------------------------------------------------------------
(* The Go Live button *)

StopBranch ==
  live \/ StreamingActive(twitch) \/ kickLive \/ \E s \in Slot : youtube.out[s] = "active"

\* The stop branch; a stop of Twitch may be declined.
StopShow ==
  /\ live' = FALSE
  /\ youtube' \in Stopped(youtube)
  /\ kick' = "none" /\ kickLive' = FALSE
  /\ IF Pending(twitch) THEN twitch' = StopStreaming(twitch)
     ELSE IF StreamingActive(twitch) THEN \E o \in StreamAction(twitch) : twitch' = o.twitch
     ELSE UNCHANGED twitch
  /\ UNCHANGED <<selection, held, confirming, deferred, anyLive>>

Selected == {p \in Provider : mode[p] # "off"}

\* Fault: Twitch is among the outputs that follow Twitch.
TwitchDeferred(t) == [attempt |-> t.attempt, others |-> Selected,
                      after |-> IF "twitch" \notin Selected THEN "timer" ELSE "started"]

Deferral(t) == [attempt |-> t.attempt, others |-> Selected \ {"twitch"},
                after |-> IF "twitch" \notin Selected THEN "timer"
                          ELSE IF StreamingActive(t) THEN "timerTwitch" ELSE "started"]

\* The rest of the start branch, with YouTube prepared: Twitch first.
StartShow(y) ==
  /\ held' = [p \in Provider |-> FALSE]
  /\ youtube' = y
  /\ IF "twitch" \notin Selected
     THEN live' = TRUE /\ UNCHANGED twitch /\ deferred' = deferred \union {Deferral(twitch)}
     ELSE \E ok \in TwitchRoutePrepared(mode["twitch"]) :
            IF ~ok THEN live' = TRUE /\ UNCHANGED <<twitch, deferred>>
            ELSE \E o \in StreamAction(twitch) :
                   /\ twitch' = o.twitch
                   /\ live' = (Pending(o.twitch) \/ StreamingActive(o.twitch))
                   /\ deferred' = IF live' THEN deferred \union {Deferral(o.twitch)} ELSE deferred
  /\ UNCHANGED <<selection, kick, kickLive, anyLive>>

\* The button looks at the first key only.
KeyReady(y) == mode["youtube"] = "off" \/ ("primary" \in y.keys /\ y.prepared = mode["youtube"])

\* YouTube is prepared before anything starts, and nothing starts if it fails.
PrepareShow ==
  \E y \in IF KeyReady(youtube) THEN {youtube} ELSE Prepared(youtube, mode["youtube"]) :
    \/ KeyReady(y) /\ StartShow(y)
    \/ /\ ~KeyReady(y) /\ youtube' = y
       /\ UNCHANGED <<selection, live, held, deferred, twitch, kick, kickLive, anyLive>>

PressStop == ~confirming /\ Settled /\ StopsBounded /\ StopBranch /\ StopShow

PressGoLive ==
  /\ ~confirming /\ Settled /\ ~StopBranch /\ Selected # {} /\ Bounded
  /\ confirming' = TRUE
  /\ UNCHANGED <<selection, live, held, deferred, youtube, twitch, kick, kickLive, anyLive>>

CancelGoLive ==
  /\ confirming /\ confirming' = FALSE
  /\ UNCHANGED <<selection, live, held, deferred, youtube, twitch, kick, kickLive, anyLive>>

ConfirmGoLive == confirming /\ confirming' = FALSE /\ PrepareShow

\* startOtherOutputs
StartOthers(d, t) ==
  IF \/ d.after # "timer" /\ t.attempt # d.attempt
     \/ ~live
  THEN UNCHANGED <<youtube, kick, kickLive>>
  ELSE /\ youtube' \in IF "youtube" \in d.others /\ ~held["youtube"]
                       THEN Started(youtube, mode["youtube"]) ELSE {youtube}
       /\ IF "kick" \in d.others /\ ~held["kick"]
          THEN /\ kick' \in KickStarted(kick, mode["kick"])
               /\ kickLive' = (kickLive /\ kick = "active")
          ELSE UNCHANGED <<kick, kickLive>>

DeferredTimer(d) ==
  /\ d \in deferred /\ d.after # "started" /\ Settled
  /\ deferred' = deferred \ {d}
  /\ StartOthers(d, twitch)
  /\ UNCHANGED <<selection, live, held, confirming, twitch, anyLive>>

\* The 1.5 s timer of a dual start.
SecondStart(g) ==
  /\ g \in youtube.timers /\ Settled
  /\ LET y == [youtube EXCEPT !.timers = @ \ {g}]
     IN youtube' \in IF /\ g = y.generation /\ y.prepared = "dual"
                        /\ y.out["second"] = "none" /\ y.out["primary"] = "active"
                     THEN {[y EXCEPT !.out["second"] = o] : o \in {"connecting", "failed"}}
                     ELSE {y}
  /\ UNCHANGED <<selection, live, held, button, twitch, kick, kickLive>>

-----------------------------------------------------------------------------
(* Twitch: the end of a preparation, and the stream's signals *)

SetupEnds ==
  /\ twitch.setup # 0
  /\ \E o \in FinishSetup(twitch) :
       twitch' = o.twitch /\ live' = SessionAfter(o.failed, youtube, kick)
  /\ UNCHANGED <<selection, held, button, youtube, kick, kickLive>>

Waiting == {d \in deferred : d.after = "started"}

\* StreamingStart; the deferred starts that wait for it run once, and at most one
\* of them belongs to this attempt.
StreamingStart ==
  /\ twitch.signals # <<>> /\ Head(twitch.signals) = "start"
  /\ twitch' = [twitch EXCEPT !.phase = "live", !.signals = Tail(@)]
  /\ deferred' = deferred \ Waiting
  /\ IF \E d \in Waiting : d.attempt = twitch.attempt
     THEN \E d \in Waiting : d.attempt = twitch.attempt /\ StartOthers(d, twitch)
     ELSE UNCHANGED <<youtube, kick, kickLive>>
  /\ UNCHANGED <<selection, live, held, confirming, anyLive>>

\* StreamingStop.  When an enhanced stream was refused it keeps the session and posts
\* a call of StartStreaming.
StreamingStop ==
  /\ twitch.signals # <<>> /\ Head(twitch.signals) \in {"stop", "refused"}
  /\ LET refused == Head(twitch.signals) = "refused"
     IN /\ twitch' = [twitch EXCEPT !.phase = "idle", !.attempt = @ + 1,
                                    !.signals = Tail(@) \o (IF refused THEN <<"restart">> ELSE <<>>)]
        /\ live' = SessionAfter(~refused, youtube, kick)
  /\ UNCHANGED <<selection, held, button, youtube, kick, kickLive>>

StreamingRestart ==
  /\ twitch.signals # <<>> /\ Head(twitch.signals) = "restart"
  /\ \E o \in StartStreaming([twitch EXCEPT !.signals = Tail(@)]) :
       twitch' = o.twitch /\ live' = SessionAfter(o.failed, youtube, kick)
  /\ UNCHANGED <<selection, held, button, youtube, kick, kickLive>>

-----------------------------------------------------------------------------
(* Lumia's requests for one destination, and the shell's cached state *)

LumiaStop(p) ==
  /\ p \in Controlled /\ Bounded
  /\ held' = [held EXCEPT ![p] = TRUE]
  /\ CASE p = "twitch" -> twitch' = StopStreaming(twitch) /\ UNCHANGED <<youtube, kick, kickLive>>
       [] p = "youtube" -> youtube' \in Stopped(youtube) /\ UNCHANGED <<twitch, kick, kickLive>>
       [] p = "kick" -> kick' = "none" /\ kickLive' = FALSE /\ UNCHANGED <<youtube, twitch>>
  /\ UNCHANGED <<selection, live, button>>

Busy(p, y, t, k) == CASE p = "twitch" -> StreamingActive(t)
                      [] p = "youtube" -> y.out["primary"] = "active"
                      [] p = "kick" -> k = "active"

LumiaStart(p) ==
  /\ p \in Controlled /\ Bounded
  /\ held' = [held EXCEPT ![p] = FALSE]
  /\ IF Busy(p, youtube, twitch, kick) \/ (p = "twitch" /\ Pending(twitch)) \/ mode[p] = "off"
     THEN UNCHANGED <<live, youtube, twitch, kick, kickLive>>
     ELSE \E y \in IF p = "youtube" THEN PrepareAndStart(youtube, mode[p]) ELSE {youtube},
             o \in IF p = "twitch" THEN StreamAction(twitch) ELSE {Outcome(twitch, FALSE)},
             k \in IF p = "kick" THEN KickStarted(kick, mode[p]) ELSE {kick} :
            /\ youtube' = y /\ twitch' = o.twitch /\ kick' = k
            /\ kickLive' = (kickLive /\ k = kick)
            /\ live' = \/ Busy(p, y, o.twitch, k) \/ (p = "twitch" /\ Pending(o.twitch))
                       \/ SessionAfter(o.failed, y, k)
  /\ UNCHANGED <<selection, button>>

\* POST /lumia/go-live: the button without the confirmation, also while one is open.
LumiaGoLive ==
  /\ Controlled # {} /\ ~anyLive /\ Bounded
  /\ IF StopBranch THEN StopShow
     ELSE Selected # {} /\ PrepareShow /\ UNCHANGED confirming

\* POST /lumia/end-stream: whatever is on, in a show or not.
LumiaEndShow ==
  /\ Controlled # {} /\ StopsBounded
  /\ live' = FALSE /\ held' = [p \in Provider |-> TRUE]
  /\ twitch' = StopStreaming(twitch) /\ youtube' \in Stopped(youtube)
  /\ kick' = "none" /\ kickLive' = FALSE
  /\ UNCHANGED <<selection, button>>

\* UpdatePulseWeaverShell, by the status timer.
RefreshShell ==
  /\ Controlled # {} /\ Settled
  /\ anyLive' = (OthersActive(youtube, IF kickLive THEN "active" ELSE "none")
                   \/ StreamingActive(twitch))
  /\ UNCHANGED <<selection, live, held, confirming, deferred, youtube, twitch, kick, kickLive>>

-----------------------------------------------------------------------------
(* Environment: outputs connect and fail, YouTube starts and stops broadcasts *)

EnvFrame == UNCHANGED <<selection, live, held, button>>

NextOutput(o) == CASE o = "connecting" -> {"active", "failed"}
                   [] o = "active" -> {"failed"}
                   [] OTHER -> {}

YouTubeChanges(s) ==
  /\ \E o \in NextOutput(youtube.out[s]) : youtube' = [youtube EXCEPT !.out[s] = o]
  /\ EnvFrame /\ UNCHANGED <<twitch, kick, kickLive>>

\* Auto-start when a stream's picture arrives, auto-stop some time after it ends.
BroadcastMoves(b) ==
  /\ \/ /\ youtube.status[b] = "ready"
        /\ \E s \in Slot : /\ youtube.out[s] = "active"
                           /\ youtube.bound[RouteOf(s, youtube.prepared)] = b
        /\ youtube' = [youtube EXCEPT !.status[b] = "live"]
     \/ /\ youtube.status[b] = "live" /\ youtube.out = NoYouTube.out
        /\ youtube' = [youtube EXCEPT !.status[b] = "complete"]
  /\ EnvFrame /\ UNCHANGED <<twitch, kick, kickLive>>

TwitchMoves ==
  /\ \/ /\ twitch.stream = "connecting"
        /\ twitch' = [twitch EXCEPT !.stream = "active", !.signals = Append(@, "start")]
     \/ /\ twitch.stream # "none"
        /\ twitch' = [twitch EXCEPT !.stream = "none", !.signals = Append(@, "stop")]
     \/ /\ twitch.stream = "active" /\ twitch.attempt < MaxAttempts
        /\ twitch' = [twitch EXCEPT !.stream = "none", !.signals = Append(@, "refused")]
  /\ EnvFrame /\ UNCHANGED <<youtube, kick, kickLive>>

KickMoves ==
  /\ \/ kick' \in NextOutput(kick) /\ UNCHANGED kickLive
     \/ kickLive # (kick = "active") /\ kickLive' = (kick = "active") /\ UNCHANGED kick
  /\ EnvFrame /\ UNCHANGED <<youtube, twitch>>

-----------------------------------------------------------------------------
Next ==
  \/ \E p \in Provider : \/ \E m \in Modes(p) : SelectMode(p, m)
                         \/ ApplyChange(p) \/ LumiaStop(p) \/ LumiaStart(p)
  \/ PressStop \/ PressGoLive \/ CancelGoLive \/ ConfirmGoLive
  \/ \E d \in deferred : DeferredTimer(d)
  \/ \E g \in youtube.timers : SecondStart(g)
  \/ SetupEnds \/ StreamingStart \/ StreamingStop \/ StreamingRestart
  \/ LumiaGoLive \/ LumiaEndShow \/ RefreshShell
  \/ \E s \in Slot : YouTubeChanges(s)
  \/ \E b \in Broadcast : BroadcastMoves(b)
  \/ TwitchMoves \/ KickMoves

Spec == Init /\ [][Next]_vars

-----------------------------------------------------------------------------
(* Properties *)

YouTubeState ==
  [prepared: Mode \union {"none"}, keys: SUBSET Slot, ids: [Slot -> 0 .. MaxBroadcasts],
   chats: [Route -> 0 .. MaxBroadcasts], out: [Slot -> Output], generation: Nat,
   timers: SUBSET Nat, made: 0 .. MaxBroadcasts,
   status: [Broadcast -> {"none", "ready", "live", "complete", "deleted"}],
   bound: [Route -> 0 .. MaxBroadcasts]]

TwitchState ==
  [phase: {"idle", "preparing", "connecting", "live", "failed"}, attempt: Nat, setup: Nat,
   stream: {"none", "connecting", "active", "stopping", "cancelling"},
   signals: Seq({"start", "stop", "refused", "restart"})]

DeferredStart == [attempt: Nat, others: SUBSET {"youtube", "kick"},
                  after: {"timer", "timerTwitch", "started"}]

TypeOK ==
  /\ mode \in [Provider -> Mode] /\ applied \in [Provider -> Mode \union {"none"}]
  /\ live \in BOOLEAN /\ held \in [Provider -> BOOLEAN] /\ confirming \in BOOLEAN
  /\ deferred \subseteq DeferredStart
  /\ youtube \in YouTubeState /\ twitch \in TwitchState
  /\ kick \in Output /\ kickLive \in BOOLEAN /\ anyLive \in BOOLEAN

\* The comment at line 6754: a broadcast is never abandoned in Upcoming.  As long as
\* YouTube keeps an unfinished broadcast, the program has the id it needs to finish
\* it, whichever request of a preparation or clean-up fails.  (The answer to an insert
\* is not lost here: see the README.)
NoBroadcastAbandoned ==
  \A b \in Broadcast : youtube.status[b] \in {"ready", "live"} => \E s \in Slot : youtube.ids[s] = b

Starts(s) == youtube.out[s] = "none" /\ youtube'.out[s] # "none"

\* An output that starts feeds the broadcast made for it, which has not been finished,
\* and the chat of that broadcast has a session (the comment at line 6873).
StartsItsBroadcast ==
  [][\A s \in Slot : Starts(s) =>
       LET r == RouteOf(s, youtube'.prepared)
           b == youtube'.bound[r]
       IN b # 0 /\ youtube'.status[b] = "ready" /\ youtube'.ids[s] = b /\ youtube'.chats[r] = b]_vars

\* While YouTube's outputs exist, the selector shows their format or Off: the format of
\* a show on air is changed neither by the selector nor by a start that was put off.
FormatMatches ==
  ~NoOutputs(youtube) => mode["youtube"] \in {"off", youtube.prepared}

\* The comment at line 2556: an Off destination uses no video resources.  Once a change
\* to Off has been applied, the destination has no output.
OffMeansStopped ==
  /\ mode["youtube"] = "off" /\ applied["youtube"] = "none" => NoOutputs(youtube)
  /\ mode["kick"] = "off" /\ applied["kick"] = "none" => kick = "none"

TwitchStarts == ~Pending(twitch) /\ Pending(twitch')

\* Once the show has ended no timer, signal or late preparation starts an output, those of
\* Twitch included, and no handler but that of Lumia's request for one destination.  Exempt
\* are the second half of a dual show whose first half is on air, and the restart of a
\* refused Twitch stream, of which TwitchStaysStopped tells.
StoppedStaysStopped ==
  [][~live /\ ~live' /\ (\A p \in Provider : ~LumiaStart(p)) =>
       /\ Starts("primary") \/ Starts("second") => youtube.out["primary"] = "active"
       /\ ~(kick = "none" /\ kick' # "none")
       /\ TwitchStarts => StreamingRestart]_vars

\* CONTROL_API.md: ending the show stops every output.  Once Lumia has stopped Twitch, its
\* stream is not connected again until Lumia, the button or the selector asks for it.  The
\* code does not keep it: see the README.
TwitchStaysStopped ==
  [][held["twitch"] /\ held'["twitch"] /\ ~ApplyChange("twitch")
       => ~(twitch.stream = "none" /\ twitch'.stream = "connecting")]_vars

\* CONTROL_API.md: a go-live request runs the Go Live flow; it never ends a show.  The
\* code does not keep it: see the README.
GoLiveRequestStarts == [][LumiaGoLive => ~(live /\ ~live')]_vars

=============================================================================
