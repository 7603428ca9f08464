# Pulse Weaver Studio in TLA+

Pulse Weaver Studio is a streaming studio built on a copy of OBS Studio. Most of the
repository is vendored OBS; the product's own code is about 43,000 lines, mainly
`frontend/widgets/OBSBasic_PulseWeaver.cpp` (called P below), `plugins/pulse-weaver-core`
(`pulse-weaver-core.cpp` is called core), `plugins/altron-teleport` and the headers in
`shared/qt`, all under `src/engine/obs-studio`, and the installer in `src/packaging`. This
directory models its concurrent and stateful core: the YouTube chat, the start and stop of a
show on three destinations, the audio routing and the pictures of Stages, the Twitch runtime,
the overlay runtime with its store, and the installer. Each is checked by TLC on small
instances; the invariants named below are proved with TLAPS for every value of the
constants.

## 1. Inventory

| Component | State it keeps | Operations | What makes it correct |
|---|---|---|---|
| YouTube live chat (P 154-174, 7029-7042, 7162-7592; `PulseYouTubeChatSessions.hpp`) | a session per route, message queue, send flag, generation, cancellation epoch, worker count | poll timer, message, lookup, reader, sender, moderation, preparation, stop | each chat gets the messages in order, none twice; verdicts are true; a reader or lookup per route at most; cancelled work never outlives its cancellation; no message stays for ever |
| Show start and stop (P 2480-3004, 6413-6881, 7029-7104; `OBSBasic_Streaming.cpp`; `PulseTwitchStart.hpp`) | selectors and changes not applied yet, session flag, deferred starts, outputs, keys, broadcast ids, Twitch attempt, Kick output | selector, Go Live, Lumia's requests, timers, stream signals | no broadcast is abandoned; an output feeds its own broadcast; Off and stop are final; the formats agree |
| Kick runtime (core 1336-2296) | login, relay, output, chat | start, stop, delayed live notice, refresh, messages | a late callback does not revive a stopped output; one refresh at a time |
| YouTube API wrapper | tokens, quota pause | requests, refresh, finishing a broadcast | a request is repeated at most once after a refresh |
| Control API for Lumia (core 4700-5277) | request queue, held destinations, cached live flag | status, start, stop, go-live, end-stream | a request does what the document says, whenever it arrives |
| Stage audio routing (P 5711-5838, 3440-3458, 3671-3732) | mask per source, remembered masks, owned mixes, a mix per route, the mix of each encoder | apply a Stage, restore, save, edit tracks, start and stop outputs | each destination hears its programme, the operator's tracks survive, the VOD track is untouched |
| Stage selection, transitions (P 5471-5709; `OBSBasic_Transitions.cpp`) | transition serial, pending routes, private canvases, encoders' canvases | activate, finalize, selectors, outputs | only the newest transition finishes, and it does; destinations show their Stage; an output on air keeps its canvas |
| Stage storage (P 355-481) | stages file | load, save | a torn file is not loaded |
| Shell, recordings, preview, keypad, quota | widgets, output handles | start/stop/split of recordings, layout | outputs are released before shutdown |
| Twitch runtime (core 322-1334) | tokens, `authGeneration`, EventSub sockets and their threads, timers | login, refresh, reconnect, hand-over, watchdog, send | a reply to an older login changes nothing; chat comes back; the saved login works; no message twice |
| Overlay runtime, alerts (`pulse-overlay-runtime.cpp`, `-alerts.cpp`, `-renderer.cpp`) | the published document, the lane of alerts, event streams, pages | raise, expire, skip, pause, mute, publish, connect, read | an alert sounds once; the queue never stands still |
| Overlay store, migration (`pulse-overlay-store.cpp`) | drafts, revisions, file | load, save, publish | a save is all or nothing; a file that cannot be read is not written over |
| Motion engine | running moves and effects | trigger, cancel, restore | a cancelled effect restores its source |
| Show builder, setup wizard | plan | build, roll back | a failed build leaves nothing behind |
| LAN scanner, Discord, chat protocol helpers, chat helper process | small queues | scan, send, parse | bounded work |
| Altron Teleport, media cache | transition state, frames | start, stop, decode ahead | a transition ends; the cache is not freed in use |
| Installer (`Program.cs`, `Recovery.cs`, `ProfileAdoption.cs`) | install folder, work folder with journal, backups, stage | install, restore, adopt, back up, recover, uninstall | an operation takes effect at once or not at all; settings are never lost |
| Updater | staged download | download, verify, hand over | only a verified installer runs |
| OBS (vendored) | outputs, encoders, event loop | - | taken from how the product uses it |

How they meet: everything named "handler" runs on Qt's UI thread, one after another.
Detached worker threads make the YouTube requests and post their results to that thread
as queued events; `waitUntilIdle` blocks the UI thread until they have left. Timers (the
selectors' zero timer, 50 ms and 1.5 s deferred starts, the 1 s poll) and the signals of
OBS outputs arrive as events too. Lumia's requests come in through the plugin's HTTP server and
are executed on the UI thread by properties and invoked methods. The Twitch runtime has a thread
per EventSub socket, which posts messages to the UI thread; overlay pages are browser
sources that talk HTTP to the runtime, on the UI thread too. The installer is a process of
its own that shares the install folder with the running app.

The hard behaviours are orders of these events that nobody sat down to test: a completion
that belongs to an earlier show, a start that was deferred past a stop, a clean-up of which
one request fails, a cached flag read by a handler that then acts on newer state.
`PROJECT.json` lists them as hazards, each at its line, with the properties that would
show it going wrong.

## 2. Modules

| Module | Models |
|---|---|
| `YouTubeChat` | the handlers, workers and queue of YouTube chat |
| `ChatOutbox` | the abstract promise of the composer to its operator |
| `GoLive` | starting and stopping a show on Twitch, YouTube and Kick |
| `StageAudio` | audio mixes: Stages, selectors, outputs, edits, saving and reloading |
| `StagePictures` | what programme, vertical canvas and destinations show: Stages, transitions, private canvases |
| `TwitchChat` | the Twitch runtime: login, refresh, EventSub, sending |
| `OverlayStore`, `OverlayShelf` | the overlays' file with drafts and revisions; the shelf it implements |
| `OverlayAlerts` | the lane of alerts of an overlay, its event streams and pages |
| `Overlay` | store and alerts composed as in the overlay runtime |
| `Installer`, `InstallFolder` | the installer's journaled swap; the atomic folder it implements |
| `OverlayDocuments`, `InstallTree` | constants and data shared by these |
| `MC...` | the small instances for TLC |
| `...Proofs` | theorems and their proofs |

### YouTubeChat

One action per UI handler and per step of a worker. The state is the code's: `routes` and
`session` are the keys and values of `pulseYouTubeChatSessions`, `queue`, `sequence`,
`sending`, `generation` and `epoch` have the members of the same names, `workers` is what
the barrier counts, `events` are the completions posted and not yet taken. A handler that
calls `waitUntilIdle` is two actions with `ui` telling which wait is on (`Prepare` and
`FinishPrepare`, `BeginStop` and `FinishStop`, `PollCancel` and `PollResume`); while it
waits no other handler runs. `Flush` is an operator that every handler that flushes uses
within its own step, with the sessions, queue and workers it has reached by then.

Abstractions. Times are flags: `due`, `lookDue`, `waiting` and `aged` say whether a delay
has passed, and an environment action may flip them at any moment, so every order of the
time-outs is included. A message is its number; a route's chat is the sequence of numbers
it received. A request is its outcome. The quota pause is `blocked`. Failure counts end at
`FailureLimit`, which stands both for the 5 failures that suspend a reader and for the cap
of the back-off counter. The queue is a set, as ids only grow.
`arrived` and `told` are history variables.

### ChatOutbox

What the chat promises, without workers, routes' states or retries: the operator sends
messages in order, chats receive a subsequence of them in the same order, and each message
gets one verdict, true when given and true ever after. `YouTubeChat` is shown to implement
it with the identity on `arrived` and `told` (`ImplementsOutbox`).

### GoLive

`youtube` is a record of the outputs, keys, `pulseYouTubePreparedMode`, broadcast ids, the
generation and its pending timers, with YouTube's side of it: each broadcast's status
and what a route's stream is bound to. `twitch` has the phase and attempt of
`PulseTwitch::StartState`, the OBS output, the thread that prepares a stream, and
the signals posted to the UI thread. The Qt properties `pulseWeaverGoLiveSession`,
`pulseWeaverLumiaStop_...`, `pulseWeaverKickLive` and `pulseWeaverAnyLive` are `live`, `held`,
`kickLive` and `anyLive`. `deferred` holds the closures `startOtherOutputs`, each with what
it captured. A handler that calls YouTube several times is described by the set of states
it may leave behind: `Finish`, `PrepareRoute`, `Discard`, `Prepared`, `Started`, `Stopped`
return sets, and a failed request may or may not have been carried out.

Assumptions. Accounts are connected and no stream delay is set. The reply to an insert is
not lost (see section 6). A zero timer runs before later timers and input (`Settled`), as
in Qt's event loop; only posted events and further selections may come before it. A modal
dialog opened by Twitch's handlers is an answer within the handler: events that
run beneath such a dialog are not modelled, except beneath the Go Live confirmation
(`confirming`). Recordings are left out. Two deferred starts that captured the same (after a stop
and a new start within 50 ms) count as one, which runs once.

### StageAudio

`Plan` is the pure part of `ConfigurePulseWeaverAudioRouting`: for a Stage and the
selectors, which mixes the Stage owns, which sources it keeps out of each, and the mix of
each route. `Underlying`, `Masked` and `Configure` are the part that changes sources. `output`
and `encoder` are the outputs, connecting, active or failed, and the mix each encoder was made with.
A dual YouTube show makes its second encoder in `SecondStart`, 1.5 s after the first, with
the mix its route has by then (P 6851-6865); no Stage is applied there. An output that is
connecting does not keep the operator from saving audio settings (`NothingActive`).
`chosen` is a history variable: the tracks the operator ticked. Editing a track that a Stage
owns counts as temporary, as the code treats it.

The profile (`StreamMix`, `Protected`) is constant in a run, sources exist from the start
and begin in every mix (libobs's default). Kick offers only Off and 16:9, so its 9:16 route is left
out. A selector's change and its zero timer are one step. `Spec` is one session after
another with a proper shutdown; `ReloadSpec` adds OBS's own saves at any moment, crashes,
and leaving the scene collection and coming back.

### StagePictures

`screen` is what the programme and the vertical canvas show, `private` what each
`pulseOutputCanvases` entry shows, with whether it is shown by a transition source and
whether that is still moving. `timers` are the 50 ms finalizers that wait, each with its
serial and what it captured; `output` has the canvas each encoder is bound to. `Apply` is
the whole of `ApplyPulseWeaverStage`; `Finalize` re-arms itself while a transition moves.
`Modes` gives the formats a provider offers; a provider in `Instant` (a recording) is active as
soon as it starts. The first provider's scene, where the code iterates providers in order, is
a CHOOSE. Missing scenes and canvases or transitions that cannot be created are left out;
Kick's delayed live notice, which releases its canvas later, is `GoLive`'s subject.

### TwitchChat

`app` holds the members of `TwitchRuntime`, `twitch` what Twitch has granted to each
login, `posts` the calls queued by socket threads. Generations are compared for equality
only, so a request carries whether its generation has passed, and one that can no longer
do anything is removed. Refresh tokens work once (Twitch's rule for public
clients), so `Grant.n` counts them. A request is served and answered in two steps: it may be
acted on and its reply lost. `Message` are the socket messages that change state; keepalives are
implicit, and the watchdog fires when no thread can bring one. Only the message whose sending
met a 401 is followed among the refresh's waiters. Linux's branch of the socket
does not exist: the build is for Windows (WinHTTP).

### OverlayStore, OverlayShelf, OverlayAlerts, Overlay

`OverlayStore` has the file, the root in memory and the mode the last load led to. A write has three
outcomes: committed, failed, or written but not verified. A revision is its number and document.
`OverlayShelf` is the promise: every save and publication is one step of a shelf of drafts and live
documents. `OverlayAlerts` has the lane (`AlertLane`), the server's list of streams and each page
with what it has not read. Of a page only the sound is followed. The calls of `QTimer::singleShot`
to `startNext` are counted up to `MaxStarts`, beyond which they are alike. `Overlay` composes them:
publishing and ending the program act on both.

### InstallTree, InstallFolder, Installer

A tree maps the top-level names of the install folder to app files of a version or settings.
`Installer` has an action per step of setup between which a crash can be told: backup, staging,
opening the work folder, the journal, each move, commit, undo, keeping. The app may be started, save
and end at any moment. `InstallFolder` is the promise: an operation replaces the folder at once or
not at all, and entries disappear only while an uninstall is under way (`leaving`). The mapping
`Installation` is the folder as recovery would leave it; settings that the app first saves just
before the journal is written, which does not list them, do not count until recovery has kept them
(`Unlisted`). An uninstall is under way from `Uninstall` to `RemoveFolder`, and as long as setup's
work folder holds what the removal did not find (`Leaving`). `RemoveFolder` is cmd's `rmdir`, some
seconds after the uninstaller has ended: it takes no lock, runs beside the app and other operations,
and may leave behind what is in use. The promise ends when it does (`ruined`): what recovery or a
later installation makes of half a folder is not claimed. Registry and shortcuts are left out, and
legacy migration counts as a change of the staged settings.

## 3. Runs

Standing runs; each finishes within three minutes on two cores.

| Run | Instance | Shows |
|---|---|---|
| `chat_send` | dual, 2 messages, requests that fail, expiry, 1 show | at most one sender and the send flag covers it; nothing cancelled is still running when the UI thread is free; the queue implements `ChatOutbox` |
| `chat_shows` | 9:16, 2 shows, no message, moderation or quota pause, threads that do not start | types; readers and lookups are neither lost nor doubled by cancelling and by late results |
| `chat_live` | dual, 1 message, fairness | a message that never leaves the queue is explained by outputs that stay down or by a cancelled send; the UI thread always comes back |
| `show_youtube` | YouTube in all formats, Kick, every request may fail; 3 broadcasts, 4 starts | no broadcast abandoned; Off means no output; formats agree; an output feeds its own broadcast |
| `show_lumia` | dual Twitch, horizontal YouTube, Kick, Lumia operating all; 2 broadcasts, 2 starts | types; nothing of YouTube, Kick or Twitch starts after the show has ended (exemptions: section 5) |
| `audio_stage` | 2 sources, 4 mixes of which 2 protected, 2 Stages, 2 settings of the selectors, 1 edit | types; membership kept; destinations hear what they should; recordings, and what Lumia's request itself starts, begin isolated |
| `audio_reload` | the same with mixes 0 and 3 protected, 3 Stages, crashes and other collections | the VOD and recording tracks stay as configured |
| `stage_pictures` | a stream and a recording, 2 scenes, 3 Stages (fade and stinger, exclusions, no portrait scene), 3 applications, 1 switch by hand, 1 start | types; destinations show the newest Stage; settled canvases show scenes directly; outputs on air keep their canvas; a pending transition ends |
| `twitch_chat` | 2 logins, 1 act of the operator, 2 incidents (failed requests, broken sockets, expiry, revocation, restart) | older logins change nothing; connections are accounted for and none is forgotten; the composer frees; no message twice; the saved login works; chat comes back |
| `overlay` | 1 overlay with 2 documents and 2 revisions, 2 pages, 2 alerts, 1 incident | the store implements the shelf, drafts can be published, unreadable files are kept; one page sounds; alerts are not forgotten and drain |
| `install` | 2 versions, 2 app folders, 1 save, 2 languages, 2 operations, 1 crash | types; settings saved since the last uninstall are never destroyed; setup implements the atomic folder |
| `install_blocked` | the same | violation: section 6 |

Why the bounds are enough. The chat's queue logic compares a message with earlier ones and a route
with the other: two messages and two routes give every such pair, and one message of each kind of
ending covers the verdicts. `QueueLimit` keeps the code's 10; its refusal is not reached with so few
messages. `LookupLimit` is 1 (3 in the code) and `FailureLimit` 1 or 2 (5), so both limits are
reached; a route's second lookup is left to the theorem `LookupsHold`, which has any limit. Two
shows let results of the first arrive in the second. In `GoLive` a hazard needs a stop between a
start and its deferred part, or a failed clean-up between two preparations: two to four starts and
three broadcasts (a dual show and one more) suffice, and every start can also be stopped, one beyond
the bound. In `StageAudio` three routes with three different exclusions share one or two free mixes,
so that mixes run out and `warned` is not empty; `{0, 3}` protected makes the highest mix a VOD
track, which the code's search would take first. `CHECK_DEADLOCK FALSE` stands where the bounded
environment may have nothing left to do: an idle studio.

In `stage_pictures` three applications make one finalizer outdated while another waits and a
third re-arms; a stream and a recording give an output that connects and one that does
not. `twitch_chat` needs two logins for a late reply of the first, and two incidents for one to hit
the recovery from the other; with two acts and two incidents the safety properties hold too.
In `overlay` two alerts with room for one make the queue full, and `StreamLimit` 2 makes it
full of dead streams; the alert that the strict document does not accept is passed over. In `install`
two operations and a crash let a later one recover an earlier one's journal.

Fairness (`chat_live`). Weak fairness of the handlers that take posted
results (Qt's loop), of the poll while its timer runs (1 s, restarted by every send and
start), of a blocked handler's continuation, of threads being scheduled, of requests
returning (each has a time-out), of a cancelled reader leaving (it looks at the epoch in its
read loop), and of time. Nothing obliges the operator, the outputs, the chat helper or the
quota. `stage_pictures`: timers fire and transitions end. `twitch_chat`: timers fire, queued
calls run, requests are answered or reach their 10 s timeout, threads connect or fail; the incidents
are bounded, so "when trouble ends" is every behaviour's end. `overlay`: the timer of an
alert and delayed calls fire.

Each property has a mutant in `PROJECT.json`: a plausible fault of the code, written beside
the definition it would replace under "Fault", with which TLC finds the property violated.

## 4. Proofs

All proofs go through with Z3, Zenon and LS4; the constants are arbitrary within the
modules' named assumptions.

* `YouTubeChatProofs!TypeCorrect`: `Spec => []TypeOK`. Besides types this is where the
  failure and lookup counters are bounded and every posted completion names a route.
* `YouTubeChatProofs!NoCancelledWorker`: `Spec => []NoCancelledWorkerWhenIdle`. The epoch
  changes in four handlers. Three of them leave the UI thread waiting, and it goes on only
  when no worker is left; the fourth (`PollOff`) does not wait. The invariant is
  strengthened by what makes that safe: with all outputs gone and the selector Off, the
  last wait has already drained the workers, and no handler starts one while the routes are
  empty. The induction is over that conjunction, `Core`.
* `ChatAccountProofs!AtMostOneSender`, `ReadersHold`, `LookupsHold`: `Spec => []OneSender`,
  `[]ReadersAccounted` and `[]LookupsAccounted`, whatever threads fail to start, replies are
  lost and results arrive late. The invariant is `IInv`: `Core` and the three accounts
  together. They need `Core` at two places: a worker that leaves without posting a result
  must belong to a cancelled show (otherwise its flag would stay set), and a handler that
  has waited starts from `NothingLeft`. `Moves` names what all workers' steps have in
  common, `TakeAccounts` what every completion does, `FlushAccounts` and `PollAccounts`
  what the two starters of workers do.
* `ChatAccountProofs!QueueIsOutbox`: `Spec => ImplementsOutbox`, the refinement itself, for any
  number of messages and routes, with the hypothesis that no reply is lost (`"lost" \notin Replies`;
  with one the queue does send twice, section 5). The invariant is `LInv`: `IInv` and a `Book` of
  what arrives. What has arrived of a queued message is credited to it, or is in the hands of the
  one sender or of its completion (`Credits`); a sender's message has no verdict, is newer than all
  its targets have, and no earlier one is owed to them (`Fit`, `InTurn`); numbers are given and
  reported in their order (`Numbered`); a cancellation gives epoch and generation a new value
  together, so that a late sender's completion credits nothing (`Lockstep`, `Covered`, `Closing`).
  `FlushLedger`, the start of a send, is the core. `OrderHolds` and `VerdictsHold` prove that the
  abstract queue's promise means order, no duplicates and true, final verdicts; `ChatKeepsOrder`
  carries the first of them over to the code's queue.
* `StageAudioProofs!TypeCorrect`: for `ReloadSpec`, so also with crashes. `PlanTyped` shows that a
  plan never owns a recording or VOD mix and gives every route an existing mix.
* `StageAudioProofs!MembershipIsKept`: `Spec => []MembershipKept`, whatever the Stages,
  sources and number of mixes. The invariant alone is not inductive: an edit on an owned mix of a
  source that is not remembered would be taken for the operator's. `Remembered` adds that
  every source is remembered while a Stage owns mixes. `ConfigureKeeps` is the core: applying a plan
  leaves `Underlying` unchanged because `Masked` differs from it on owned mixes only.
* `StageAudioProofs!VodStaysConfigured`: `ReloadSpec => []VodAsConfigured`. `Untouched` adds
  that owned mixes are never VOD mixes, and that the masks on disk agree with the operator's
  choice at that time on those tracks.
* `StageAudioProofs!RoutesHearTheProgramme`, `StartsIsolated`: `Spec => RoutesHear`, `Spec =>
  StartIsolated`, both from `Remembered`, with any number of free mixes, for the routes that are not
  warned about. A mix that a Stage owns carries the programme without what is barred from it
  (`OwnedMixHears`); the crux is `SharedMix`, that routes with different exclusions never get the
  same mix: the turns of two first routes are cardinalities of sets one of which strictly contains
  the other. A recording, and the output of Lumia's request, starts without the excluded sources
  because its encoder is made after the Stage was applied (`OpenedIsolated`); the second half of a
  dual start, which is not, is outside the statement.
* `GoLiveProofs!TypeCorrect`, `BroadcastsAreKnown`, `FormatStays`, `StoppedIsStopped`: the runs have
  `NoBroadcastAbandoned` and `FormatMatches` without Twitch and Lumia, the theorems with every
  choice of modes and operators. Each function of YouTube's state has a lemma that says what every
  state it may leave behind satisfies (`FinishGood`, `RouteGood`, `PreparedGood`, `StartedGood`);
  `Good` is the invariant, types and known ids. The crux is `RouteGood`: a new broadcast's id may
  overwrite a slot only because `Discard` has succeeded and left the slot empty. `Moved` says that a
  step leaves no outputs, keeps a running format or takes the selector's. For `StoppedIsStopped` the
  functions of Twitch are followed too: a preparation connects only while it is of the current
  attempt, and only `StartStreaming`, reached from a handler that has asked for the session or from
  the restart of a refused stream, begins one.
* `StagePicturesProofs!CanvasesFollow`, `NothingLeftBehind`, `OnAirKeepsCanvas`, `TypeCorrect`: for
  any number of finalizers that wait. `Waiting` is the strengthening: the finalizer whose serial is
  the newest carries the current Stage, the portrait scene asked for, and every canvas that may
  still be in transition. Older ones are harmless because their serial is smaller. `CanvasesFollow`
  assumes that OBS is not in Studio Mode (section 5), the others do not. `Bound` adds that an
  encoder on a private canvas has one.
* `InstallerProofs!SettingsAreKept`, `VersionsNeverMix`, `TypeCorrect`: with a crash between any two
  moves. `Sound` ties the folders that exist to setup's place in the operation; `OutFree` says that
  what is still to be moved out is not yet in the previous folder, so a move never overwrites.
  `VersionsNeverMix` holds until an uninstall leaves a part behind; for it the folder as recovery
  would leave it must be followed through the swap: `Staging`, `Emptying`, `Filling` and `Undoing`
  say for each phase where every name's file is.
* `InstallerProofs!FolderIsAtomic`: `Spec => ImplementsFolder`, the refinement itself. `Plan` adds
  what the swap is for: what counts (`Counted`) is complete or empty of app files, unless the folder
  has been removed under an open journal (`Wholes`); what is being put in place is the chosen
  backup, or complete and not older (`Aim`); the journal lists the stage and the old settings, up to
  those the app saves meanwhile (`Listed`, `Marks`); and such settings are newer than every backup's
  (`Numbered`), which is why restoring may leave them in place. No move changes what counts
  (`MovesKeep`), so the swap takes effect in `Commit` alone; `CommitStep` maps it to an
  installation, a restoration or, under an uninstall, a removal. Keeping the work folder (`Keep`)
  maps to a saving of the settings that were saved meanwhile, to a removal of what an uninstall left
  in it, or to nothing. `RuinStays` covers the rest: once a part has been left behind, the abstract
  folder may do anything.
* `GoLiveProofs!OffIsStopped`: `Spec => []OffMeansStopped`, with the hypotheses that Twitch is never
  selected and that Lumia asks for nothing but Twitch. `OffInv`: there is no Twitch output, the
  others exist only in a show, and none exists that was Off before the change of the selector that
  waits for its zero timer (`Was`). `OutputsFeedTheirBroadcasts`: `Spec => StartsItsBroadcast`,
  without Twitch and without Lumia. `FeedInv`: YouTube has nothing prepared (`Blank`) or a broadcast
  of its own, bound and with its chat, for every slot of the prepared mode (`Fed`); outside a show,
  and when it was Off, it is `Blank`; and the question before a start is open only when nothing is
  live and every change is applied. Section 6 has what happens without the hypotheses.
* `TwitchChatProofs`, for any number of logins, sockets and acts: `NothingForgotten`,
  `NoLeakedSocket`, `ComposerIsFreed`, `SentOnce`, `SavedTokenCounts`, `SignedOutStays` and
  `TypeCorrect`. The invariant `IInv` has `Sane`: a thread is that of a connection in use, one each,
  a connection has a watchdog, a login and a user, and which requests may be stale or acted on;
  `Composer`: a blocked composer has one request on its way or waits for a refresh, and what waits
  is not in the chat; `Tokens`, `Unused` and `Works`: what a refresh carries is newer than every
  other token of its login, and a token that was replaced has a successor on its way or lost;
  `Looked`: while the chat is away the runtime is looking for it or has told the operator;
  `Silenced`: after signing out no reply does more than continue a device login. `SavedTokenCounts`,
  for one, is not inductive alone: the reply of an older refresh would overwrite a newer token.
* `OverlayProofs!StoreIsShelf`: the refinement itself, `Spec => ImplementsShelf`. `StoreKept` holds
  the types and `Steady`: ids of revisions differ, the live one exists and the newest has the draft;
  `Ahead` says that the file is at most one save or publication ahead of memory, which is what a
  save that was written and not verified leaves. `DraftsArePublishable` and `UnreadableStays` follow
  from the same invariant.
* `OverlayProofs!QueueAttended`, `AlertsSoundOnce`: with any number of alerts, pages and dead
  streams. `Attended` says that a queue with room to go on has a timer or a delayed call. `Singly`
  says that an alert that waits or is still to come sounds nowhere, any other at one page at most,
  and none waits twice.

Only model-checked: liveness (`UiComesBack`, `QueuedMessagesLeave`, `PendingClears`,
`ChatComesBack`, `AlertsDrain`: LS4 and the SMT backends do not handle fairness and ENABLED). Every
invariant and every action property of the runs is stated by a theorem. No module declares a
RECURSIVE operator.

## 5. What the passing properties exclude

`chat_send` is checked without lost replies: when YouTube posts a message and its answer is lost,
the code sends it again and the chat has it twice; without an idempotency key no client could avoid
that. `StoppedStaysStopped` is about steps from one state without a show to another. It exempts the
second half of a dual show whose first half is on air, what Lumia asks for one destination, and the
restart of a Twitch stream that was refused: that one the code does not call off ("restart" in
section 6), and it is the only way in which Twitch starts again. `QueuedMessagesLeave` exempts the
time in which all outputs are down, when the poll returns before the flush (P 7187), and a send that
a poll has cancelled ("held back" in section 6). `StartIsolated` is about recordings and what
Lumia's request makes in its own step; Go Live and the second half of a dual start, Lumia's
included, are not isolated by the code ("rebuilt" in section 6). `RoutesHear` exempts routes the
operator is warned about. `SettingsKept` claims nothing of settings saved before an uninstall, and
`ImplementsFolder` nothing once an uninstall has left a part of the folder behind. `show_youtube`
has no Twitch: with it, a failed clean-up between two formats leads to the disagreement "clean-up"
of section 6. `MembershipKept` is proved for `Spec`, without crashes and other collections: section
6 says what happens with them.

`stage_pictures` has `Studio = FALSE`: in Studio Mode a Stage selected while the programme is in
transition is not put on the programme (`OBSBasic_Transitions.cpp` 326-330), while its
portrait scene and copies are. `SavedLoginWorks` exempts a login in `spent`: a refresh whose
reply is lost, or dropped because a new device login was begun (core 1036), has used up its single-use
token. `ChatComesBack` accepts that the operator has been told: a failed subscription or device
login is not tried again by itself. `OneVoice` does not say that the alert is heard: one
sent to streams that are dead but still listed is lost, and so is an unmute that a page
missed while it was disconnected. `ImplementsShelf` lets a publication that could not be
verified (runtime 2006) take effect at the next start although it was reported as failed.
`ImplementsFolder` says nothing about the time an operation takes to be recovered: until
the operator runs setup again the app folder may be incomplete.

## 6. Disagreements

The standing violation run and the finding of `PROJECT.json`:

* `install_blocked` (`LeftoverIsRecoverable`): when setup is killed after it has made the
  recovery folder and before it has written the journal (`Recovery.cs` 227-228), the folder stays
  without a journal. No start of setup removes it, as there is nothing to recover
  (`Recovery.cs` 192), and every later operation is refused because it exists (218).

Further disagreements the models show, for which no run is kept. Each is found by TLC when
the property named here is put into the configuration described:

* Held back (`ReadyRouteIsServed`; `ChatLive.cfg` with `Replies = {"ok"}`): the
  poll's cancel branch (P 7178-7184) advances generation and epoch but
  leaves `pulseYouTubeChatSending` set. The completion of a send that was under way is
  dropped as late, and no message is sent until the show is stopped, against the comment at
  P 7407-7409.
* Clean-up (`StartsItsBroadcast`; `ShowYouTube.cfg` with `TwitchModes = {"horizontal"}`,
  `YouTubeModes = {"horizontal", "vertical"}`, `KickModes = {"off"}`, 3 starts): a failed
  clean-up in the preparation (P 6714-6720) keeps the keys and the prepared mode. When the
  operator goes back to the first format, Go Live skips the preparation (P 2961-2963) and streams
  to a broadcast that may have been deleted. With Twitch Off and `Controlled = {"twitch"}` a
  `/lumia/go-live` that arrives between a selection and its zero timer does the same: unlike the
  dialog it does not wait for the selection to be applied.
* Restart (`TwitchStaysStopped`; `ShowLumia.cfg` with `TwitchModes = {"dual"}`, YouTube and
  Kick off, `Controlled = {"twitch"}`, 1 broadcast, 3 starts): `restart_on_error`
  (`OBSBasic_Streaming.cpp` 360-366, 453-455) survives a stop that arrives before the queued
  signal; the stopped stream connects again. CONTROL_API.md:40 says of /lumia/end-stream "Stop
  every Pulse Weaver live output".
* Mixes (`RunningIsolated`; `AudioStage.cfg` with `MaxEdits = 0`): an encoder keeps its mix
  (P 6810-6811, 6945-6947) while a newly selected Stage moves the exclusions to others: a source
  the new Stage excludes stays audible on the running output, against
  docs/CUSTOM-OUTPUTS-AND-LOCAL-MODS.md:176.
* `InactiveRouteNotSent` (as "held back", with `Spec`): a message typed between an
  output's end and the next poll goes to the inactive route, as P 7435 reads `outputPaused`.
  The request audit (docs, 2026-09-29, line 29) says inactive routes cannot send.
* `OffMeansStopped` with Twitch (`TwitchModes = {"off", "horizontal"}`, `YouTubeModes = {"off",
  "horizontal"}`, no Kick, one broadcast): a failed Twitch setup ends the session while YouTube is
  still connecting, and Off is then not applied to it (P 2572).
* `GoLiveRequestStarts` (as "restart", with `TwitchModes = {"off", "horizontal"}`): a second
  `/lumia/go-live` while the show is starting is taken for a stop (core 5033, P 2857-2880).
* Rebuilt (`RebuiltAtStart`; as "mixes"): after audio devices or routing were saved, or a track was
  edited, Go Live does not rebuild the Stage's exclusions, though the status at P 3731 says so, and
  nor does the timer that starts the second half of a dual show 1.5 s after the first (P 6851-6865),
  when Lumia has started it too. Recordings and Lumia's starts as far as their own step goes do
  (`StartIsolated`).
* `MatrixShowsMembership` (`AudioStage.cfg`): the track matrix shows a remembered mask after a
  change in the advanced audio properties (P 3683), and saving it undoes the change.
* `MembershipKept` under `ReloadSpec` with `Reloads = {"collection"}`: OBS saves a Stage's temporary
  masks on leaving the collection (`OBSBasic_SceneCollections.cpp` 773-776); a Stage applied
  meanwhile makes them the operator's. A crash does the same, as the remembered masks are in memory
  only.
* `BoundCanvasKept` (`StagePictures.cfg` with `Spec`): P 233-235 says a private canvas is
  released "only while no encoder can still be bound to its video context". An output that
  is connecting counts as inactive, and a Stage selected then releases its canvas.
* `PagesFollowPublication` (`Overlay.cfg` with `Spec`): a page between two streams misses the
  reload (runtime 622-640) and reconnects with the old revision, where
  tests/OverlayBrowser/README.md:11 says "the page must change from Revision 1 to Revision 2".
* `UpdateKeepsSettings` (`Install.cfg`): settings are staged before the swap; what the app
  saves in between is replaced by the staged copy and kept only with the transactions, where
  docs/ALPHA-UPGRADES.md:3 says "Unchanged configuration stays in place during the update".
* Outside the models: broadcast ids are not persisted, so a crash leaves the broadcasts in
  Upcoming, and so does a lost reply to an insert (`YoutubeApiWrappers.cpp` 283-288). A
  portrait scene switched by hand while a Stage's transition is pending is overwritten
  when it ends (P 5691-5699). `closeWorker` (core 1093-1101) joins a thread that is still
  connecting and blocks the UI thread until WinHTTP gives up. A transient error while a device login is
  polled for ends the login (core 877-880). Uninstall takes no lock and ignores an
  interrupted operation (`Program.cs` 186-192).

## 7. Plan

Done: `YouTubeChat` with `ChatOutbox`, `GoLive`, `StageAudio`, `StagePictures`,
`TwitchChat`, `Overlay` with `OverlayShelf`, `Installer` with `InstallFolder`. Next:

1. `KickRuntime`: relay, delayed notices and reconnects, composed with `GoLive`'s Kick part;
   the token refresh of `YoutubeApiWrappers`.
2. Recordings: splitting and failures to open; stage storage.
3. `Updater`, handing over to `Installer`.
4. `MotionEngine`, Teleport with the media cache, the Control API's request queue, Discord.

An abstract specification worth stating: a destination (Off, starting, on air) that
`GoLive`'s three providers implement.

Not to be modelled: layout and drawing, parsing and formatting of chat protocols, the
vendored OBS code, encoders and pixels. They are most of the repository's lines: what the
modules stand for is the stateful part of the product's own code.
