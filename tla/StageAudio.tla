----------------------------- MODULE StageAudio -----------------------------
(***************************************************************************)
(* The audio of a Stage.  A Stage may exclude sources from a destination.  *)
(* libobs mixes a small number of audio mixes; a source is in the mixes of *)
(* its mask, and an encoder reads one mix from its creation to its end.    *)
(* Applying a Stage gives every distinct set of exclusions a mix nobody    *)
(* uses, and for that changes the masks of the sources; the operator's own *)
(* choice is remembered per source and put back before it is persisted.    *)
(*                                                                         *)
(* The sources of a scene collection are on disk too: OBS saves them, with *)
(* the masks they have at that moment, whenever the collection changes.    *)
(***************************************************************************)
EXTENDS Naturals, FiniteSets

CONSTANTS
  Source,      \* the audio sources of the scene collection
  Mix,         \* mix numbers: 0 .. 5 in the code
  StreamMix,   \* the mix of OBS's own stream, Twitch
  Protected,   \* mixes of OBS's stream, recording tracks and VOD track
  Stage,
  Excluded,    \* the sources a Stage excludes from each provider's canvas
  Selections,  \* the modes of the selectors the operator uses
  Reloads,     \* what happens to the collection: subset of {"crash", "collection"}
  MaxEdits     \* bound: tracks the operator changes in a run

Canvas == {"horizontal", "vertical"}
Provider == {"twitch", "kick", "youtube", "recording"}
Mode == {"off", "standard", "horizontal", "vertical", "dual"}

\* The destinations with an encoder of their own, and Twitch with OBS's.
Order == << <<"kick", "horizontal">>, <<"youtube", "horizontal">>, <<"youtube", "vertical">>,
            <<"recording", "horizontal">>, <<"recording", "vertical">> >>
Route == {Order[i] : i \in DOMAIN Order}
Twitch == <<"twitch", "horizontal">>
Output == Route \union {Twitch}

ASSUME MixAssumption == /\ Mix \subseteq Nat /\ IsFiniteSet(Mix) /\ 0 \in Mix
                        /\ StreamMix \in Mix /\ Protected \subseteq Mix /\ StreamMix \in Protected
ASSUME StageAssumption == /\ Excluded \in [Stage -> [Provider \X Canvas -> SUBSET Source]]
                          /\ "none" \notin Stage
ASSUME SelectionAssumption == Selections \subseteq [Provider -> Mode]
ASSUME ReloadsAssumption == Reloads \subseteq {"crash", "collection"} /\ MaxEdits \in Nat

VARIABLES
  stage,     \* the Stage last applied; "none" before the first
  mode,      \* the selector of each provider
  mixers,    \* obs_source_get_audio_mixers of each source
  baseline,  \* pulseAudioMixerBaselines: the remembered masks of some sources
  owned,     \* pulseOwnedAudioMixerMask
  mixOf,     \* pulseWeaver...AudioMix of each route
  output,    \* the output of each route
  encoder,   \* the mix the encoder of each route's output reads
  loaded,    \* this collection's sources exist
  saved,     \* their masks on disk
  chosen,    \* history: the tracks the operator chose for each source
  chosenThen,\* history: the same when the collection was saved
  edits      \* tracks changed so far

sources == <<mixers, baseline>>
routing == <<owned, mixOf>>
disk == <<loaded, saved, chosenThen>>
operator == <<chosen, edits>>
vars == <<stage, mode, sources, routing, output, encoder, disk, operator>>

-----------------------------------------------------------------------------
(* Choosing mixes, for a Stage st and selectors md *)

Canvases(m) == IF m = "dual" THEN Canvas ELSE Canvas \intersect {m}

Wanted(md) == {r \in Route : r[2] \in Canvases(md[r[1]])}

TwitchExcluded(st, md) == UNION {Excluded[st][<<"twitch", c>>] : c \in Canvases(md["twitch"])}

Place(r) == CHOOSE i \in DOMAIN Order : Order[i] = r

\* The routes that need a mix other than Twitch's, and of those with the same
\* exclusions the first.
Apart(st, md) == {r \in Wanted(md) : Excluded[st][r] # TwitchExcluded(st, md)}
First(st, md, r) ==
  CHOOSE q \in Apart(st, md) :
    /\ Excluded[st][q] = Excluded[st][r]
    /\ \A p \in Apart(st, md) : Excluded[st][p] = Excluded[st][r] => Place(q) <= Place(p)
Firsts(st, md) == {First(st, md, r) : r \in Apart(st, md)}

\* Fault: the recording and VOD tracks are not spared.
FreeButStream == Mix \ {StreamMix}

Free == Mix \ Protected

\* Fault: a mix that has been taken is not left out of the next search.
AlwaysFirst(st, md, r) == 0

\* Each of them in turn takes the highest mix that is left.
Turn(st, md, r) == Cardinality({q \in Firsts(st, md) : Place(q) < Place(First(st, md, r))})
Allotted(st, md, r) ==
  IF r \notin Apart(st, md) THEN {}
  ELSE {m \in Free : Cardinality({n \in Free : n > m}) = Turn(st, md, r)}

\* Fault: a route without a mix keeps the -1 the search starts with.
Unassigned(mixes) == IF mixes = {} THEN 0 - 1 ELSE CHOOSE m \in mixes : TRUE

MixFrom(mixes) == IF mixes = {} THEN StreamMix ELSE CHOOSE m \in mixes : TRUE

\* What a Stage asks for: the mixes it owns, the sources it excludes from each mix, the
\* mix of each route, and the routes left to Twitch's mix, with a warning, for want of
\* another.
Plan(st, md) ==
  LET twitch == TwitchExcluded(st, md)
      allotted == [r \in Route |-> Allotted(st, md, r)]
  IN [owned |-> (IF twitch = {} THEN {} ELSE {StreamMix}) \union UNION {allotted[r] : r \in Route},
      barred |-> [m \in Mix |-> IF m = StreamMix THEN twitch
                                ELSE UNION {Excluded[st][r] : r \in {q \in Route : m \in allotted[q]}}],
      mix |-> [r \in Route |-> MixFrom(allotted[r])],
      warned |-> {r \in Apart(st, md) : allotted[r] = {}}]

Plans == [st \in Stage |-> [md \in Selections |-> Plan(st, md)]]

-----------------------------------------------------------------------------
(* The masks *)

\* The operator's mask: what is remembered on the mixes a Stage owns, and what the
\* source has on the others.
Underlying(s) ==
  IF s \in DOMAIN baseline THEN (baseline[s] \intersect owned) \union (mixers[s] \ owned) ELSE mixers[s]

\* ConfigurePulseWeaverAudioRouting on the sources that exist.
Masked(plan, s) ==
  (Underlying(s) \ plan.owned)
    \union {m \in plan.owned : StreamMix \in Underlying(s) /\ s \notin plan.barred[m]}

Configure(st, md) ==
  LET plan == Plans[st][md]
  IN /\ IF loaded THEN /\ baseline' = [s \in Source |-> Underlying(s)]
                       /\ mixers' = [s \in Source |-> Masked(plan, s)]
                  ELSE UNCHANGED sources
     /\ owned' = plan.owned
     /\ mixOf' = [r \in Route |-> IF r \in Wanted(md) THEN plan.mix[r] ELSE mixOf[r]]

\* RestorePulseWeaverAudioRouting: the masks it leaves, and what it forgets.
Restored == [s \in Source |-> Underlying(s)]
Nothing == [s \in {} |-> {}]
Forget == /\ baseline' = IF owned = {} THEN baseline ELSE Nothing
          /\ owned' = {} /\ UNCHANGED mixOf

\* ApplyPulseWeaverStage, as far as audio is concerned
Apply == IF stage = "none" THEN UNCHANGED <<sources, routing>> ELSE Configure(stage, mode)

-----------------------------------------------------------------------------
NoEncoders == [r \in Output |-> 0]
NoOutputs == [r \in Output |-> "none"]

\* A new source is in every mix.
Init ==
  /\ stage = "none" /\ mode \in Selections
  /\ mixers = [s \in Source |-> Mix]
  /\ baseline = Nothing
  /\ owned = {} /\ mixOf = [r \in Route |-> 0]
  /\ output = NoOutputs /\ encoder = NoEncoders
  /\ loaded = TRUE /\ saved = mixers /\ chosenThen = mixers
  /\ chosen = mixers /\ edits = 0

\* The routes that have an output.
on == {r \in Output : output[r] # "none"}
Running(p) == {r \in on : r[1] = p}

\* ActivatePulseWeaverStage
SelectStage(st) ==
  /\ stage' = st
  /\ Configure(st, mode)
  /\ UNCHANGED <<mode, output, encoder, disk, operator>>

\* The selectors, with the Stage applied again.  The formats of Twitch and YouTube
\* cannot be changed on air.
SelectMode(md) ==
  /\ md # mode
  /\ \A p \in {"twitch", "youtube"} : md[p] \notin {"off", mode[p]} => Running(p) = {}
  /\ mode' = md
  /\ IF stage = "none" THEN UNCHANGED <<sources, routing>> ELSE Configure(stage, md)
  /\ UNCHANGED <<stage, output, encoder, disk, operator>>

\* YouTube and Kick connect first; Twitch counts as active from its preparation on.
Begun(r) == IF r[1] \in {"youtube", "kick"} THEN "connecting" ELSE "active"

\* The routes of a provider that a start makes outputs for in its own step: of YouTube only
\* the first one.
AtOnce(p) ==
  LET wanted == {r \in Wanted(mode) : r[1] = p}
  IN {r \in wanted : p = "youtube" => \A q \in wanted : Place(r) <= Place(q)}

\* An output of YouTube blocks a start until it is stopped, one of Kick while it is active.
Startable(p) == CASE p = "kick" -> output[<<"kick", "horizontal">>] # "active"
                  [] OTHER -> Running(p) = {}

\* Go Live starts the outputs of the selected destinations, each at its own time.
GoLive(r) ==
  /\ loaded /\ Startable(r[1])
  /\ \/ r = Twitch /\ mode["twitch"] # "off"
     \/ r[1] \in {"youtube", "kick"} /\ r \in AtOnce(r[1])
  /\ output' = [output EXCEPT ![r] = Begun(r)]
  /\ encoder' = [encoder EXCEPT ![r] = IF r = Twitch THEN StreamMix ELSE mixOf[r]]
  /\ UNCHANGED <<stage, mode, sources, routing, disk, operator>>

\* The 1.5 s timer of a dual start, Go Live's or Lumia's: the second output reads the mix
\* its route has by then.
SecondStart ==
  LET first == <<"youtube", "horizontal">>
      second == <<"youtube", "vertical">>
  IN /\ loaded /\ mode["youtube"] = "dual"
     /\ output[first] = "active" /\ output[second] = "none"
     /\ output' = [output EXCEPT ![second] = Begun(second)]
     /\ encoder' = [encoder EXCEPT ![second] = mixOf[second]]
     /\ UNCHANGED <<stage, mode, sources, routing, disk, operator>>

\* Outputs connect and fail; a failed one stays until its provider is stopped or started.
OutputChanges(r) ==
  /\ r # Twitch
  /\ \/ output[r] = "connecting" /\ output' = [output EXCEPT ![r] = "active"]
     \/ output[r] \in {"connecting", "active"} /\ output' = [output EXCEPT ![r] = "failed"]
  /\ UNCHANGED <<stage, mode, sources, routing, encoder, disk, operator>>

Opened(p) ==
  /\ output' = [r \in Output |-> IF r \in AtOnce(p) THEN Begun(r)
                                ELSE IF r[1] = p THEN "none" ELSE output[r]]
  /\ encoder' = [r \in Output |-> IF r \in AtOnce(p) THEN mixOf'[r] ELSE encoder[r]]

\* Fault: the Stage is not applied before the recorders are made.
RecordUnprepared ==
  /\ loaded /\ AtOnce("recording") # {}
  /\ UNCHANGED <<stage, mode, disk, operator>>
  /\ UNCHANGED <<sources, routing>> /\ Opened("recording")

\* StartPulseWeaverRecordings
StartRecordings ==
  /\ loaded /\ AtOnce("recording") # {}
  /\ UNCHANGED <<stage, mode, disk, operator>>
  /\ Apply /\ Opened("recording")

\* PulseWeaverLumiaDestination.  A request that starts nothing, as the output is there or
\* cannot be prepared, and one for Twitch apply the Stage like a selection of the same Stage.
LumiaStart(p) ==
  /\ loaded /\ p \in {"youtube", "kick"} /\ AtOnce(p) # {} /\ Startable(p)
  /\ UNCHANGED <<stage, mode, disk, operator>>
  /\ Apply /\ Opened(p)

Stop(p) ==
  /\ Running(p) # {}
  /\ output' = [r \in Output |-> IF r[1] = p THEN "none" ELSE output[r]]
  /\ encoder' = [r \in Output |-> IF r[1] = p THEN 0 ELSE encoder[r]]
  /\ UNCHANGED <<stage, mode, sources, routing, disk, operator>>

-----------------------------------------------------------------------------
(* The operator's own tracks *)

Toggled(f, s, m) ==
  [f EXCEPT ![s] = IF m \in f[s] THEN f[s] \ {m} ELSE f[s] \union {m}]

\* Advanced audio properties.  On a mix that a Stage owns the change is temporary.
EditTrack(s, m) ==
  /\ loaded /\ edits < MaxEdits /\ edits' = edits + 1
  /\ mixers' = Toggled(mixers, s, m)
  /\ chosen' = IF m \in owned THEN chosen ELSE Toggled(chosen, s, m)
  /\ UNCHANGED <<stage, mode, baseline, routing, output, encoder, disk>>

\* The track matrix of the settings shows what is remembered, and else the mask.
Shown(s) == IF s \in DOMAIN baseline THEN baseline[s] ELSE mixers[s]

\* Refused while an output is active; one that is connecting does not count.
NothingActive == \A r \in Output : output[r] # "active"

\* Saving the matrix with one more change.
SaveRouting(s, m) ==
  /\ loaded /\ NothingActive /\ edits < MaxEdits /\ edits' = edits + 1
  /\ Forget
  /\ mixers' = Toggled([x \in Source |-> Shown(x)], s, m)
  /\ chosen' = mixers' /\ saved' = mixers' /\ chosenThen' = mixers'
  /\ UNCHANGED <<stage, mode, output, encoder, loaded>>

\* Saving the audio devices.
SaveDevices ==
  /\ loaded /\ NothingActive
  /\ Forget /\ mixers' = Restored /\ saved' = mixers' /\ chosenThen' = chosen
  /\ UNCHANGED <<stage, mode, output, encoder, loaded, operator>>

-----------------------------------------------------------------------------
(* The collection on disk *)

SaveProject ==
  /\ loaded /\ saved' = mixers /\ chosenThen' = chosen
  /\ UNCHANGED <<stage, mode, sources, routing, output, encoder, loaded, operator>>

\* The program starts with the masks on disk and remembers nothing.
Restart(masks) ==
  /\ mixers' = masks /\ saved' = masks
  /\ stage' = "none" /\ baseline' = Nothing /\ owned' = {} /\ loaded' = TRUE
  /\ mixOf' = [r \in Route |-> 0] /\ output' = NoOutputs /\ encoder' = NoEncoders
  /\ UNCHANGED <<mode, edits>>

\* Fault: the collection is saved before the masks are put back.
CloseUnrestored == loaded /\ Restart(mixers) /\ UNCHANGED chosen /\ chosenThen' = chosen

\* ShutdownPulseWeaverShell and the save after it.
Close == loaded /\ Restart(Restored) /\ UNCHANGED chosen /\ chosenThen' = chosen

Crash == /\ "crash" \in Reloads /\ Restart(saved)
         /\ chosen' = chosenThen /\ UNCHANGED chosenThen

\* Another scene collection is opened, and later this one again.
LeaveCollection ==
  /\ "collection" \in Reloads /\ loaded
  /\ loaded' = FALSE /\ saved' = mixers /\ chosenThen' = chosen
  /\ UNCHANGED <<stage, mode, sources, routing, output, encoder, operator>>

ReturnToCollection ==
  /\ ~loaded /\ loaded' = TRUE /\ mixers' = saved
  /\ UNCHANGED <<stage, mode, baseline, routing, output, encoder, saved, chosenThen, operator>>

-----------------------------------------------------------------------------
Next ==
  \/ \E st \in Stage : SelectStage(st)
  \/ \E md \in Selections : SelectMode(md)
  \/ \E r \in Output : GoLive(r) \/ OutputChanges(r)
  \/ SecondStart \/ StartRecordings
  \/ \E p \in Provider : LumiaStart(p) \/ Stop(p)
  \/ \E s \in Source, m \in Mix : EditTrack(s, m) \/ SaveRouting(s, m)
  \/ SaveDevices \/ Close

Spec == Init /\ [][Next]_vars

ReloadNext == Next \/ SaveProject \/ Crash \/ LeaveCollection \/ ReturnToCollection

ReloadSpec == Init /\ [][ReloadNext]_vars

-----------------------------------------------------------------------------
(* Properties *)

Masks == [Source -> SUBSET Mix]

TypeOK ==
  /\ stage \in Stage \union {"none"} /\ mode \in Selections
  /\ mixers \in Masks
  /\ DOMAIN baseline \subseteq Source /\ baseline \in [DOMAIN baseline -> SUBSET Mix]
  /\ owned \subseteq Mix /\ mixOf \in [Route -> Mix]
  /\ output \in [Output -> {"none", "connecting", "active", "failed"}]
  /\ encoder \in [Output -> Mix]
  /\ loaded \in BOOLEAN /\ saved \in Masks /\ chosenThen \in Masks
  /\ chosen \in Masks /\ edits \in Nat

\* The comment at line 3715: only the operator's own membership persists.  Whatever
\* Stages are applied, edited, restored or saved, the tracks the operator chose for a
\* source can still be told from what a Stage made of them, and a restart finds them.
MembershipKept == loaded => \A s \in Source : Underlying(s) = chosen[s]

\* The release notes: Twitch's VOD track stays as configured whatever a Stage excludes
\* elsewhere.  The mixes of OBS's recording and VOD tracks always carry the sources the
\* operator put there.
VodAsConfigured ==
  loaded => \A s \in Source : mixers[s] \intersect (Protected \ {StreamMix})
                                = chosen[s] \intersect (Protected \ {StreamMix})

Programme == {s \in Source : StreamMix \in chosen[s]}
Heard(m, masks) == {s \in Source : m \in masks[s]}

\* Applying a Stage gives each selected destination the programme without the sources
\* the Stage excludes from it, however the mixes are shared, unless it is warned about.
RoutesHear ==
  [][loaded /\ stage' # "none" /\ Configure(stage', mode') =>
       /\ Heard(StreamMix, mixers') = Programme \ TwitchExcluded(stage', mode')
       /\ \A r \in Wanted(mode') \ Plans[stage'][mode'].warned :
            Heard(mixOf'[r], mixers') = Programme \ Excluded[stage'][r]]_vars

\* An output does not carry what the current Stage excludes from it.
Isolated(r) ==
  r \in Wanted(mode) \ Plans[stage][mode].warned =>
    \A s \in Excluded[stage][r] : encoder[r] \notin mixers[s]

\* A recording, and an output that a request of Lumia makes in its own step, begins without
\* the excluded sources, whatever was restored or edited since the Stage was selected.  The
\* second half of a dual start, Lumia's included, and Go Live take the mixes as they find
\* them: see RebuiltAtStart.
StartIsolated ==
  [][stage # "none" =>
       /\ StartRecordings => \A r \in Running("recording")' : Isolated(r)'
       /\ \A p \in Provider : LumiaStart(p) => \A r \in Running(p)' : Isolated(r)']_vars

\* The status at line 3731: exclusions are rebuilt when an output is started.  Go Live and
\* the second half of a dual start do not keep it: see the README.
RebuiltAtStart ==
  [][stage # "none" => \A r \in (on' \ on) \intersect Route : Isolated(r)']_vars

\* docs/CUSTOM-OUTPUTS-AND-LOCAL-MODS.md: exclusions remain isolated, also when another
\* Stage is applied to running outputs.
RunningIsolated ==
  [][stage # "none" /\ Configure(stage', mode') =>
       \A r \in (on \intersect on') \intersect Route : Isolated(r)']_vars

\* The guide: the matrix shows the operator's track membership.  The code does not keep
\* it: see the README.
MatrixShowsMembership == loaded => \A s \in Source : Shown(s) = chosen[s]

=============================================================================
