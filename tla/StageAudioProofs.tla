-------------------------- MODULE StageAudioProofs --------------------------
(***************************************************************************)
(* For every set of sources, mixes, Stages and exclusions: types, and that *)
(* applying Stages neither loses the tracks the operator chose nor touches *)
(* the recording and VOD tracks; and that every destination hears the      *)
(* programme without what the Stage excludes from it.                      *)
(***************************************************************************)
EXTENDS StageAudio, FiniteSetTheorems, TLAPS

Spared == Protected \ {StreamMix}

-----------------------------------------------------------------------------
(* What a Stage asks for *)

\* A Stage owns mixes that exist, none of them a recording or VOD track, and gives
\* every route a mix that exists.
LEMMA PlanTyped ==
  ASSUME NEW st \in Stage, NEW md \in Selections
  PROVE /\ Plans[st][md].owned \subseteq Mix
        /\ Plans[st][md].owned \intersect Spared = {}
        /\ Plans[st][md].mix \in [Route -> Mix]
<1> DEFINE allotted == [r \in Route |-> Allotted(st, md, r)]
<1>1. \A r \in Route : allotted[r] \subseteq Mix \ Protected
  BY DEF Allotted, Free
<1>2. Plans[st][md] = Plan(st, md)
  BY DEF Plans
<1>3. Plan(st, md).owned =
        (IF TwitchExcluded(st, md) = {} THEN {} ELSE {StreamMix})
          \union UNION {allotted[r] : r \in Route}
  BY DEF Plan
<1>4. Plan(st, md).mix = [r \in Route |-> MixFrom(allotted[r])]
  BY DEF Plan
<1>5. \A r \in Route : MixFrom(allotted[r]) \in Mix
  <2> HIDE DEF allotted
  <2>1. TAKE r \in Route
  <2>2. CASE allotted[r] = {}
    BY <2>2, MixAssumption DEF MixFrom
  <2>3. CASE allotted[r] # {}
    <3>1. PICK m \in allotted[r] : TRUE
      BY <2>3
    <3>2. (CHOOSE x \in allotted[r] : TRUE) \in allotted[r]
      BY <3>1
    <3> QED BY <2>3, <3>2, <1>1 DEF MixFrom
  <2> QED BY <2>2, <2>3
<1> HIDE DEF allotted
<1>6. UNION {allotted[r] : r \in Route} \subseteq Mix \ Protected
  BY <1>1
<1>7. Plans[st][md].owned \subseteq Mix /\ Plans[st][md].owned \intersect Spared = {}
  BY <1>2, <1>3, <1>6, MixAssumption DEF Spared
<1>8. Plans[st][md].mix \in [Route -> Mix]
  BY <1>2, <1>4, <1>5
<1> QED BY <1>7, <1>8

-----------------------------------------------------------------------------
(* Types *)

MasksTyped == /\ mixers \in Masks
              /\ DOMAIN baseline \subseteq Source /\ baseline \in [DOMAIN baseline -> SUBSET Mix]
RoutingTyped == owned \subseteq Mix /\ mixOf \in [Route -> Mix]

LEMMA UnderlyingTyped ==
  ASSUME MasksTyped, NEW s \in Source
  PROVE  Underlying(s) \in SUBSET Mix
BY DEF MasksTyped, Underlying, Masks

LEMMA MaskedTyped ==
  ASSUME MasksTyped, NEW s \in Source, NEW st \in Stage, NEW md \in Selections
  PROVE  Masked(Plans[st][md], s) \in SUBSET Mix
BY UnderlyingTyped, PlanTyped DEF Masked

LEMMA ConfigureTyped ==
  ASSUME MasksTyped, RoutingTyped, NEW st \in Stage, NEW md \in Selections, Configure(st, md)
  PROVE  MasksTyped' /\ RoutingTyped'
<1> DEFINE plan == Plans[st][md]
<1>1. owned' = plan.owned /\ mixOf' = [r \in Route |-> IF r \in Wanted(md) THEN plan.mix[r] ELSE mixOf[r]]
  BY DEF Configure
<1>2. RoutingTyped'
  BY <1>1, PlanTyped DEF RoutingTyped
<1>3. CASE loaded
  <2>1. /\ baseline' = [s \in Source |-> Underlying(s)]
        /\ mixers' = [s \in Source |-> Masked(plan, s)]
    BY <1>3 DEF Configure
  <2>2. mixers' \in Masks
    BY <2>1, MaskedTyped DEF Masks
  <2>3. DOMAIN baseline' = Source /\ baseline' \in [Source -> SUBSET Mix]
    BY <2>1, UnderlyingTyped
  <2> QED BY <1>2, <2>2, <2>3 DEF MasksTyped
<1>4. CASE ~loaded
  <2>1. UNCHANGED sources
    BY <1>4 DEF Configure
  <2> QED BY <1>2, <2>1 DEF sources, MasksTyped
<1> QED BY <1>3, <1>4

LEMMA ApplyTyped ==
  ASSUME TypeOK, Apply
  PROVE  MasksTyped' /\ RoutingTyped'
<1>0. MasksTyped /\ RoutingTyped /\ mode \in Selections /\ stage \in Stage \union {"none"}
  BY DEF TypeOK, MasksTyped, RoutingTyped
<1>1. CASE stage = "none"
  BY <1>0, <1>1 DEF Apply, sources, routing, MasksTyped, RoutingTyped
<1>2. CASE stage # "none"
  <2>1. stage \in Stage /\ Configure(stage, mode)
    BY <1>0, <1>2 DEF Apply
  <2> QED BY <1>0, <2>1, ConfigureTyped
<1> QED BY <1>1, <1>2

LEMMA ForgetTyped ==
  ASSUME MasksTyped, RoutingTyped, Forget
  PROVE  /\ RoutingTyped' /\ DOMAIN baseline' \subseteq Source
         /\ baseline' \in [DOMAIN baseline' -> SUBSET Mix]
<1>1. baseline' = baseline \/ baseline' = Nothing
  BY DEF Forget
<1>2. DOMAIN Nothing = {} /\ Nothing \in [{} -> SUBSET Mix]
  BY DEF Nothing
<1>3. DOMAIN baseline' \subseteq Source /\ baseline' \in [DOMAIN baseline' -> SUBSET Mix]
  BY <1>1, <1>2 DEF MasksTyped
<1>4. RoutingTyped'
  BY DEF Forget, RoutingTyped
<1> QED BY <1>3, <1>4

LEMMA ToggledTyped ==
  ASSUME NEW f \in Masks, NEW s \in Source, NEW m \in Mix
  PROVE  Toggled(f, s, m) \in Masks
BY DEF Toggled, Masks

States == {"none", "connecting", "active", "failed"}

LEMMA BegunTyped == ASSUME NEW r PROVE Begun(r) \in States
BY DEF Begun, States

LEMMA OpenedTyped ==
  ASSUME TypeOK, RoutingTyped', NEW p, Opened(p)
  PROVE  output' \in [Output -> States] /\ encoder' \in [Output -> Mix]
<1>1. AtOnce(p) \subseteq Route
  BY DEF AtOnce, Wanted
<1>2. output \in [Output -> States] /\ encoder \in [Output -> Mix] /\ mixOf' \in [Route -> Mix]
  BY DEF TypeOK, RoutingTyped, States
<1> DEFINE now == AtOnce(p)
<1>3. /\ output' = [r \in Output |-> IF r \in now THEN Begun(r)
                                    ELSE IF r[1] = p THEN "none" ELSE output[r]]
      /\ encoder' = [r \in Output |-> IF r \in now THEN mixOf'[r] ELSE encoder[r]]
  BY DEF Opened
<1> HIDE DEF now
<1>4. \A r \in Output : (IF r \in now THEN Begun(r)
                         ELSE IF r[1] = p THEN "none" ELSE output[r]) \in States
  BY <1>2, BegunTyped DEF States
<1>5. \A r \in Output : (IF r \in now THEN mixOf'[r] ELSE encoder[r]) \in Mix
  BY <1>1, <1>2 DEF now
<1> QED BY <1>3, <1>4, <1>5

LEMMA RestoredTyped ==
  ASSUME MasksTyped
  PROVE  Restored \in Masks
BY UnderlyingTyped DEF Restored, Masks

LEMMA RestartTyped ==
  ASSUME TypeOK, NEW masks \in Masks, Restart(masks), chosen' \in Masks, chosenThen' \in Masks
  PROVE  TypeOK'
<1>1. DOMAIN Nothing = {} /\ Nothing \in [{} -> SUBSET Mix]
  BY DEF Nothing
<1>2. NoEncoders \in [Output -> Mix] /\ NoOutputs \in [Output -> States]
  BY MixAssumption DEF NoEncoders, NoOutputs, States
<1>3. [r \in Route |-> 0] \in [Route -> Mix]
  BY MixAssumption
<1>4. /\ mixers' = masks /\ saved' = masks /\ stage' = "none" /\ baseline' = Nothing
      /\ owned' = {} /\ loaded' = TRUE /\ mixOf' = [r \in Route |-> 0] /\ output' = NoOutputs
      /\ encoder' = NoEncoders /\ mode' = mode /\ edits' = edits
  BY DEF Restart
<1>5. DOMAIN baseline' \subseteq Source /\ baseline' \in [DOMAIN baseline' -> SUBSET Mix]
  BY <1>1, <1>4
<1>6. encoder' \in [Output -> Mix] /\ output' \in [Output -> States] /\ mixOf' \in [Route -> Mix]
  BY <1>2, <1>3, <1>4
<1> QED BY <1>4, <1>5, <1>6 DEF TypeOK, States

LEMMA TypedFrame ==
  TypeOK <=> /\ MasksTyped /\ RoutingTyped
             /\ stage \in Stage \union {"none"} /\ mode \in Selections
             /\ output \in [Output -> States] /\ encoder \in [Output -> Mix]
             /\ loaded \in BOOLEAN /\ saved \in Masks /\ chosenThen \in Masks
             /\ chosen \in Masks /\ edits \in Nat
BY DEF TypeOK, MasksTyped, RoutingTyped, States

LEMMA TypeStep ==
  ASSUME TypeOK, [ReloadNext]_vars
  PROVE  TypeOK'
<1> USE TypedFrame
<1>1. ASSUME NEW st \in Stage, SelectStage(st) PROVE TypeOK'
  <2>1. MasksTyped' /\ RoutingTyped'
    BY <1>1, ConfigureTyped DEF SelectStage
  <2> QED BY <1>1, <2>1 DEF SelectStage, disk, operator, TypeOK, MasksTyped, RoutingTyped
<1>2. ASSUME NEW md \in Selections, SelectMode(md) PROVE TypeOK'
  <2>1. CASE stage = "none"
    BY <1>2, <2>1 DEF SelectMode, sources, routing, disk, operator, TypeOK
  <2>2. CASE stage # "none"
    <3>1. stage \in Stage /\ Configure(stage, md)
      BY <1>2, <2>2 DEF SelectMode
    <3>2. MasksTyped' /\ RoutingTyped'
      BY <3>1, ConfigureTyped
    <3> QED BY <1>2, <3>2 DEF SelectMode, disk, operator, TypeOK, MasksTyped, RoutingTyped
  <2> QED BY <2>1, <2>2
<1>3. ASSUME NEW r \in Output, GoLive(r) PROVE TypeOK'
  <2>1. (IF r = Twitch THEN StreamMix ELSE mixOf[r]) \in Mix
    BY MixAssumption DEF RoutingTyped, Output
  <2>2. /\ encoder' = [encoder EXCEPT ![r] = IF r = Twitch THEN StreamMix ELSE mixOf[r]]
        /\ output' = [output EXCEPT ![r] = Begun(r)]
    BY <1>3 DEF GoLive
  <2>3. encoder' \in [Output -> Mix] /\ output' \in [Output -> States]
    BY <2>1, <2>2, BegunTyped
  <2> QED BY <1>3, <2>2, <2>3 DEF GoLive, sources, routing, disk, operator, TypeOK, States
<1>4. ASSUME StartRecordings PROVE TypeOK'
  <2>1. MasksTyped' /\ RoutingTyped'
    BY <1>4, ApplyTyped DEF StartRecordings
  <2>2. output' \in [Output -> States] /\ encoder' \in [Output -> Mix]
    BY <1>4, <2>1, OpenedTyped DEF StartRecordings
  <2> QED BY <1>4, <2>1, <2>2 DEF StartRecordings, disk, operator, TypeOK, States, MasksTyped,
             RoutingTyped
<1>5. ASSUME NEW p \in Provider, LumiaStart(p) PROVE TypeOK'
  <2>1. MasksTyped' /\ RoutingTyped'
    BY <1>5, ApplyTyped DEF LumiaStart
  <2>2. output' \in [Output -> States] /\ encoder' \in [Output -> Mix]
    BY <1>5, <2>1, OpenedTyped DEF LumiaStart
  <2> QED BY <1>5, <2>1, <2>2 DEF LumiaStart, disk, operator, TypeOK, States, MasksTyped,
             RoutingTyped
<1>6. ASSUME NEW p \in Provider, Stop(p) PROVE TypeOK'
  <2>1. /\ output' = [r \in Output |-> IF r[1] = p THEN "none" ELSE output[r]]
        /\ encoder' = [r \in Output |-> IF r[1] = p THEN 0 ELSE encoder[r]]
    BY <1>6 DEF Stop
  <2>2. encoder' \in [Output -> Mix] /\ output' \in [Output -> States]
    BY <2>1, MixAssumption DEF States
  <2> QED BY <1>6, <2>1, <2>2 DEF Stop, sources, routing, disk, operator, TypeOK
<1>7. ASSUME NEW s \in Source, NEW m \in Mix, EditTrack(s, m) PROVE TypeOK'
  <2>1. mixers' \in Masks /\ chosen' \in Masks
    BY <1>7, ToggledTyped DEF EditTrack, TypeOK
  <2>2. edits' \in Nat
    BY <1>7 DEF EditTrack, TypeOK
  <2> QED BY <1>7, <2>1, <2>2 DEF EditTrack, routing, disk, TypeOK
<1>8. ASSUME NEW s \in Source, NEW m \in Mix, SaveRouting(s, m) PROVE TypeOK'
  <2> DEFINE shown == [x \in Source |-> Shown(x)]
  <2>1. shown \in Masks
    BY DEF Shown, Masks, MasksTyped
  <2>2. mixers' = Toggled(shown, s, m)
    BY <1>8 DEF SaveRouting
  <2> HIDE DEF shown
  <2>3. mixers' \in Masks
    BY <2>1, <2>2, ToggledTyped
  <2>4. /\ RoutingTyped' /\ DOMAIN baseline' \subseteq Source
        /\ baseline' \in [DOMAIN baseline' -> SUBSET Mix]
    BY <1>8, ForgetTyped DEF SaveRouting
  <2>5. MasksTyped'
    BY <2>3, <2>4 DEF MasksTyped
  <2>6. edits' \in Nat
    BY <1>8 DEF SaveRouting, TypeOK
  <2>7. chosen' = mixers' /\ saved' = mixers' /\ chosenThen' = mixers'
    BY <1>8 DEF SaveRouting
  <2> QED BY <1>8, <2>3, <2>4, <2>5, <2>6, <2>7 DEF SaveRouting, TypeOK, MasksTyped, RoutingTyped
<1>9. ASSUME SaveDevices PROVE TypeOK'
  <2>1. mixers' \in Masks /\ saved' = mixers' /\ chosenThen' = chosen
    BY <1>9, RestoredTyped DEF SaveDevices
  <2>2. /\ RoutingTyped' /\ DOMAIN baseline' \subseteq Source
        /\ baseline' \in [DOMAIN baseline' -> SUBSET Mix]
    BY <1>9, ForgetTyped DEF SaveDevices
  <2>3. MasksTyped'
    BY <2>1, <2>2 DEF MasksTyped
  <2> QED BY <1>9, <2>1, <2>2, <2>3 DEF SaveDevices, operator, TypeOK, MasksTyped, RoutingTyped
<1>10. ASSUME Close PROVE TypeOK'
  BY <1>10, RestoredTyped, RestartTyped DEF Close
<1>11. ASSUME SaveProject PROVE TypeOK'
  BY <1>11 DEF SaveProject, sources, routing, operator, TypeOK
<1>12. ASSUME Crash PROVE TypeOK'
  BY <1>12, RestartTyped DEF Crash
<1>13. ASSUME LeaveCollection PROVE TypeOK'
  BY <1>13 DEF LeaveCollection, sources, routing, operator, TypeOK
<1>14. ASSUME ReturnToCollection PROVE TypeOK'
  BY <1>14 DEF ReturnToCollection, routing, operator, TypeOK
<1>15. ASSUME UNCHANGED vars PROVE TypeOK'
  BY <1>15 DEF vars, sources, routing, disk, operator, TypeOK
<1>16. ASSUME SecondStart PROVE TypeOK'
  <2> DEFINE second == <<"youtube", "vertical">>
  <2>0. second \in Route /\ second \in Output
    BY DEF Route, Order, Output
  <2>1. /\ encoder' = [encoder EXCEPT ![second] = mixOf[second]]
        /\ output' = [output EXCEPT ![second] = Begun(second)]
    BY <1>16 DEF SecondStart
  <2> HIDE DEF second
  <2>2. encoder' \in [Output -> Mix] /\ output' \in [Output -> States]
    BY <2>0, <2>1, BegunTyped DEF RoutingTyped
  <2> QED BY <1>16, <2>2 DEF SecondStart, sources, routing, disk, operator, TypeOK, States
<1>17. ASSUME NEW r \in Output, OutputChanges(r) PROVE TypeOK'
  <2>1. output' \in [Output -> States]
    BY <1>17 DEF OutputChanges, States
  <2> QED BY <1>17, <2>1 DEF OutputChanges, sources, routing, disk, operator, TypeOK
<1> QED BY <1>1, <1>2, <1>3, <1>4, <1>5, <1>6, <1>7, <1>8, <1>9, <1>10, <1>11, <1>12, <1>13,
          <1>14, <1>15, <1>16, <1>17 DEF ReloadNext, Next

LEMMA TypeInit ==
  ASSUME Init
  PROVE  TypeOK
<1>1. [s \in Source |-> Mix] \in Masks
  BY DEF Masks
<1>2. DOMAIN Nothing = {} /\ Nothing \in [{} -> SUBSET Mix]
  BY DEF Nothing
<1>3. /\ NoEncoders \in [Output -> Mix] /\ [r \in Route |-> 0] \in [Route -> Mix]
      /\ NoOutputs \in [Output -> States]
  BY MixAssumption DEF NoEncoders, NoOutputs, States
<1>4. DOMAIN baseline \subseteq Source /\ baseline \in [DOMAIN baseline -> SUBSET Mix]
  BY <1>2 DEF Init
<1>5. /\ stage = "none" /\ mode \in Selections /\ owned = {} /\ output = NoOutputs /\ loaded = TRUE
      /\ mixers = [s \in Source |-> Mix] /\ saved = mixers /\ chosenThen = mixers
      /\ chosen = mixers /\ edits = 0 /\ mixOf = [r \in Route |-> 0] /\ encoder = NoEncoders
  BY DEF Init
<1> QED BY <1>1, <1>3, <1>4, <1>5 DEF TypeOK, States

\* Every variable has its type, with crashes and other collections too.
THEOREM TypeCorrect == ReloadSpec => []TypeOK
BY TypeInit, TypeStep, PTL DEF ReloadSpec


-----------------------------------------------------------------------------
(* Membership.  While a Stage owns mixes every source is remembered: without that, a  *)
(* track edited on an owned mix would be lost as the operator's.                      *)

Remembered ==
  /\ TypeOK /\ loaded = TRUE
  /\ owned # {} => DOMAIN baseline = Source
  /\ \A s \in Source : Underlying(s) = chosen[s]

\* Applying a Stage leaves the operator's mask of every source what it was.
LEMMA ConfigureKeeps ==
  ASSUME MasksTyped, NEW st \in Stage, NEW md \in Selections, Configure(st, md), loaded = TRUE
  PROVE  DOMAIN baseline' = Source /\ \A s \in Source : Underlying(s)' = Underlying(s)
<1> DEFINE plan == Plans[st][md]
<1>1. /\ baseline' = [s \in Source |-> Underlying(s)]
      /\ mixers' = [s \in Source |-> Masked(plan, s)]
      /\ owned' = plan.owned
  BY DEF Configure
<1>2. DOMAIN baseline' = Source
  BY <1>1
<1>3. ASSUME NEW s \in Source PROVE Underlying(s)' = Underlying(s)
  <2>1. baseline'[s] = Underlying(s) /\ mixers'[s] = Masked(plan, s)
    BY <1>1
  <2>2. Masked(plan, s) \ plan.owned = Underlying(s) \ plan.owned
    BY DEF Masked
  <2>3. Underlying(s)' = (baseline'[s] \intersect owned') \union (mixers'[s] \ owned')
    BY <1>2 DEF Underlying
  <2> HIDE DEF plan
  <2> QED BY <1>1, <2>1, <2>2, <2>3
<1> QED BY <1>2, <1>3

LEMMA ApplyKeeps ==
  ASSUME Remembered, Apply
  PROVE  /\ owned' # {} => DOMAIN baseline' = Source
         /\ \A s \in Source : Underlying(s)' = Underlying(s)
<1>0. MasksTyped /\ mode \in Selections /\ stage \in Stage \union {"none"} /\ loaded = TRUE
  BY DEF Remembered, TypeOK, MasksTyped
<1>1. CASE stage = "none"
  BY <1>1 DEF Apply, sources, routing, Remembered, Underlying
<1>2. CASE stage # "none"
  BY <1>0, <1>2, ConfigureKeeps DEF Apply
<1> QED BY <1>1, <1>2

\* Where nothing is owned, the mask of a source is the operator's.
LEMMA UnownedMask ==
  ASSUME owned = {}, NEW s \in Source, MasksTyped
  PROVE  Underlying(s) = mixers[s]
BY DEF Underlying, MasksTyped

LEMMA RestartKeeps ==
  ASSUME NEW masks \in Masks, Restart(masks)
  PROVE  owned' = {} /\ loaded' = TRUE /\ \A s \in Source : Underlying(s)' = masks[s]
<1>1. /\ mixers' = masks /\ baseline' = Nothing /\ owned' = {} /\ loaded' = TRUE
  BY DEF Restart
<1>2. DOMAIN baseline' = {}
  BY <1>1 DEF Nothing
<1> QED BY <1>1, <1>2 DEF Underlying

LEMMA RememberedStep ==
  ASSUME Remembered, [Next]_vars
  PROVE  Remembered'
<1>0. /\ TypeOK /\ MasksTyped /\ loaded = TRUE /\ mode \in Selections
      /\ mixers \in Masks /\ chosen \in Masks
      /\ \A s \in Source : Underlying(s) = chosen[s]
      /\ owned # {} => DOMAIN baseline = Source
  BY DEF Remembered, TypeOK, MasksTyped
<1>t. TypeOK'
  BY <1>0, TypeStep DEF ReloadNext
<1> SUFFICES /\ loaded' = TRUE
             /\ owned' # {} => DOMAIN baseline' = Source
             /\ \A s \in Source : Underlying(s)' = chosen'[s]
  BY <1>t DEF Remembered
<1> DEFINE Goal == /\ loaded' = TRUE
                   /\ owned' # {} => DOMAIN baseline' = Source
                   /\ \A s \in Source : Underlying(s)' = chosen'[s]
<1>1. ASSUME NEW st \in Stage, SelectStage(st) PROVE Goal
  BY <1>0, <1>1, ConfigureKeeps DEF SelectStage, disk, operator
<1>2. ASSUME NEW md \in Selections, SelectMode(md) PROVE Goal
  <2>1. CASE stage = "none"
    BY <1>0, <1>2, <2>1 DEF SelectMode, sources, routing, disk, operator, Underlying
  <2>2. CASE stage # "none"
    <3>1. stage \in Stage /\ Configure(stage, md)
      BY <1>0, <1>2, <2>2 DEF SelectMode, TypeOK
    <3> QED BY <1>0, <1>2, <3>1, ConfigureKeeps DEF SelectMode, disk, operator
  <2> QED BY <2>1, <2>2
<1>3. ASSUME NEW r \in Output, GoLive(r) PROVE Goal
  BY <1>0, <1>3 DEF GoLive, sources, routing, disk, operator, Underlying
<1>4. ASSUME StartRecordings PROVE Goal
  BY <1>0, <1>4, ApplyKeeps DEF StartRecordings, disk, operator
<1>5. ASSUME NEW p \in Provider, LumiaStart(p) PROVE Goal
  BY <1>0, <1>5, ApplyKeeps DEF LumiaStart, disk, operator
<1>6. ASSUME NEW p \in Provider, Stop(p) PROVE Goal
  BY <1>0, <1>6 DEF Stop, sources, routing, disk, operator, Underlying
<1>7. ASSUME NEW s \in Source, NEW m \in Mix, EditTrack(s, m) PROVE Goal
  <2>1. /\ loaded' = loaded /\ owned' = owned /\ baseline' = baseline
        /\ mixers' = Toggled(mixers, s, m)
        /\ chosen' = IF m \in owned THEN chosen ELSE Toggled(chosen, s, m)
    BY <1>7 DEF EditTrack, disk, routing
  <2>2. \A x \in Source : /\ m \in owned => mixers'[x] \ owned = mixers[x] \ owned
                          /\ m \notin owned => mixers'[x] \intersect owned = mixers[x] \intersect owned
    BY <1>0, <2>1 DEF Toggled, Masks
  <2>3. ASSUME NEW x \in Source PROVE Underlying(x)' = chosen'[x]
    <3>0. Underlying(x) = chosen[x]
      BY <1>0
    <3>1. CASE m \in owned
      <4>1. x \in DOMAIN baseline
        BY <1>0, <3>1
      <4> QED BY <2>1, <2>2, <3>0, <3>1, <4>1 DEF Underlying
    <3>2. CASE m \notin owned /\ x # s
      <4>1. mixers'[x] = mixers[x] /\ chosen'[x] = chosen[x]
        BY <1>0, <2>1, <3>2 DEF Toggled, Masks
      <4> QED BY <2>1, <3>0, <4>1 DEF Underlying
    <3>3. CASE m \notin owned /\ x = s
      <4>1. mixers'[x] = IF m \in mixers[x] THEN mixers[x] \ {m} ELSE mixers[x] \union {m}
        BY <1>0, <2>1, <3>3 DEF Toggled, Masks
      <4>2. chosen'[x] = IF m \in chosen[x] THEN chosen[x] \ {m} ELSE chosen[x] \union {m}
        BY <1>0, <2>1, <3>3 DEF Toggled, Masks
      <4>3. CASE x \in DOMAIN baseline
        <5>1. chosen[x] = (baseline[x] \intersect owned) \union (mixers[x] \ owned)
          BY <3>0, <4>3 DEF Underlying
        <5>2. Underlying(x)' = (baseline[x] \intersect owned) \union (mixers'[x] \ owned)
          BY <2>1, <4>3 DEF Underlying
        <5>3. m \in chosen[x] <=> m \in mixers[x]
          BY <5>1, <3>3
        <5> QED BY <3>3, <4>1, <4>2, <5>1, <5>2, <5>3
      <4>4. CASE x \notin DOMAIN baseline
        BY <2>1, <3>0, <4>1, <4>2, <4>4 DEF Underlying
      <4> QED BY <4>3, <4>4
    <3> QED BY <3>1, <3>2, <3>3
  <2> QED BY <1>0, <2>1, <2>3
<1>8. ASSUME NEW s \in Source, NEW m \in Mix, SaveRouting(s, m) PROVE Goal
  <2>1. owned' = {} /\ chosen' = mixers' /\ loaded' = loaded
    BY <1>8 DEF SaveRouting, Forget
  <2>2. MasksTyped'
    BY <1>t DEF TypeOK, MasksTyped
  <2>3. \A x \in Source : Underlying(x)' = mixers'[x]
    BY <2>1, <2>2 DEF Underlying, MasksTyped
  <2> QED BY <1>0, <2>1, <2>3
<1>9. ASSUME SaveDevices PROVE Goal
  <2>1. /\ owned' = {} /\ chosen' = chosen /\ loaded' = loaded
        /\ mixers' = [x \in Source |-> Underlying(x)]
    BY <1>9 DEF SaveDevices, Forget, Restored, operator
  <2>2. MasksTyped'
    BY <1>t DEF TypeOK, MasksTyped
  <2>3. \A x \in Source : Underlying(x)' = mixers'[x]
    BY <2>1, <2>2 DEF Underlying, MasksTyped
  <2> QED BY <1>0, <2>1, <2>3
<1>10. ASSUME Close PROVE Goal
  <2>1. Restored \in Masks /\ Restart(Restored) /\ chosen' = chosen
    BY <1>0, <1>10, RestoredTyped DEF Close
  <2>2. \A x \in Source : Restored[x] = Underlying(x)
    BY DEF Restored
  <2> QED BY <1>0, <2>1, <2>2, RestartKeeps
<1>11. ASSUME UNCHANGED vars PROVE Goal
  BY <1>0, <1>11 DEF vars, sources, routing, disk, operator, Underlying
<1>12. ASSUME SecondStart PROVE Goal
  BY <1>0, <1>12 DEF SecondStart, sources, routing, disk, operator, Underlying
<1>13. ASSUME NEW r \in Output, OutputChanges(r) PROVE Goal
  BY <1>0, <1>13 DEF OutputChanges, sources, routing, disk, operator, Underlying
<1> QED BY <1>1, <1>2, <1>3, <1>4, <1>5, <1>6, <1>7, <1>8, <1>9, <1>10, <1>11, <1>12, <1>13
        DEF Next

LEMMA RememberedInit ==
  ASSUME Init
  PROVE  Remembered
<1>1. TypeOK
  BY TypeInit
<1>2. MasksTyped
  BY <1>1 DEF TypeOK, MasksTyped
<1>3. owned = {} /\ loaded = TRUE /\ chosen = mixers
  BY DEF Init
<1> QED BY <1>1, <1>2, <1>3, UnownedMask DEF Remembered

\* Whatever Stages are selected, edited under, started with, restored and saved, the
\* tracks the operator chose can be told from the masks and what is remembered, and a
\* restart finds them: ConfigurePulseWeaverAudioRouting and its restore lose nothing.
THEOREM MembershipIsKept == Spec => []MembershipKept
<1>1. Init => Remembered
  BY RememberedInit
<1>2. Remembered /\ [Next]_vars => Remembered'
  BY RememberedStep
<1>3. Remembered => MembershipKept
  BY DEF Remembered, MembershipKept
<1> QED BY <1>1, <1>2, <1>3, PTL DEF Spec

-----------------------------------------------------------------------------
(* The recording and VOD tracks.  On disk they are what the operator chose by then.   *)

Untouched ==
  /\ TypeOK
  /\ owned \intersect Spared = {}
  /\ loaded => \A s \in Source : mixers[s] \intersect Spared = chosen[s] \intersect Spared
  /\ \A s \in Source : saved[s] \intersect Spared = chosenThen[s] \intersect Spared
  /\ ~loaded => chosen = chosenThen

\* Neither remembering a mask nor changing it for a Stage touches those tracks.
LEMMA UnderlyingSpares ==
  ASSUME owned \intersect Spared = {}, NEW s \in Source
  PROVE  Underlying(s) \intersect Spared = mixers[s] \intersect Spared
BY DEF Underlying

LEMMA ConfigureSpares ==
  ASSUME owned \intersect Spared = {}, NEW st \in Stage, NEW md \in Selections, Configure(st, md)
  PROVE  /\ owned' \intersect Spared = {}
         /\ \A s \in Source : mixers'[s] \intersect Spared = mixers[s] \intersect Spared
<1> DEFINE plan == Plans[st][md]
<1>1. plan.owned \intersect Spared = {}
  BY PlanTyped
<1>2. owned' = plan.owned
  BY DEF Configure
<1>3. CASE loaded
  <2>1. mixers' = [s \in Source |-> Masked(plan, s)]
    BY <1>3 DEF Configure
  <2>2. ASSUME NEW s \in Source
        PROVE  Masked(plan, s) \intersect Spared = mixers[s] \intersect Spared
    <3>1. Masked(plan, s) \ plan.owned = Underlying(s) \ plan.owned
      BY DEF Masked
    <3> HIDE DEF plan
    <3> QED BY <3>1, <1>1, UnderlyingSpares
  <2> QED BY <1>1, <1>2, <2>1, <2>2
<1>4. CASE ~loaded
  BY <1>1, <1>2, <1>4 DEF Configure, sources
<1> QED BY <1>3, <1>4

LEMMA ApplySpares ==
  ASSUME Untouched, Apply
  PROVE  /\ owned' \intersect Spared = {}
         /\ \A s \in Source : mixers'[s] \intersect Spared = mixers[s] \intersect Spared
<1>0. mode \in Selections /\ stage \in Stage \union {"none"} /\ owned \intersect Spared = {}
  BY DEF Untouched, TypeOK
<1>1. CASE stage = "none"
  BY <1>0, <1>1 DEF Apply, sources, routing
<1>2. CASE stage # "none"
  BY <1>0, <1>2, ConfigureSpares DEF Apply
<1> QED BY <1>1, <1>2

LEMMA UntouchedStep ==
  ASSUME Untouched, [ReloadNext]_vars
  PROVE  Untouched'
<1>0. /\ TypeOK /\ owned \intersect Spared = {} /\ mode \in Selections
      /\ loaded => \A s \in Source : mixers[s] \intersect Spared = chosen[s] \intersect Spared
      /\ \A s \in Source : saved[s] \intersect Spared = chosenThen[s] \intersect Spared
      /\ ~loaded => chosen = chosenThen
      /\ mixers \in Masks /\ chosen \in Masks /\ loaded \in BOOLEAN
  BY DEF Untouched, TypeOK
<1>t. TypeOK'
  BY <1>0, TypeStep
<1> DEFINE Goal ==
      /\ owned' \intersect Spared = {}
      /\ loaded' => \A s \in Source : mixers'[s] \intersect Spared = chosen'[s] \intersect Spared
      /\ \A s \in Source : saved'[s] \intersect Spared = chosenThen'[s] \intersect Spared
      /\ ~loaded' => chosen' = chosenThen'
<1> SUFFICES Goal
  BY <1>t DEF Untouched
<1>1. ASSUME NEW st \in Stage, SelectStage(st) PROVE Goal
  BY <1>0, <1>1, ConfigureSpares DEF SelectStage, disk, operator
<1>2. ASSUME NEW md \in Selections, SelectMode(md) PROVE Goal
  <2>1. CASE stage = "none"
    BY <1>0, <1>2, <2>1 DEF SelectMode, sources, routing, disk, operator
  <2>2. CASE stage # "none"
    <3>1. stage \in Stage /\ Configure(stage, md)
      BY <1>0, <1>2, <2>2 DEF SelectMode, TypeOK
    <3> QED BY <1>0, <1>2, <3>1, ConfigureSpares DEF SelectMode, disk, operator
  <2> QED BY <2>1, <2>2
<1>3. ASSUME NEW r \in Output, GoLive(r) PROVE Goal
  BY <1>0, <1>3 DEF GoLive, sources, routing, disk, operator
<1>4. ASSUME StartRecordings PROVE Goal
  BY <1>0, <1>4, ApplySpares DEF StartRecordings, disk, operator
<1>5. ASSUME NEW p \in Provider, LumiaStart(p) PROVE Goal
  BY <1>0, <1>5, ApplySpares DEF LumiaStart, disk, operator
<1>6. ASSUME NEW p \in Provider, Stop(p) PROVE Goal
  BY <1>0, <1>6 DEF Stop, sources, routing, disk, operator
<1>7. ASSUME NEW s \in Source, NEW m \in Mix, EditTrack(s, m) PROVE Goal
  <2>1. /\ loaded /\ loaded' = loaded /\ owned' = owned /\ saved' = saved /\ chosenThen' = chosenThen
        /\ mixers' = Toggled(mixers, s, m)
        /\ chosen' = IF m \in owned THEN chosen ELSE Toggled(chosen, s, m)
    BY <1>7 DEF EditTrack, disk, routing
  <2>2. ASSUME NEW x \in Source PROVE mixers'[x] \intersect Spared = chosen'[x] \intersect Spared
    <3>0. mixers[x] \intersect Spared = chosen[x] \intersect Spared
      BY <1>0, <2>1
    <3>1. CASE x # s
      <4>1. mixers'[x] = mixers[x] /\ chosen'[x] = chosen[x]
        BY <1>0, <2>1, <3>1 DEF Toggled, Masks
      <4> QED BY <3>0, <4>1
    <3>2. CASE x = s
      <4>1. mixers'[x] = IF m \in mixers[x] THEN mixers[x] \ {m} ELSE mixers[x] \union {m}
        BY <1>0, <2>1, <3>2 DEF Toggled, Masks
      <4>2. CASE m \in owned
        BY <1>0, <2>1, <3>0, <4>1, <4>2
      <4>3. CASE m \notin owned
        <5>1. chosen'[x] = IF m \in chosen[x] THEN chosen[x] \ {m} ELSE chosen[x] \union {m}
          BY <1>0, <2>1, <3>2, <4>3 DEF Toggled, Masks
        <5> QED BY <3>0, <4>1, <5>1
      <4> QED BY <4>2, <4>3
    <3> QED BY <3>1, <3>2
  <2> QED BY <1>0, <2>1, <2>2
<1>8. ASSUME NEW s \in Source, NEW m \in Mix, SaveRouting(s, m) PROVE Goal
  <2>1. /\ owned' = {} /\ chosen' = mixers' /\ loaded /\ loaded' = loaded
        /\ saved' = mixers' /\ chosenThen' = mixers'
    BY <1>8 DEF SaveRouting, Forget
  <2> QED BY <2>1
<1>9. ASSUME SaveDevices PROVE Goal
  <2>1. /\ owned' = {} /\ chosen' = chosen /\ loaded /\ loaded' = loaded
        /\ mixers' = [x \in Source |-> Underlying(x)]
        /\ saved' = mixers' /\ chosenThen' = chosen
    BY <1>9 DEF SaveDevices, Forget, Restored, operator
  <2>2. \A x \in Source : mixers'[x] \intersect Spared = mixers[x] \intersect Spared
    BY <1>0, <2>1, UnderlyingSpares
  <2> QED BY <1>0, <2>1, <2>2
<1>10. ASSUME Close PROVE Goal
  <2>1. /\ mixers' = [x \in Source |-> Underlying(x)] /\ saved' = mixers' /\ owned' = {}
        /\ loaded /\ loaded' = TRUE /\ chosen' = chosen /\ chosenThen' = chosen
    BY <1>10 DEF Close, Restart, Restored
  <2>2. \A x \in Source : mixers'[x] \intersect Spared = mixers[x] \intersect Spared
    BY <1>0, <2>1, UnderlyingSpares
  <2> QED BY <1>0, <2>1, <2>2
<1>11. ASSUME SaveProject PROVE Goal
  BY <1>0, <1>11 DEF SaveProject, sources, routing, operator
<1>12. ASSUME Crash PROVE Goal
  <2>1. /\ mixers' = saved /\ saved' = saved /\ owned' = {} /\ loaded' = TRUE
        /\ chosen' = chosenThen /\ chosenThen' = chosenThen
    BY <1>12 DEF Crash, Restart
  <2> QED BY <1>0, <2>1
<1>13. ASSUME LeaveCollection PROVE Goal
  BY <1>0, <1>13 DEF LeaveCollection, sources, routing, operator
<1>14. ASSUME ReturnToCollection PROVE Goal
  BY <1>0, <1>14 DEF ReturnToCollection, routing, operator
<1>15. ASSUME UNCHANGED vars PROVE Goal
  BY <1>0, <1>15 DEF vars, sources, routing, disk, operator
<1>16. ASSUME SecondStart PROVE Goal
  BY <1>0, <1>16 DEF SecondStart, sources, routing, disk, operator
<1>17. ASSUME NEW r \in Output, OutputChanges(r) PROVE Goal
  BY <1>0, <1>17 DEF OutputChanges, sources, routing, disk, operator
<1> QED BY <1>1, <1>2, <1>3, <1>4, <1>5, <1>6, <1>7, <1>8, <1>9, <1>10, <1>11, <1>12, <1>13,
          <1>14, <1>15, <1>16, <1>17 DEF ReloadNext, Next

LEMMA UntouchedInit ==
  ASSUME Init
  PROVE  Untouched
<1>1. TypeOK
  BY TypeInit
<1>2. owned = {} /\ loaded = TRUE /\ chosen = mixers /\ saved = mixers /\ chosenThen = mixers
  BY DEF Init
<1> QED BY <1>1, <1>2 DEF Untouched

\* With crashes, saves at any moment and other scene collections in between, no Stage
\* changes what OBS's recording and VOD tracks carry.
THEOREM VodStaysConfigured == ReloadSpec => []VodAsConfigured
<1>1. Init => Untouched
  BY UntouchedInit
<1>2. Untouched /\ [ReloadNext]_vars => Untouched'
  BY UntouchedStep
<1>3. Untouched => VodAsConfigured
  BY DEF Untouched, VodAsConfigured, Spared
<1> QED BY <1>1, <1>2, <1>3, PTL DEF ReloadSpec


-----------------------------------------------------------------------------
(* What is heard.  Routes share a mix only if they exclude the same sources.          *)

LEMMA Places ==
  /\ IsFiniteSet(Route) /\ Route \subseteq Provider \X Canvas
  /\ \A r \in Route : Place(r) \in 1 .. 5 /\ Order[Place(r)] = r
<1>1. DOMAIN Order = 1 .. 5
  BY DEF Order
<1>2. Route = {Order[i] : i \in 1 .. 5}
  BY <1>1 DEF Route
<1>3. IsFiniteSet(Route)
  <2> DEFINE A == {Order[1]}
             B == A \union {Order[2]}
             C == B \union {Order[3]}
             D == C \union {Order[4]}
  <2>1. Route = D \union {Order[5]}
    BY <1>2
  <2>2. IsFiniteSet(A)
    BY FS_Singleton
  <2>3. IsFiniteSet(B)
    <3> HIDE DEF A
    <3> QED BY <2>2, FS_AddElement
  <2>4. IsFiniteSet(C)
    <3> HIDE DEF B
    <3> QED BY <2>3, FS_AddElement
  <2>5. IsFiniteSet(D)
    <3> HIDE DEF C
    <3> QED BY <2>4, FS_AddElement
  <2> HIDE DEF D
  <2> QED BY <2>1, <2>5, FS_AddElement
<1>4. Route \subseteq Provider \X Canvas
  BY <1>2 DEF Order, Provider, Canvas
<1>5. ASSUME NEW r \in Route PROVE Place(r) \in 1 .. 5 /\ Order[Place(r)] = r
  <2>1. \E i \in DOMAIN Order : Order[i] = r
    BY DEF Route
  <2>2. Place(r) \in DOMAIN Order /\ Order[Place(r)] = r
    BY <2>1 DEF Place
  <2> QED BY <1>1, <2>2
<1> QED BY <1>3, <1>4, <1>5

\* Some of the routes comes first.
LEMMA Earliest ==
  ASSUME NEW S, S \subseteq Route, S # {}
  PROVE  \E q \in S : \A p \in S : Place(q) <= Place(p)
<1> DEFINE T == {Place(p) : p \in S}
<1>1. T \subseteq 1 .. 5 /\ T # {}
  BY Places
<1> HIDE DEF T
<1>2. \E i \in T : \A j \in T : i <= j
  <2>1. CASE 1 \in T
    BY <1>1, <2>1
  <2>2. CASE 1 \notin T /\ 2 \in T
    BY <1>1, <2>2
  <2>3. CASE 1 \notin T /\ 2 \notin T /\ 3 \in T
    BY <1>1, <2>3
  <2>4. CASE 1 \notin T /\ 2 \notin T /\ 3 \notin T
    <3>1. T \subseteq 4 .. 5
      BY <1>1, <2>4
    <3>2. CASE 4 \in T
      BY <3>1, <3>2
    <3>3. CASE 4 \notin T
      <4>1. \A j \in T : j = 5
        BY <3>1, <3>3
      <4>2. PICK i \in T : TRUE
        BY <1>1
      <4>3. i = 5 /\ \A j \in T : j = i
        BY <4>1, <4>2
      <4>4. \A j \in T : i <= j
        BY <4>3
      <4> QED BY <4>2, <4>4
    <3> QED BY <3>2, <3>3
  <2> QED BY <2>1, <2>2, <2>3, <2>4
<1> QED BY <1>2 DEF T

LEMMA FirstFacts ==
  ASSUME NEW st, NEW md, NEW r \in Apart(st, md)
  PROVE  /\ First(st, md, r) \in Route /\ First(st, md, r) \in Firsts(st, md)
         /\ Excluded[st][First(st, md, r)] = Excluded[st][r]
<1> DEFINE S == {q \in Apart(st, md) : Excluded[st][q] = Excluded[st][r]}
<1>1. Apart(st, md) \subseteq Route /\ S \subseteq Route /\ S # {}
  BY DEF Apart, Wanted
<1>2. \E q \in S : \A p \in S : Place(q) <= Place(p)
  BY <1>1, Earliest
<1>3. \E q \in Apart(st, md) :
        /\ Excluded[st][q] = Excluded[st][r]
        /\ \A p \in Apart(st, md) : Excluded[st][p] = Excluded[st][r] => Place(q) <= Place(p)
  BY <1>2
<1>4. First(st, md, r) \in Apart(st, md) /\ Excluded[st][First(st, md, r)] = Excluded[st][r]
  BY <1>3 DEF First
<1>5. First(st, md, r) \in Firsts(st, md)
  BY DEF Firsts
<1> QED BY <1>1, <1>4, <1>5

\* The search gives no mix to routes whose exclusions differ.
LEMMA SharedMix ==
  ASSUME NEW st, NEW md, NEW q \in Route, NEW r \in Route,
         NEW m \in Allotted(st, md, q) \intersect Allotted(st, md, r)
  PROVE  Excluded[st][q] = Excluded[st][r]
<1> DEFINE f == First(st, md, q)
           g == First(st, md, r)
           F == Firsts(st, md)
           Before(x) == {p \in F : Place(p) < Place(x)}
<1>1. q \in Apart(st, md) /\ r \in Apart(st, md)
  BY DEF Allotted
<1>2. Turn(st, md, q) = Turn(st, md, r)
  BY <1>1 DEF Allotted
<1>3. Cardinality(Before(f)) = Cardinality(Before(g))
  BY <1>2 DEF Turn
<1>4. /\ f \in Route /\ f \in F /\ Excluded[st][f] = Excluded[st][q]
      /\ g \in Route /\ g \in F /\ Excluded[st][g] = Excluded[st][r]
  BY <1>1, FirstFacts
<1>5. F \subseteq Route
  BY FirstFacts DEF Firsts
<1>6. IsFiniteSet(Before(f)) /\ IsFiniteSet(Before(g))
  BY <1>5, Places, FS_Subset
<1>7. \A x, y \in F : Place(x) < Place(y) => Before(x) \subseteq Before(y) /\ x \in Before(y) /\ x \notin Before(x)
  BY <1>5, Places
<1>8. ASSUME NEW x \in F, NEW y \in F, IsFiniteSet(Before(y)), Place(x) < Place(y)
      PROVE  Cardinality(Before(x)) # Cardinality(Before(y))
  <2>1. Before(x) \subseteq Before(y) /\ Before(x) # Before(y)
    BY <1>7, <1>8
  <2> HIDE DEF Before
  <2> QED BY <1>8, <2>1, FS_Subset
<1>9. Place(f) = Place(g)
  <2>1. Place(f) \in Int /\ Place(g) \in Int
    BY <1>4, Places
  <2>2. ~(Place(f) < Place(g))
    BY <1>3, <1>4, <1>6, <1>8
  <2>3. ~(Place(g) < Place(f))
    BY <1>3, <1>4, <1>6, <1>8
  <2> QED BY <2>1, <2>2, <2>3
<1>10. f = g
  BY <1>4, <1>9, Places
<1> QED BY <1>4, <1>10

-----------------------------------------------------------------------------
(* Applying a Stage.  A mix it owns carries the programme, without what is barred.    *)

LEMMA PlanFields ==
  ASSUME NEW st \in Stage, NEW md \in Selections
  PROVE  /\ Plans[st][md].owned = (IF TwitchExcluded(st, md) = {} THEN {} ELSE {StreamMix})
                                    \union UNION {Allotted(st, md, r) : r \in Route}
         /\ \A m \in Mix : Plans[st][md].barred[m] =
              IF m = StreamMix THEN TwitchExcluded(st, md)
              ELSE UNION {Excluded[st][r] : r \in {q \in Route : m \in Allotted(st, md, q)}}
         /\ \A r \in Route : Plans[st][md].mix[r] = MixFrom(Allotted(st, md, r))
         /\ \A r \in Apart(st, md) : Allotted(st, md, r) = {} => r \in Plans[st][md].warned
<1> DEFINE allotted == [r \in Route |-> Allotted(st, md, r)]
<1>1. Plans[st][md] = Plan(st, md)
  BY DEF Plans
<1>2. \A r \in Route : allotted[r] = Allotted(st, md, r)
  OBVIOUS
<1>3. Plan(st, md) =
        [owned |-> (IF TwitchExcluded(st, md) = {} THEN {} ELSE {StreamMix})
                     \union UNION {allotted[r] : r \in Route},
         barred |-> [m \in Mix |-> IF m = StreamMix THEN TwitchExcluded(st, md)
                                   ELSE UNION {Excluded[st][r] : r \in {q \in Route : m \in allotted[q]}}],
         mix |-> [r \in Route |-> MixFrom(allotted[r])],
         warned |-> {r \in Apart(st, md) : allotted[r] = {}}]
  BY DEF Plan
<1>4. Apart(st, md) \subseteq Route
  BY DEF Apart, Wanted
<1> HIDE DEF allotted
<1>5. Plans[st][md].owned = (IF TwitchExcluded(st, md) = {} THEN {} ELSE {StreamMix})
                              \union UNION {Allotted(st, md, r) : r \in Route}
  BY <1>1, <1>2, <1>3
<1>6. ASSUME NEW m \in Mix
      PROVE  Plans[st][md].barred[m] =
              IF m = StreamMix THEN TwitchExcluded(st, md)
              ELSE UNION {Excluded[st][r] : r \in {q \in Route : m \in Allotted(st, md, q)}}
  <2>1. {q \in Route : m \in allotted[q]} = {q \in Route : m \in Allotted(st, md, q)}
    BY <1>2
  <2> DEFINE bars == [n \in Mix |-> IF n = StreamMix THEN TwitchExcluded(st, md)
                              ELSE UNION {Excluded[st][r] : r \in {q \in Route : n \in allotted[q]}}]
  <2>2. Plans[st][md].barred = bars
    BY <1>1, <1>3
  <2>3. bars[m] = IF m = StreamMix THEN TwitchExcluded(st, md)
                  ELSE UNION {Excluded[st][r] : r \in {q \in Route : m \in allotted[q]}}
    OBVIOUS
  <2> HIDE DEF bars
  <2> QED BY <2>1, <2>2, <2>3
<1>7. \A r \in Route : Plans[st][md].mix[r] = MixFrom(Allotted(st, md, r))
  BY <1>1, <1>2, <1>3
<1>8. \A r \in Apart(st, md) : Allotted(st, md, r) = {} => r \in Plans[st][md].warned
  BY <1>1, <1>2, <1>3, <1>4
<1> QED BY <1>5, <1>6, <1>7, <1>8

LEMMA OwnedMixHears ==
  ASSUME Remembered, NEW st \in Stage, NEW md \in Selections, Configure(st, md),
         NEW m \in Plans[st][md].owned
  PROVE  Heard(m, mixers') = Programme \ Plans[st][md].barred[m]
<1> DEFINE plan == Plans[st][md]
<1>1. mixers' = [s \in Source |-> Masked(plan, s)]
  BY DEF Configure, Remembered
<1>2. \A s \in Source : Underlying(s) = chosen[s]
  BY DEF Remembered
<1>3. \A s \in Source : m \in Masked(plan, s) <=> StreamMix \in chosen[s] /\ s \notin plan.barred[m]
  <2> HIDE DEF plan
  <2>1. m \in plan.owned
    BY DEF plan
  <2> QED BY <1>2, <2>1 DEF Masked
<1> HIDE DEF plan
<1>4. \A s \in Source : m \in mixers'[s] <=> StreamMix \in chosen[s] /\ s \notin plan.barred[m]
  BY <1>1, <1>3
<1>5. Heard(m, mixers') = Programme \ plan.barred[m]
  BY <1>4 DEF Heard, Programme
<1> QED BY <1>5 DEF plan

LEMMA StreamHears ==
  ASSUME Remembered, NEW st \in Stage, NEW md \in Selections, Configure(st, md)
  PROVE  Heard(StreamMix, mixers') = Programme \ TwitchExcluded(st, md)
<1> DEFINE plan == Plans[st][md]
           t == TwitchExcluded(st, md)
<1>1. plan.barred[StreamMix] = t
  BY PlanFields, MixAssumption
<1>2. CASE t # {}
  <2>1. StreamMix \in plan.owned
    BY <1>2, PlanFields
  <2> QED BY <1>1, <2>1, OwnedMixHears
<1>3. CASE t = {}
  <2>1. StreamMix \notin UNION {Allotted(st, md, r) : r \in Route}
    BY MixAssumption DEF Allotted, Free
  <2>2. StreamMix \notin plan.owned
    BY <1>3, <2>1, PlanFields
  <2>3. mixers' = [s \in Source |-> Masked(plan, s)]
    BY DEF Configure, Remembered
  <2>4. \A s \in Source : Underlying(s) = chosen[s]
    BY DEF Remembered
  <2> HIDE DEF plan
  <2>5. \A s \in Source : StreamMix \in Masked(plan, s) <=> StreamMix \in chosen[s]
    BY <2>2, <2>4 DEF Masked
  <2>6. \A s \in Source : StreamMix \in mixers'[s] <=> StreamMix \in chosen[s]
    BY <2>3, <2>5
  <2> HIDE DEF t
  <2>7. Heard(StreamMix, mixers') = Programme
    BY <2>6 DEF Heard, Programme
  <2> QED BY <1>3, <2>7 DEF t
<1> QED BY <1>2, <1>3

LEMMA RouteHears ==
  ASSUME Remembered, NEW st \in Stage, NEW md \in Selections, Configure(st, md),
         NEW r \in Wanted(md) \ Plans[st][md].warned
  PROVE  Heard(mixOf'[r], mixers') = Programme \ Excluded[st][r]
<1> DEFINE plan == Plans[st][md]
           mine == Allotted(st, md, r)
<1>1. r \in Route
  BY DEF Wanted
<1>2. mixOf'[r] = MixFrom(mine)
  <2>1. mixOf'[r] = plan.mix[r]
    BY <1>1 DEF Configure
  <2> QED BY <1>1, <2>1, PlanFields
<1>3. CASE r \notin Apart(st, md)
  <2>1. mixOf'[r] = StreamMix
    BY <1>2, <1>3 DEF Allotted, MixFrom
  <2>2. Excluded[st][r] = TwitchExcluded(st, md)
    BY <1>3 DEF Apart
  <2> QED BY <2>1, <2>2, StreamHears
<1>4. CASE r \in Apart(st, md)
  <2>1. mine # {}
    BY <1>4, PlanFields
  <2>2. PICK m \in mine : mixOf'[r] = m
    <3> HIDE DEF mine
    <3>1. PICK x \in mine : TRUE
      BY <2>1
    <3>2. (CHOOSE y \in mine : TRUE) \in mine
      BY <3>1
    <3> QED BY <1>2, <2>1, <3>2 DEF MixFrom
  <2>3. m \in Free /\ m \in Mix /\ m # StreamMix
    BY MixAssumption DEF Allotted, Free
  <2>4. m \in plan.owned
    BY <1>1, PlanFields
  <2>5. plan.barred[m] = UNION {Excluded[st][q] : q \in {p \in Route : m \in Allotted(st, md, p)}}
    BY <2>3, PlanFields
  <2>6. \A q \in {p \in Route : m \in Allotted(st, md, p)} : Excluded[st][q] = Excluded[st][r]
    BY <1>1, SharedMix
  <2>7. r \in {p \in Route : m \in Allotted(st, md, p)}
    BY <1>1
  <2> DEFINE sharing == {p \in Route : m \in Allotted(st, md, p)}
  <2>8. plan.barred[m] = Excluded[st][r]
    <3> HIDE DEF plan, sharing
    <3>1. /\ plan.barred[m] = UNION {Excluded[st][q] : q \in sharing}
          /\ \A q \in sharing : Excluded[st][q] = Excluded[st][r]
          /\ r \in sharing
      BY <2>5, <2>6, <2>7 DEF sharing
    <3> QED BY <3>1
  <2>9. Heard(m, mixers') = Programme \ plan.barred[m]
    BY <2>4, OwnedMixHears
  <2> QED BY <2>2, <2>8, <2>9
<1> QED BY <1>3, <1>4

\* Whatever was restored, edited or saved since, applying a Stage to the selected
\* destinations, as ConfigurePulseWeaverAudioRouting does, gives Twitch and every route
\* that is not warned about the programme without what the Stage excludes from it,
\* however many routes share a mix.
THEOREM RoutesHearTheProgramme == Spec => RoutesHear
<1>1. Init => Remembered
  BY RememberedInit
<1>2. Remembered /\ [Next]_vars => Remembered'
  BY RememberedStep
<1> DEFINE Step == loaded /\ stage' # "none" /\ Configure(stage', mode') =>
              /\ Heard(StreamMix, mixers') = Programme \ TwitchExcluded(stage', mode')
              /\ \A r \in Wanted(mode') \ Plans[stage'][mode'].warned :
                   Heard(mixOf'[r], mixers') = Programme \ Excluded[stage'][r]
<1>3. Remembered /\ Remembered' => [Step]_vars
  <2> SUFFICES ASSUME Remembered, Remembered', loaded, stage' # "none", Configure(stage', mode')
               PROVE  /\ Heard(StreamMix, mixers') = Programme \ TwitchExcluded(stage', mode')
                      /\ \A r \in Wanted(mode') \ Plans[stage'][mode'].warned :
                           Heard(mixOf'[r], mixers') = Programme \ Excluded[stage'][r]
    OBVIOUS
  <2>1. stage' \in Stage /\ mode' \in Selections
    BY DEF Remembered, TypeOK
  <2>2. PICK st \in Stage, md \in Selections : st = stage' /\ md = mode'
    BY <2>1
  <2>3. Configure(st, md)
    BY <2>2
  <2>4. Heard(StreamMix, mixers') = Programme \ TwitchExcluded(st, md)
    BY <2>3, StreamHears
  <2>5. \A r \in Wanted(md) \ Plans[st][md].warned :
          Heard(mixOf'[r], mixers') = Programme \ Excluded[st][r]
    BY <2>3, RouteHears
  <2> QED BY <2>2, <2>4, <2>5
<1>4. Spec => [][Step]_vars
  BY <1>1, <1>2, <1>3, PTL DEF Spec
<1> QED BY <1>4 DEF RoutesHear

-----------------------------------------------------------------------------
(* Starting an output: the Stage is applied first, and the encoder made after it.     *)

LEMMA OpenedIsolated ==
  ASSUME Remembered, stage # "none", NEW p \in Provider, Apply, Opened(p),
         stage' = stage, mode' = mode,
         NEW r \in Running(p)'
  PROVE  Isolated(r)'
<1>1. stage \in Stage /\ mode \in Selections
  BY DEF Remembered, TypeOK
<1>2. Configure(stage, mode)
  BY DEF Apply
<1>3. r \in Output /\ r[1] = p /\ output'[r] # "none"
  BY DEF Running, on
<1>4. r \in AtOnce(p) /\ encoder'[r] = mixOf'[r]
  <2>1. CASE r \in AtOnce(p)
    BY <1>3, <2>1 DEF Opened
  <2>2. CASE r \notin AtOnce(p)
    BY <1>3, <2>2 DEF Opened
  <2> QED BY <2>1, <2>2
<1>5. r \in Wanted(mode) /\ r \in Route
  BY <1>4 DEF AtOnce, Wanted
<1>6. Excluded[stage][r] \subseteq Source
  BY <1>1, <1>5, Places, StageAssumption
<1>7. ASSUME r \notin Plans[stage][mode].warned, NEW s \in Excluded[stage][r]
      PROVE  encoder'[r] \notin mixers'[s]
  <2>1. Heard(mixOf'[r], mixers') = Programme \ Excluded[stage][r]
    BY <1>1, <1>2, <1>5, <1>7, RouteHears
  <2>2. s \notin Heard(mixOf'[r], mixers') /\ s \in Source
    BY <1>6, <1>7, <2>1
  <2> QED BY <1>4, <2>2 DEF Heard
<1> QED BY <1>7 DEF Isolated

\* StartPulseWeaverRecordings and PulseWeaverLumiaDestination apply the Stage before they
\* make the encoders: what was restored or edited since the Stage was selected does not
\* bring an excluded source into a recording, or into an output the request itself starts.
\* Of the second half of a dual start, which a timer makes later, nothing is claimed.
THEOREM StartsIsolated == Spec => StartIsolated
<1>1. Init => Remembered
  BY RememberedInit
<1>2. Remembered /\ [Next]_vars => Remembered'
  BY RememberedStep
<1> DEFINE Step == stage # "none" =>
       /\ StartRecordings => \A r \in Running("recording")' : Isolated(r)'
       /\ \A p \in Provider : LumiaStart(p) => \A r \in Running(p)' : Isolated(r)'
<1>3. Remembered => [Step]_vars
  <2> SUFFICES ASSUME Remembered, stage # "none"
               PROVE  /\ StartRecordings => \A r \in Running("recording")' : Isolated(r)'
                      /\ \A p \in Provider : LumiaStart(p) => \A r \in Running(p)' : Isolated(r)'
    OBVIOUS
  <2>1. ASSUME StartRecordings, NEW r \in Running("recording")' PROVE Isolated(r)'
    <3>1. Apply /\ Opened("recording") /\ stage' = stage /\ mode' = mode
      BY <2>1 DEF StartRecordings
    <3>2. "recording" \in Provider
      BY DEF Provider
    <3> QED BY <2>1, <3>1, <3>2, OpenedIsolated
  <2>2. ASSUME NEW p \in Provider, LumiaStart(p), NEW r \in Running(p)' PROVE Isolated(r)'
    <3>1. Apply /\ Opened(p) /\ stage' = stage /\ mode' = mode
      BY <2>2 DEF LumiaStart
    <3> QED BY <2>2, <3>1, OpenedIsolated
  <2> QED BY <2>1, <2>2
<1>4. Spec => [][Step]_vars
  BY <1>1, <1>2, <1>3, PTL DEF Spec
<1> QED BY <1>4 DEF StartIsolated

=============================================================================
