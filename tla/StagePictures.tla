---------------------------- MODULE StagePictures ---------------------------
(***************************************************************************)
(* The pictures of a Stage (ApplyPulseWeaverStage and the timer that       *)
(* finishes its transitions, OBSBasic_PulseWeaver.cpp): the horizontal     *)
(* programme, the vertical canvas, and a private canvas for each           *)
(* destination whose scene or exclusions differ from them.  Encoders are   *)
(* bound to a canvas when their output starts.                             *)
(***************************************************************************)
EXTENDS Integers, FiniteSets

CONSTANTS
  Scene,            \* scenes of both canvases
  NoScene,
  Provider,
  Instant,          \* providers whose outputs need no connection: the recordings
  Modes,            \* the formats a provider offers, as sets of canvases
  Stage,            \* the Stages: see StageAssumption
  Studio,           \* whether OBS is in Studio Mode
  MaxApplied,       \* bound: times a Stage is applied
  MaxSwitches,      \* bound: scenes switched by hand
  MaxStarts         \* bound: outputs started

Canvas == {"horizontal", "vertical"}
Key == Provider \X Canvas

Picture == [scene : Scene, excluded : BOOLEAN]
Unassigned == [scene |-> NoScene, excluded |-> FALSE]

ASSUME StageAssumption ==
  /\ NoScene \notin Scene
  /\ Instant \subseteq Provider
  /\ Modes \in [Provider -> SUBSET SUBSET Canvas]
  /\ Stage \subseteq [scene : [Canvas -> Scene \cup {NoScene}],
                      move : [Canvas -> {"cut", "fade", "stinger"}],
                      assigned : [Key -> Picture \cup {Unassigned}]]
  /\ Studio \in BOOLEAN

ASSUME BoundAssumption == MaxApplied \in Nat /\ MaxSwitches \in Nat /\ MaxStarts \in Nat

VARIABLES
  stage,      \* the Stage the selector shows
  mode,       \* the destination selectors, as sets of canvases
  due,        \* providers with a zero timer that applies the changed mode
  serial,     \* pulseStageTransitionSerial
  screen,     \* what the programme and the vertical canvas show
  private,    \* pulseOutputCanvases: what each private canvas shows, or Absent
  timers,     \* the finalizers that wait
  pending,    \* pulseWeaverStageTransitionPending
  output,     \* the outputs and the canvas their encoder is bound to
  asked,      \* the scenes asked for last, for the properties only
  switches,
  starts

pictureVars == <<stage, serial, screen, private, timers, pending, asked>>
vars == <<pictureVars, mode, due, output, switches, starts>>

----------------------------------------------------------------------------
(* A canvas shows a scene directly or through a transition, a source of    *)
(* its own that stays on the canvas after it has ended.                    *)
Channel == [picture : Picture, via : {"cut", "fade", "stinger"}, moving : BOOLEAN]
Absent == [picture |-> Unassigned, via |-> "cut", moving |-> FALSE]

Direct(picture) == [picture |-> picture, via |-> "cut", moving |-> FALSE]
Native(scene) == [scene |-> scene, excluded |-> FALSE]

(* The target is shown already: directly, or by the stinger that is kept   *)
(* for this canvas.  A copy with exclusions is a new source each time.     *)
Shows(channel, move, picture) ==
  channel.picture = picture /\ ~picture.excluded /\ channel.via \in {"cut", move} \ {"fade"}

Starts(channel, move, picture) ==
  move # "cut" /\ channel # Absent /\ ~Shows(channel, move, picture)

Shown(channel, move, picture) ==
  IF Starts(channel, move, picture)
  THEN [picture |-> picture, via |-> move, moving |-> TRUE]
  ELSE Direct(picture)

(* TransitionToScene.  The programme's transition stays on its channel; in *)
(* Studio Mode a transition under way turns every other one away.          *)
Programme(channel, move, picture) ==
  IF Studio /\ channel.moving THEN channel
  ELSE [Direct(picture) EXCEPT !.moving = move # "cut" /\ channel.picture # picture]

(* providerOutputActive: an output that still connects is not active.      *)
Active(p) == \E c \in Canvas : output[<<p, c>>].state = "active"

(* usesNativeProgramme *)
Suffices(s, k) == s.assigned[k].scene = s.scene[k[2]] /\ ~s.assigned[k].excluded

Enabled(k) == k[2] \in mode[k[1]]

(* The destinations that get a private canvas, and those that lose theirs. *)
Routed(s) ==
  {k \in Key : /\ Enabled(k) /\ s.assigned[k] # Unassigned
               /\ Suffices(s, k) => Active(k[1]) /\ private[k] # Absent}

\* Fault: outputs on air are not asked for.
ReleasedAnyway(s) ==
  {k \in Key : Enabled(k) => s.assigned[k] # Unassigned /\ Suffices(s, k)}

Released(s) ==
  {k \in Key : ~Active(k[1]) /\ (Enabled(k) => s.assigned[k] # Unassigned /\ Suffices(s, k))}

(* A Stage without a scene of its own for a canvas takes the scene of the  *)
(* first destination with a private one.                                   *)
SceneOf(s, c) ==
  LET routed == {k \in Routed(s) : k[2] = c}
  IN IF s.scene[c] # NoScene \/ routed = {} THEN s.scene[c]
     ELSE s.assigned[CHOOSE k \in routed : TRUE].scene

(* ApplyPulseWeaverStage *)
Apply(s, run) ==
  LET move == [c \in Canvas |-> IF run THEN s.move[c] ELSE "cut"]
      scene == [c \in Canvas |-> SceneOf(s, c)]
      routed == Routed(s)
      vertical == Native(scene["vertical"])
      portrait == scene["vertical"] # NoScene
                  /\ Starts(screen["vertical"], move["vertical"], vertical)
      copies == \E k \in routed : Starts(private[k], move[k[2]], s.assigned[k])
      waits == portrait \/ copies \/ (scene["horizontal"] # NoScene /\ move["horizontal"] # "cut")
  IN /\ serial < MaxApplied
     /\ stage' = s
     /\ serial' = serial + 1
     /\ private' = [k \in Key |->
          IF k \in routed THEN Shown(private[k], move[k[2]], s.assigned[k])
          ELSE IF k \in Released(s) THEN Absent ELSE private[k]]
     /\ screen' = [c \in Canvas |->
          IF scene[c] = NoScene THEN screen[c]
          ELSE IF c = "vertical" THEN Shown(screen[c], move[c], vertical)
          ELSE Programme(screen[c], move[c], Native(scene[c]))]
     /\ pending' = waits
     /\ timers' = timers \cup
          {[serial |-> serial + 1, stage |-> s,
            vertical |-> IF portrait THEN scene["vertical"] ELSE NoScene,
            routed |-> IF copies THEN routed ELSE {}] : n \in IF waits THEN {1} ELSE {}}
     /\ asked' = [c \in Canvas |-> IF scene[c] = NoScene THEN asked[c] ELSE {scene[c]}]

\* Fault: the serial is not compared.
Every(t) == TRUE

(* FinalizePulseWeaverStageTransitions; while something moves it only      *)
(* calls itself again.                                                     *)
Newest(t) == t.serial = serial

\* Fault: asks whether a transition is shown, not whether it runs.
IsTransition(t) ==
  screen["vertical"].via # "cut" \/ \E k \in t.routed : private[k].via # "cut"

Moves(t) ==
  \/ screen["horizontal"].moving
  \/ t.vertical # NoScene /\ screen["vertical"].moving
  \/ \E k \in t.routed : private[k].moving

\* Fault: the portrait scene is set even when there is none.
PortraitAlways(t) == [screen EXCEPT !["vertical"] = Direct(Native(t.vertical))]

PortraitShown(t) == IF t.vertical = NoScene THEN screen ELSE PortraitAlways(t)

\* Fault: the private canvases are forgotten.
CopiesLeft(t) == private

CopiesShown(t) ==
  [k \in Key |-> IF k \in t.routed THEN Direct(t.stage.assigned[k]) ELSE private[k]]

Finalize(t) ==
  /\ timers' = timers \ {t}
  /\ IF ~Newest(t) THEN UNCHANGED <<screen, private, pending>>
     ELSE /\ ~Moves(t)
          /\ screen' = PortraitShown(t) /\ private' = CopiesShown(t)
          /\ pending' = FALSE
  /\ UNCHANGED <<stage, serial, asked, mode, due, output, switches, starts>>

----------------------------------------------------------------------------
(* Outputs.  An encoder is bound to the private canvas of its destination  *)
(* if there is one; removing that canvas leaves it without a picture.      *)
Output == [state : {"idle", "connecting", "active"}, bound : {"none", "native", "private", "gone"}]
Idle == [state |-> "idle", bound |-> "none"]

Unbound(canvases) ==
  [k \in Key |-> IF output[k].bound = "private" /\ canvases[k] = Absent
                 THEN [output[k] EXCEPT !.bound = "gone"] ELSE output[k]]

Opened(outputs, canvases, keys) ==
  [k \in Key |-> IF k \notin keys THEN outputs[k]
                 ELSE [state |-> IF k[1] \in Instant THEN "active" ELSE "connecting",
                       bound |-> IF canvases[k] = Absent THEN "native" ELSE "private"]]

Closed(outputs, keys) == [k \in Key |-> IF k \in keys THEN Idle ELSE outputs[k]]

Keys(p) == {p} \X Canvas
Stopped(p) == \A k \in Keys(p) : output[k].state = "idle"

(* A stream in both formats starts with the horizontal one, or with both   *)
(* in one connection (Twitch); recordings start together.                  *)
Groups(p) ==
  {{p} \X mode[p]} \cup (IF p \notin Instant /\ mode[p] = Canvas THEN {{<<p, "horizontal">>}} ELSE {})

Init ==
  /\ stage \in Stage
  /\ mode \in [Provider -> SUBSET Canvas] /\ \A p \in Provider : mode[p] \in Modes[p]
  /\ due = {}
  /\ serial = 0
  /\ screen \in [Canvas -> {Direct(Native(scene)) : scene \in Scene}]
  /\ private = [k \in Key |-> Absent]
  /\ timers = {}
  /\ pending = FALSE
  /\ output = [k \in Key |-> Idle]
  /\ asked = [c \in Canvas |-> {screen[c].picture.scene}]
  /\ switches = 0
  /\ starts = 0

(* ActivatePulseWeaverStage *)
SelectStage(s) ==
  /\ s # stage
  /\ Apply(s, TRUE)
  /\ output' = Unbound(private')
  /\ UNCHANGED <<mode, due, switches, starts>>

(* The Stage editor closes; the Stage may be another one now.              *)
CloseStageEditor(s) ==
  /\ Apply(s, FALSE)
  /\ output' = Unbound(private')
  /\ UNCHANGED <<mode, due, switches, starts>>

(* A destination or recording selector.                                    *)
Change(p, m) ==
  /\ m # mode[p]
  /\ p \in Instant \/ m = {} \/ Stopped(p) \/ m = {c \in Canvas : output[<<p, c>>] # Idle}
  /\ mode' = [mode EXCEPT ![p] = m]
  /\ due' = due \cup {p}
  /\ UNCHANGED <<pictureVars, output, switches, starts>>

(* Its zero timer.  In a live session a destination that was turned off is *)
(* stopped and one that was turned on is started, after the Stage.         *)
ApplyChange(p, live) ==
  /\ p \in due
  /\ due' = due \ {p}
  /\ Apply(stage, FALSE)
  /\ IF live /\ p \notin Instant /\ mode[p] = {}
     THEN output' = Closed(Unbound(private'), Keys(p)) /\ UNCHANGED starts
     ELSE IF live /\ p \notin Instant /\ Stopped(p)
     THEN /\ starts < MaxStarts /\ starts' = starts + 1
          /\ \E keys \in Groups(p) : output' = Opened(Unbound(private'), private', keys)
     ELSE output' = Unbound(private') /\ UNCHANGED starts
  /\ UNCHANGED <<mode, switches>>

(* The Go Live button starts the outputs without applying the Stage.       *)
GoLive(p) ==
  /\ p \notin Instant /\ mode[p] # {} /\ Stopped(p)
  /\ starts < MaxStarts /\ starts' = starts + 1
  /\ \E keys \in Groups(p) : output' = Opened(output, private, keys)
  /\ UNCHANGED <<pictureVars, mode, due, switches>>

(* Lumia's request for one destination, and StartPulseWeaverRecordings.    *)
Start(p) ==
  /\ mode[p] # {} /\ Stopped(p)
  /\ Apply(stage, FALSE)
  /\ starts < MaxStarts /\ starts' = starts + 1
  /\ \E keys \in Groups(p) : output' = Opened(Unbound(private'), private', keys)
  /\ UNCHANGED <<mode, due, switches>>

(* YouTube's second format, 1.5 s after the first.                         *)
StartSecond(p) ==
  /\ p \notin Instant /\ mode[p] = Canvas
  /\ output[<<p, "horizontal">>].state = "active" /\ output[<<p, "vertical">>] = Idle
  /\ output' = Opened(output, private, {<<p, "vertical">>})
  /\ UNCHANGED <<pictureVars, mode, due, switches, starts>>

Connect(k) ==
  /\ output[k].state = "connecting"
  /\ output' = [output EXCEPT ![k].state = "active"]
  /\ UNCHANGED <<pictureVars, mode, due, switches, starts>>

(* An output ends by itself or is refused, or its provider is stopped.     *)
End(keys) ==
  /\ \E k \in keys : output[k] # Idle
  /\ output' = Closed(output, keys)
  /\ UNCHANGED <<pictureVars, mode, due, switches, starts>>

----------------------------------------------------------------------------
(* Transitions end by themselves.                                          *)
EndOfMove(channel) == [channel EXCEPT !.moving = FALSE]

EndMove ==
  /\ \/ /\ \E c \in Canvas : screen[c].moving /\ screen' = [screen EXCEPT ![c] = EndOfMove(@)]
        /\ UNCHANGED private
     \/ /\ \E k \in Key : private[k].moving /\ private' = [private EXCEPT ![k] = EndOfMove(@)]
        /\ UNCHANGED screen
  /\ UNCHANGED <<stage, serial, timers, pending, asked, mode, due, output, switches, starts>>

(* A scene chosen by hand, in OBS or on the portrait canvas (switchScene). *)
Switch(c, scene) ==
  /\ switches < MaxSwitches /\ switches' = switches + 1
  /\ screen[c].picture.scene # scene
  /\ IF c = "vertical" THEN screen' = [screen EXCEPT ![c] = Direct(Native(scene))]
     ELSE \E move \in {"cut", "fade"} :
            screen' = [screen EXCEPT ![c] = Programme(@, move, Native(scene))]
  /\ asked' = [asked EXCEPT ![c] =
       IF screen' = screen THEN @
       ELSE {scene} \cup {v \in Scene : c = "vertical" /\ \E t \in timers : Newest(t) /\ t.vertical = v}]
  /\ UNCHANGED <<stage, serial, private, timers, pending, mode, due, output, starts>>

Next ==
  \/ \E s \in Stage : SelectStage(s) \/ CloseStageEditor(s)
  \/ \E p \in Provider :
       \/ \E m \in Modes[p] : Change(p, m)
       \/ \E live \in BOOLEAN : ApplyChange(p, live)
       \/ GoLive(p) \/ Start(p) \/ StartSecond(p) \/ End(Keys(p))
  \/ \E k \in Key : Connect(k) \/ End({k})
  \/ \E t \in timers : Finalize(t)
  \/ EndMove
  \/ \E c \in Canvas, scene \in Scene : Switch(c, scene)

Spec == Init /\ [][Next]_vars

(* The timer fires and transitions end.                                    *)
FairSpec == Spec /\ WF_vars(\E t \in timers : Finalize(t)) /\ WF_vars(EndMove)

----------------------------------------------------------------------------
TypeOK ==
  /\ stage \in Stage
  /\ mode \in [Provider -> SUBSET Canvas]
  /\ due \subseteq Provider
  /\ serial \in 0..MaxApplied
  /\ screen \in [Canvas -> Channel]
  /\ private \in [Key -> Channel \cup {Absent}]
  /\ timers \subseteq [serial : 1..serial, stage : Stage, vertical : Scene \cup {NoScene},
                       routed : SUBSET Key]
  /\ pending \in BOOLEAN
  /\ output \in [Key -> Output]
  /\ asked \in [Canvas -> SUBSET Scene]
  /\ switches \in 0..MaxSwitches
  /\ starts \in 0..MaxStarts

(* Whatever finalizers are still waiting: the programme and the vertical   *)
(* canvas show what was asked for last, and the canvas of an enabled       *)
(* destination shows what the newest Stage assigns to it - its scene with  *)
(* its exclusions - or is missing where the native programme suffices.     *)
PicturesFollow ==
  /\ \A c \in Canvas : screen[c].picture.scene \in asked[c]
  /\ \A k \in Key :
       serial > 0 /\ Enabled(k) /\ k[1] \notin due /\ stage.assigned[k] # Unassigned =>
         IF private[k] = Absent THEN Suffices(stage, k) ELSE private[k].picture = stage.assigned[k]

(* When no transition of a Stage is pending, none of its transitions is    *)
(* left on a canvas the Stage decides about.                               *)
SettledIsDirect ==
  ~pending /\ serial > 0 =>
    /\ stage.scene["vertical"] # NoScene => screen["vertical"].via = "cut"
    /\ \A k \in Key : Enabled(k) /\ k[1] \notin due /\ stage.assigned[k] # Unassigned
                        => private[k].via = "cut"

(* No step takes the canvas of an output that is on air, or of a running   *)
(* recording, away from its encoder.                                       *)
LiveKeepsCanvas ==
  [][\A k \in Key : output[k].state = "active" /\ output[k].bound = "private"
                      => output'[k].bound # "gone"]_vars

(* The flag that holds camera moves back (pulse-motion-engine.cpp:5598) is *)
(* cleared in the end, however Stages, scenes and outputs change.          *)
PendingClears == pending ~> ~pending

(* False.  OBSBasic_PulseWeaver.cpp:233-235 says a private canvas is       *)
(* released "only while no encoder can still be bound to its video         *)
(* context".  An output that is connecting counts as inactive.             *)
BoundCanvasKept == \A k \in Key : output[k].bound # "gone"
=============================================================================
