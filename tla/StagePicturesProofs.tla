------------------------- MODULE StagePicturesProofs ------------------------
(***************************************************************************)
(* For every set of scenes, destinations and Stages, any number of Stages  *)
(* applied and of finalizers that wait: types, that the canvases show what *)
(* was asked for, that nothing of a finished transition stays on them, and *)
(* that no encoder on air loses its canvas.                                *)
(***************************************************************************)
EXTENDS StagePictures, TLAPS

Moves3 == {"cut", "fade", "stinger"}

LEMMA PictureFacts ==
  /\ Unassigned \notin Picture
  /\ \A ch : ch.picture \in Picture => ch # Absent
  /\ \A scene \in Scene : Native(scene) \in Picture /\ Native(scene).scene = scene
  /\ \A picture \in Picture : Direct(picture) \in Channel
  /\ \A picture : Direct(picture).picture = picture /\ Direct(picture).via = "cut"
  /\ Direct(Unassigned) = Absent /\ Absent.via = "cut"
BY StageAssumption DEF Unassigned, Picture, Absent, Native, Direct, Channel

LEMMA KeyFacts ==
  \A k \in Key : k[1] \in Provider /\ k[2] \in Canvas /\ k = <<k[1], k[2]>>
BY DEF Key

LEMMA StageFacts ==
  ASSUME NEW s \in Stage
  PROVE  /\ \A c \in Canvas : s.scene[c] \in Scene \cup {NoScene} /\ s.move[c] \in Moves3
         /\ \A k \in Key : s.assigned[k] # Unassigned => s.assigned[k] \in Picture
BY StageAssumption DEF Moves3

\* A channel that is asked to show a picture shows it, through a transition or
\* directly.
LEMMA ShownFacts ==
  ASSUME NEW ch, NEW move \in Moves3, NEW picture \in Picture
  PROVE  /\ Shown(ch, move, picture) \in Channel
         /\ Shown(ch, move, picture).picture = picture
         /\ ~Starts(ch, move, picture) => Shown(ch, move, picture).via = "cut"
<1>1. CASE Starts(ch, move, picture)
  BY <1>1 DEF Shown, Channel, Moves3
<1>2. CASE ~Starts(ch, move, picture)
  BY <1>2, PictureFacts DEF Shown
<1> QED BY <1>1, <1>2

LEMMA ProgrammeFacts ==
  ASSUME NEW ch \in Channel, NEW move, NEW scene \in Scene
  PROVE  /\ Programme(ch, move, Native(scene)) \in Channel
         /\ Programme(ch, move, Native(scene)).via \in {ch.via, "cut"}
         /\ ~Studio => Programme(ch, move, Native(scene)).picture = Native(scene)
BY PictureFacts DEF Programme, Direct, Channel

-----------------------------------------------------------------------------
(* Applying a Stage *)

\* What applying s asks of the canvases.
Asks(s, scene, move, routed) ==
  /\ stage' = s /\ serial' = serial + 1 /\ serial < MaxApplied
  /\ private' = [k \in Key |->
        IF k \in routed THEN Shown(private[k], move[k[2]], s.assigned[k])
        ELSE IF k \in Released(s) THEN Absent ELSE private[k]]
  /\ screen' = [c \in Canvas |->
        IF scene[c] = NoScene THEN screen[c]
        ELSE IF c = "vertical" THEN Shown(screen[c], move[c], Native(scene["vertical"]))
        ELSE Programme(screen[c], move[c], Native(scene[c]))]
  /\ asked' = [c \in Canvas |-> IF scene[c] = NoScene THEN asked[c] ELSE {scene[c]}]

\* The finalizer that is started for it.
Finalizer(s, scene, move, routed, t) ==
  /\ t.serial = serial + 1 /\ t.stage = s
  /\ t.vertical = IF /\ scene["vertical"] # NoScene
                     /\ Starts(screen["vertical"], move["vertical"], Native(scene["vertical"]))
                  THEN scene["vertical"] ELSE NoScene
  /\ t.routed = IF \E k \in routed : Starts(private[k], move[k[2]], s.assigned[k])
                THEN routed ELSE {}

LEMMA SceneTyped ==
  ASSUME NEW s \in Stage, NEW c \in Canvas
  PROVE  /\ SceneOf(s, c) \in Scene \cup {NoScene}
         /\ s.scene[c] # NoScene => SceneOf(s, c) = s.scene[c]
<1> DEFINE routed == {k \in Routed(s) : k[2] = c}
<1>1. CASE s.scene[c] # NoScene \/ routed = {}
  BY <1>1, StageFacts DEF SceneOf
<1>2. CASE ~(s.scene[c] # NoScene \/ routed = {})
  <2>1. (CHOOSE k \in routed : TRUE) \in routed
    BY <1>2
  <2>2. SceneOf(s, c) = s.assigned[CHOOSE k \in routed : TRUE].scene
    BY <1>2 DEF SceneOf
  <2>3. \A k \in routed : s.assigned[k] \in Picture
    BY StageFacts DEF Routed
  <2> HIDE DEF routed
  <2> QED BY <1>2, <2>1, <2>2, <2>3 DEF Picture
<1> QED BY <1>1, <1>2

LEMMA ApplyIs ==
  ASSUME NEW s \in Stage, NEW run \in BOOLEAN, Apply(s, run)
  PROVE  \E scene \in [Canvas -> Scene \cup {NoScene}], move \in [Canvas -> Moves3] :
           /\ \A c \in Canvas : s.scene[c] # NoScene => scene[c] = s.scene[c]
           /\ Asks(s, scene, move, Routed(s))
           /\ \/ /\ pending' = TRUE
                 /\ \E t : /\ timers' = timers \cup {t}
                           /\ t = [serial |-> t.serial, stage |-> t.stage,
                                   vertical |-> t.vertical, routed |-> t.routed]
                           /\ Finalizer(s, scene, move, Routed(s), t)
              \/ /\ pending' = FALSE /\ timers' = timers
                 /\ scene["vertical"] # NoScene =>
                      ~Starts(screen["vertical"], move["vertical"], Native(scene["vertical"]))
                 /\ \A k \in Routed(s) : ~Starts(private[k], move[k[2]], s.assigned[k])
<1> DEFINE move == [c \in Canvas |-> IF run THEN s.move[c] ELSE "cut"]
           scene == [c \in Canvas |-> SceneOf(s, c)]
           routed == Routed(s)
           portrait == scene["vertical"] # NoScene
                       /\ Starts(screen["vertical"], move["vertical"], Native(scene["vertical"]))
           copies == \E k \in routed : Starts(private[k], move[k[2]], s.assigned[k])
           waits == portrait \/ copies \/ (scene["horizontal"] # NoScene /\ move["horizontal"] # "cut")
           t == [serial |-> serial + 1, stage |-> s,
                 vertical |-> IF portrait THEN scene["vertical"] ELSE NoScene,
                 routed |-> IF copies THEN routed ELSE {}]
<1>1. scene \in [Canvas -> Scene \cup {NoScene}] /\ \A c \in Canvas : s.scene[c] # NoScene => scene[c] = s.scene[c]
  BY SceneTyped
<1>2. move \in [Canvas -> Moves3]
  BY StageFacts DEF Moves3
<1>3. /\ Asks(s, scene, move, routed) /\ pending' = waits
      /\ timers' = timers \cup {t : n \in IF waits THEN {1} ELSE {}}
  BY DEF Apply, Asks
<1>4. Finalizer(s, scene, move, routed, t) /\ t = [serial |-> t.serial, stage |-> t.stage,
                                   vertical |-> t.vertical, routed |-> t.routed]
  BY DEF Finalizer
<1>5. CASE waits
  <2>1. timers' = timers \cup {t} /\ pending' = TRUE
    BY <1>3, <1>5
  <2> HIDE DEF scene, move, routed, portrait, copies, waits, t
  <2> QED BY <1>1, <1>2, <1>3, <1>4, <2>1 DEF routed
<1>6. CASE ~waits
  <2>1. timers' = timers /\ pending' = FALSE /\ ~portrait /\ ~copies
    BY <1>3, <1>6
  <2> QED BY <1>1, <1>2, <1>3, <2>1
<1> QED BY <1>5, <1>6

-----------------------------------------------------------------------------
(* Types *)

TimerRecord == [serial : Nat, stage : Stage, vertical : Scene \cup {NoScene}, routed : SUBSET Key]

PicturesTyped ==
  /\ stage \in Stage
  /\ serial \in 0..MaxApplied
  /\ screen \in [Canvas -> Channel]
  /\ private \in [Key -> Channel \cup {Absent}]
  /\ timers \subseteq TimerRecord /\ \A t \in timers : t.serial \in 1..serial
  /\ pending \in BOOLEAN
  /\ asked \in [Canvas -> SUBSET Scene]

OutputsTyped ==
  /\ mode \in [Provider -> SUBSET Canvas]
  /\ due \subseteq Provider
  /\ output \in [Key -> Output]
  /\ switches \in 0..MaxSwitches
  /\ starts \in 0..MaxStarts

Typed == PicturesTyped /\ OutputsTyped

LEMMA TypedIsTypeOK == Typed => TypeOK
<1> SUFFICES ASSUME Typed PROVE TypeOK
  OBVIOUS
<1>1. timers \subseteq [serial : 1..serial, stage : Stage, vertical : Scene \cup {NoScene},
                        routed : SUBSET Key]
  BY DEF Typed, PicturesTyped, TimerRecord
<1> QED BY <1>1 DEF Typed, PicturesTyped, OutputsTyped, TypeOK

LEMMA ApplyTyped ==
  ASSUME PicturesTyped, NEW s \in Stage, NEW run \in BOOLEAN, Apply(s, run)
  PROVE  PicturesTyped'
<1>1. PICK scene \in [Canvas -> Scene \cup {NoScene}], move \in [Canvas -> Moves3] :
           /\ Asks(s, scene, move, Routed(s))
           /\ \/ timers' = timers
              \/ \E t : /\ timers' = timers \cup {t}
                        /\ t = [serial |-> t.serial, stage |-> t.stage,
                                vertical |-> t.vertical, routed |-> t.routed]
                        /\ Finalizer(s, scene, move, Routed(s), t)
           /\ pending' \in BOOLEAN
  BY ApplyIs
<1> DEFINE routed == Routed(s)
<1>2. \A k \in routed : k \in Key /\ s.assigned[k] \in Picture
  BY StageFacts DEF Routed
<1>3. private' \in [Key -> Channel \cup {Absent}]
  <2>1. ASSUME NEW k \in Key
        PROVE  (IF k \in routed THEN Shown(private[k], move[k[2]], s.assigned[k])
                ELSE IF k \in Released(s) THEN Absent ELSE private[k]) \in Channel \cup {Absent}
    <3>1. move[k[2]] \in Moves3
      BY KeyFacts
    <3>2. k \in routed => Shown(private[k], move[k[2]], s.assigned[k]) \in Channel
      BY <1>2, <3>1, ShownFacts
    <3> HIDE DEF routed
    <3> QED BY <3>2 DEF PicturesTyped
  <2> HIDE DEF routed
  <2> QED BY <1>1, <2>1 DEF Asks, routed
<1>4. screen' \in [Canvas -> Channel]
  <2>1. ASSUME NEW c \in Canvas
        PROVE  (IF scene[c] = NoScene THEN screen[c]
                ELSE IF c = "vertical" THEN Shown(screen[c], move[c], Native(scene["vertical"]))
                ELSE Programme(screen[c], move[c], Native(scene[c]))) \in Channel
    <3>1. screen[c] \in Channel /\ move[c] \in Moves3 /\ scene[c] \in Scene \cup {NoScene}
      BY DEF PicturesTyped
    <3>2. scene[c] # NoScene => Native(scene[c]) \in Picture
      BY <3>1, PictureFacts
    <3>3. scene[c] # NoScene => Shown(screen[c], move[c], Native(scene[c])) \in Channel
      BY <3>1, <3>2, ShownFacts
    <3>4. scene[c] # NoScene => Programme(screen[c], move[c], Native(scene[c])) \in Channel
      BY <3>1, ProgrammeFacts
    <3> QED BY <3>1, <3>3, <3>4
  <2> QED BY <1>1, <2>1 DEF Asks
<1>5. serial' \in 0..MaxApplied /\ serial' = serial + 1 /\ stage' \in Stage
  BY <1>1, BoundAssumption DEF Asks, PicturesTyped
<1>6. asked' \in [Canvas -> SUBSET Scene]
  BY <1>1 DEF Asks, PicturesTyped
<1>7. timers' \subseteq TimerRecord /\ \A t \in timers' : t.serial \in 1..serial'
  <2>1. \A t \in timers : t \in TimerRecord /\ t.serial \in 1..serial'
    BY <1>5 DEF PicturesTyped
  <2>2. CASE timers' = timers
    BY <2>1, <2>2
  <2>3. ASSUME NEW t, timers' = timers \cup {t},
               t = [serial |-> t.serial, stage |-> t.stage, vertical |-> t.vertical, routed |-> t.routed],
               Finalizer(s, scene, move, Routed(s), t)
        PROVE  timers' \subseteq TimerRecord /\ \A u \in timers' : u.serial \in 1..serial'
    <3>1. t.serial \in Nat /\ t.serial \in 1..serial' /\ t.stage \in Stage
      BY <1>5, <2>3 DEF Finalizer, PicturesTyped
    <3>2. t.vertical \in Scene \cup {NoScene}
      BY <2>3 DEF Finalizer, Canvas
    <3>3. t.routed \subseteq Key
      BY <2>3 DEF Finalizer, Routed
    <3>4. t \in TimerRecord
      BY <2>3, <3>1, <3>2, <3>3 DEF TimerRecord
    <3> QED BY <2>1, <2>3, <3>1, <3>4
  <2> QED BY <1>1, <2>2, <2>3
<1> QED BY <1>1, <1>3, <1>4, <1>5, <1>6, <1>7 DEF PicturesTyped

LEMMA OutputFacts ==
  ASSUME NEW o \in [Key -> Output], NEW canvases, NEW keys
  PROVE  /\ Opened(o, canvases, keys) \in [Key -> Output]
         /\ [k \in Key |-> IF k \in keys THEN Idle ELSE o[k]] \in [Key -> Output]
BY DEF Opened, Output, Idle

LEMMA UnboundTyped ==
  ASSUME output \in [Key -> Output], NEW canvases
  PROVE  Unbound(canvases) \in [Key -> Output]
<1>1. \A k \in Key : [output[k] EXCEPT !.bound = "gone"] \in Output
  BY DEF Output
<1> QED BY <1>1 DEF Unbound

LEMMA ClosedTyped ==
  ASSUME NEW o \in [Key -> Output], NEW keys
  PROVE  Closed(o, keys) \in [Key -> Output]
BY DEF Closed, Output, Idle

\* Steps that apply a Stage, in the order of Next.
Applies == \/ \E s \in Stage : SelectStage(s) \/ CloseStageEditor(s)
           \/ \E p \in Provider : Start(p) \/ \E live \in BOOLEAN : ApplyChange(p, live)

LEMMA AppliesTyped ==
  ASSUME Typed, Applies
  PROVE  Typed'
<1> USE DEF Typed
<1>0. PICK s \in Stage, run \in BOOLEAN : Apply(s, run)
  BY DEF Applies, SelectStage, CloseStageEditor, Start, ApplyChange, PicturesTyped
<1>1. PicturesTyped'
  BY <1>0, ApplyTyped
<1>2. mode' = mode /\ due' \subseteq Provider /\ switches' = switches
  BY DEF Applies, SelectStage, CloseStageEditor, Start, ApplyChange, OutputsTyped
<1>3. output' \in [Key -> Output]
  <2>1. Unbound(private') \in [Key -> Output]
    BY UnboundTyped DEF OutputsTyped
  <2>2. \/ output' = Unbound(private')
        \/ \E keys : output' = Closed(Unbound(private'), keys)
        \/ \E keys : output' = Opened(Unbound(private'), private', keys)
    BY DEF Applies, SelectStage, CloseStageEditor, Start, ApplyChange
  <2> QED BY <2>1, <2>2, ClosedTyped, OutputFacts
<1>4. starts' \in 0..MaxStarts
  <2>1. starts' = starts \/ (starts < MaxStarts /\ starts' = starts + 1)
    BY DEF Applies, SelectStage, CloseStageEditor, Start, ApplyChange
  <2> QED BY <2>1, BoundAssumption DEF OutputsTyped
<1> QED BY <1>1, <1>2, <1>3, <1>4 DEF OutputsTyped

\* Steps of the outputs and selectors that leave the pictures alone.
Plays == \/ \E p \in Provider : \/ \E m \in Modes[p] : Change(p, m)
                                \/ GoLive(p) \/ StartSecond(p) \/ End(Keys(p))
         \/ \E k \in Key : Connect(k) \/ End({k})

LEMMA PlaysTyped ==
  ASSUME Typed, Plays
  PROVE  Typed' /\ UNCHANGED pictureVars
<1> USE DEF Typed
<1>1. UNCHANGED pictureVars
  BY DEF Plays, Change, GoLive, StartSecond, End, Connect
<1>2. PicturesTyped'
  BY <1>1 DEF pictureVars, PicturesTyped
<1>3. mode' \in [Provider -> SUBSET Canvas] /\ due' \subseteq Provider
  <2>1. CASE UNCHANGED <<mode, due>>
    BY <2>1 DEF OutputsTyped
  <2>2. ASSUME NEW p \in Provider, NEW m \in Modes[p], Change(p, m)
        PROVE  mode' \in [Provider -> SUBSET Canvas] /\ due' \subseteq Provider
    <3>1. m \subseteq Canvas
      BY <2>2, StageAssumption
    <3> QED BY <2>2, <3>1 DEF Change, OutputsTyped
  <2> QED BY <2>1, <2>2 DEF Plays, GoLive, StartSecond, End, Connect
<1>4. output' \in [Key -> Output]
  <2>1. ASSUME NEW k \in Key
        PROVE  [output EXCEPT ![k].state = "active"] \in [Key -> Output]
    <3>1. [output[k] EXCEPT !.state = "active"] \in Output
      BY DEF Output, OutputsTyped
    <3> QED BY <3>1 DEF OutputsTyped
  <2>2. \/ output' = output
        \/ \E keys : output' = Closed(output, keys)
        \/ \E keys : output' = Opened(output, private, keys)
        \/ \E k \in Key : output' = [output EXCEPT ![k].state = "active"]
    BY DEF Plays, Change, GoLive, StartSecond, End, Connect
  <2>3. output \in [Key -> Output]
    BY DEF OutputsTyped
  <2> QED BY <2>1, <2>2, <2>3, ClosedTyped, OutputFacts
<1>5. starts' \in 0..MaxStarts /\ switches' = switches
  <2>1. starts' = starts \/ (starts < MaxStarts /\ starts' = starts + 1)
    BY DEF Plays, Change, GoLive, StartSecond, End, Connect
  <2>2. switches' = switches
    BY DEF Plays, Change, GoLive, StartSecond, End, Connect
  <2> QED BY <2>1, <2>2, BoundAssumption DEF OutputsTyped
<1> QED BY <1>1, <1>2, <1>3, <1>4, <1>5 DEF OutputsTyped

LEMMA EndOfMoveFacts ==
  ASSUME NEW ch \in Channel \cup {Absent}
  PROVE  /\ EndOfMove(ch) \in Channel \cup {Absent} /\ EndOfMove(ch).via = ch.via
         /\ EndOfMove(ch).picture = ch.picture
         /\ ch \in Channel => EndOfMove(ch) \in Channel
<1>1. CASE ch \in Channel
  <2>1. EndOfMove(ch) \in Channel
    BY <1>1 DEF EndOfMove, Channel
  <2>2. EndOfMove(ch).via = ch.via
    BY <1>1 DEF EndOfMove, Channel
  <2>3. EndOfMove(ch).picture = ch.picture
    BY <1>1 DEF EndOfMove, Channel
  <2> QED BY <2>1, <2>2, <2>3
<1>2. CASE ch = Absent /\ ch \notin Channel
  <2> DEFINE record == [picture : {Unassigned}, via : {"cut"}, moving : {FALSE}]
  <2>1. ch \in record
    BY <1>2 DEF Absent
  <2>2. EndOfMove(ch) \in record
    BY <2>1 DEF EndOfMove
  <2>3. ASSUME NEW r \in record PROVE r = Absent
    <3>1. r = [picture |-> r.picture, via |-> r.via, moving |-> r.moving]
      OBVIOUS
    <3>2. r.picture = Unassigned /\ r.via = "cut" /\ r.moving = FALSE
      OBVIOUS
    <3> HIDE DEF record
    <3> QED BY <3>1, <3>2 DEF Absent
  <2> HIDE DEF record
  <2> QED BY <1>2, <2>2, <2>3
<1> QED BY <1>1, <1>2

\* Steps of the pictures themselves.
Paints == \/ \E t \in timers : Finalize(t)
          \/ EndMove
          \/ \E c \in Canvas, scene \in Scene : Switch(c, scene)

LEMMA FinalizeIs ==
  ASSUME Typed, NEW t \in timers, Finalize(t)
  PROVE  /\ timers' = timers \ {t}
         /\ UNCHANGED <<stage, serial, asked, mode, due, output, switches, starts>>
         /\ IF ~Newest(t) THEN UNCHANGED <<screen, private, pending>>
            ELSE /\ pending' = FALSE
                 /\ screen' \in [Canvas -> Channel] /\ private' \in [Key -> Channel \cup {Absent}]
                 /\ screen'["horizontal"] = screen["horizontal"]
                 /\ screen'["vertical"] = IF t.vertical = NoScene THEN screen["vertical"]
                                          ELSE Direct(Native(t.vertical))
                 /\ \A k \in Key : private'[k] = IF k \in t.routed THEN Direct(t.stage.assigned[k]) ELSE private[k]
<1>1. t \in TimerRecord
  BY DEF Typed, PicturesTyped
<1>2. t.vertical # NoScene => Direct(Native(t.vertical)) \in Channel
  BY <1>1, PictureFacts DEF TimerRecord
<1>3. \A k \in Key : Direct(t.stage.assigned[k]) \in Channel \cup {Absent}
  BY <1>1, StageFacts, PictureFacts DEF TimerRecord
<1>4. Newest(t) => screen' = PortraitShown(t) /\ private' = CopiesShown(t)
  BY DEF Finalize
<1>5. PortraitShown(t) \in [Canvas -> Channel]
      /\ PortraitShown(t)["horizontal"] = screen["horizontal"]
      /\ PortraitShown(t)["vertical"] = IF t.vertical = NoScene THEN screen["vertical"]
                                          ELSE Direct(Native(t.vertical))
  BY <1>2 DEF PortraitShown, PortraitAlways, Typed, PicturesTyped, Canvas
<1>6. CopiesShown(t) \in [Key -> Channel \cup {Absent}]
      /\ \A k \in Key : CopiesShown(t)[k] = IF k \in t.routed THEN Direct(t.stage.assigned[k]) ELSE private[k]
  BY <1>3 DEF CopiesShown, Typed, PicturesTyped
<1> QED BY <1>4, <1>5, <1>6 DEF Finalize

LEMMA EndMoveIs ==
  ASSUME Typed, EndMove
  PROVE  /\ UNCHANGED <<stage, serial, timers, pending, asked, mode, due, output, switches, starts>>
         /\ screen' \in [Canvas -> Channel] /\ private' \in [Key -> Channel \cup {Absent}]
         /\ \A c \in Canvas : screen'[c].picture = screen[c].picture /\ screen'[c].via = screen[c].via
         /\ \A k \in Key : private'[k].picture = private[k].picture /\ private'[k].via = private[k].via
<1>1. \A c \in Canvas : EndOfMove(screen[c]) \in Channel /\ EndOfMove(screen[c]).picture = screen[c].picture
                        /\ EndOfMove(screen[c]).via = screen[c].via
  BY EndOfMoveFacts DEF Typed, PicturesTyped
<1>2. \A k \in Key : EndOfMove(private[k]) \in Channel \cup {Absent}
                     /\ EndOfMove(private[k]).picture = private[k].picture
                     /\ EndOfMove(private[k]).via = private[k].via
  BY EndOfMoveFacts DEF Typed, PicturesTyped
<1> HIDE DEF EndOfMove
<1> QED BY <1>1, <1>2 DEF EndMove, Typed, PicturesTyped

LEMMA SwitchIs ==
  ASSUME Typed, NEW c \in Canvas, NEW scene \in Scene, Switch(c, scene)
  PROVE  /\ UNCHANGED <<stage, serial, private, timers, pending, mode, due, output, starts>>
         /\ switches < MaxSwitches /\ switches' = switches + 1
         /\ screen' \in [Canvas -> Channel]
         /\ \A b \in Canvas \ {c} : screen'[b] = screen[b] /\ asked'[b] = asked[b]
         /\ screen'[c].via \in {"cut", screen[c].via}
         /\ c = "vertical" => screen'[c].via = "cut"
         /\ ~Studio \/ c = "vertical" => screen'[c].picture = Native(scene)
         /\ asked' \in [Canvas -> SUBSET Scene]
         /\ asked'[c] = IF screen' = screen THEN asked[c]
              ELSE {scene} \cup {v \in Scene : c = "vertical" /\ \E t \in timers : Newest(t) /\ t.vertical = v}
<1>1. screen[c] \in Channel /\ screen \in [Canvas -> Channel] /\ asked \in [Canvas -> SUBSET Scene]
  BY DEF Typed, PicturesTyped
<1>2. /\ Direct(Native(scene)) \in Channel /\ Direct(Native(scene)).via = "cut"
      /\ Direct(Native(scene)).picture = Native(scene)
  BY PictureFacts
<1>3. PICK ch \in Channel : /\ screen' = [screen EXCEPT ![c] = ch]
                            /\ ch.via \in {"cut", screen[c].via} /\ (c = "vertical" => ch.via = "cut")
                            /\ ~Studio \/ c = "vertical" => ch.picture = Native(scene)
  <2>1. CASE c = "vertical"
    BY <1>2, <2>1 DEF Switch
  <2>2. CASE c # "vertical"
    <3>1. PICK move \in {"cut", "fade"} : screen' = [screen EXCEPT ![c] = Programme(screen[c], move, Native(scene))]
      BY <2>2 DEF Switch
    <3> QED BY <1>1, <2>2, <3>1, ProgrammeFacts
  <2> QED BY <2>1, <2>2
<1>4. screen' \in [Canvas -> Channel] /\ screen'[c] = ch /\ \A b \in Canvas \ {c} : screen'[b] = screen[b]
  BY <1>1, <1>3
<1>5. asked' = [asked EXCEPT ![c] = IF screen' = screen THEN asked[c]
         ELSE {scene} \cup {v \in Scene : c = "vertical" /\ \E t \in timers : Newest(t) /\ t.vertical = v}]
  BY DEF Switch
<1> QED BY <1>1, <1>3, <1>4, <1>5 DEF Switch

LEMMA PaintsTyped ==
  ASSUME Typed, Paints
  PROVE  Typed'
<1>1. ASSUME NEW t \in timers, Finalize(t) PROVE Typed'
  BY <1>1, FinalizeIs DEF Typed, PicturesTyped, OutputsTyped
<1>2. CASE EndMove
  BY <1>2, EndMoveIs DEF Typed, PicturesTyped, OutputsTyped
<1>3. ASSUME NEW c \in Canvas, NEW scene \in Scene, Switch(c, scene) PROVE Typed'
  <2>1. switches' \in 0..MaxSwitches
    <3>1. switches < MaxSwitches /\ switches' = switches + 1
      BY <1>3 DEF Switch
    <3>2. switches \in 0..MaxSwitches
      BY DEF Typed, OutputsTyped
    <3> QED BY <3>1, <3>2, BoundAssumption
  <2>2. PicturesTyped'
    BY <1>3, SwitchIs DEF Typed, PicturesTyped
  <2>3. UNCHANGED <<mode, due, output, starts>>
    BY <1>3, SwitchIs
  <2> QED BY <2>1, <2>2, <2>3 DEF Typed, OutputsTyped
<1> QED BY <1>1, <1>2, <1>3 DEF Paints

LEMMA NextIs == Next => Applies \/ Plays \/ Paints
BY DEF Next, Applies, Plays, Paints

LEMMA InitTyped == Init => Typed
<1> SUFFICES ASSUME Init PROVE Typed
  OBVIOUS
<1>1. screen \in [Canvas -> Channel] /\ \A c \in Canvas : screen[c].picture.scene \in Scene
  BY PictureFacts DEF Init
<1>2. mode \in [Provider -> SUBSET Canvas]
  BY DEF Init
<1>3. output \in [Key -> Output] /\ private \in [Key -> Channel \cup {Absent}]
  BY DEF Init, Output, Idle
<1>4. asked \in [Canvas -> SUBSET Scene]
  BY <1>1 DEF Init
<1>5. serial \in 0..MaxApplied /\ switches \in 0..MaxSwitches /\ starts \in 0..MaxStarts
  BY BoundAssumption DEF Init
<1>6. stage \in Stage /\ due \subseteq Provider /\ pending \in BOOLEAN /\ timers = {}
  BY DEF Init
<1>7. PicturesTyped
  BY <1>1, <1>3, <1>4, <1>5, <1>6 DEF PicturesTyped
<1> QED BY <1>2, <1>3, <1>5, <1>6, <1>7 DEF Typed, OutputsTyped

LEMMA StepTyped == Typed /\ [Next]_vars => Typed'
<1>1. Typed /\ UNCHANGED vars => Typed'
  BY DEF vars, pictureVars, Typed, PicturesTyped, OutputsTyped
<1> QED BY <1>1, NextIs, AppliesTyped, PlaysTyped, PaintsTyped

\* Types of the pictures, the finalizers and the outputs.
THEOREM TypeCorrect == Spec => []TypeOK
<1> QED BY InitTyped, StepTyped, TypedIsTypeOK, PTL DEF Spec

-----------------------------------------------------------------------------
(* The canvases follow the Stage *)

\* The newest Stage decides what the canvas of this destination shows.
Decided(k) == Enabled(k) /\ k[1] \notin due /\ stage.assigned[k] # Unassigned

Copied ==
  serial > 0 => \A k \in Key : Decided(k) =>
    IF private[k] = Absent THEN Suffices(stage, k) ELSE private[k].picture = stage.assigned[k]

\* The finalizer of the newest Stage knows every canvas that may move for it,
\* and brings the portrait scene asked for or none.
Waiting ==
  \A t \in timers : t.serial = serial =>
    /\ t.stage = stage
    /\ t.vertical # NoScene => t.vertical \in asked["vertical"]
    /\ t.vertical = NoScene /\ stage.scene["vertical"] # NoScene => screen["vertical"].via = "cut"
    /\ \A k \in Key : Decided(k) => k \in t.routed \/ private[k].via = "cut"

\* A finalizer brings pictures, never the absence of one.
Routing == \A t \in timers, k \in Key : k \in t.routed => t.stage.assigned[k] # Unassigned

Following == Copied /\ Waiting /\ Routing /\ SettledIsDirect

Settled ==
  /\ stage.scene["vertical"] # NoScene => screen["vertical"].via = "cut"
  /\ \A k \in Key : Decided(k) => private[k].via = "cut"

LEMMA SettledIs == SettledIsDirect <=> (~pending /\ serial > 0 => Settled)
BY DEF SettledIsDirect, Settled, Decided

\* What applying s does to the canvas of one destination.
LEMMA CopyIs ==
  ASSUME Typed, NEW s \in Stage, NEW scene \in [Canvas -> Scene \cup {NoScene}],
         NEW move \in [Canvas -> Moves3], Asks(s, scene, move, Routed(s)),
         NEW k \in Key
  PROVE  /\ k \in Routed(s) =>
              /\ private'[k] \in Channel /\ private'[k].picture = s.assigned[k] /\ private'[k] # Absent
              /\ ~Starts(private[k], move[k[2]], s.assigned[k]) => private'[k].via = "cut"
         /\ k \notin Routed(s) /\ Enabled(k) /\ s.assigned[k] # Unassigned =>
              Suffices(s, k) /\ private'[k] = Absent
         /\ k \notin Routed(s) /\ k \notin Released(s) => private'[k] = private[k]
<1>1. private'[k] = IF k \in Routed(s) THEN Shown(private[k], move[k[2]], s.assigned[k])
                    ELSE IF k \in Released(s) THEN Absent ELSE private[k]
  BY DEF Asks
<1>2. ASSUME k \in Routed(s)
      PROVE  /\ private'[k] \in Channel /\ private'[k].picture = s.assigned[k] /\ private'[k] # Absent
             /\ ~Starts(private[k], move[k[2]], s.assigned[k]) => private'[k].via = "cut"
  <2>1. s.assigned[k] \in Picture /\ move[k[2]] \in Moves3
    BY <1>2, StageFacts, KeyFacts DEF Routed
  <2>2. private'[k] = Shown(private[k], move[k[2]], s.assigned[k])
    BY <1>1, <1>2
  <2> QED BY <2>1, <2>2, ShownFacts, PictureFacts
<1>3. ASSUME k \notin Routed(s), Enabled(k), s.assigned[k] # Unassigned
      PROVE  Suffices(s, k) /\ private'[k] = Absent
  <2>1. Suffices(s, k) /\ (~Active(k[1]) \/ private[k] = Absent)
    BY <1>3 DEF Routed
  <2>2. ~Active(k[1]) => k \in Released(s)
    BY <1>3, <2>1 DEF Released
  <2> QED BY <1>1, <1>3, <2>1, <2>2
<1> QED BY <1>1, <1>2, <1>3

LEMMA ApplyFollows ==
  ASSUME Typed, Routing, NEW s \in Stage, NEW run \in BOOLEAN, Apply(s, run), mode' = mode
  PROVE  Following' /\ (~Studio /\ (\A c \in Canvas : screen[c].picture.scene \in asked[c])
                          => \A c \in Canvas : screen'[c].picture.scene \in asked'[c])
<1>1. PICK scene \in [Canvas -> Scene \cup {NoScene}], move \in [Canvas -> Moves3] :
           /\ \A c \in Canvas : s.scene[c] # NoScene => scene[c] = s.scene[c]
           /\ Asks(s, scene, move, Routed(s))
           /\ \/ /\ pending' = TRUE
                 /\ \E t : /\ timers' = timers \cup {t}
                           /\ t = [serial |-> t.serial, stage |-> t.stage,
                                   vertical |-> t.vertical, routed |-> t.routed]
                           /\ Finalizer(s, scene, move, Routed(s), t)
              \/ /\ pending' = FALSE /\ timers' = timers
                 /\ scene["vertical"] # NoScene =>
                      ~Starts(screen["vertical"], move["vertical"], Native(scene["vertical"]))
                 /\ \A k \in Routed(s) : ~Starts(private[k], move[k[2]], s.assigned[k])
  BY ApplyIs
<1>2. stage' = s /\ serial' = serial + 1 /\ serial \in Nat
  BY <1>1 DEF Asks, Typed, PicturesTyped
<1>3. \A k \in Key :
        /\ k \in Routed(s) => /\ private'[k].picture = s.assigned[k] /\ private'[k] # Absent
                              /\ ~Starts(private[k], move[k[2]], s.assigned[k]) => private'[k].via = "cut"
        /\ k \notin Routed(s) /\ Enabled(k) /\ s.assigned[k] # Unassigned =>
              Suffices(s, k) /\ private'[k] = Absent
  BY <1>1, CopyIs
<1>4. \A k \in Key : Decided(k)' => Enabled(k) /\ s.assigned[k] # Unassigned
  BY <1>2 DEF Decided, Enabled
<1>5. Copied'
  <2>1. \A k \in Key : Decided(k)' =>
          IF private'[k] = Absent THEN Suffices(s, k) ELSE private'[k].picture = s.assigned[k]
    BY <1>3, <1>4
  <2> QED BY <1>2, <2>1 DEF Copied, Suffices
<1>6. \A c \in Canvas : /\ scene[c] = NoScene => screen'[c] = screen[c] /\ asked'[c] = asked[c]
                        /\ scene[c] # NoScene => asked'[c] = {scene[c]}
                        /\ scene[c] # NoScene /\ c = "vertical"
                             => screen'[c] = Shown(screen[c], move[c], Native(scene[c]))
                        /\ scene[c] # NoScene /\ c # "vertical"
                             => screen'[c] = Programme(screen[c], move[c], Native(scene[c]))
  BY <1>1 DEF Asks
<1>7. \A c \in Canvas : scene[c] # NoScene => Native(scene[c]) \in Picture /\ Native(scene[c]).scene = scene[c]
  BY PictureFacts
<1>8. s.scene["vertical"] # NoScene
      /\ ~Starts(screen["vertical"], move["vertical"], Native(scene["vertical"]))
      => screen'["vertical"].via = "cut"
  <2>1. "vertical" \in Canvas
    BY DEF Canvas
  <2>2. s.scene["vertical"] # NoScene => scene["vertical"] # NoScene
    BY <1>1, <2>1
  <2> QED BY <1>6, <1>7, <2>1, <2>2, ShownFacts
<1>9. ~Studio /\ (\A c \in Canvas : screen[c].picture.scene \in asked[c])
         => \A c \in Canvas : screen'[c].picture.scene \in asked'[c]
  <2> SUFFICES ASSUME ~Studio, \A c \in Canvas : screen[c].picture.scene \in asked[c], NEW c \in Canvas
               PROVE  screen'[c].picture.scene \in asked'[c]
    OBVIOUS
  <2>1. CASE scene[c] = NoScene
    BY <1>6, <2>1
  <2>2. CASE scene[c] # NoScene
    <3>1. screen[c] \in Channel /\ move[c] \in Moves3 /\ scene[c] \in Scene
      BY <2>2 DEF Typed, PicturesTyped
    <3>2. Shown(screen[c], move[c], Native(scene[c])).picture = Native(scene[c])
      BY <1>7, <2>2, <3>1, ShownFacts
    <3>3. Programme(screen[c], move[c], Native(scene[c])).picture = Native(scene[c])
      BY <3>1, ProgrammeFacts
    <3>4. screen'[c].picture = Native(scene[c])
      BY <1>6, <2>2, <3>2, <3>3
    <3> QED BY <1>6, <1>7, <2>2, <3>4
  <2> QED BY <2>1, <2>2
<1>10. \A t \in timers : t.serial \in Nat /\ t.serial <= serial
  BY DEF Typed, PicturesTyped
<1>11. CASE pending' = FALSE /\ timers' = timers
            /\ (scene["vertical"] # NoScene =>
                  ~Starts(screen["vertical"], move["vertical"], Native(scene["vertical"])))
            /\ \A k \in Routed(s) : ~Starts(private[k], move[k[2]], s.assigned[k])
  <2>1. \A t \in timers' : t.serial # serial'
    BY <1>2, <1>10, <1>11
  <2>2. Waiting'
    BY <2>1 DEF Waiting
  <2>3. Routing'
    BY <1>11 DEF Routing
  <2>4. \A k \in Key : Decided(k)' => private'[k].via = "cut"
    BY <1>3, <1>4, <1>11, PictureFacts
  <2>5. s.scene["vertical"] # NoScene => screen'["vertical"].via = "cut"
    BY <1>1, <1>8, <1>11 DEF Canvas
  <2>6. Settled'
    BY <1>2, <2>4, <2>5 DEF Settled
  <2>7. SettledIsDirect'
    BY <2>6 DEF SettledIsDirect, Settled, Decided
  <2> QED BY <1>5, <1>9, <2>2, <2>3, <2>7 DEF Following
<1>12. ASSUME pending' = TRUE, NEW t, timers' = timers \cup {t}, Finalizer(s, scene, move, Routed(s), t)
       PROVE  Waiting' /\ Routing' /\ SettledIsDirect'
  <2>1. \A u \in timers' : u.serial = serial' => u = t
    BY <1>2, <1>10, <1>12
  <2>2. t.stage = s
    BY <1>12 DEF Finalizer
  <2>3. t.vertical # NoScene => t.vertical \in asked'["vertical"]
    BY <1>6, <1>12 DEF Finalizer, Canvas
  <2>4. t.vertical = NoScene /\ s.scene["vertical"] # NoScene => screen'["vertical"].via = "cut"
    BY <1>1, <1>8, <1>12 DEF Finalizer, Canvas
  <2>5. \A k \in Key : Decided(k)' => k \in t.routed \/ private'[k].via = "cut"
    BY <1>3, <1>4, <1>12, PictureFacts DEF Finalizer
  <2>6. Waiting'
    BY <1>2, <2>1, <2>2, <2>3, <2>4, <2>5 DEF Waiting
  <2>7. \A k \in Key : k \in t.routed => s.assigned[k] # Unassigned
    BY <1>12 DEF Finalizer, Routed
  <2>8. Routing'
    BY <1>12, <2>2, <2>7 DEF Routing
  <2>9. SettledIsDirect'
    BY <1>12 DEF SettledIsDirect
  <2> QED BY <2>6, <2>8, <2>9
<1> QED BY <1>1, <1>5, <1>9, <1>11, <1>12 DEF Following

\* The selectors and outputs do not make the Stage decide more.
LEMMA PlaysFollow ==
  ASSUME Typed, Following, Plays
  PROVE  Following'
<1>1. UNCHANGED <<stage, serial, screen, private, timers, pending, asked>>
  BY PlaysTyped DEF pictureVars
<1>2. ASSUME NEW k \in Key, Decided(k)'
      PROVE  Decided(k)
  <2>1. k[1] \in Provider
    BY KeyFacts
  <2>2. CASE UNCHANGED <<mode, due>>
    BY <1>1, <1>2, <2>2 DEF Decided, Enabled
  <2>3. ASSUME NEW p \in Provider, NEW m \in Modes[p], Change(p, m)
        PROVE  Decided(k)
    <3>1. k[1] # p /\ k[1] \notin due
      BY <1>2, <2>3 DEF Decided, Change
    <3>2. mode'[k[1]] = mode[k[1]]
      BY <2>1, <2>3, <3>1 DEF Change, Typed, OutputsTyped
    <3> QED BY <1>1, <1>2, <3>1, <3>2 DEF Decided, Enabled
  <2> QED BY <2>2, <2>3 DEF Plays, GoLive, StartSecond, End, Connect
<1>3. Copied'
  BY <1>1, <1>2 DEF Following, Copied, Suffices
<1>4. Waiting'
  BY <1>1, <1>2 DEF Following, Waiting
<1>5. Routing'
  BY <1>1 DEF Following, Routing
<1>6. SettledIsDirect'
  <2>1. ~pending /\ serial > 0 => Settled
    BY SettledIs DEF Following
  <2>2. ~pending' /\ serial' > 0 => Settled'
    BY <1>1, <1>2, <2>1 DEF Settled
  <2> QED BY <2>2 DEF SettledIsDirect, Settled, Decided
<1> QED BY <1>3, <1>4, <1>5, <1>6 DEF Following

LEMMA SameDecided ==
  ASSUME UNCHANGED <<stage, mode, due>>, NEW k \in Key
  PROVE  Decided(k)' <=> Decided(k)
BY DEF Decided, Enabled

LEMMA FinalizeFollows ==
  ASSUME Typed, Following, NEW t \in timers, Finalize(t)
  PROVE  Following'
<1>1. /\ timers' = timers \ {t}
      /\ UNCHANGED <<stage, serial, asked, mode, due, output, switches, starts>>
  BY FinalizeIs
<1>2. \A k \in Key : Decided(k)' <=> Decided(k)
  BY <1>1, SameDecided
<1>3. Routing'
  BY <1>1 DEF Following, Routing
<1>4. CASE ~Newest(t)
  <2>1. UNCHANGED <<screen, private, pending>>
    BY <1>4, FinalizeIs
  <2>2. Copied'
    BY <1>1, <1>2, <2>1 DEF Following, Copied, Suffices
  <2>3. Waiting'
    BY <1>1, <1>2, <2>1 DEF Following, Waiting
  <2>4. SettledIsDirect'
    <3>1. ~pending /\ serial > 0 => Settled
      BY SettledIs DEF Following
    <3>2. ~pending' /\ serial' > 0 => Settled'
      BY <1>1, <1>2, <2>1, <3>1 DEF Settled
    <3> QED BY <3>2 DEF SettledIsDirect, Settled, Decided
  <2> QED BY <1>3, <2>2, <2>3, <2>4 DEF Following
<1>5. CASE Newest(t)
  <2>1. t.serial = serial /\ t.stage = stage
    BY <1>5 DEF Newest, Following, Waiting
  <2>2. screen'["vertical"] = IF t.vertical = NoScene THEN screen["vertical"]
                              ELSE Direct(Native(t.vertical))
    BY <1>5, FinalizeIs
  <2>3. \A k \in Key : private'[k] = IF k \in t.routed THEN Direct(stage.assigned[k]) ELSE private[k]
    BY <1>5, <2>1, FinalizeIs
  <2>4. \A k \in Key : k \in t.routed => stage.assigned[k] # Unassigned
    BY <2>1 DEF Following, Routing
  <2>5. \A k \in Key : k \in t.routed =>
          private'[k].picture = stage.assigned[k] /\ private'[k].via = "cut" /\ private'[k] # Absent
    <3>1. \A k \in Key : k \in t.routed => stage.assigned[k] \in Picture
      BY <2>4, StageFacts DEF Typed, PicturesTyped
    <3> QED BY <2>3, <3>1, PictureFacts
  <2>6. Copied'
    <3>1. serial > 0 => \A k \in Key : Decided(k) =>
            IF private'[k] = Absent THEN Suffices(stage, k) ELSE private'[k].picture = stage.assigned[k]
      BY <2>3, <2>5 DEF Following, Copied
    <3> QED BY <1>1, <1>2, <3>1 DEF Copied, Suffices
  <2>7. stage.scene["vertical"] # NoScene => screen'["vertical"].via = "cut"
    BY <2>1, <2>2, PictureFacts DEF Following, Waiting
  <2>8. \A k \in Key : Decided(k) => private'[k].via = "cut"
    BY <2>1, <2>3, <2>5 DEF Following, Waiting
  <2>9. Waiting'
    <3> SUFFICES ASSUME NEW u \in timers', u.serial = serial'
                 PROVE  /\ u.stage = stage'
                        /\ u.vertical # NoScene => u.vertical \in asked'["vertical"]
                        /\ u.vertical = NoScene /\ stage'.scene["vertical"] # NoScene
                             => screen'["vertical"].via = "cut"
                        /\ \A k \in Key : Decided(k)' => k \in u.routed \/ private'[k].via = "cut"
      BY DEF Waiting
    <3>1. u \in timers /\ u.serial = serial
      BY <1>1
    <3>2. u.stage = stage /\ (u.vertical # NoScene => u.vertical \in asked["vertical"])
      BY <3>1 DEF Following, Waiting
    <3> QED BY <1>1, <1>2, <2>7, <2>8, <3>2
  <2>10. SettledIsDirect'
    <3>1. Settled'
      BY <1>1, <1>2, <2>7, <2>8 DEF Settled
    <3> QED BY <3>1 DEF SettledIsDirect, Settled, Decided
  <2> QED BY <1>3, <2>6, <2>9, <2>10 DEF Following
<1> QED BY <1>4, <1>5

\* Transitions that end and scenes chosen by hand change no picture of a
\* destination and start no transition of the Stage.
LEMMA QuietFollows ==
  ASSUME Following, UNCHANGED <<stage, serial, timers, pending, mode, due>>,
         \A k \in Key : /\ private'[k] = Absent <=> private[k] = Absent
                        /\ private'[k].picture = private[k].picture /\ private'[k].via = private[k].via,
         screen'["vertical"].via \in {"cut", screen["vertical"].via},
         \A t \in timers : t.serial = serial /\ t.vertical # NoScene => t.vertical \in asked'["vertical"]
  PROVE  Following'
<1>1. \A k \in Key : Decided(k)' <=> Decided(k)
  BY SameDecided
<1>2. Copied'
  <2>1. serial > 0 => \A k \in Key : Decided(k) =>
            IF private'[k] = Absent THEN Suffices(stage, k) ELSE private'[k].picture = stage.assigned[k]
    BY DEF Following, Copied
  <2> QED BY <1>1, <2>1 DEF Copied, Suffices
<1>3. Waiting'
  <2>1. \A t \in timers : t.serial = serial =>
          /\ t.stage = stage
          /\ t.vertical = NoScene /\ stage.scene["vertical"] # NoScene => screen'["vertical"].via = "cut"
          /\ \A k \in Key : Decided(k) => k \in t.routed \/ private'[k].via = "cut"
    BY DEF Following, Waiting
  <2> QED BY <1>1, <2>1 DEF Waiting
<1>4. Routing'
  BY DEF Following, Routing
<1>5. SettledIsDirect'
  <2>1. ~pending /\ serial > 0 => Settled
    BY SettledIs DEF Following
  <2>2. ~pending' /\ serial' > 0 => Settled'
    BY <1>1, <2>1 DEF Settled
  <2> QED BY <2>2 DEF SettledIsDirect, Settled, Decided
<1> QED BY <1>2, <1>3, <1>4, <1>5 DEF Following

LEMMA EndMoveFollows ==
  ASSUME Typed, Following, EndMove
  PROVE  Following'
<1>1. \A k \in Key : /\ private[k] \in Channel \cup {Absent} /\ private'[k] \in Channel \cup {Absent}
                     /\ private'[k].picture = private[k].picture /\ private'[k].via = private[k].via
  BY EndMoveIs DEF Typed, PicturesTyped
<1>2. \A ch \in Channel : ch.picture \in Picture
  BY DEF Channel
<1>3. Absent.picture \notin Picture
  BY PictureFacts DEF Absent
<1>4. \A k \in Key : private'[k] = Absent <=> private[k] = Absent
  BY <1>1, <1>2, <1>3
<1>5. screen'["vertical"].via = screen["vertical"].via
  BY EndMoveIs DEF Canvas
<1>6. UNCHANGED <<stage, serial, timers, pending, mode, due, asked>>
  BY EndMoveIs
<1>7. \A t \in timers : t.serial = serial /\ t.vertical # NoScene => t.vertical \in asked'["vertical"]
  BY <1>6 DEF Following, Waiting
<1> QED BY <1>1, <1>4, <1>5, <1>6, <1>7, QuietFollows

LEMMA SwitchFollows ==
  ASSUME Typed, Following, NEW c \in Canvas, NEW scene \in Scene, Switch(c, scene)
  PROVE  Following'
<1>1. /\ UNCHANGED <<stage, serial, private, timers, pending, mode, due>>
      /\ \A b \in Canvas \ {c} : screen'[b] = screen[b] /\ asked'[b] = asked[b]
      /\ screen'[c].via \in {"cut", screen[c].via}
      /\ asked'[c] = IF screen' = screen THEN asked[c]
              ELSE {scene} \cup {v \in Scene : c = "vertical" /\ \E t \in timers : Newest(t) /\ t.vertical = v}
  BY SwitchIs
<1>2. screen'["vertical"].via \in {"cut", screen["vertical"].via}
  BY <1>1 DEF Canvas
<1>3. ASSUME NEW t \in timers, t.serial = serial, t.vertical # NoScene
      PROVE  t.vertical \in asked'["vertical"]
  <2>1. t.vertical \in Scene /\ t.vertical \in asked["vertical"]
    BY <1>3 DEF Typed, PicturesTyped, TimerRecord, Following, Waiting
  <2>2. CASE c # "vertical"
    BY <1>1, <2>1, <2>2 DEF Canvas
  <2>3. CASE c = "vertical"
    BY <1>1, <1>3, <2>1, <2>3 DEF Newest
  <2> QED BY <2>2, <2>3
<1> QED BY <1>1, <1>2, <1>3, QuietFollows

LEMMA InitFollows == Init => Following
<1> SUFFICES ASSUME Init PROVE Following
  OBVIOUS
<1>1. serial = 0 /\ timers = {}
  BY DEF Init
<1> QED BY <1>1 DEF Following, Copied, Waiting, Routing, SettledIsDirect

LEMMA AppliesIs ==
  ASSUME Typed, Applies
  PROVE  mode' = mode /\ \E s \in Stage, run \in BOOLEAN : Apply(s, run)
BY DEF Applies, SelectStage, CloseStageEditor, Start, ApplyChange, Typed, PicturesTyped

LEMMA StepFollows == Typed /\ Following /\ [Next]_vars => Following'
<1> SUFFICES ASSUME Typed, Following, [Next]_vars PROVE Following'
  OBVIOUS
<1>1. CASE Applies
  BY <1>1, AppliesIs, ApplyFollows DEF Following
<1>2. CASE Plays
  BY <1>2, PlaysFollow
<1>3. CASE Paints
  BY <1>3, FinalizeFollows, EndMoveFollows, SwitchFollows DEF Paints
<1>4. CASE UNCHANGED vars
  <2>1. UNCHANGED <<stage, serial, timers, pending, mode, due, private, screen, asked>>
    BY <1>4 DEF vars, pictureVars
  <2>2. \A t \in timers : t.serial = serial /\ t.vertical # NoScene => t.vertical \in asked'["vertical"]
    BY <2>1 DEF Following, Waiting
  <2> QED BY <2>1, <2>2, QuietFollows
<1> QED BY <1>1, <1>2, <1>3, <1>4, NextIs

\* When nothing is pending, no transition of the newest Stage is left on a
\* canvas it decides about, however Stages and finalizers have overtaken
\* each other.
THEOREM NothingLeftBehind == Spec => []SettledIsDirect
<1>1. Init => Typed /\ Following
  BY InitTyped, InitFollows
<1>2. (Typed /\ Following) /\ [Next]_vars => (Typed /\ Following)'
  BY StepTyped, StepFollows
<1>3. Typed /\ Following => SettledIsDirect
  BY DEF Following
<1> QED BY <1>1, <1>2, <1>3, PTL DEF Spec

-----------------------------------------------------------------------------
(* What was asked for *)

ScreensFollow == \A c \in Canvas : screen[c].picture.scene \in asked[c]

LEMMA ScreensStep ==
  ASSUME ~Studio, Typed, Following, ScreensFollow, [Next]_vars
  PROVE  ScreensFollow'
<1>1. CASE Applies
  BY <1>1, AppliesIs, ApplyFollows DEF Following, ScreensFollow
<1>2. CASE Plays
  BY <1>2, PlaysTyped DEF pictureVars, ScreensFollow
<1>3. ASSUME NEW t \in timers, Finalize(t) PROVE ScreensFollow'
  <2>1. asked' = asked
    BY <1>3, FinalizeIs
  <2>2. CASE ~Newest(t)
    BY <1>3, <2>1, <2>2, FinalizeIs DEF ScreensFollow
  <2>3. CASE Newest(t)
    <3>1. screen'["horizontal"] = screen["horizontal"]
      BY <1>3, <2>3, FinalizeIs
    <3>2. screen'["vertical"] = IF t.vertical = NoScene THEN screen["vertical"]
                                ELSE Direct(Native(t.vertical))
      BY <1>3, <2>3, FinalizeIs
    <3>3. t.vertical # NoScene => t.vertical \in Scene /\ t.vertical \in asked["vertical"]
      BY <2>3 DEF Newest, Following, Waiting, Typed, PicturesTyped, TimerRecord
    <3>4. t.vertical # NoScene => Direct(Native(t.vertical)).picture.scene = t.vertical
      BY <3>3, PictureFacts
    <3>5. screen'["vertical"].picture.scene \in asked["vertical"]
      BY <3>2, <3>3, <3>4 DEF ScreensFollow, Canvas
    <3> QED BY <2>1, <3>1, <3>5 DEF ScreensFollow, Canvas
  <2> QED BY <2>2, <2>3
<1>4. CASE EndMove
  BY <1>4, EndMoveIs DEF ScreensFollow
<1>5. ASSUME NEW c \in Canvas, NEW scene \in Scene, Switch(c, scene) PROVE ScreensFollow'
  <2>1. \A b \in Canvas \ {c} : screen'[b] = screen[b] /\ asked'[b] = asked[b]
    BY <1>5, SwitchIs
  <2>2. screen'[c].picture = Native(scene) /\ (screen' # screen => scene \in asked'[c])
        /\ (screen' = screen => asked'[c] = asked[c])
    <3>1. asked'[c] = IF screen' = screen THEN asked[c]
            ELSE {scene} \cup {v \in Scene : c = "vertical" /\ \E t \in timers : Newest(t) /\ t.vertical = v}
      BY <1>5, SwitchIs
    <3>2. screen'[c].picture = Native(scene)
      BY <1>5, SwitchIs
    <3> QED BY <3>1, <3>2
  <2>3. screen'[c].picture.scene \in asked'[c]
    BY <2>2, PictureFacts DEF ScreensFollow
  <2> QED BY <2>1, <2>3 DEF ScreensFollow
<1>6. CASE UNCHANGED vars
  BY <1>6 DEF vars, pictureVars, ScreensFollow
<1> QED BY <1>1, <1>2, <1>3, <1>4, <1>5, <1>6, NextIs DEF Paints

\* Outside Studio Mode the programme and the vertical canvas show what was
\* asked for last, and a destination the picture the newest Stage assigns to
\* it.
THEOREM CanvasesFollow == ASSUME ~Studio PROVE Spec => []PicturesFollow
<1> DEFINE Inv == Typed /\ Following /\ ScreensFollow
<1>1. Init => Inv
  <2>1. Init => ScreensFollow
    BY DEF Init, ScreensFollow
  <2> QED BY <2>1, InitTyped, InitFollows
<1>2. Inv /\ [Next]_vars => Inv'
  BY StepTyped, StepFollows, ScreensStep
<1>3. Inv => PicturesFollow
  BY DEF Following, Copied, Decided, ScreensFollow, PicturesFollow
<1> QED BY <1>1, <1>2, <1>3, PTL DEF Spec

-----------------------------------------------------------------------------
(* Outputs on air *)

Bound == \A k \in Key : output[k].bound = "private" => private[k] # Absent

\* Applying a Stage leaves the canvas of an active provider in place.
LEMMA ActiveKept ==
  ASSUME Typed, NEW s \in Stage, NEW run \in BOOLEAN, Apply(s, run),
         NEW k \in Key, output[k].state = "active", private[k] # Absent
  PROVE  private'[k] # Absent
<1>1. PICK scene \in [Canvas -> Scene \cup {NoScene}], move \in [Canvas -> Moves3] :
           Asks(s, scene, move, Routed(s))
  BY ApplyIs
<1>2. Active(k[1])
  BY KeyFacts DEF Active
<1>3. k \notin Released(s)
  BY <1>2 DEF Released
<1> QED BY <1>1, <1>3, CopyIs

LEMMA UnboundFacts ==
  ASSUME Typed, NEW k \in Key
  PROVE  /\ Unbound(private')[k].bound = "private" => private'[k] # Absent
         /\ private'[k] # Absent => Unbound(private')[k] = output[k]
<1>1. output[k] \in Output
  BY DEF Typed, OutputsTyped
<1>2. [output[k] EXCEPT !.bound = "gone"].bound = "gone"
  BY <1>1 DEF Output
<1>3. Unbound(private')[k] = IF output[k].bound = "private" /\ private'[k] = Absent
                             THEN [output[k] EXCEPT !.bound = "gone"] ELSE output[k]
  BY DEF Unbound
<1> QED BY <1>2, <1>3

LEMMA OutputsOf ==
  ASSUME NEW o, NEW canvases, NEW keys, NEW k \in Key
  PROVE  /\ Closed(o, keys)[k] = IF k \in keys THEN Idle ELSE o[k]
         /\ Opened(o, canvases, keys)[k].bound =
              IF k \in keys THEN IF canvases[k] = Absent THEN "native" ELSE "private" ELSE o[k].bound
BY DEF Closed, Opened

LEMMA StepBound ==
  ASSUME Typed, Routing, Bound, [Next]_vars
  PROVE  /\ Bound'
         /\ \A k \in Key : output[k].state = "active" /\ output[k].bound = "private"
                             => output'[k].bound # "gone"
<1>0. Idle.bound = "none"
  BY DEF Idle
<1>1. CASE Applies
  <2>1. \/ output' = Unbound(private')
        \/ \E keys : output' = Closed(Unbound(private'), keys)
        \/ \E keys : output' = Opened(Unbound(private'), private', keys)
    BY <1>1 DEF Applies, SelectStage, CloseStageEditor, Start, ApplyChange
  <2>2. \A k \in Key : \/ output'[k].bound = Unbound(private')[k].bound
                       \/ output'[k].bound \in {"none", "native"}
                       \/ output'[k].bound = "private" /\ private'[k] # Absent
    BY <1>0, <2>1, OutputsOf
  <2>3. Bound'
    BY <2>2, UnboundFacts DEF Bound
  <2>4. ASSUME NEW k \in Key, output[k].state = "active", output[k].bound = "private"
        PROVE  output'[k].bound # "gone"
    <3>1. private'[k] # Absent
      BY <1>1, <2>4, AppliesIs, ActiveKept DEF Bound
    <3> QED BY <2>2, <2>4, <3>1, UnboundFacts
  <2> QED BY <2>3, <2>4
<1>2. CASE Plays
  <2>1. private' = private
    BY <1>2, PlaysTyped DEF pictureVars
  <2>2. \/ output' = output
        \/ \E keys : output' = Closed(output, keys)
        \/ \E keys : output' = Opened(output, private, keys)
        \/ \E k \in Key : output' = [output EXCEPT ![k].state = "active"]
    BY <1>2 DEF Plays, Change, GoLive, StartSecond, End, Connect
  <2>3. ASSUME NEW j \in Key, output' = [output EXCEPT ![j].state = "active"], NEW k \in Key
        PROVE  output'[k].bound = output[k].bound
    <3>1. output \in [Key -> Output] /\ output[j] \in Output
      BY DEF Typed, OutputsTyped
    <3>2. [output[j] EXCEPT !.state = "active"].bound = output[j].bound
      BY <3>1 DEF Output
    <3>3. output'[k] = IF k = j THEN [output[j] EXCEPT !.state = "active"] ELSE output[k]
      BY <2>3, <3>1
    <3> QED BY <3>2, <3>3
  <2>4. \A k \in Key : \/ output'[k].bound = output[k].bound
                       \/ output'[k].bound \in {"none", "native"}
                       \/ output'[k].bound = "private" /\ private[k] # Absent
    <3>1. CASE output' = output
      BY <3>1
    <3>2. ASSUME NEW keys, output' = Closed(output, keys), NEW k \in Key
          PROVE  output'[k].bound \in {output[k].bound, "none"}
      <4>1. Closed(output, keys)[k] = IF k \in keys THEN Idle ELSE output[k]
        BY OutputsOf
      <4> QED BY <1>0, <3>2, <4>1
    <3>3. ASSUME NEW keys, output' = Opened(output, private, keys), NEW k \in Key
          PROVE  \/ output'[k].bound \in {output[k].bound, "native"}
                 \/ output'[k].bound = "private" /\ private[k] # Absent
      <4>1. Opened(output, private, keys)[k].bound =
              IF k \in keys THEN IF private[k] = Absent THEN "native" ELSE "private" ELSE output[k].bound
        BY OutputsOf
      <4> QED BY <3>3, <4>1
    <3> QED BY <2>2, <2>3, <3>1, <3>2, <3>3
  <2> QED BY <2>1, <2>4 DEF Bound
<1>3. CASE Paints
  <2>1. output' = output
    BY <1>3, FinalizeIs, EndMoveIs, SwitchIs DEF Paints
  <2>2. ASSUME NEW k \in Key, private[k] # Absent PROVE private'[k] # Absent
    <3>1. ASSUME NEW t \in timers, Finalize(t) PROVE private'[k] # Absent
      <4>1. k \in t.routed => t.stage.assigned[k] \in Picture
        BY StageFacts DEF Typed, PicturesTyped, TimerRecord, Routing
      <4>2. k \in t.routed => Direct(t.stage.assigned[k]) # Absent
        BY <4>1, PictureFacts
      <4> QED BY <2>2, <3>1, <4>2, FinalizeIs
    <3>2. CASE EndMove
      <4>1. private'[k].picture = private[k].picture
        BY <3>2, EndMoveIs
      <4>2. private[k].picture \in Picture
        BY <2>2 DEF Typed, PicturesTyped, Channel
      <4> QED BY <4>1, <4>2, PictureFacts
    <3>3. ASSUME NEW c \in Canvas, NEW scene \in Scene, Switch(c, scene) PROVE private'[k] # Absent
      BY <2>2, <3>3, SwitchIs
    <3> QED BY <1>3, <3>1, <3>2, <3>3 DEF Paints
  <2> QED BY <2>1, <2>2 DEF Bound
<1>4. CASE UNCHANGED vars
  BY <1>4 DEF vars, pictureVars, Bound
<1> QED BY <1>1, <1>2, <1>3, <1>4, NextIs

\* No step takes the canvas away from the encoder of an output on air.
THEOREM OnAirKeepsCanvas == Spec => LiveKeepsCanvas
<1> DEFINE Inv == Typed /\ Following /\ Bound
<1>1. Init => Inv
  <2>1. Init => Bound
    BY DEF Init, Bound, Idle
  <2> QED BY <2>1, InitTyped, InitFollows
<1>2. Inv /\ [Next]_vars => Inv'
  BY StepTyped, StepFollows, StepBound DEF Following
<1>3. Inv /\ [Next]_vars => [\A k \in Key : output[k].state = "active" /\ output[k].bound = "private"
                                => output'[k].bound # "gone"]_vars
  BY StepBound DEF Following
<1> QED BY <1>1, <1>2, <1>3, PTL DEF Spec, LiveKeepsCanvas
=============================================================================
