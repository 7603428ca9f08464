--------------------------- MODULE MCStagePictures --------------------------
EXTENDS StagePictures
CONSTANTS stream, recording, desk, game, none
MCModes == [p \in {stream, recording} |-> IF p = stream THEN {{}, Canvas} ELSE {{"vertical"}}]
Assign(portrait, track) ==
  [k \in {stream, recording} \X Canvas |->
     IF k[2] = "horizontal" THEN Native(desk) ELSE IF k[1] = stream THEN portrait ELSE track]
Scenes(h, v) == [c \in Canvas |-> IF c = "horizontal" THEN h ELSE v]
Moving(h, v) == [c \in Canvas |-> IF c = "horizontal" THEN h ELSE v]
Without(scene) == [scene |-> scene, excluded |-> TRUE]
(* Everyone sees the desk; the stream misses a source of the game scene    *)
(* and the recording keeps the desk; a Stage without a portrait scene.     *)
MCStage ==
  {[scene |-> Scenes(desk, desk), move |-> Moving("fade", "fade"),
    assigned |-> Assign(Native(desk), Native(desk))],
   [scene |-> Scenes(game, game), move |-> Moving("cut", "stinger"),
    assigned |-> Assign(Without(game), Native(desk))],
   [scene |-> Scenes(desk, none), move |-> Moving("cut", "fade"),
    assigned |-> Assign(Native(game), Unassigned)]}
=============================================================================
