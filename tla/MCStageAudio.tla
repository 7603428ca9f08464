---------------------------- MODULE MCStageAudio ----------------------------
(* Stages on small instances: a microphone and music, four mixes. *)
EXTENDS StageAudio

CONSTANTS mic, music

None == [x \in Provider \X Canvas |-> {}]

\* One Stage keeps music from Twitch and the microphone from Kick and the recordings, one
\* gives the destinations three sets of exclusions of their own.
MCExcluded ==
  [split |-> [x \in Provider \X Canvas |->
                CASE x[1] = "twitch" -> {music} [] x[1] = "youtube" -> {}
                  [] OTHER -> {mic}],
   apart |-> [x \in Provider \X Canvas |->
                CASE x[1] = "kick" -> {mic} [] x = <<"youtube", "horizontal">> -> {music}
                  [] x = <<"youtube", "vertical">> -> {mic, music}
                  [] x = <<"recording", "vertical">> -> {mic} [] OTHER -> {}]]

\* For the runs that reload the collection also a Stage that excludes nothing.
MCReloadStage == {"open", "split", "apart"}
MCReloadExcluded == [st \in MCReloadStage |-> IF st = "open" THEN None ELSE MCExcluded[st]]

Selected(t, k, y, r) ==
  [p \in Provider |-> CASE p = "twitch" -> t [] p = "kick" -> k [] p = "youtube" -> y
                        [] p = "recording" -> r]

\* Twitch with YouTube; Kick, both YouTube canvases and a recording added, which asks for
\* more mixes than there are.
MCSelections == {Selected("horizontal", "off", "horizontal", "standard"),
                 Selected("horizontal", "horizontal", "dual", "vertical")}

\* For the runs that reload the collection.
MCFewSelections == {Selected("horizontal", "horizontal", "off", "standard"),
                    Selected("horizontal", "horizontal", "off", "vertical")}

MCStage == DOMAIN MCExcluded
MCMix == 0 .. 3
=============================================================================
