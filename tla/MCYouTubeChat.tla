--------------------------- MODULE MCYouTubeChat ---------------------------
(* The chat model with its properties on small instances. *)
EXTENDS YouTubeChat
=============================================================================
