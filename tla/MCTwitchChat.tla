---------------------------- MODULE MCTwitchChat ----------------------------
(* TwitchChat for TLC.                                                     *)
EXTENDS TwitchChat
=============================================================================
