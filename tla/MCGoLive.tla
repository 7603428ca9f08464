------------------------------ MODULE MCGoLive ------------------------------
(* Starting and stopping a show on small instances. *)
EXTENDS GoLive
=============================================================================
