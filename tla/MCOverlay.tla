----------------------------- MODULE MCOverlay ------------------------------
EXTENDS Overlay
(* "plain" takes every alert, "strict" lost the variation for the first.   *)
MCAccepts == [plain |-> Alert, strict |-> Alert \ {1}]
MCSeed == [box |-> "plain"]
=============================================================================
