---------------------------- MODULE MCInstaller ----------------------------
(* Setup on small instances: two releases with different entries. *)
EXTENDS Installer

MCPayload == [v \in Version |-> IF v = 1 THEN {"bin"} ELSE {"bin", "extra"}]
=============================================================================
