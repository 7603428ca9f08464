-------------------------- MODULE OverlayDocuments --------------------------
(***************************************************************************)
(* What an overlay may look like.  "none" stands for no document: an       *)
(* overlay that is not there.                                              *)
(***************************************************************************)
CONSTANT Document

ASSUME DocumentAssumption == "none" \notin Document
=============================================================================
