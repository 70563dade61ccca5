-------------------------- MODULE MCStagedUploads --------------------------
(* The staging of uploads for TLC. *)
EXTENDS StagedUploads
=============================================================================
