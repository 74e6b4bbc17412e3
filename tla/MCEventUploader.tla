-------------------------- MODULE MCEventUploader --------------------------
(***************************************************************************)
(* Instances of EventUploader for TLC.                                     *)
(***************************************************************************)
EXTENDS EventUploader
=============================================================================
