---------------------------- MODULE MCReplBridge ----------------------------
(***************************************************************************)
(* Instances of ReplBridge for TLC.                                        *)
(***************************************************************************)
EXTENDS ReplBridge
=============================================================================
