-------------------------- MODULE MCSessionStream --------------------------
(***************************************************************************)
(* Instances of SessionStream for TLC.                                     *)
(***************************************************************************)
EXTENDS SessionStream

CONSTANTS e1

NoPrompts == {}
OnePrompt == {e1}
=============================================================================
