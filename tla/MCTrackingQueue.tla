-------------------------- MODULE MCTrackingQueue --------------------------
(***************************************************************************)
(* Instances of TrackingQueue for TLC.                                     *)
(***************************************************************************)
EXTENDS TrackingQueue

CONSTANTS w1, d1, s1, r1

OneWorker  == {w1}
NoTokens   == {}
OneDoc     == {d1}
OneScan    == {s1}
OneRebuild == {r1}
=============================================================================
