---------------------------- MODULE MCScreenShare ----------------------------
(* Instances of ScreenShare for TLC. *)
EXTENDS ScreenShareRefinement
=============================================================================
