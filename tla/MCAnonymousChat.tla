--------------------------- MODULE MCAnonymousChat ---------------------------
(* Instances of AnonymousChat for TLC. *)
EXTENDS AnonymousChat
=============================================================================
