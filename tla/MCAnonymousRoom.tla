--------------------------- MODULE MCAnonymousRoom ---------------------------
(* Instances of AnonymousRoom for TLC. *)
EXTENDS AnonymousRoom, TLC

\* Participants and goroutines are only ever compared for equality.
Symmetry == Permutations(Participants) \cup Permutations(Workers)
=============================================================================
