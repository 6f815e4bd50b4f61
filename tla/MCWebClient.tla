----------------------------- MODULE MCWebClient -----------------------------
(* Instances of WebClient for TLC. *)
EXTENDS WebClient, TLC

\* The values of these sets are only ever compared for equality.
Symmetry == Permutations(Rooms) \cup Permutations(Tabs) \cup Permutations(Calls)
=============================================================================
