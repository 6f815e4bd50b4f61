-------------------------- MODULE MCPersistentRoom --------------------------
(* Instances of PersistentRoom for TLC. *)
EXTENDS PersistentRoom, TLC

\* The values of these sets are only ever compared for equality.
Symmetry ==
    Permutations(Users) \cup Permutations(Titles) \cup Permutations(Entries)
        \cup Permutations(Workers)
=============================================================================
