----------------------------- MODULE MCAccounts -----------------------------
(* Instances of Accounts for TLC. *)
EXTENDS Accounts, TLC

\* The values of these sets are only ever compared for equality.
Symmetry ==
    Permutations(Users) \cup Permutations(Names) \cup Permutations(Tokens)
        \cup Permutations(Workers)
=============================================================================
