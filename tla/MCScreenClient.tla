--------------------------- MODULE MCScreenClient ---------------------------
EXTENDS ScreenClient, TLC
Symmetry == Permutations(Offers) \cup Permutations(Stops)
=============================================================================
