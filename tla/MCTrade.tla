------------------------------ MODULE MCTrade ------------------------------
\* Three players at two spots, with a bag, a stackable and a plain item.
EXTENDS Trade, TLC

Symmetry == Permutations(Players) \cup Permutations(Spots)
=============================================================================
