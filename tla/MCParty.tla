------------------------------ MODULE MCParty ------------------------------
EXTENDS Party, TLC

Symmetric == Permutations(Player) \cup Permutations(Address)
=============================================================================
