---------------------------- MODULE MCCreatures ----------------------------
EXTENDS Creatures, TLC

Symmetric == Permutations(Monster) \cup Permutations(Slot)
=============================================================================
