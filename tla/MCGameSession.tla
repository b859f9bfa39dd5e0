--------------------------- MODULE MCGameSession ---------------------------
\* Connections and Player objects for one character.
EXTENDS GameSession, TLC

Symmetry == Permutations(Conns) \cup Permutations(Objects)
=============================================================================
