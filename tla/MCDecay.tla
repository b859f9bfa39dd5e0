------------------------------ MODULE MCDecay ------------------------------
\* Two items: a light that is out, lit or burnt down, and the ash it leaves.
EXTENDS Decay, TLC

CONSTANTS out, lit, low, ash

MCTypes == {out, lit, low, ash}
MCKind == [t \in MCTypes |-> IF t = ash THEN 2 ELSE 1]
MCDecayTimes == [t \in MCTypes |-> IF t = out THEN {} ELSE IF t = lit THEN {2000} ELSE {1000}]
MCDecayTo == (out :> Never) @@ (lit :> low) @@ (low :> ash) @@ (ash :> Gone)
Symmetry == Permutations(Items)
=============================================================================
