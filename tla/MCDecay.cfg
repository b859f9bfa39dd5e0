CONSTANTS
  Items = {i1, i2}
  out = out
  lit = lit
  low = low
  ash = ash
  Types <- MCTypes
  Kind <- MCKind
  DecayTimes <- MCDecayTimes
  DecayTo <- MCDecayTo
  StopTime = {out}
  Saved = {900}
  MaxRefs = 3
  Gone = Gone
  Never = Never
  None = None
SPECIFICATION Spec
INVARIANTS
  TypeOK
  ReferencesExact
  DecayingIsListed
SYMMETRY Symmetry
CHECK_DEADLOCK FALSE
