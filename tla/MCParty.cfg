SPECIFICATION Spec
CONSTANTS
  Player = {p1, p2, p3}
  Address = {a1, a2, a3}
  None = None
SYMMETRY Symmetric
INVARIANTS PointersAgree
PROPERTIES ImplementsFellowship
CHECK_DEADLOCK FALSE
