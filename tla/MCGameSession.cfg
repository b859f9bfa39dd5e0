CONSTANTS
  Conns = {c1, c2, c3}
  Objects = {o1, o2, o3}
  None = None
  Lingers = FALSE
SPECIFICATION Spec
INVARIANTS
  OnlineAtMostOnce
  PointersAgree
  ReferencesExact
  NoLeakedPlayer
  NobodyWaitsInVain
SYMMETRY Symmetry
CHECK_DEADLOCK FALSE
