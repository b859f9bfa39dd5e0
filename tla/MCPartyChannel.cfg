SPECIFICATION Spec
CONSTANTS
  Player = {p1, p2, p3}
  Address = {a1, a2, a3}
  None = None
INVARIANTS OnlyPartnersListen
CHECK_DEADLOCK FALSE
