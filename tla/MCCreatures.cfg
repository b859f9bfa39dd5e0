SPECIFICATION CreatureSpec
CONSTANTS
  Player = {p1}
  Monster = {m1, m2}
  Place = {home, away}
  Home = home
  Slot = {s1}
  EVENT_CREATURECOUNT = 1
  Aggressor = {p1}
  None = None
SYMMETRY Symmetric
INVARIANTS ReferencesExact PointersLive NobodyForgotten
CHECK_DEADLOCK FALSE
