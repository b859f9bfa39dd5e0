SPECIFICATION CreatureSpec
CONSTANTS
  Player = {p1}
  Monster = {m1, m2}
  Place = {home, away}
  Home = home
  Slot = {s1, s2}
  EVENT_CREATURECOUNT = 1
  Aggressor = {p1}
  None = None
SYMMETRY Symmetric
INVARIANTS ShortSpawnIsChecked
CHECK_DEADLOCK FALSE
