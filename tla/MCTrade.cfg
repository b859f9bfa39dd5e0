CONSTANTS
  Players = {p1, p2, p3}
  Spots = {s1, s2}
  Items = {bag, coin, gem}
  Bags = {bag}
  Stackable = {coin}
  Slots = 2
  BagSize = 1
  None = None
SPECIFICATION Spec
INVARIANTS
  TypeOK
  PartnersAgree
  OffersReferenced
  OffersInReach
SYMMETRY Symmetry
CHECK_DEADLOCK FALSE
