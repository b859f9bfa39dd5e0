CONSTANTS
  Players = {p1, p2}
  Spots = {s1, s2}
  Items = {bag, coin, gem}
  Bags = {bag}
  Stackable = {coin}
  Slots = 1
  BagSize = 1
  None = None
SPECIFICATION Spec
PROPERTY SafeTrade
CHECK_DEADLOCK FALSE
