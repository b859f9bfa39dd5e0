CONSTANTS
  Messages = {m1, m2}
  MaxPackets = 2
SPECIFICATION FairSpec
PROPERTIES
  ClosedSocketIsClosed
CHECK_DEADLOCK FALSE
