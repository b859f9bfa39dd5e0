CONSTANTS
  Messages = {m1, m2}
  MaxPackets = 2
SPECIFICATION FairSpec
INVARIANTS
  TypeOK
  WritesInOrder
  ReleaseComesLast
  GracefulCloseDelivers
PROPERTIES
  QuietClientIsFreed
CHECK_DEADLOCK FALSE
