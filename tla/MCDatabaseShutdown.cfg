CONSTANTS
  Queries = {q1, q2, q3}
  WithCallback = {q2}
  NoQuery = NoQuery
  MaxLosses = 1
SPECIFICATION FairSpec
PROPERTY ShutdownEndsThread
CHECK_DEADLOCK FALSE
