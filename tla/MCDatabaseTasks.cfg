CONSTANTS
  Queries = {q1, q2, q3}
  WithCallback = {q2}
  NoQuery = NoQuery
  MaxLosses = 1
SPECIFICATION FairSpec
INVARIANT TypeOK
INVARIANT OnlyHeldQueryIsOvertaken
INVARIANT ShutdownFlushesAll
INVARIANT SavesAreWhole
PROPERTY EveryQueryExecuted
CHECK_DEADLOCK FALSE
