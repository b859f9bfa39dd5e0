CONSTANTS
  Events = {e1, e2, e3}
  IdRange = 2
  NoId = NoId
SPECIFICATION FairSpec
INVARIANTS
  TypeOK
  TimersMatchEvents
  CancelledNeverRuns
PROPERTY EveryEventRuns
CHECK_DEADLOCK FALSE
