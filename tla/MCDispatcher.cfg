CONSTANTS
  Producers = {p1, p2}
  UserTasks = {t1, t2, tc}
  Expiring = {t2}
  CloseRequest = tc
  GameShutdown = gs
  Terminate = tt
SPECIFICATION FairSpec
INVARIANTS
  TypeOK
  NoLostWakeup
  NothingLeftBehind
PROPERTIES
  ImplementsTaskQueue
  EveryTaskProcessed
CHECK_DEADLOCK FALSE
