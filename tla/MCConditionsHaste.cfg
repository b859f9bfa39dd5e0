CONSTANTS
  Players = {p1}
  p1 = p1
  Nobody = Nobody
  Templates <- ManyTemplates
  MaxConditions = 2
  MaxDelayed = 1
  MaxSaved = 1
  MaxStored = 2
SPECIFICATION ConditionSpec
INVARIANT HasteOrParalyze
CHECK_DEADLOCK FALSE
