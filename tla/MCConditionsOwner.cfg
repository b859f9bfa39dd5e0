CONSTANTS
  Players = {p1, p2}
  p1 = p1
  p2 = p2
  Nobody = Nobody
  Templates <- OneTemplate
  MaxConditions = 2
  MaxDelayed = 1
  MaxSaved = 1
  MaxStored = 2
SPECIFICATION ConditionSpec
INVARIANT ConditionsStayWithTheirOwner
CHECK_DEADLOCK FALSE
