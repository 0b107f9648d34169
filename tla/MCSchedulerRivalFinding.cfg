SPECIFICATION Spec
CONSTANTS
  Tasks = {"t1", "t2"}
  Sessions = {"s1", "s2"}
  Owner <- MCOwner
  Period <- MCPeriod
  NoTask = "none"
  Workers = {w1, w2, w3}
  MaxTime = 2
  MaxFaults = 0
  MaxCrashes = 0
  MaxRivals = 1
INVARIANT
  AcknowledgedSurvives
CHECK_DEADLOCK FALSE
