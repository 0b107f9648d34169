SPECIFICATION Spec
CONSTANTS
  Tasks = {"t1"}
  Sessions = {"s1"}
  Owner <- MCOwner
  Period <- MCPeriod
  NoTask = "none"
  Workers = {1}
  MaxTime = 2
  MaxFaults = 1
  MaxCrashes = 1
  MaxRivals = 1
PROPERTIES
  OccurrenceOnce
  DueIsTaken
CHECK_DEADLOCK FALSE
