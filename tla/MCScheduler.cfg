SPECIFICATION Spec
CONSTANTS
  Tasks = {"t1", "t2"}
  Sessions = {"s1", "s2"}
  Owner <- MCOwner
  Period <- MCPeriod
  NoTask = "none"
  Workers = {w1, w2}
  MaxTime = 2
  MaxFaults = 1
  MaxCrashes = 1
  MaxRivals = 0
INVARIANTS
  TypeOK
  SingleExecution
  NoStrandedReservation
  DiskMatchesMemory
  TasksSurvive
SYMMETRY MCGoroutines
CHECK_DEADLOCK FALSE
