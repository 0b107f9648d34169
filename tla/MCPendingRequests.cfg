SPECIFICATION FairSpec
CONSTANTS
  Askers = {a1, a2}
  Keys = {k1}
  MaxAsks = 2
  MaxFaults = 1
  a1 = a1
  a2 = a2
  k1 = k1
INVARIANTS
  TypeOK
  PromptsHaveAskers
  RunsAreAllowed
  ReviewIsKept
PROPERTIES
  ClosesUnaided
CHECK_DEADLOCK FALSE
