CONSTANTS
  c1 = c1
  c2 = c2
  Children = {c1, c2}
  NoChild = NoChild
  Limit = 1
  QueueTimeout = TRUE
  MaxTurns = 2
  MaxFaults = 1
  MaxRestarts = 1
SPECIFICATION Spec
SYMMETRY Symmetry
CHECK_DEADLOCK FALSE
INVARIANTS
  TypeOK
  SlotsAccounted
  EachTurnOnce
  JournalReplays
