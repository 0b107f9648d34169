SPECIFICATION Spec
CONSTANTS
  Users = {u1, u2}
  Peers = {}
  Tasks = {t1}
  Reports = {r1}
  Goal = goal
SYMMETRY Symmetry
INVARIANTS
  TypeOK
  Accounted
  WorkIsOwned
PROPERTIES
  KeptAsPromised
  NotStranded
CHECK_DEADLOCK FALSE
