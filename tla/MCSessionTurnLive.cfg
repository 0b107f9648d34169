SPECIFICATION FairSpec
CONSTANTS
  Users = {u1}
  Peers = {p1}
  Tasks = {}
  Reports = {}
  Goal = goal
PROPERTIES
  Settles
CHECK_DEADLOCK FALSE
