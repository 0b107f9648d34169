SPECIFICATION FairSpec
CONSTANTS
  Clients = {c1, c2}
  Sessions = {s1}
  Files = {f1}
  Callers = {c1}
  Working = {s1}
  ControlCap = 1
  None = None
PROPERTIES
  EndedAreForgotten
  StopEnds
