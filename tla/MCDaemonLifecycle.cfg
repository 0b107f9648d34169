SPECIFICATION Spec
CONSTANTS
  Clients = {c1, c2}
  Sessions = {s1, s2}
  Files = {f1, f2}
  Callers = {}
  Working = {}
  ControlCap = 1
  None = None
SYMMETRY Symmetry
INVARIANTS
  TypeOK
  ControlAgrees
  TranscriptsOwned
  LossOfControlIsTold
  ShutdownIsComplete
