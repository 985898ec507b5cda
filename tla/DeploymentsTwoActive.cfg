SPECIFICATION Spec
CONSTANTS
  d1 = d1
  d2 = d2
  e1 = e1
  r1 = r1
  r2 = r2
  w1 = w1
  w2 = w2
  None = None
  Dep = {d1, d2}
  Env = {e1}
  Request = {r1, r2}
  Worker = {w1, w2}
  MaxAttempts = 3
  MaxStalls = 1
  FaultKind = {}
  MaxFaults = 0
CHECK_DEADLOCK FALSE
INVARIANT OneActivePerEnvironment
