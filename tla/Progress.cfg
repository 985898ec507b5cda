SPECIFICATION AllSpec
CONSTANTS
  w1 = w1
  w2 = w2
  m1 = m1
  m2 = m2
  m3 = m3
  o1 = o1
  r1 = r1
  r2 = r2
  d1 = d1
  d2 = d2
  e1 = e1
  None = None
  Worker = {w1}
  Stale = 3
  Offline = 9
  MaxLatency = 4
CHECK_DEADLOCK FALSE
INVARIANTS ReportAccurate
PROPERTIES ShutdownEnds QueuedEventuallySettles FailureRaisesIncident EnvironmentFreed
