SPECIFICATION AllSpec
CONSTANTS
  o1 = o1
  n1 = n1
  h1 = h1
  h2 = h2
  i1 = i1
  i2 = i2
  i3 = i3
  p1 = p1
  None = None
  Incident = {i1, i2}
  Signal <- MCSignal
  Operation = {o1}
  FailureSeverity <- MCFailureSeverity
  Handler = {h1, h2}
CHECK_DEADLOCK FALSE
SYMMETRY Symmetry
INVARIANTS EvidenceAgrees OneIncidentPerOperation SeverityFloor
  ProjectListTruthful
