SPECIFICATION Spec
CONSTANTS
  c1 = c1
  s1 = s1
  s2 = s2
  None = None
  Container = {c1}
  Name <- OneName
  Look <- OneLook
  Scan = {s1, s2}
  Kind = {"list", "status"}
  Failure = {"UNREACHABLE", "AUTH_FAILED"}
  MaxTime = 1
SYMMETRY Symmetry
CONSTRAINTS NoneArchived ChecksApart
INVARIANTS AloneScanTruthful AloneCheckTruthful
PROPERTIES ReconcileSparesNewer OwnEvidenceStands LossyScanResolvesNothing
