SPECIFICATION AllSpec
CONSTANTS
  member = member
  admin = admin
  owner = owner
  o1 = o1
  o2 = o2
  r1 = r1
  r2 = r2
  r3 = r3
  w1 = w1
  w2 = w2
  k1 = k1
  None = None
  Op = {o1}
  User = {member, admin, owner}
  RoleOf <- MCRoleOf
  Key = {}
  Target <- MixedTarget
  Request = {r1, r2, r3}
  Worker = {w1, w2}
  OpaReach = {"decided"}
  EnforcementMode = "shadow"
  ProductionPushNeedsApproval = TRUE
  ScaleApprovalThreshold = 2
  MaxAttempts = 2
  MaxStalls = 1
  FaultKind = {"api", "redis", "db", "worker", "lock"}
  MaxFaults = 2
CHECK_DEADLOCK FALSE
SYMMETRY SlotSymmetry
INVARIANTS SeparationOfDuties RunsAuthorized EvidenceTruthful ExclusiveRun EvidenceInv
  EvidenceTells
PROPERTIES GovernanceSpec SettledStaysSettled
