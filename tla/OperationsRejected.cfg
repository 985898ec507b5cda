SPECIFICATION Spec
CONSTANTS
  member = member
  admin = admin
  owner = owner
  o1 = o1
  o2 = o2
  r1 = r1
  r2 = r2
  r3 = r3
  w1 = w1
  w2 = w2
  k1 = k1
  None = None
  Op = {o1}
  User = {member, admin, owner}
  RoleOf <- MCRoleOf
  Key = {}
  Target <- GatedTarget
  Request = {r1, r2, r3}
  Worker = {w1}
  OpaReach = {"decided"}
  EnforcementMode = "shadow"
  ProductionPushNeedsApproval = TRUE
  ScaleApprovalThreshold = 2
  MaxAttempts = 2
  MaxStalls = 1
  FaultKind = {}
  MaxFaults = 0
CHECK_DEADLOCK FALSE
PROPERTIES RejectedNeverExecutes
