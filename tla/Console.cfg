SPECIFICATION AllSpec
CONSTANTS
  member = member
  admin = admin
  owner = owner
  o1 = o1
  o2 = o2
  r1 = r1
  r2 = r2
  r3 = r3
  w1 = w1
  w2 = w2
  k1 = k1
  p1 = p1
  e1 = e1
  d1 = d1
  ns = ns
  wl = wl
  None = None
  Op = {o1, o2}
  User = {member, admin, owner}
  RoleOf <- MCRoleOf
  Key = {k1}
  Target <- PolicyTarget
  Request = {r1, r2}
  Worker = {w1}
  OpaReach = {"decided", "malformed", "unreachable"}
  EnforcementMode = "enforce"
  ProductionPushNeedsApproval = TRUE
  ScaleApprovalThreshold = 5
  MaxAttempts = 2
  MaxStalls = 1
  FaultKind = {"api", "redis"}
  MaxFaults = 1
CHECK_DEADLOCK FALSE
SYMMETRY SlotSymmetry
INVARIANTS
  OneOperationPerKey HighRiskRunsApproved OpaFailsClosed
  GraphRegistrationTruthful PagesShowOwnAction
PROPERTY PagesNeverGoBack
