SPECIFICATION AllSpec
CONSTANTS
  d1 = d1
  e1 = e1
  r1 = r1
  r2 = r2
  w1 = w1
  w2 = w2
  u1 = u1
  u2 = u2
  q1 = q1
  q2 = q2
  c1 = c1
  c2 = c2
  o1 = o1
  o2 = o2
  l1 = l1
  l2 = l2
  None = None
  Dep = {d1}
  Env = {e1}
  Request = {r1}
  Worker = {w1, w2}
  MaxAttempts = 3
  MaxStalls = 1
  FaultKind = {"api", "redis", "db", "worker", "lock"}
  MaxFaults = 4
  Production = {"production"}
  Listed = TRUE
  Environment = {"staging", "production"}
  Text <- TheTexts
  AwsOps = 6
  AwsFaults = 1
  Place <- ThePlaces
  Sample = "app"
  PageSetting <- ThePageSettings
  FirstWorld <- TheWorlds
  PageLoad = {l1, l2}
  Lost <- TheLosses
  PageMoves = 1
  User = {u1, u2}
  TabRequest = {q1, q2}
  MaxTokens = 3
  ProductionPushNeedsApproval = TRUE
  ScaleApprovalThreshold = 2
  EnforcementMode = "shadow"
  ActOp = {o1, o2}
  Ask <- TheWishes
  AllowedNamespaces = {"default", "kube-system"}
  MaxReplicas = 5
  ApiJobs = {"api", "old"}
  WorkerJobs = {"api"}
  MaxDecisions = 2
  Pod <- ThePods
  Node = {"n1"}
  Job = {"api"}
  SignalRequest = {r1}
  MaxBuild = 1
  MaxMoves = 3
  Container = {c1, c2}
  Page = {r1, r2}
  MaxEvidence = 5
  MaxTime = 5
  Setting <- TheSettings
  MaxReports = 2
  MaxChanges = 1
  Choice = {"a", "b", "c"}
CHECK_DEADLOCK FALSE
INVARIANTS
  TypesOK ExecutedOnce OneStory
  DeployedWasPushed AppliedPlansBounded SequentialRecordsAgree
  OffersTruthful
  TabCoherent
  ActionsTruthful
  PreparedAsShown
  ReportsTruthful
  SelectionsTruthful
