SPECIFICATION Spec
CONSTANTS
  r1 = r1
  None = None
  Pod <- MCPod
  Node = {"n1"}
  Job = {"api", "web"}
  Request = {r1}
  MaxBuild = 2
  MaxMoves = 4
CHECK_DEADLOCK FALSE
INVARIANT OccurrencesToldApart
