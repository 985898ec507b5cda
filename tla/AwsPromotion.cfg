SPECIFICATION Spec
CONSTANTS
  None = None
  MaxOps = 5
  MaxFaults = 0
  Environment = {"staging", "production"}
  Production = {"production"}
  Listed = TRUE
  Text <- AddingText
CHECK_DEADLOCK FALSE
INVARIANT ReleasedIsRunnable
