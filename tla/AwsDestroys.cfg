SPECIFICATION Spec
CONSTANTS
  None = None
  MaxOps = 4
  MaxFaults = 0
  Environment = {"staging", "production"}
  Production = {"production"}
  Listed = TRUE
  Text <- ImportingText
CHECK_DEADLOCK FALSE
INVARIANT NothingDestroyed
