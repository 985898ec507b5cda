SPECIFICATION Spec
CONSTANTS
  None = None
  User = {a, b}
  Request = {q}
  MaxTokens = 2
CHECK_DEADLOCK FALSE
PROPERTY SessionPersists
