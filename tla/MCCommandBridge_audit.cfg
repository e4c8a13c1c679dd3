CONSTANTS
  Slot = {c1, c2}
  Request <- ThreeRequests
  Allow <- ThreeRules
  Threshold = 0
  Available = TRUE
  None = None
  Torn = Torn
  MaxCalls = 2
  MaxFaults = 0
  ls = ls
  git = git
  sh = sh
SPECIFICATION Spec
CHECK_DEADLOCK FALSE
INVARIANTS
  AuditChainIsWhole
