CONSTANTS
  Slot = {c1, c2}
  Request <- ThreeRequests
  Allow <- ThreeRules
  Threshold = 0
  Available = TRUE
  None = None
  Torn = Torn
  MaxCalls = 2
  MaxFaults = 1
  ls = ls
  git = git
  sh = sh
  Root = {r1}
  Overlapping = {r1}
  Extra = {r1}
  Config = Config
  Agents = Agents
  NoRoot = NoRoot
  Invalid = Invalid
  Lossy = TRUE
  MaxEdits = 2
SPECIFICATION LongSpec
CHECK_DEADLOCK FALSE
INVARIANTS
  AuditedAndTyped
PROPERTIES
  CallsAreAnswered
  EditsAreWritten
