CONSTANTS
  Root = {r1}
  Overlapping = {r1}
  Extra = {r1}
  Config = Config
  Agents = Agents
  NoRoot = NoRoot
  Invalid = Invalid
  Lossy = FALSE
  MaxEdits = 1
SPECIFICATION FairSpec
CHECK_DEADLOCK FALSE
PROPERTIES
  WatchSettles
