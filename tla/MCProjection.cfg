CONSTANTS
  Write = {w1, w2}
  Order <- AllItems
  Kind <- AllKinds
  Surface <- AllSurfaces
  Rendering = {r1, r2}
  Plans <- TwoPlans
  Scopes = {"project", "machine"}
  Selections = {"full", "mcp"}
  Absent = Absent
  Alien = Alien
  MaxWrites = 3
  MaxPlans = 1
  MaxMishaps = 1
  f = f
  b = b
  s = s
  x = x
  d = d
  g = g
  r1 = r1
  r2 = r2
  Task = {t1, t2}
  Asked <- AllCalls
  MaxCalls = 2
  MaxActs = 1
SPECIFICATION MachineSpec
SYMMETRY Symmetry
INVARIANTS
  RecordMatchesDisk
PROPERTIES
  WritesSpareTheRest
  CompletedWriteIsExact
  RefusalIsExplained
  SettingsAreHonest
CHECK_DEADLOCK FALSE
