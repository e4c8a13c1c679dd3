CONSTANTS
  Task = {t1, t2}
  Project = {p1, p2}
  Package = {k1, k2}
  Version = {v1, v2}
  Skill = {s1}
  Exports <- TwoPackages
  Ops = {"register", "unregister", "prune", "include", "install", "update", "uninstall"}
  Absent = Absent
  None = None
  MaxCommands = 2
  s1 = s1
  v1 = v1
  v2 = v2
  k1 = k1
  k2 = k2
  p1 = p1
  p2 = p2
  b1 = b1
  b2 = b2
  Root = {q}
  Number = {n1, n2}
  Bytes = {b1, b2}
  Server = {i}
  Id = {d1, d2}
  Temp = {x1, x2}
  MaxFaults = 2
  i1 = i1
  i2 = i2
  MaxEdits = 1
SPECIFICATION InventorySpec
SYMMETRY InventorySymmetry
INVARIANTS
  StoreIsWhole
PROPERTIES
  NoRegistrationIsLost
  CheckedReferencesHold
  VersionsAreImmutable
  TransfersAreExact
