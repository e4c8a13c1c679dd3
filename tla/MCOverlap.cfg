CONSTANTS
  Task = {t1, t2}
  Op = {o1, o2}
  Name <- OneName
  Intent <- AllRoutes
  a = a
  o1 = o1
  None = None
  MaxFaults = 2
  Age = 1
  MaxContexts = 1
  MaxClock = 1
  MaxLaunchEvents = 3
  Bytes = {b1, b2}
  MaxCardEvents = 3
  Url = {u1, u2}
  CardName = {n1, n2}
  MaxBindingEvents = 6
  Profile = {f1, f2}
  Org = {e1, e2}
  Worker = {w1, w2}
  e1 = e1
  e2 = e2
  w1 = w1
  w2 = w2
  MaxMoves = 1
SPECIFICATION OverlapSpec
CHECK_DEADLOCK FALSE
SYMMETRY OverlapSymmetry
INVARIANTS
  JournalCoversTheServer
  ContextsAreWhole
  CardsAreKept
PROPERTIES
  PhasesOnlyAdvance
  CallsAreHonest
  TreesAreKept
  ResolvesToItsUrl
  TargetsAreTheCallers
