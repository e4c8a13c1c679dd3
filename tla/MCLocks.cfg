CONSTANTS
  t1 = t1
  t2 = t2
  t3 = t3
  t4 = t4
  p1 = p1
  p2 = p2
  p3 = p3
  here = here
  elsewhere = elsewhere
  Task = {t1, t2, t3, t4}
  Process = {p1, p2, p3}
  Host = {here, elsewhere}
  ProcessOf <- FourCalls
  HostOf <- TwoHosts
  Absent = Absent
  Malformed = Malformed
  MaxCalls = 3
  MaxCrashes = 1
  Command = {c1, c2}
  Roots <- ThreeRoots
  Weights <- WeightsOfThree
  Common = 1
  Slash = 3
  Dot = 2
  O = 13
  S = 14
  Nobody = Nobody
SPECIFICATION LocksSpec
CHECK_DEADLOCK FALSE
INVARIANTS
  ProbedOwnerIsGone
  CallsNestSafely
PROPERTIES
  ReleaseIsHonest
  ImplementsLockUntilEviction
  LockCallsEnd
