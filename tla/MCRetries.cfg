CONSTANTS
  Task = {t1}
  Op = {o1, o2, o3}
  Name <- OneName
  Intent <- AllRoutes
  a = a
  o1 = o1
  None = None
  MaxFaults = 4
  MaxStops = 4
  MaxEdits = 2
SPECIFICATION RetriesSpec
CHECK_DEADLOCK FALSE
INVARIANTS
  RetriesAreHarmless
PROPERTIES
  MaterializationIsHonest
  InterruptedWorkFinishes
