SPECIFICATION CloudSpec
CONSTANTS
  None = None
  Held = Held
  Command = {c1, c2, c3}
  Ops <- AllOps
  MaxLifetime = 6
  MaxInterval = 2
  DefaultInterval = 1
  MaxLate = 2
  MaxAttempts = 3
  MaxExpiries = 2
  Ceremonies = {s1, s2}
  NumChecks = 2
  MaxActs = 1
  MaxFaults = 2
INVARIANTS
  StaleTokenIsExplained
  SequentialCustodyIsReadable
PROPERTIES
  GenerationNeverFalls
  CloudIsHonest
  CeremonyIsFailClosed
  CloudCommandsEnd
