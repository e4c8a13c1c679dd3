CONSTANTS
  Client = {c1, c2}
  Bytes = {b1, b2}
  Tx = {x1, x2}
  Missing = Missing
  NoDir = NoDir
  NoJournal = NoJournal
  NoTx = NoTx
  MaxFaults = 3
  Task = {t1, t2}
  Card = {a, b}
  Caret <- Carets
  Text <- Texts
  None = None
  MaxVersion = 2
  MaxCalls = 2
  MaxStops = 1
  MaxRev = 2
  MaxNumber = 3
  MaxActs = 3
  a = a
  b = b
  x = x
  y = y
SPECIFICATION ProjectSpec
CHECK_DEADLOCK FALSE
INVARIANTS
  CrashesAreRecoverable
PROPERTIES
  ImplementsProjectState
  RecoverySucceeds
  RootsAreConsistent
  SourceIsHonest
