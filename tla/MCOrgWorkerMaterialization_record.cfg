CONSTANTS
  Op = {o1, o2}
  None = None
  MaxFaults = 1
  MaxEdits = 0
SPECIFICATION Spec
CHECK_DEADLOCK FALSE
INVARIANTS
  ReceiptCanBeRecorded
