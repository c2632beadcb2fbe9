SPECIFICATION Spec
CONSTANTS
  Input = {a, b}
  None = None
  NoView = NoView
  MaxEdits = 1
  MaxSubmits = 1
  MaxLosses = 1
  Check = {c1}
  MaxKeys = 2
  MaxAttempts = 2
  Row = {r1, r2}
  Filter = {f1, f2}
  MaxReads = 0
  MaxActs = 0
  MaxPresses = 0
  MaxOthers = 0
INVARIANT OneChargeUnlessRaced
CHECK_DEADLOCK FALSE
