SPECIFICATION Spec
CONSTANTS
  Input = {a, b}
  None = None
  NoView = NoView
  MaxEdits = 4
  MaxSubmits = 3
  MaxLosses = 1
  Check = {c1, c2}
  MaxKeys = 1
  MaxAttempts = 2
  Row = {r1, r2}
  Filter = {f1, f2}
  MaxReads = 2
  MaxActs = 2
  MaxPresses = 2
  MaxOthers = 1
INVARIANTS TypeOK RetryBooksOnce QuoteFitsInputs ConfirmedIsPaid OwnActionShown ShownFitsFilter NoBlindSave
PROPERTIES WaitEnds LoadingEnds
CHECK_DEADLOCK FALSE
