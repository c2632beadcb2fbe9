SPECIFICATION Spec
CONSTANTS
  Tab = {t1, t2}
  Call = {c1, c2}
  Req = {r1, r2}
  Sid = {s1, s2}
  App <- MCApps
  MaxStops = 1
  None = None
SYMMETRY MCSymmetry
INVARIANTS TypeOK OneRotationAtATime NoneForgotten
PROPERTIES RetryHasNewToken
CHECK_DEADLOCK FALSE
