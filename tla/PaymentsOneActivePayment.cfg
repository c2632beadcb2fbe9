SPECIFICATION Spec
CONSTANTS
  Booking = {b1}
  Ref = {p1, p2}
  Key = {k1, k2}
  Req = {r1, r2}
  Clash <- MCNoClash
  Allocation <- MCAllocation
  None = None
  MaxReturns = 1
INVARIANTS OneActivePayment
CHECK_DEADLOCK FALSE
