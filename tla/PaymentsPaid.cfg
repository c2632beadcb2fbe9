SPECIFICATION FairSpec
CONSTANTS
  Booking = {b1, b2}
  Ref = {p1, p2}
  Key = {k1, k2}
  Req = {r1}
  Clash <- MCClash
  Allocation <- MCAllocation
  None = None
  MaxReturns = 0
PROPERTIES PaidIsHonoured
CHECK_DEADLOCK FALSE
