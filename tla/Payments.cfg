SPECIFICATION Spec
CONSTANTS
  Booking = {b1}
  Ref = {p1, p2, p3}
  Key = {k1, k2, k3}
  Req = {r1, r2}
  Clash <- MCNoClash
  Allocation <- MCTwoAllocations
  None = None
  MaxReturns = 2
SYMMETRY MCSymmetry
INVARIANTS PaymentFitsBooking LedgerFollowsPayments
PROPERTIES TourIsNotRefunded MoneySpec
CHECK_DEADLOCK FALSE
