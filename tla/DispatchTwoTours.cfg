SPECIFICATION Spec
CONSTANTS
  Booking = {b1, b2}
  Guide = {g1, g2}
  Req = {r1, r2}
  Clash <- MCClash
  None = None
  BatchSize = 2
  MaxBatch = 1
  Moves <- MCMoves
SYMMETRY MCSymmetry
INVARIANTS GuideIsFree
CHECK_DEADLOCK FALSE
