SPECIFICATION FairSpec
CONSTANTS
  Booking = {b1}
  Guide = {g1, g2}
  Req = {r1, r2}
  Clash <- MCNoClash
  None = None
  BatchSize = 2
  MaxBatch = 2
  Moves <- MCMoves
INVARIANTS CountersAreExact
PROPERTIES OutcomeIsFinal MatchingSpec EveryRequestEnds
CHECK_DEADLOCK FALSE
