SPECIFICATION Spec
CONSTANTS
  Offer = {o1}
  Load = {l1, l2}
  MaxAttempts = 1
  MaxFrames = 1
  MaxLosses = 1
  None = None
  NoView = NoView
INVARIANTS TypeOK KeyFollowsScreen
PROPERTIES PollingCatchesUp RefusedIsCorrected PositionFades
CHECK_DEADLOCK FALSE
