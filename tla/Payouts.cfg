SPECIFICATION Spec
CONSTANTS
  g1 = g1
  t1 = t1
  t2 = t2
  Guide = {g1}
  Tour = {t1, t2}
  GuideOf <- MCOneGuide
  Share <- MCShare
  Payout = {p1, p2}
  Date = {d1, d2}
  Dest = {a1}
  Req = {r1, r2}
  Runner = {r1, r2}
  MaxAmount = 3
  None = None
SYMMETRY MCAllRunners
INVARIANTS PaidIsPosted OncePerDate OrderlyStaysWithin
PROPERTIES MachineIsFollowed
CHECK_DEADLOCK FALSE
