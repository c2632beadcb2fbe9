SPECIFICATION Spec
CONSTANTS
  Guide = {g1}
  Case = {c1, c2}
  Applicant = {a1, a2}
  Officer = {o1, o2}
  Group = {"identity", "background_check", "insurance"}
  None = None
  MaxOpened = 2
  MaxEvents = 13
SYMMETRY MCSymmetry
INVARIANTS OneOpenCase VisibleIsVetted SuspendedTogether
CHECK_DEADLOCK FALSE
