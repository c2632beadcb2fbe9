SPECIFICATION Spec
CONSTANTS
  Booking = {b1, b2}
  Guide = {g1}
  NoGuide = NoGuide
  Tourist = {u1}
  Key = {k1, k2}
  Window <- MCWindow
  Txn = {t1, t2}
  None = None
  MaxEvents = 6
SYMMETRY MCSymmetry
INVARIANTS NoDoubleBooking OneBookingPerKey HistoryIsPath
PROPERTIES CalendarSpec
CHECK_DEADLOCK FALSE
