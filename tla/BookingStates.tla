---------------------------- MODULE BookingStates ----------------------------
(***************************************************************************)
(* The booking state machine of bookings/statemachine.go: the statuses, the *)
(* table of legal edges, and which statuses occupy a guide's calendar.      *)
(***************************************************************************)
EXTENDS Naturals

CancelledStatuses ==
  {"CANCELLED_BY_TOURIST", "CANCELLED_BY_GUIDE", "CANCELLED_BY_ADMIN"}

\* availability.BookingActiveStatuses: the guide's calendar is taken.
ActiveStatuses == {"CONFIRMED", "GUIDE_EN_ROUTE", "GUIDE_ARRIVED", "IN_PROGRESS"}

\* A booking in one of these has been on the road to, or past, its tour and is
\* closed: only the refund edges remain.
ClosedStatuses ==
  CancelledStatuses \cup {"COMPLETED", "NO_SHOW", "REFUND_PENDING", "REFUNDED"}

UnpaidStatuses == {"DRAFT", "PAYMENT_PENDING", "PAYMENT_FAILED"}

Statuses == UnpaidStatuses \cup ActiveStatuses \cup ClosedStatuses

\* The transitions table.
transitions == [s \in Statuses |->
  CASE s = "DRAFT"           -> {"PAYMENT_PENDING", "CANCELLED_BY_TOURIST"}
    [] s = "PAYMENT_PENDING" -> {"CONFIRMED", "PAYMENT_FAILED",
                                 "CANCELLED_BY_TOURIST", "CANCELLED_BY_ADMIN"}
    [] s = "PAYMENT_FAILED"  -> {"PAYMENT_PENDING", "CANCELLED_BY_TOURIST"}
    [] s = "CONFIRMED"       -> {"GUIDE_EN_ROUTE", "NO_SHOW"} \cup CancelledStatuses
    [] s = "GUIDE_EN_ROUTE"  -> {"GUIDE_ARRIVED", "NO_SHOW",
                                 "CANCELLED_BY_GUIDE", "CANCELLED_BY_ADMIN"}
    [] s = "GUIDE_ARRIVED"   -> {"IN_PROGRESS", "NO_SHOW", "CANCELLED_BY_ADMIN"}
    [] s = "IN_PROGRESS"     -> {"COMPLETED"}
    [] s \in CancelledStatuses \cup {"COMPLETED", "NO_SHOW"} -> {"REFUND_PENDING"}
    [] s = "REFUND_PENDING"  -> {"REFUNDED"}
    [] s = "REFUNDED"        -> {}]

\* Mutant: a late failure event reopens a paid booking.
CanTransition_FailPaid(from, to) ==
  to \in transitions[from] \/ (from = "CONFIRMED" /\ to = "PAYMENT_FAILED")

CanTransition(from, to) == to \in transitions[from]

\* availability.Overlaps and the constraint's tstzrange '[)': half-open windows.
Overlaps(v, w) == v.starts < w.ends /\ w.starts < v.ends
=============================================================================
