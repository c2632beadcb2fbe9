---------------------------- MODULE GuideCalendar ----------------------------
(***************************************************************************)
(* What the bookings component promises of a guide's calendar: a booking     *)
(* takes a window of one guide at most once, keeps that guide and window     *)
(* until it is released, two bookings never hold overlapping windows of one  *)
(* guide, and a booking that was closed never comes back to the calendar.    *)
(***************************************************************************)
EXTENDS BookingStates

CONSTANTS Booking, Guide, Window, NoSlot

VARIABLES
  slot,     \* what each booking holds: a [guide, window] record or NoSlot
  closed    \* the bookings that are over

calendarVars == <<slot, closed>>

Slot == [guide : Guide, window : Window]

Init == slot = [b \in Booking |-> NoSlot] /\ closed = {}

Take(b) ==
  /\ b \notin closed /\ slot[b] = NoSlot
  /\ \E s \in Slot :
       /\ \A other \in Booking : slot[other] # NoSlot =>
            ~(slot[other].guide = s.guide /\ Overlaps(slot[other].window, s.window))
       /\ slot' = [slot EXCEPT ![b] = s]
  /\ UNCHANGED closed

Close(b) ==
  /\ b \notin closed
  /\ slot' = [slot EXCEPT ![b] = NoSlot]
  /\ closed' = closed \cup {b}

Next == \E b \in Booking : Take(b) \/ Close(b)

Spec == Init /\ [][Next]_calendarVars
=============================================================================
