----------------------------- MODULE MCBookings ------------------------------
(* Instances of Bookings for TLC. *)
EXTENDS Bookings, TLC

\* Two windows that overlap.
MCWindow == {[starts |-> 0, ends |-> 2], [starts |-> 1, ends |-> 3]}
MCSymmetry == Permutations(Booking) \cup Permutations(Txn)
=============================================================================
