----------------------------- MODULE MCDispatch ------------------------------
(* Instances of Dispatch for TLC. *)
EXTENDS Dispatch, TLC

\* Every two bookings overlap, or none do.
MCClash == {c \in Booking \X Booking : c[1] # c[2]}
MCNoClash == {}

\* A cancellation, and the tour setting off and ending its guide's engagement.
MCMoves == {"CANCELLED_BY_TOURIST", "GUIDE_EN_ROUTE"}

MCSymmetry == Permutations(Guide) \cup Permutations(Req) \cup Permutations(Booking)
=============================================================================
