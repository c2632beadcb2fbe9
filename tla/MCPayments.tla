----------------------------- MODULE MCPayments ------------------------------
(* Instances of Payments for TLC. *)
EXTENDS PaymentsClaims, TLC

\* GHS 4.50 at 15% and 3%, rounded to tenths.
MCAllocation == {[fee |-> 7, levy |-> 1, guide |-> 37]}

\* The same amount after the fee setting is changed, with no levy.
MCTwoAllocations == MCAllocation \cup {[fee |-> 9, levy |-> 0, guide |-> 36]}

\* All bookings compete for one slot of one guide, or none do.
MCClash == {c \in Booking \X Booking : c[1] # c[2]}
MCNoClash == {}

MCSymmetry ==
  Permutations(Booking) \cup Permutations(Ref) \cup Permutations(Req) \cup Permutations(Key)
=============================================================================
