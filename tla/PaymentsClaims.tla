---------------------------- MODULE PaymentsClaims ----------------------------
(***************************************************************************)
(* What a comment of the repository says of the payments component and its   *)
(* code does not keep: checked by a run that ends in a counterexample.       *)
(***************************************************************************)
EXTENDS Payments

\* payments/service.go:133, "Refuse a second active payment for the same
\* booking under a new key": FOR UPDATE locks the rows there are, and two
\* transactions that each find none both insert one.
OneActivePayment == \A b \in Booking : Cardinality(Active(b)) <= 1
=============================================================================
