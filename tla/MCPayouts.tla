------------------------------ MODULE MCPayouts ------------------------------
(* Instances of Payouts for TLC. *)
EXTENDS Payouts, FiniteSetsExt, TLC

CONSTANTS g1, t1, t2

\* Two tours of one guide.
MCOneGuide == [t \in Tour |-> g1]

\* Unequal shares, in whole cedis.
MCShare == [t \in Tour |-> IF t = t1 THEN 1 ELSE 2]

\* Dates are only compared for equality.
MCAllRunners == Permutations(Payout) \cup Permutations(Dest) \cup Permutations(Req)
  \cup Permutations(Date)

MCSymmetry == Permutations(Payout) \cup Permutations(Dest)

\* The sum of Payouts is that of the library.
ASSUME SumIsSum ==
  \A S \in SUBSET Tour : \A n \in [S -> 0 .. 3] : Sum(n, S) = MapThenSumSet(LAMBDA t : n[t], S)
=============================================================================
