--------------------------- MODULE MCCertification ---------------------------
(* Instances of Certification for TLC. *)
EXTENDS Certification, TLC

MCSymmetry == Permutations(Case) \cup Permutations(Applicant) \cup Permutations(Officer)
=============================================================================
