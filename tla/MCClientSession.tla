-------------------------- MODULE MCClientSession --------------------------
(* Instances of ClientSession for TLC. *)
EXTENDS ClientSession, TLC

MCApps == {GuideMobile, TouristMobile, GuideWeb, AdminWeb, TouristWeb}
MCSymmetry == {c @@ r : c \in Permutations(Call), r \in Permutations(Req)}
=============================================================================
