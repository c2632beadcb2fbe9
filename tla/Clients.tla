------------------------------ MODULE Clients ------------------------------
(***************************************************************************)
(* What the screens of the apps have in common: the client they run in, the*)
(* one of them that is open, and requests and answers that get lost.       *)
(***************************************************************************)
EXTENDS Naturals, FiniteSets

CONSTANTS
  None,
  NoView,    \* nothing has been read yet
  MaxLosses  \* bound: requests and answers lost

ASSUME LossesAreCounted == MaxLosses \in Nat

VARIABLES
  onPhone,   \* the app, or the browser
  screen,    \* the booking form, the checkout, or a page
  losses

clientVars == <<onPhone, screen, losses>>

ClientsTypeOK ==
  onPhone \in BOOLEAN /\ screen \in {"form", "checkout", "page"} /\ losses \in 0..MaxLosses
=============================================================================
