------------------------------ MODULE Screens ------------------------------
(***************************************************************************)
(* The screens of the five apps but for the guide's jobs and tour: the     *)
(* booking form, which leads to the checkout, and the pages, one of them   *)
(* open at a time.                                                         *)
(***************************************************************************)
EXTENDS Checkout, Pages

vars == <<clientVars, formVars, checkoutVars, pageVars>>

\* No page is open: the form, and then the checkout, has the screen.
ClosedPage ==
  /\ page = "webSearch" /\ server = Unread /\ filter = Home /\ state = "ready" /\ shown = NoView
  /\ reads = [l \in Read |-> NoRead] /\ acts = [s \in Slot |-> NoPageAct]
  /\ busyRow = None /\ own = [r \in Row |-> 0] /\ presses = 0

Init ==
  /\ onPhone \in BOOLEAN /\ screen \in {"form", "page"} /\ losses = 0
  /\ FormInit /\ CheckoutInit
  /\ IF screen = "page" THEN onPhone /\ PagesInit ELSE ClosedPage

OnForm == screen = "form" /\ (FormNext \/ FormLeft) /\ UNCHANGED <<checkoutVars, pageVars>>

OnCheckout ==
  screen = "checkout" /\ CheckoutNext /\ UNCHANGED <<onPhone, screen, formVars, pageVars>>

OnPage ==
  screen = "page" /\ PagesNext /\ UNCHANGED <<onPhone, screen, formVars, checkoutVars>>

Next == OnForm \/ OnCheckout \/ OnPage

\* The server answers what reaches it, clients take the answers, and their
\* timers fire.  Nobody has to press anything.
Polls == \E c \in Check : Tick(c)
ChecksEnd == \E c \in Check : CheckServed(c) \/ CheckAnswered(c)

Fairness ==
  /\ WF_vars(Polls /\ screen = "checkout" /\ UNCHANGED <<clientVars, formVars, pageVars>>)
  /\ WF_vars(ChecksEnd /\ screen = "checkout" /\ UNCHANGED <<clientVars, formVars, pageVars>>)
  /\ \A l \in Read :
       WF_vars((ReadServed(l) \/ ReadAnswered(l)) /\ screen = "page"
               /\ UNCHANGED <<onPhone, screen, formVars, checkoutVars>>)

Spec == Init /\ [][Next]_vars /\ Fairness

TypeOK ==
  /\ ClientsTypeOK /\ FormTypeOK /\ CheckoutTypeOK
  /\ PagesTypeOK
=============================================================================
