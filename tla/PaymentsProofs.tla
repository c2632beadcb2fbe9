--------------------------- MODULE PaymentsProofs ----------------------------
(***************************************************************************)
(* Theorems of Payments, for every choice of its constants.                 *)
(***************************************************************************)
EXTENDS Payments, TLAPS

\* A payment is only ever seen in one of four statuses.
VisibleInv ==
  \A p \in Ref : Exists(p) =>
    \E st \in {"PENDING", "SUCCEEDED", "FAILED", "REFUNDED"} : Has(p, st)

\* An intent's reference has no payment yet and is no other intent's.
IntentInv ==
  /\ \A r \in Req : Intending(r) => ~Exists(req[r].ref)
  /\ \A r, q \in Req : Intending(r) /\ Intending(q) /\ req[r].ref = req[q].ref => r = q

\* A refund is of a collected payment; past the provider its money has been
\* returned; in its transaction it alone holds the payment, still SUCCEEDED.
RefundFits(r) ==
  /\ \A at \in {"loaded", "returned", "driving", "committed"} :
       Refunding(r, at) => Collected(req[r].ref)
  /\ Refunding(r, "returned") \/ Refunding(r, "driving") => returned[req[r].ref] > 0
  /\ Refunding(r, "driving") =>
       /\ Has(req[r].ref, "SUCCEEDED")
       /\ req[r].seen = "REFUNDED" => status[payment[req[r].ref].booking] = "REFUNDED"
OneDriver ==
  \A r, q \in Req :
    Refunding(r, "driving") /\ Refunding(q, "driving") /\ req[r].ref = req[q].ref => r = q
RefundInv == (\A r \in Req : RefundFits(r)) /\ OneDriver

\* A booking's money is captured by one payment.
OneCollected ==
  \A p, q \in Ref :
    Collected(p) /\ Collected(q) /\ payment[p].booking = payment[q].booking => p = q

PaymentInv ==
  /\ VisibleInv /\ PaymentFitsBooking /\ SeenIsFinal /\ OneCollected /\ RefundIsReturned

\* References are unique, and an allocation is posted to its payment's booking.
OnePosting == \A t, u \in ledger : t.reference = u.reference => t = u
PostedToBooking ==
  \A t \in ledger, p \in Ref :
    t.reference = <<"PAY", p>> => t.booking = payment[p].booking

\* The parts of LedgerFollowsPayments.
PayPosted == \A p \in Ref : Posted(ledger, <<"PAY", p>>) <=> Collected(p)
RevPosted == \A p \in Ref : Posted(ledger, <<"REV", p>>) <=> Has(p, "REFUNDED")
RevIsExact ==
  \A p \in Ref : Has(p, "REFUNDED") =>
    Posting(ledger, <<"REV", p>>).entries = Reversed(Posting(ledger, <<"PAY", p>>).entries)
EligibleOf(b, p) ==
  /\ Collected(p) /\ payment[p].booking = b
  /\ Posting(ledger, <<"ELIGIBLE", b>>).entries["guide_payable_eligible"] =
       Posting(ledger, <<"PAY", p>>).entries["guide_payable_pending"]
EligibleIsExact ==
  \A b \in Booking : Posted(ledger, <<"ELIGIBLE", b>>) => \E p \in Ref : EligibleOf(b, p)

LedgerInv ==
  /\ PayPosted /\ RevPosted /\ RevIsExact /\ EligibleIsExact
  /\ OnePosting /\ PostedToBooking

IInv == TypeOK /\ PaymentInv /\ LedgerInv /\ IntentInv /\ RefundInv
-----------------------------------------------------------------------------
\* Only a booking awaiting payment is confirmed or fails its payment, one that
\* was confirmed never awaits payment again, a refunded one stays as it is, and a
\* tour under way can only be completed.
LEMMA Edges ==
  ASSUME NEW s \in Statuses, NEW to, CanTransition(s, to)
  PROVE  /\ to \in Statuses
         /\ to = "CONFIRMED" => s = "PAYMENT_PENDING"
         /\ to = "PAYMENT_FAILED" => s = "PAYMENT_PENDING"
         /\ s \notin UnpaidStatuses => to \notin UnpaidStatuses
         /\ s # "REFUNDED"
         /\ s = "IN_PROGRESS" => to = "COMPLETED"
<1> USE DEF CanTransition, transitions, Statuses, UnpaidStatuses, ActiveStatuses,
            ClosedStatuses, CancelledStatuses
<1>1. CASE s \in UnpaidStatuses
  BY <1>1
<1>2. CASE s \in ActiveStatuses
  BY <1>2
<1>3. CASE s \in ClosedStatuses \ {"REFUND_PENDING", "REFUNDED"}
  BY <1>3
<1>4. CASE s \in {"REFUND_PENDING", "REFUNDED"}
  BY <1>4
<1> QED BY <1>1, <1>2, <1>3, <1>4

\* An existing payment is a Row, a request is what its kind says.
LEMMA Typed ==
  ASSUME TypeOK
  PROVE  /\ \A p \in Ref : Exists(p) => payment[p] \in Row
         /\ \A r \in Req : Intending(r) => req[r] \in Intent
         /\ \A r \in Req : \A at : Refunding(r, at) => req[r] \in Refund
         /\ \A r \in Req : \A at : Refunding(r, at) =>
              at \in {"loaded", "returned", "driving", "committed"}
  BY DEF TypeOK, Exists, Intending, Refunding, Intent, Refund

LEMMA InitInv == Init => IInv
  BY DEF Init, IInv, TypeOK, PaymentInv, VisibleInv, PaymentFitsBooking, SeenIsFinal,
         LedgerInv, PayPosted, RevPosted, RevIsExact, EligibleIsExact, OnePosting,
         PostedToBooking, Posted, OneCollected, RefundIsReturned, IntentInv, RefundInv,
         RefundFits, OneDriver, Exists, Has, Collected,
         Intending, Refunding, Statuses, UnpaidStatuses

\* Postings the actions make are typed.
LEMMA EntriesTyped ==
  /\ \A s \in Allocation : Allocated(s) \in Entries
  /\ \A e \in Entries : Reversed(e) \in Entries
  /\ \A from, to \in Account, n \in Int : Moved(from, to, n) \in Entries
  BY AllocationIsPositive DEF Allocated, Reversed, Moved, Entries, Account

LEMMA PostTyped ==
  ASSUME ledger \subseteq LedgerRow, NEW t \in LedgerRow, Post(ledger, ledger', t)
  PROVE  ledger' \subseteq LedgerRow
  BY DEF Post

LEMMA TypeStep == IInv /\ [Next]_vars => TypeOK'
<1> SUFFICES ASSUME IInv, [Next]_vars PROVE TypeOK'
  OBVIOUS
<1> USE DEF IInv
<1>1. ASSUME NEW r \in Req, NEW b \in Booking, NEW k \in Key, NEW p \in Ref,
             LoadIntent(r, b, k, p)
      PROVE  TypeOK'
  BY <1>1 DEF LoadIntent, TypeOK, keys, provider, Intent
<1>2. ASSUME NEW r \in Req, ClaimIntent(r) PROVE TypeOK'
  <2>1. [req[r] EXCEPT !.holds = TRUE] \in Intent
    BY <1>2, Typed DEF ClaimIntent, Intent
  <2>2. req' = [req EXCEPT ![r] = [req[r] EXCEPT !.holds = TRUE]]
    BY <1>2 DEF ClaimIntent
  <2> QED BY <1>2, <2>1, <2>2 DEF ClaimIntent, TypeOK, keys, provider
<1>3. ASSUME NEW r \in Req, RefuseIntent(r) \/ RefuseRefund(r) \/ FailRefund(r) \/ Abandon(r)
      PROVE  TypeOK'
  BY <1>3 DEF RefuseIntent, RefuseRefund, FailRefund, Abandon, End, TypeOK, keys, provider
<1>4. ASSUME NEW r \in Req, InsertIntent(r) PROVE TypeOK'
  <2>1. req[r].ref \in Ref /\ req[r].booking \in Booking /\ req[r].key \in Key
    BY <1>4, Typed DEF InsertIntent, Intent
  <2>2. [booking |-> req[r].booking, status |-> "PENDING"] \in Row
    BY <2>1 DEF Row, PaymentStatus
  <2>3. payment' \in [Ref -> Row \cup {None}]
    BY <1>4, <2>2 DEF InsertIntent, TypeOK
  <2>4. intentKey' \in [Booking \X Key -> Ref \cup {None}]
    BY <1>4, <2>1 DEF InsertIntent, TypeOK
  <2> QED BY <1>4, <2>3, <2>4 DEF InsertIntent, TypeOK, End, provider
<1>5. ASSUME NEW p \in Ref, Pay(p) \/ Decline(p) PROVE TypeOK'
  BY <1>5 DEF Pay, Decline, TypeOK, keys
<1>6. ASSUME NEW p \in Ref, WebhookSuccess(p) PROVE TypeOK'
  <2> DEFINE b == payment[p].booking
  <2>1. payment[p] \in Row /\ b \in Booking
    BY <1>6, Typed DEF WebhookSuccess, Row
  <2>2. [payment[p] EXCEPT !.status = "SUCCEEDED"] \in Row
    BY <2>1 DEF Row, PaymentStatus
  <2>3. payment' \in [Ref -> Row \cup {None}]
    BY <1>6, <2>2 DEF WebhookSuccess, TypeOK
  <2>4. status' \in [Booking -> Statuses]
    BY <1>6, <2>1 DEF WebhookSuccess, TypeOK, Statuses, ActiveStatuses
  <2>5. PICK s \in Allocation :
          Post(ledger, ledger', [reference |-> <<"PAY", p>>, booking |-> b,
                                 entries |-> Allocated(s)])
    BY <1>6 DEF WebhookSuccess
  <2>6. [reference |-> <<"PAY", p>>, booking |-> b, entries |-> Allocated(s)] \in LedgerRow
    BY <2>1, EntriesTyped DEF LedgerRow
  <2>7. ledger' \subseteq LedgerRow
    BY <2>5, <2>6, PostTyped DEF TypeOK
  <2> QED BY <1>6, <2>3, <2>4, <2>7 DEF WebhookSuccess, TypeOK, keys, provider
<1>7. ASSUME NEW p \in Ref, WebhookFailure(p) PROVE TypeOK'
  <2>1. payment[p] \in Row
    BY <1>7, Typed DEF WebhookFailure
  <2>2. [payment[p] EXCEPT !.status = "FAILED"] \in Row
    BY <2>1 DEF Row, PaymentStatus
  <2>3. payment' \in [Ref -> Row \cup {None}]
    BY <1>7, <2>2 DEF WebhookFailure, TypeOK
  <2>4. status' \in [Booking -> Statuses]
    BY <1>7 DEF WebhookFailure, TypeOK, Statuses, UnpaidStatuses
  <2> QED BY <1>7, <2>3, <2>4 DEF WebhookFailure, TypeOK, keys, provider
<1>8. ASSUME NEW r \in Req, NEW p \in Ref, NEW k \in Key, LoadRefund(r, p, k) PROVE TypeOK'
  BY <1>8 DEF LoadRefund, TypeOK, Refund, keys, provider, Statuses, UnpaidStatuses
<1>9. ASSUME NEW r \in Req, ReturnMoney(r) PROVE TypeOK'
  <2>1. req[r] \in Refund
    BY <1>9, Typed DEF ReturnMoney
  <2>2. [req[r] EXCEPT !.at = "returned"] \in Refund
    BY <2>1 DEF Refund
  <2>3. req' = [req EXCEPT ![r] = [req[r] EXCEPT !.at = "returned"]]
    BY <1>9 DEF ReturnMoney
  <2>4. returned' = [returned EXCEPT ![req[r].ref] = returned[req[r].ref] + 1]
    BY <1>9 DEF ReturnMoney
  <2>5. returned' \in [Ref -> Nat]
    <3>1. req[r].ref \in Ref /\ returned[req[r].ref] \in Nat
      BY <2>1 DEF Refund, TypeOK
    <3> QED BY <2>4, <3>1 DEF TypeOK
  <2> QED BY <1>9, <2>2, <2>3, <2>5 DEF ReturnMoney, TypeOK, keys
<1>10. ASSUME NEW r \in Req, BeginRefund(r) PROVE TypeOK'
  <2> DEFINE s == status[payment[req[r].ref].booking]
  <2>1. req[r] \in Refund /\ req[r].ref \in Ref
    BY <1>10, Typed DEF BeginRefund, Refund
  <2>2. Collected(req[r].ref)
    BY <1>10 DEF BeginRefund, RefundInv, RefundFits
  <2>3. payment[req[r].ref].booking \in Booking
    BY <2>1, <2>2, Typed DEF Collected, Has, Row
  <2>4. s \in Statuses
    BY <2>3 DEF TypeOK
  <2>5. req' = [req EXCEPT ![r] = [[req[r] EXCEPT !.at = "driving"] EXCEPT !.seen = s]]
    BY <1>10, <2>1 DEF BeginRefund, TypeOK
  <2> HIDE DEF s
  <2>6. [[req[r] EXCEPT !.at = "driving"] EXCEPT !.seen = s] \in Refund
    BY <2>1, <2>4 DEF Refund
  <2> QED BY <1>10, <2>5, <2>6 DEF BeginRefund, TypeOK, keys, provider
<1>11. ASSUME NEW r \in Req, CommitRefund(r) PROVE TypeOK'
  <2> DEFINE p == req[r].ref
             b == payment[p].booking
             t == Posting(ledger, <<"PAY", p>>)
  <2>1. req[r] \in Refund /\ p \in Ref /\ req[r].key \in Key
    BY <1>11, Typed DEF CommitRefund, Refund
  <2>2. Has(p, "SUCCEEDED")
    BY <1>11 DEF CommitRefund, RefundInv, RefundFits
  <2>3. payment[p] \in Row /\ b \in Booking
    BY <2>1, <2>2, Typed DEF Has, Row
  <2>4. [payment[p] EXCEPT !.status = "REFUNDED"] \in Row
    BY <2>3 DEF Row, PaymentStatus
  <2>5. payment' \in [Ref -> Row \cup {None}]
    BY <1>11, <2>4 DEF CommitRefund, TypeOK
  <2>6. status' \in [Booking -> Statuses]
    BY <1>11 DEF CommitRefund, TypeOK, Statuses, ClosedStatuses
  <2>7. [req[r] EXCEPT !.at = "committed"] \in Refund
    BY <2>1 DEF Refund
  <2>8. req' = [req EXCEPT ![r] = [req[r] EXCEPT !.at = "committed"]]
    BY <1>11 DEF CommitRefund
  <2>9. Posted(ledger, <<"PAY", p>>)
    BY <2>1, <2>2 DEF LedgerInv, PayPosted, Collected
  <2>10. t \in ledger
    BY <2>9 DEF Posted, Posting
  <2>11. t.entries \in Entries
    BY <2>10 DEF TypeOK, LedgerRow
  <2>12. Post(ledger, ledger', [reference |-> <<"REV", p>>, booking |-> b,
                                entries |-> Reversed(t.entries)])
    BY <1>11 DEF CommitRefund
  <2> HIDE DEF t
  <2>13. [reference |-> <<"REV", p>>, booking |-> b, entries |-> Reversed(t.entries)]
           \in LedgerRow
    BY <2>1, <2>3, <2>11, EntriesTyped DEF LedgerRow
  <2>14. ledger' \subseteq LedgerRow
    BY <2>12, <2>13, PostTyped DEF TypeOK
  <2>15. refundKey' \subseteq Ref \X Key
    BY <1>11, <2>1 DEF CommitRefund, TypeOK
  <2>16. req' \in [Req -> Intent \cup Refund \cup {None}]
    BY <2>7, <2>8 DEF TypeOK
  <2>17. UNCHANGED <<seen, intentKey, audited, paid, declined, returned>>
    BY <1>11 DEF CommitRefund, provider
  <2> QED BY <2>5, <2>6, <2>14, <2>15, <2>16, <2>17 DEF TypeOK
<1>12. ASSUME NEW r \in Req, Audit(r) PROVE TypeOK'
  <2>1. req[r].ref \in Ref
    BY <1>12, Typed DEF Audit, Refund
  <2> QED BY <1>12, <2>1 DEF Audit, End, TypeOK, keys, provider
<1>13. ASSUME NEW b \in Booking, NEW to, MoveBooking(b, to) PROVE TypeOK'
  <2>1. to \in Statuses
    BY <1>13, Edges DEF MoveBooking, TypeOK
  <2> QED BY <1>13, <2>1 DEF MoveBooking, TypeOK, keys, provider
<1>14. ASSUME NEW b \in Booking, CompleteTour(b) PROVE TypeOK'
  <2>1. status' \in [Booking -> Statuses]
    BY <1>14 DEF CompleteTour, TypeOK, Statuses, ClosedStatuses
  <2>2. CASE PendingCredits(b) = {}
    BY <1>14, <2>1, <2>2 DEF CompleteTour, TypeOK, keys, provider
  <2>3. CASE PendingCredits(b) # {}
    <3> DEFINE e(t) == Moved("guide_payable_pending", "guide_payable_eligible",
                             t.entries["guide_payable_pending"])
    <3>1. PICK t \in PendingCredits(b) :
            Post(ledger, ledger', [reference |-> <<"ELIGIBLE", b>>, booking |-> b,
                                   entries |-> e(t)])
      BY <1>14, <2>3 DEF CompleteTour
    <3>2. t \in LedgerRow
      BY <3>1 DEF PendingCredits, TypeOK
    <3>3. e(t) \in Entries
      BY <3>2, EntriesTyped DEF LedgerRow, Entries, Account
    <3> HIDE DEF e
    <3>4. [reference |-> <<"ELIGIBLE", b>>, booking |-> b, entries |-> e(t)] \in LedgerRow
      BY <3>3 DEF LedgerRow
    <3>5. ledger' \subseteq LedgerRow
      BY <3>1, <3>4, PostTyped DEF TypeOK
    <3> QED BY <1>14, <2>1, <3>5 DEF CompleteTour, TypeOK, keys, provider
  <2> QED BY <2>2, <2>3
<1>15. CASE UNCHANGED vars
  BY <1>15 DEF vars, TypeOK
<1> QED
  BY <1>1, <1>2, <1>3, <1>4, <1>5, <1>6, <1>7, <1>8, <1>9, <1>10, <1>11, <1>12, <1>13,
     <1>14, <1>15 DEF Next, Ask, Serve
-----------------------------------------------------------------------------
\* Steps that write no row the invariants of payments and postings speak of.
QuietStep ==
  \/ \E r \in Req :
       \/ Ask(r) \/ ClaimIntent(r) \/ RefuseIntent(r) \/ BeginRefund(r)
       \/ RefuseRefund(r) \/ FailRefund(r) \/ Audit(r) \/ Abandon(r)
  \/ \E p \in Ref : Decline(p)
  \/ UNCHANGED vars

LEMMA Quiet == QuietStep => UNCHANGED <<status, payment, seen, ledger, paid, returned>>
  BY DEF QuietStep, Ask, LoadIntent, LoadRefund, ClaimIntent, RefuseIntent, BeginRefund,
         RefuseRefund, FailRefund, Audit, Abandon, Decline, vars, provider

\* What the writes of a payment's row do to it and to the others.
LEMMA StatusSet ==
  ASSUME TypeOK, NEW p \in Ref, Exists(p), NEW st,
         payment' = [payment EXCEPT ![p].status = st], st \in PaymentStatus
  PROVE  /\ \A q \in Ref : Exists(q)' <=> Exists(q)
         /\ \A q \in Ref : Exists(q) => payment'[q].booking = payment[q].booking
         /\ \A q \in Ref : \A x : Has(q, x)' <=> IF q = p THEN x = st ELSE Has(q, x)
<1>1. payment[p] \in Row
  BY Typed
<1>2. [payment[p] EXCEPT !.status = st] \in Row
  BY <1>1 DEF Row
<1>3. payment' = [payment EXCEPT ![p] = [payment[p] EXCEPT !.status = st]]
  OBVIOUS
<1>4. payment'[p] = [payment[p] EXCEPT !.status = st]
  BY <1>3 DEF TypeOK
<1>5. payment'[p] # None /\ payment'[p].status = st
         /\ payment'[p].booking = payment[p].booking
  BY <1>1, <1>2, <1>4, NoneIsFresh DEF Row
<1>6. \A q \in Ref \ {p} : payment'[q] = payment[q]
  BY <1>3 DEF TypeOK
<1> QED BY <1>5, <1>6 DEF Exists, Has

LEMMA RowInserted ==
  ASSUME TypeOK, NEW p \in Ref, ~Exists(p), NEW b \in Booking,
         payment' = [payment EXCEPT ![p] = [booking |-> b, status |-> "PENDING"]]
  PROVE  /\ \A q \in Ref : Exists(q)' <=> q = p \/ Exists(q)
         /\ \A q \in Ref : Exists(q) => payment'[q].booking = payment[q].booking
         /\ \A q \in Ref : \A x : Has(q, x)' <=> IF q = p THEN x = "PENDING" ELSE Has(q, x)
<1>1. payment'[p] = [booking |-> b, status |-> "PENDING"]
  BY DEF TypeOK
<1>2. payment'[p] # None
  BY <1>1, NoneIsFresh DEF Row, PaymentStatus
<1>3. \A q \in Ref \ {p} : payment'[q] = payment[q]
  BY DEF TypeOK
<1> QED BY <1>1, <1>2, <1>3 DEF Exists, Has

\* A payment of a booking awaiting payment is the only one it could collect.
LEMMA AwaitingHasNothing ==
  ASSUME PaymentInv, NEW p \in Ref, Exists(p),
         status[payment[p].booking] = "PAYMENT_PENDING"
  PROVE  \A q \in Ref : Exists(q) /\ payment[q].booking = payment[p].booking => ~Collected(q)
  BY DEF PaymentInv, PaymentFitsBooking, Collected, UnpaidStatuses

LEMMA PaymentStep == IInv /\ [Next]_vars => PaymentInv'
<1> SUFFICES ASSUME IInv, [Next]_vars PROVE PaymentInv'
  OBVIOUS
<1> USE DEF IInv
<1>1. CASE QuietStep
  BY <1>1, Quiet DEF PaymentInv, VisibleInv, PaymentFitsBooking, SeenIsFinal, OneCollected,
     RefundIsReturned, Exists, Has, Collected
<1>2. ASSUME NEW r \in Req, InsertIntent(r) PROVE PaymentInv'
  <2> DEFINE p == req[r].ref
  <2>1. p \in Ref /\ ~Exists(p) /\ req[r].booking \in Booking
    BY <1>2, Typed DEF InsertIntent, Intent, IntentInv
  <2>2. payment' = [payment EXCEPT ![p] = [booking |-> req[r].booking, status |-> "PENDING"]]
    BY <1>2 DEF InsertIntent
  <2>3. UNCHANGED <<status, seen, paid, returned>>
    BY <1>2 DEF InsertIntent, provider
  <2> HIDE DEF p
  <2>4. /\ \A q \in Ref : Exists(q)' <=> q = p \/ Exists(q)
        /\ \A q \in Ref : Exists(q) => payment'[q].booking = payment[q].booking
        /\ \A q \in Ref : \A x : Has(q, x)' <=> IF q = p THEN x = "PENDING" ELSE Has(q, x)
    BY <2>1, <2>2, RowInserted
  <2>5. \A q \in Ref : Collected(q)' <=> Collected(q)
    BY <2>1, <2>4 DEF Collected, Has
  <2>6. VisibleInv'
    BY <2>4 DEF PaymentInv, VisibleInv
  <2>7. PaymentFitsBooking'
    BY <2>3, <2>4 DEF PaymentInv, PaymentFitsBooking, Has
  <2>8. SeenIsFinal'
    BY <2>1, <2>3, <2>4, <2>5 DEF PaymentInv, SeenIsFinal, Has
  <2>9. OneCollected'
    BY <2>4, <2>5 DEF PaymentInv, OneCollected, Collected, Has
  <2>10. RefundIsReturned'
    BY <2>3, <2>4 DEF PaymentInv, RefundIsReturned
  <2> QED BY <2>6, <2>7, <2>8, <2>9, <2>10 DEF PaymentInv
<1>3. ASSUME NEW p \in Ref, Pay(p) PROVE PaymentInv'
  BY <1>3 DEF Pay, PaymentInv, VisibleInv, PaymentFitsBooking, SeenIsFinal, OneCollected,
     RefundIsReturned, Exists, Has, Collected
<1>4. ASSUME NEW p \in Ref, WebhookSuccess(p) PROVE PaymentInv'
  <2> DEFINE b == payment[p].booking
  <2>1. /\ payment' = [payment EXCEPT ![p].status = "SUCCEEDED"]
        /\ status' = [status EXCEPT ![b] = "CONFIRMED"]
        /\ seen' = seen \cup {p}
        /\ UNCHANGED <<paid, returned>>
        /\ Exists(p) /\ p \in paid
    BY <1>4 DEF WebhookSuccess, provider
  <2>2. status[b] = "PAYMENT_PENDING" /\ b \in Booking
    <3>1. b \in Booking
      BY <2>1, Typed DEF Row
    <3> QED BY <1>4, <3>1, Edges DEF WebhookSuccess, TypeOK
  <2>3. /\ \A q \in Ref : Exists(q)' <=> Exists(q)
        /\ \A q \in Ref : Exists(q) => payment'[q].booking = payment[q].booking
        /\ \A q \in Ref : \A x : Has(q, x)' <=> IF q = p THEN x = "SUCCEEDED" ELSE Has(q, x)
    BY <2>1, StatusSet DEF PaymentStatus
  <2>4. \A q \in Ref : Exists(q) /\ payment[q].booking = b => ~Collected(q)
    BY <2>1, <2>2, AwaitingHasNothing
  <2>5. \A c \in Booking : status'[c] = IF c = b THEN "CONFIRMED" ELSE status[c]
    BY <2>1 DEF TypeOK
  <2>6. \A q \in Ref : Collected(q) => Exists(q) /\ payment[q].booking \in Booking
    BY Typed DEF Collected, Has, Row
  <2>7. \A q \in Ref : Collected(q)' <=> q = p \/ Collected(q)
    BY <2>3 DEF Collected
  <2>8. VisibleInv'
    BY <2>3 DEF PaymentInv, VisibleInv
  <2>9. PaymentFitsBooking'
    <3> SUFFICES ASSUME NEW q \in Ref
                 PROVE  /\ Has(q, "SUCCEEDED")' => status'[payment'[q].booking] \notin UnpaidStatuses
                        /\ Has(q, "REFUNDED")' => status'[payment'[q].booking] = "REFUNDED"
      BY DEF PaymentFitsBooking
    <3>1. CASE q = p
      BY <2>1, <2>2, <2>3, <2>5, <3>1 DEF UnpaidStatuses
    <3>2. CASE q # p /\ Collected(q)
      BY <2>3, <2>4, <2>5, <2>6, <3>2 DEF PaymentInv, PaymentFitsBooking
    <3>3. CASE q # p /\ ~Collected(q)
      BY <2>3, <3>3 DEF Collected
    <3> QED BY <3>1, <3>2, <3>3
  <2>10. SeenIsFinal'
    BY <2>1, <2>3, <2>7 DEF PaymentInv, SeenIsFinal
  <2>11. OneCollected'
    BY <2>1, <2>3, <2>4, <2>6, <2>7 DEF PaymentInv, OneCollected
  <2>12. RefundIsReturned'
    BY <2>1, <2>3 DEF PaymentInv, RefundIsReturned
  <2> QED BY <2>8, <2>9, <2>10, <2>11, <2>12 DEF PaymentInv
<1>5. ASSUME NEW p \in Ref, WebhookFailure(p) PROVE PaymentInv'
  <2> DEFINE b == payment[p].booking
  <2>1. /\ payment' = [payment EXCEPT ![p].status = "FAILED"]
        /\ status' = [status EXCEPT ![b] = "PAYMENT_FAILED"]
        /\ seen' = seen \cup {p}
        /\ UNCHANGED <<paid, returned>>
        /\ Exists(p)
    BY <1>5 DEF WebhookFailure, provider
  <2>2. status[b] = "PAYMENT_PENDING" /\ b \in Booking
    <3>1. b \in Booking
      BY <2>1, Typed DEF Row
    <3> QED BY <1>5, <3>1, Edges DEF WebhookFailure, TypeOK
  <2>3. /\ \A q \in Ref : Exists(q)' <=> Exists(q)
        /\ \A q \in Ref : Exists(q) => payment'[q].booking = payment[q].booking
        /\ \A q \in Ref : \A x : Has(q, x)' <=> IF q = p THEN x = "FAILED" ELSE Has(q, x)
    BY <2>1, StatusSet DEF PaymentStatus
  <2>4. \A q \in Ref : Exists(q) /\ payment[q].booking = b => ~Collected(q)
    BY <2>1, <2>2, AwaitingHasNothing
  <2>5. \A c \in Booking : status'[c] = IF c = b THEN "PAYMENT_FAILED" ELSE status[c]
    BY <2>1 DEF TypeOK
  <2>6. \A q \in Ref : Collected(q) => Exists(q) /\ payment[q].booking \in Booking
    BY Typed DEF Collected, Has, Row
  <2>7. \A q \in Ref : Collected(q)' <=> Collected(q)
    BY <2>1, <2>3, <2>4 DEF Collected
  <2>8. VisibleInv'
    BY <2>3 DEF PaymentInv, VisibleInv
  <2>9. PaymentFitsBooking'
    <3> SUFFICES ASSUME NEW q \in Ref
                 PROVE  /\ Has(q, "SUCCEEDED")' => status'[payment'[q].booking] \notin UnpaidStatuses
                        /\ Has(q, "REFUNDED")' => status'[payment'[q].booking] = "REFUNDED"
      BY DEF PaymentFitsBooking
    <3>1. CASE Collected(q)
      BY <2>3, <2>4, <2>5, <2>6, <3>1 DEF PaymentInv, PaymentFitsBooking
    <3>2. CASE ~Collected(q)
      BY <2>3, <3>2 DEF Collected
    <3> QED BY <3>1, <3>2
  <2>10. SeenIsFinal'
    BY <2>1, <2>3, <2>7 DEF PaymentInv, SeenIsFinal
  <2>11. OneCollected'
    BY <2>3, <2>6, <2>7 DEF PaymentInv, OneCollected
  <2>12. RefundIsReturned'
    BY <2>1, <2>3 DEF PaymentInv, RefundIsReturned
  <2> QED BY <2>8, <2>9, <2>10, <2>11, <2>12 DEF PaymentInv
<1>6. ASSUME NEW r \in Req, ReturnMoney(r) PROVE PaymentInv'
  <2>1. UNCHANGED <<status, payment, seen, paid>>
    BY <1>6 DEF ReturnMoney
  <2>2. RefundIsReturned'
    <3>1. \A p \in Ref : returned[p] > 0 => returned'[p] > 0
      BY <1>6 DEF ReturnMoney, TypeOK
    <3> QED BY <2>1, <3>1 DEF PaymentInv, RefundIsReturned, Has, Exists
  <2> QED BY <2>1, <2>2 DEF PaymentInv, VisibleInv, PaymentFitsBooking, SeenIsFinal,
             OneCollected, Exists, Has, Collected
<1>7. ASSUME NEW r \in Req, CommitRefund(r) PROVE PaymentInv'
  <2> DEFINE p == req[r].ref
             b == payment[p].booking
  <2>1. /\ payment' = [payment EXCEPT ![p].status = "REFUNDED"]
        /\ status' = [status EXCEPT ![b] = "REFUNDED"]
        /\ UNCHANGED <<seen, paid, returned>>
    BY <1>7 DEF CommitRefund, provider
  <2>2. p \in Ref /\ Has(p, "SUCCEEDED") /\ returned[p] > 0
    BY <1>7, Typed DEF CommitRefund, RefundInv, RefundFits, Refund
  <2>3. Exists(p) /\ Collected(p) /\ b \in Booking
    BY <2>2, Typed DEF Has, Collected, Row
  <2> HIDE DEF p
  <2>4. /\ \A q \in Ref : Exists(q)' <=> Exists(q)
        /\ \A q \in Ref : Exists(q) => payment'[q].booking = payment[q].booking
        /\ \A q \in Ref : \A x : Has(q, x)' <=> IF q = p THEN x = "REFUNDED" ELSE Has(q, x)
    BY <2>1, <2>2, <2>3, StatusSet DEF PaymentStatus
  <2>5. \A q \in Ref : Collected(q) /\ payment[q].booking = b => q = p
    BY <2>2, <2>3 DEF PaymentInv, OneCollected
  <2>6. \A c \in Booking : status'[c] = IF c = b THEN "REFUNDED" ELSE status[c]
    BY <2>1 DEF TypeOK
  <2>7. \A q \in Ref : Collected(q) => Exists(q) /\ payment[q].booking \in Booking
    BY Typed DEF Collected, Has, Row
  <2>8. \A q \in Ref : Collected(q)' <=> Collected(q)
    BY <2>3, <2>4 DEF Collected
  <2>9. VisibleInv'
    BY <2>4 DEF PaymentInv, VisibleInv
  <2>10. PaymentFitsBooking'
    <3> SUFFICES ASSUME NEW q \in Ref
                 PROVE  /\ Has(q, "SUCCEEDED")' => status'[payment'[q].booking] \notin UnpaidStatuses
                        /\ Has(q, "REFUNDED")' => status'[payment'[q].booking] = "REFUNDED"
      BY DEF PaymentFitsBooking
    <3>1. CASE q = p
      BY <2>3, <2>4, <2>6, <3>1
    <3>2. CASE q # p /\ Collected(q)
      BY <2>4, <2>5, <2>6, <2>7, <3>2 DEF PaymentInv, PaymentFitsBooking
    <3>3. CASE q # p /\ ~Collected(q)
      BY <2>4, <3>3 DEF Collected
    <3> QED BY <3>1, <3>2, <3>3
  <2>11. SeenIsFinal'
    BY <2>1, <2>2, <2>4, <2>8 DEF PaymentInv, SeenIsFinal, Collected
  <2>12. OneCollected'
    BY <2>4, <2>7, <2>8 DEF PaymentInv, OneCollected
  <2>13. RefundIsReturned'
    BY <2>1, <2>2, <2>4 DEF PaymentInv, RefundIsReturned
  <2> QED BY <2>9, <2>10, <2>11, <2>12, <2>13 DEF PaymentInv
<1>8. ASSUME NEW b \in Booking,
             CompleteTour(b) \/ \E to \in Statuses : MoveBooking(b, to)
      PROVE  PaymentInv'
  <2>1. PICK to \in Statuses : CanTransition(status[b], to) /\ status' = [status EXCEPT ![b] = to]
    BY <1>8 DEF CompleteTour, MoveBooking, Statuses, ClosedStatuses
  <2>2. UNCHANGED <<payment, seen, paid, returned>>
    BY <1>8 DEF CompleteTour, MoveBooking, provider
  <2>3. \A c \in Booking : status'[c] = IF c = b THEN to ELSE status[c]
    BY <2>1 DEF TypeOK
  <2>4. /\ status[b] # "REFUNDED"
        /\ status[b] \notin UnpaidStatuses => to \notin UnpaidStatuses
    BY <2>1, Edges DEF TypeOK
  <2>5. \A q \in Ref : Collected(q) => Exists(q) /\ payment[q].booking \in Booking
    BY Typed DEF Collected, Has, Row
  <2>6. PaymentFitsBooking'
    BY <2>2, <2>3, <2>4, <2>5 DEF PaymentInv, PaymentFitsBooking, Has, Exists, Collected
  <2> QED BY <2>2, <2>6 DEF PaymentInv, VisibleInv, SeenIsFinal, OneCollected,
             RefundIsReturned, Exists, Has, Collected
<1> QED
  BY <1>1, <1>2, <1>3, <1>4, <1>5, <1>6, <1>7, <1>8 DEF Next, Serve, QuietStep
-----------------------------------------------------------------------------
\* A posting of a ledger with unique references is the one its reference finds.
LEMMA PostingFound ==
  ASSUME NEW l, \A t, u \in l : t.reference = u.reference => t = u, NEW t \in l
  PROVE  Posted(l, t.reference) /\ Posting(l, t.reference) = t
  BY DEF Posted, Posting

\* A new posting leaves every other one as it was.
LEMMA PostingsKept ==
  ASSUME NEW t, Post(ledger, ledger', t),
         \A u, v \in ledger : u.reference = v.reference => u = v
  PROVE  /\ \A u, v \in ledger' : u.reference = v.reference => u = v
         /\ \A x : Posted(ledger', x) <=> x = t.reference \/ Posted(ledger, x)
         /\ \A x : Posted(ledger, x) => Posting(ledger', x) = Posting(ledger, x)
         /\ ~Posted(ledger, t.reference) /\ Posting(ledger', t.reference) = t
<1>1. ledger' = ledger \cup {t} /\ ~Posted(ledger, t.reference)
  BY DEF Post
<1>2. \A u, v \in ledger' : u.reference = v.reference => u = v
  BY <1>1 DEF Posted
<1>3. \A x : Posted(ledger', x) <=> x = t.reference \/ Posted(ledger, x)
  BY <1>1 DEF Posted
<1>4. ASSUME NEW x, Posted(ledger, x) PROVE Posting(ledger', x) = Posting(ledger, x)
  <2>1. PICK u \in ledger : u.reference = x
    BY <1>4 DEF Posted
  <2>2. Posting(ledger, x) = u
    BY <2>1, PostingFound
  <2>3. u \in ledger'
    BY <1>1
  <2>4. Posting(ledger', x) = u
    BY <1>2, <2>1, <2>3, PostingFound
  <2> QED BY <2>2, <2>4
<1>5. Posting(ledger', t.reference) = t
  BY <1>1, <1>2, PostingFound
<1> QED BY <1>1, <1>2, <1>3, <1>4, <1>5

\* Payments that stay collected or refunded, or not, keep the ledger right.
LEMMA LedgerUnmoved ==
  ASSUME LedgerInv, ledger' = ledger,
         \A p \in Ref : /\ Collected(p)' <=> Collected(p)
                        /\ Has(p, "REFUNDED")' <=> Has(p, "REFUNDED")
                        /\ Collected(p) => payment'[p].booking = payment[p].booking
  PROVE  LedgerInv'
<1> USE DEF LedgerInv
<1>1. PayPosted' /\ RevPosted' /\ OnePosting'
  BY DEF PayPosted, RevPosted, OnePosting, Posted
<1>2. RevIsExact'
  BY DEF RevIsExact, Posting
<1>3. \A b \in Booking, p \in Ref : EligibleOf(b, p) => EligibleOf(b, p)'
  BY DEF EligibleOf, Posting
<1>4. EligibleIsExact'
  BY <1>3 DEF EligibleIsExact, Posted
<1>5. PostedToBooking'
  BY DEF PostedToBooking, PayPosted, Posted
<1> QED BY <1>1, <1>2, <1>4, <1>5

\* A new posting disturbs nothing the others say, where collected payments stay so.
LEMMA LedgerGrown ==
  ASSUME LedgerInv, NEW t, Post(ledger, ledger', t),
         \A p \in Ref : Collected(p) =>
           /\ Collected(p)'
           /\ payment'[p].booking = payment[p].booking
  PROVE  /\ OnePosting'
         /\ \A x : Posted(ledger', x) <=> x = t.reference \/ Posted(ledger, x)
         /\ \A x : Posted(ledger, x) => Posting(ledger', x) = Posting(ledger, x)
         /\ Posting(ledger', t.reference) = t
         /\ \A p \in Ref : Has(p, "REFUNDED") =>
              Posting(ledger', <<"REV", p>>).entries =
                Reversed(Posting(ledger', <<"PAY", p>>).entries)
         /\ \A b \in Booking : Posted(ledger, <<"ELIGIBLE", b>>) =>
              \E p \in Ref : EligibleOf(b, p)'
         /\ \A u \in ledger, p \in Ref :
              u.reference = <<"PAY", p>> => u.booking = payment'[p].booking
<1> USE DEF LedgerInv
<1>1. /\ \A u, v \in ledger' : u.reference = v.reference => u = v
      /\ \A x : Posted(ledger', x) <=> x = t.reference \/ Posted(ledger, x)
      /\ \A x : Posted(ledger, x) => Posting(ledger', x) = Posting(ledger, x)
      /\ Posting(ledger', t.reference) = t
  BY PostingsKept DEF OnePosting
<1>2. OnePosting'
  BY <1>1 DEF OnePosting
<1>3. ASSUME NEW p \in Ref, Has(p, "REFUNDED")
      PROVE  Posting(ledger', <<"REV", p>>).entries =
               Reversed(Posting(ledger', <<"PAY", p>>).entries)
  <2>1. Posted(ledger, <<"REV", p>>) /\ Posted(ledger, <<"PAY", p>>)
    BY <1>3 DEF RevPosted, PayPosted, Collected
  <2> QED BY <1>1, <1>3, <2>1 DEF RevIsExact
<1>4. ASSUME NEW b \in Booking, Posted(ledger, <<"ELIGIBLE", b>>)
      PROVE  \E p \in Ref : EligibleOf(b, p)'
  <2>1. PICK p \in Ref : EligibleOf(b, p)
    BY <1>4 DEF EligibleIsExact
  <2>2. Posted(ledger, <<"PAY", p>>) /\ Collected(p)
    BY <2>1 DEF PayPosted, EligibleOf
  <2>3. Collected(p)' /\ payment'[p].booking = b
    BY <2>1, <2>2 DEF EligibleOf
  <2>4. /\ Posting(ledger', <<"ELIGIBLE", b>>) = Posting(ledger, <<"ELIGIBLE", b>>)
        /\ Posting(ledger', <<"PAY", p>>) = Posting(ledger, <<"PAY", p>>)
    BY <1>1, <1>4, <2>2
  <2>5. EligibleOf(b, p)'
    BY <2>1, <2>3, <2>4 DEF EligibleOf
  <2> QED BY <2>5
<1>5. \A u \in ledger, p \in Ref :
        u.reference = <<"PAY", p>> => u.booking = payment'[p].booking
  BY DEF PostedToBooking, PayPosted, Posted
<1> QED BY <1>1, <1>2, <1>3, <1>4, <1>5

LEMMA LedgerStep == IInv /\ [Next]_vars => LedgerInv'
<1> SUFFICES ASSUME IInv, [Next]_vars PROVE LedgerInv'
  OBVIOUS
<1> USE DEF IInv
<1>1. CASE QuietStep \/ UNCHANGED <<payment, ledger>>
  BY <1>1, Quiet, LedgerUnmoved DEF Has, Exists, Collected
<1>2. ASSUME NEW r \in Req, InsertIntent(r) PROVE LedgerInv'
  <2> DEFINE p == req[r].ref
  <2>1. p \in Ref /\ ~Exists(p) /\ req[r].booking \in Booking
    BY <1>2, Typed DEF InsertIntent, Intent, IntentInv
  <2>2. /\ payment' = [payment EXCEPT ![p] = [booking |-> req[r].booking, status |-> "PENDING"]]
        /\ ledger' = ledger
    BY <1>2 DEF InsertIntent
  <2> HIDE DEF p
  <2>3. /\ \A q \in Ref : Exists(q) => payment'[q].booking = payment[q].booking
        /\ \A q \in Ref : \A x : Has(q, x)' <=> IF q = p THEN x = "PENDING" ELSE Has(q, x)
    BY <2>1, <2>2, RowInserted
  <2> QED BY <2>1, <2>2, <2>3, LedgerUnmoved DEF Collected, Has
<1>3. ASSUME NEW p \in Ref, WebhookFailure(p) PROVE LedgerInv'
  <2>1. /\ payment' = [payment EXCEPT ![p].status = "FAILED"]
        /\ ledger' = ledger /\ Exists(p)
    BY <1>3 DEF WebhookFailure
  <2>2. ~Collected(p)
    BY <1>3 DEF WebhookFailure, CanPay, paymentTransitions, PaymentStatus, Collected, Has
  <2>3. /\ \A q \in Ref : Exists(q) => payment'[q].booking = payment[q].booking
        /\ \A q \in Ref : \A x : Has(q, x)' <=> IF q = p THEN x = "FAILED" ELSE Has(q, x)
    BY <2>1, StatusSet DEF PaymentStatus
  <2> QED BY <2>1, <2>2, <2>3, LedgerUnmoved DEF Collected, Has
<1>4. ASSUME NEW p \in Ref, WebhookSuccess(p) PROVE LedgerInv'
  <2> DEFINE b == payment[p].booking
  <2>1. PICK s \in Allocation :
          Post(ledger, ledger', [reference |-> <<"PAY", p>>, booking |-> b,
                                 entries |-> Allocated(s)])
    BY <1>4 DEF WebhookSuccess
  <2> DEFINE t == [reference |-> <<"PAY", p>>, booking |-> b, entries |-> Allocated(s)]
  <2>2. payment' = [payment EXCEPT ![p].status = "SUCCEEDED"] /\ Exists(p)
    BY <1>4 DEF WebhookSuccess
  <2>3. ~Collected(p)
    BY <1>4 DEF WebhookSuccess, CanPay, paymentTransitions, PaymentStatus, Collected, Has
  <2>4. /\ \A q \in Ref : Exists(q) => payment'[q].booking = payment[q].booking
        /\ \A q \in Ref : \A x : Has(q, x)' <=> IF q = p THEN x = "SUCCEEDED" ELSE Has(q, x)
    BY <2>2, StatusSet DEF PaymentStatus
  <2>5. /\ t.reference = <<"PAY", p>> /\ t.booking = b
        /\ ledger' = ledger \cup {t}
    BY <2>1 DEF Post
  <2>6. Post(ledger, ledger', t)
    BY <2>1
  <2> HIDE DEF t
  <2>7. \A q \in Ref : Collected(q)' <=> q = p \/ Collected(q)
    BY <2>4 DEF Collected
  <2>8. \A q \in Ref : Collected(q) => payment'[q].booking = payment[q].booking
    BY <2>4 DEF Collected, Has
  <2>9. /\ OnePosting'
        /\ \A x : Posted(ledger', x) <=> x = t.reference \/ Posted(ledger, x)
        /\ \A q \in Ref : Has(q, "REFUNDED") =>
             Posting(ledger', <<"REV", q>>).entries =
               Reversed(Posting(ledger', <<"PAY", q>>).entries)
        /\ \A c \in Booking : Posted(ledger, <<"ELIGIBLE", c>>) =>
             \E q \in Ref : EligibleOf(c, q)'
        /\ \A u \in ledger, q \in Ref :
             u.reference = <<"PAY", q>> => u.booking = payment'[q].booking
    BY <2>6, <2>7, <2>8, LedgerGrown
  <2>10. PayPosted'
    <3> SUFFICES ASSUME NEW q \in Ref
                 PROVE  Posted(ledger', <<"PAY", q>>) <=> Collected(q)'
      BY DEF PayPosted
    <3>1. t.reference = <<"PAY", q>> <=> q = p
      BY <2>5
    <3>2. Posted(ledger', <<"PAY", q>>) <=> q = p \/ Posted(ledger, <<"PAY", q>>)
      BY <2>9, <3>1
    <3>3. Posted(ledger, <<"PAY", q>>) <=> Collected(q)
      BY DEF LedgerInv, PayPosted
    <3> QED BY <2>7, <3>2, <3>3
  <2>11. RevPosted'
    <3> SUFFICES ASSUME NEW q \in Ref
                 PROVE  Posted(ledger', <<"REV", q>>) <=> Has(q, "REFUNDED")'
      BY DEF RevPosted
    <3>1. t.reference # <<"REV", q>>
      BY <2>5
    <3>2. Posted(ledger', <<"REV", q>>) <=> Posted(ledger, <<"REV", q>>)
      BY <2>9, <3>1
    <3>3. Posted(ledger, <<"REV", q>>) <=> Has(q, "REFUNDED")
      BY DEF LedgerInv, RevPosted
    <3> QED BY <2>3, <2>4, <3>2, <3>3 DEF Collected
  <2>12. RevIsExact'
    BY <2>4, <2>9 DEF RevIsExact
  <2>13. EligibleIsExact'
    BY <2>5, <2>9 DEF EligibleIsExact
  <2>14. PostedToBooking'
    BY <2>2, <2>4, <2>5, <2>9 DEF PostedToBooking
  <2> QED BY <2>9, <2>10, <2>11, <2>12, <2>13, <2>14 DEF LedgerInv
<1>5. ASSUME NEW r \in Req, CommitRefund(r) PROVE LedgerInv'
  <2> DEFINE p == req[r].ref
             b == payment[p].booking
             old == Posting(ledger, <<"PAY", p>>)
             t == [reference |-> <<"REV", p>>, booking |-> b,
                   entries |-> Reversed(old.entries)]
  <2>1. payment' = [payment EXCEPT ![p].status = "REFUNDED"] /\ Post(ledger, ledger', t)
    BY <1>5 DEF CommitRefund
  <2>2. p \in Ref /\ Has(p, "SUCCEEDED")
    BY <1>5, Typed DEF CommitRefund, RefundInv, RefundFits, Refund
  <2>3. Exists(p) /\ Collected(p) /\ Posted(ledger, <<"PAY", p>>)
    BY <2>2 DEF Has, Collected, LedgerInv, PayPosted
  <2>4. /\ t.reference = <<"REV", p>> /\ t.entries = Reversed(old.entries)
        /\ ledger' = ledger \cup {t}
    BY <2>1 DEF Post
  <2> HIDE DEF p, t
  <2>5. /\ \A q \in Ref : Exists(q) => payment'[q].booking = payment[q].booking
        /\ \A q \in Ref : \A x : Has(q, x)' <=> IF q = p THEN x = "REFUNDED" ELSE Has(q, x)
    BY <2>1, <2>2, <2>3, StatusSet DEF PaymentStatus
  <2>6. \A q \in Ref : /\ Collected(q)' <=> Collected(q)
                       /\ Collected(q) => payment'[q].booking = payment[q].booking
    BY <2>3, <2>5 DEF Collected, Has
  <2>7. /\ OnePosting'
        /\ \A x : Posted(ledger', x) <=> x = t.reference \/ Posted(ledger, x)
        /\ \A x : Posted(ledger, x) => Posting(ledger', x) = Posting(ledger, x)
        /\ Posting(ledger', t.reference) = t
        /\ \A q \in Ref : Has(q, "REFUNDED") =>
             Posting(ledger', <<"REV", q>>).entries =
               Reversed(Posting(ledger', <<"PAY", q>>).entries)
        /\ \A c \in Booking : Posted(ledger, <<"ELIGIBLE", c>>) =>
             \E q \in Ref : EligibleOf(c, q)'
        /\ \A u \in ledger, q \in Ref :
             u.reference = <<"PAY", q>> => u.booking = payment'[q].booking
    BY <2>1, <2>6, LedgerGrown
  <2>8. PayPosted'
    <3> SUFFICES ASSUME NEW q \in Ref
                 PROVE  Posted(ledger', <<"PAY", q>>) <=> Collected(q)'
      BY DEF PayPosted
    <3>1. t.reference # <<"PAY", q>>
      BY <2>4
    <3>2. Posted(ledger', <<"PAY", q>>) <=> Posted(ledger, <<"PAY", q>>)
      BY <2>7, <3>1
    <3>3. Posted(ledger, <<"PAY", q>>) <=> Collected(q)
      BY DEF LedgerInv, PayPosted
    <3> QED BY <2>6, <3>2, <3>3
  <2>9. RevPosted'
    <3> SUFFICES ASSUME NEW q \in Ref
                 PROVE  Posted(ledger', <<"REV", q>>) <=> Has(q, "REFUNDED")'
      BY DEF RevPosted
    <3>1. t.reference = <<"REV", q>> <=> q = p
      BY <2>4
    <3>2. Posted(ledger', <<"REV", q>>) <=> q = p \/ Posted(ledger, <<"REV", q>>)
      BY <2>7, <3>1
    <3>3. Posted(ledger, <<"REV", q>>) <=> Has(q, "REFUNDED")
      BY DEF LedgerInv, RevPosted
    <3> QED BY <2>5, <3>2, <3>3
  <2>10. RevIsExact'
    <3>1. Posting(ledger', <<"REV", p>>).entries = Reversed(Posting(ledger', <<"PAY", p>>).entries)
      BY <2>3, <2>4, <2>7
    <3> QED BY <2>5, <2>7, <3>1 DEF RevIsExact
  <2>11. EligibleIsExact'
    BY <2>4, <2>7 DEF EligibleIsExact
  <2>12. PostedToBooking'
    BY <2>4, <2>7 DEF PostedToBooking
  <2> QED BY <2>7, <2>8, <2>9, <2>10, <2>11, <2>12 DEF LedgerInv
<1>6. ASSUME NEW b \in Booking, CompleteTour(b), PendingCredits(b) # {} PROVE LedgerInv'
  <2> DEFINE e(u) == Moved("guide_payable_pending", "guide_payable_eligible",
                           u.entries["guide_payable_pending"])
  <2>1. PICK u \in PendingCredits(b) :
          Post(ledger, ledger', [reference |-> <<"ELIGIBLE", b>>, booking |-> b,
                                 entries |-> e(u)])
    BY <1>6 DEF CompleteTour
  <2> DEFINE t == [reference |-> <<"ELIGIBLE", b>>, booking |-> b, entries |-> e(u)]
  <2>2. payment' = payment
    BY <1>6 DEF CompleteTour
  <2>3. /\ t.reference = <<"ELIGIBLE", b>>
        /\ t.entries["guide_payable_eligible"] = u.entries["guide_payable_pending"]
        /\ ledger' = ledger \cup {t} /\ Post(ledger, ledger', t)
    BY <2>1 DEF Post, Moved, Account
  <2>4. PICK p \in Ref : u.reference = <<"PAY", p>>
    BY <2>1 DEF PendingCredits, TypeOK, LedgerRow
  <2>5. u \in ledger /\ u.booking = b
    BY <2>1 DEF PendingCredits
  <2> HIDE DEF t
  <2>6. /\ Posted(ledger, <<"PAY", p>>) /\ Posting(ledger, <<"PAY", p>>) = u
        /\ Collected(p) /\ payment[p].booking = b
    BY <2>4, <2>5, PostingFound DEF LedgerInv, OnePosting, PayPosted, PostedToBooking
  <2>7. \A q \in Ref : \A x : /\ Has(q, x)' <=> Has(q, x)
                              /\ Collected(q)' <=> Collected(q)
    BY <2>2 DEF Has, Exists, Collected
  <2>8. /\ OnePosting'
        /\ \A x : Posted(ledger', x) <=> x = t.reference \/ Posted(ledger, x)
        /\ \A x : Posted(ledger, x) => Posting(ledger', x) = Posting(ledger, x)
        /\ Posting(ledger', t.reference) = t
        /\ \A q \in Ref : Has(q, "REFUNDED") =>
             Posting(ledger', <<"REV", q>>).entries =
               Reversed(Posting(ledger', <<"PAY", q>>).entries)
        /\ \A c \in Booking : Posted(ledger, <<"ELIGIBLE", c>>) =>
             \E q \in Ref : EligibleOf(c, q)'
        /\ \A v \in ledger, q \in Ref :
             v.reference = <<"PAY", q>> => v.booking = payment'[q].booking
    BY <2>2, <2>3, <2>7, LedgerGrown
  <2>9. PayPosted'
    <3> SUFFICES ASSUME NEW q \in Ref
                 PROVE  Posted(ledger', <<"PAY", q>>) <=> Collected(q)'
      BY DEF PayPosted
    <3>1. t.reference # <<"PAY", q>>
      BY <2>3
    <3>2. Posted(ledger', <<"PAY", q>>) <=> Posted(ledger, <<"PAY", q>>)
      BY <2>8, <3>1
    <3>3. Posted(ledger, <<"PAY", q>>) <=> Collected(q)
      BY DEF LedgerInv, PayPosted
    <3> QED BY <2>7, <3>2, <3>3
  <2>10. RevPosted'
    <3> SUFFICES ASSUME NEW q \in Ref
                 PROVE  Posted(ledger', <<"REV", q>>) <=> Has(q, "REFUNDED")'
      BY DEF RevPosted
    <3>1. t.reference # <<"REV", q>>
      BY <2>3
    <3>2. Posted(ledger', <<"REV", q>>) <=> Posted(ledger, <<"REV", q>>)
      BY <2>8, <3>1
    <3>3. Posted(ledger, <<"REV", q>>) <=> Has(q, "REFUNDED")
      BY DEF LedgerInv, RevPosted
    <3> QED BY <2>7, <3>2, <3>3
  <2>11. RevIsExact'
    BY <2>7, <2>8 DEF RevIsExact
  <2>12. EligibleIsExact'
    <3>1. EligibleOf(b, p)'
      BY <2>2, <2>3, <2>6, <2>7, <2>8 DEF EligibleOf
    <3> QED BY <2>3, <2>8, <3>1 DEF EligibleIsExact
  <2>13. PostedToBooking'
    BY <2>3, <2>8 DEF PostedToBooking
  <2> QED BY <2>8, <2>9, <2>10, <2>11, <2>12, <2>13 DEF LedgerInv
<1>7. ASSUME NEW r \in Req, ReturnMoney(r) PROVE UNCHANGED <<payment, ledger>>
  BY <1>7 DEF ReturnMoney
<1>8. ASSUME NEW p \in Ref, Pay(p) PROVE UNCHANGED <<payment, ledger>>
  BY <1>8 DEF Pay
<1>9. ASSUME NEW b \in Booking, NEW to, MoveBooking(b, to) PROVE UNCHANGED <<payment, ledger>>
  BY <1>9 DEF MoveBooking
<1>10. ASSUME NEW b \in Booking, CompleteTour(b), PendingCredits(b) = {}
       PROVE  UNCHANGED <<payment, ledger>>
  BY <1>10 DEF CompleteTour
<1> QED
  BY <1>1, <1>2, <1>3, <1>4, <1>5, <1>6, <1>7, <1>8, <1>9, <1>10 DEF Next, Serve, QuietStep
-----------------------------------------------------------------------------
\* A request that is now no intent leaves the others' references theirs.
LEMMA IntentKept ==
  ASSUME TypeOK, IntentInv, NEW r \in Req,
         ~Intending(r)' \/ req' = req,
         \A q \in Req \ {r} : req'[q] = req[q],
         \A p \in Ref : Exists(p)' => Exists(p)
  PROVE  IntentInv'
<1>1. \A q \in Req : Intending(q)' => Intending(q) /\ req'[q] = req[q]
  BY DEF Intending
<1>2. \A q \in Req : Intending(q) => req[q].ref \in Ref
  BY Typed DEF Intent
<1> QED BY <1>1, <1>2 DEF IntentInv

LEMMA IntentStep == IInv /\ [Next]_vars => IntentInv'
<1> SUFFICES ASSUME IInv, [Next]_vars PROVE IntentInv'
  OBVIOUS
<1> USE DEF IInv
<1>1. ASSUME NEW r \in Req, NEW b \in Booking, NEW k \in Key, NEW p \in Ref,
             LoadIntent(r, b, k, p)
      PROVE  IntentInv'
  <2>1. /\ req'[r].ref = p /\ p \notin Used
        /\ \A q \in Req \ {r} : req'[q] = req[q]
    BY <1>1 DEF LoadIntent, TypeOK
  <2>2. \A q \in Ref : Exists(q)' <=> Exists(q)
    BY <1>1 DEF LoadIntent, Exists
  <2>3. \A q \in Req \ {r} : Intending(q)' <=> Intending(q)
    BY <2>1 DEF Intending
  <2>4. \A q \in Req : Intending(q) => req[q].ref # p /\ req[q].ref \in Ref
    BY <2>1, Typed DEF Used, Intent
  <2>5. ~Exists(p)
    BY <2>1 DEF Used
  <2> QED BY <2>1, <2>2, <2>3, <2>4, <2>5 DEF IntentInv
<1>2. ASSUME NEW r \in Req, ClaimIntent(r) PROVE IntentInv'
  <2>1. /\ req' = [req EXCEPT ![r] = [req[r] EXCEPT !.holds = TRUE]]
        /\ payment' = payment /\ Intending(r)
    BY <1>2 DEF ClaimIntent
  <2>2. req[r] \in Intent
    BY <2>1, Typed
  <2>3. \A q \in Req : Intending(q)' => Intending(q) /\ req'[q].ref = req[q].ref
    BY <2>1, <2>2 DEF Intending, TypeOK, Intent
  <2>4. \A p \in Ref : Exists(p)' <=> Exists(p)
    BY <2>1 DEF Exists
  <2>5. \A q \in Req : Intending(q) => req[q].ref \in Ref
    BY Typed DEF Intent
  <2> QED BY <2>3, <2>4, <2>5 DEF IntentInv
<1>3. ASSUME NEW r \in Req, InsertIntent(r) PROVE IntentInv'
  <2>1. /\ Intending(r) /\ req[r].ref \in Ref
        /\ ~Intending(r)'
        /\ \A q \in Req \ {r} : req'[q] = req[q]
        /\ \A q \in Ref \ {req[r].ref} : payment'[q] = payment[q]
    BY <1>3, Typed DEF InsertIntent, End, Intending, TypeOK, Intent
  <2>2. \A q \in Req : Intending(q)' => Intending(q) /\ req'[q] = req[q] /\ q # r
    BY <2>1 DEF Intending
  <2>3. \A q \in Req : Intending(q) => req[q].ref \in Ref
    BY Typed DEF Intent
  <2>4. \A q \in Req : Intending(q)' => req[q].ref # req[r].ref
    BY <2>1, <2>2 DEF IntentInv
  <2> QED BY <2>1, <2>2, <2>3, <2>4 DEF IntentInv, Exists
<1>4. ASSUME NEW r \in Req, RefuseIntent(r) \/ RefuseRefund(r) \/ FailRefund(r) \/ Abandon(r)
                               \/ Audit(r)
      PROVE  IntentInv'
  <2>1. payment' = payment /\ req' = [req EXCEPT ![r] = None]
    BY <1>4 DEF RefuseIntent, RefuseRefund, FailRefund, Abandon, Audit, End
  <2> QED BY <2>1, IntentKept DEF Intending, Exists, TypeOK
<1>5. ASSUME NEW r \in Req, NEW p \in Ref, NEW k \in Key, LoadRefund(r, p, k)
      PROVE  IntentInv'
  <2>1. /\ req'[r].kind = "refund" /\ payment' = payment
        /\ \A q \in Req \ {r} : req'[q] = req[q]
    BY <1>5 DEF LoadRefund, TypeOK
  <2> QED BY <2>1, IntentKept DEF Intending, Exists
<1>6. ASSUME NEW r \in Req, ReturnMoney(r) \/ BeginRefund(r) PROVE IntentInv'
  <2>1. /\ req[r] \in Refund /\ payment' = payment
        /\ \A q \in Req \ {r} : req'[q] = req[q]
    BY <1>6, Typed DEF ReturnMoney, BeginRefund, TypeOK
  <2>2. req'[r].kind = "refund"
    BY <1>6, <2>1 DEF ReturnMoney, BeginRefund, TypeOK, Refund
  <2> QED BY <2>1, <2>2, IntentKept DEF Intending, Exists
<1>7. ASSUME NEW r \in Req, CommitRefund(r) PROVE IntentInv'
  <2>1. /\ req[r] \in Refund
        /\ req' = [req EXCEPT ![r] = [req[r] EXCEPT !.at = "committed"]]
        /\ Has(req[r].ref, "SUCCEEDED")
        /\ payment' = [payment EXCEPT ![req[r].ref].status = "REFUNDED"]
    BY <1>7, Typed DEF CommitRefund, RefundInv, RefundFits
  <2>2. req'[r].kind = "refund" /\ \A q \in Req \ {r} : req'[q] = req[q]
    BY <2>1 DEF TypeOK, Refund
  <2>3. \A q \in Ref : Exists(q)' => Exists(q)
    <3>1. req[r].ref \in Ref /\ Exists(req[r].ref)
      BY <2>1 DEF Refund, Has
    <3> QED BY <2>1, <3>1, StatusSet DEF PaymentStatus
  <2> QED BY <2>2, <2>3, IntentKept DEF Intending
<1>8. ASSUME NEW p \in Ref, WebhookSuccess(p) \/ WebhookFailure(p) PROVE IntentInv'
  <2>1. req' = req /\ Exists(p)
    BY <1>8 DEF WebhookSuccess, WebhookFailure
  <2>2. \A q \in Ref : Exists(q)' => Exists(q)
    BY <1>8, <2>1 DEF WebhookSuccess, WebhookFailure, Exists, TypeOK
  <2>3. \A q \in Req : /\ Intending(q)' <=> Intending(q)
                       /\ Intending(q) => req[q].ref \in Ref
    BY <2>1, Typed DEF Intending, Intent
  <2> QED BY <2>1, <2>2, <2>3 DEF IntentInv
<1>9. CASE UNCHANGED <<payment, req>>
  BY <1>9 DEF IntentInv, Intending, Exists
<1>10. ASSUME NEW p \in Ref, Pay(p) \/ Decline(p) PROVE UNCHANGED <<payment, req>>
  BY <1>10 DEF Pay, Decline
<1>11. ASSUME NEW b \in Booking, CompleteTour(b) \/ \E to \in Statuses : MoveBooking(b, to)
       PROVE  UNCHANGED <<payment, req>>
  BY <1>11 DEF CompleteTour, MoveBooking
<1> QED
  BY <1>1, <1>2, <1>3, <1>4, <1>5, <1>6, <1>7, <1>8, <1>9, <1>10, <1>11
  DEF Next, Ask, Serve, vars
-----------------------------------------------------------------------------
\* What keeps a request's claims: it is as it was, payments stay collected, those
\* locked stay SUCCEEDED, and REFUNDED bookings REFUNDED.
LEMMA RefundKept ==
  ASSUME TypeOK, RefundInv, NEW q \in Req, req'[q] = req[q],
         \A p \in Ref : /\ Collected(p) => Collected(p)'
                        /\ returned[p] > 0 => returned'[p] > 0,
         Refunding(q, "driving") =>
           /\ Has(req[q].ref, "SUCCEEDED")'
           /\ status[payment[req[q].ref].booking] = "REFUNDED" =>
                status'[payment'[req[q].ref].booking] = "REFUNDED"
  PROVE  RefundFits(q)'
<1>1. \A at : /\ Refunding(q, at)' <=> Refunding(q, at)
              /\ Refunding(q, at) => req[q].ref \in Ref
  BY Typed DEF Refunding, Refund
<1>2. ASSUME NEW at \in {"loaded", "returned", "driving", "committed"}, Refunding(q, at)'
      PROVE  Collected(req[q].ref)'
  <2>1. Collected(req[q].ref) /\ req[q].ref \in Ref
    BY <1>1, <1>2 DEF RefundInv, RefundFits
  <2> QED BY <2>1 DEF Collected, Has, Exists
<1>3. ASSUME Refunding(q, "returned")' \/ Refunding(q, "driving")'
      PROVE  returned'[req'[q].ref] > 0
  BY <1>1, <1>3 DEF RefundInv, RefundFits
<1>4. ASSUME Refunding(q, "driving")'
      PROVE  /\ Has(req[q].ref, "SUCCEEDED")'
             /\ req'[q].seen = "REFUNDED" =>
                  status'[payment'[req'[q].ref].booking] = "REFUNDED"
  BY <1>1, <1>4 DEF RefundInv, RefundFits
<1> QED BY <1>2, <1>3, <1>4 DEF RefundFits

\* Refunds that drive now did before, on the same payment.
LEMMA DriversKept ==
  ASSUME OneDriver,
         \A q \in Req : Refunding(q, "driving")' =>
           Refunding(q, "driving") /\ req'[q].ref = req[q].ref
  PROVE  OneDriver'
  BY DEF OneDriver

\* Requests are as they were or no refund now, and the rows as refunds need them.
LEMMA RefundStays ==
  ASSUME TypeOK, RefundInv,
         \A q \in Req : req'[q] = req[q] \/ \A at : ~Refunding(q, at)',
         \A p \in Ref : /\ Collected(p) => Collected(p)'
                        /\ returned[p] > 0 => returned'[p] > 0
                        /\ Has(p, "SUCCEEDED") =>
                             /\ Has(p, "SUCCEEDED")'
                             /\ status[payment[p].booking] = "REFUNDED" =>
                                  status'[payment'[p].booking] = "REFUNDED"
  PROVE  RefundInv'
<1>1. ASSUME NEW q \in Req, req'[q] = req[q] PROVE RefundFits(q)'
  <2>1. Refunding(q, "driving") =>
          /\ Has(req[q].ref, "SUCCEEDED")'
          /\ status[payment[req[q].ref].booking] = "REFUNDED" =>
               status'[payment'[req[q].ref].booking] = "REFUNDED"
    <3> SUFFICES ASSUME Refunding(q, "driving")
                 PROVE  /\ Has(req[q].ref, "SUCCEEDED")'
                        /\ status[payment[req[q].ref].booking] = "REFUNDED" =>
                             status'[payment'[req[q].ref].booking] = "REFUNDED"
      OBVIOUS
    <3> DEFINE p == req[q].ref
    <3>1. p \in Ref /\ Has(p, "SUCCEEDED")
      BY Typed DEF Refund, RefundInv, RefundFits
    <3>2. p' = p
      BY <1>1
    <3> HIDE DEF p
    <3>3. payment'[p] # None /\ payment'[p].status = "SUCCEEDED"
      BY <3>1 DEF Has, Exists
    <3> QED BY <3>1, <3>2, <3>3 DEF Has, Exists, p
  <2> QED BY <1>1, <2>1, RefundKept
<1>2. ASSUME NEW q \in Req, \A at : ~Refunding(q, at)' PROVE RefundFits(q)'
  BY <1>2 DEF RefundFits
<1>3. \A q \in Req : Refunding(q, "driving")' => req'[q] = req[q]
  OBVIOUS
<1>4. OneDriver'
  BY <1>3, DriversKept DEF RefundInv, Refunding
<1> QED BY <1>1, <1>2, <1>4 DEF RefundInv

LEMMA RefundUnmoved ==
  ASSUME TypeOK, RefundInv, UNCHANGED <<status, payment, returned>>, NEW r \in Req,
         \A q \in Req \ {r} : req'[q] = req[q],
         req'[r] = None \/ req'[r].kind = "intent"
  PROVE  RefundInv'
<1>1. \A p \in Ref : /\ Collected(p) => Collected(p)'
                     /\ \A st : Has(p, st) => Has(p, st)'
  BY DEF Collected, Has, Exists
<1>2. \A at : ~Refunding(r, at)'
  BY DEF Refunding
<1> QED BY <1>1, <1>2, RefundStays

\* Of the others a refund that writes no payment or booking disturbs nothing.
LEMMA OthersKept ==
  ASSUME TypeOK, RefundInv, UNCHANGED <<status, payment>>,
         NEW q \in Req, req'[q] = req[q],
         \A p \in Ref : returned[p] > 0 => returned'[p] > 0
  PROVE  RefundFits(q)'
<1>1. \A p \in Ref : Collected(p) => Collected(p)'
  BY DEF Collected, Has, Exists
<1>2. Refunding(q, "driving") => Has(req[q].ref, "SUCCEEDED")'
  BY DEF RefundInv, RefundFits, Has, Exists
<1> QED BY <1>1, <1>2, RefundKept

LEMMA RefundStep == IInv /\ [Next]_vars => RefundInv'
<1> SUFFICES ASSUME IInv, [Next]_vars PROVE RefundInv'
  OBVIOUS
<1> USE DEF IInv
<1>1. ASSUME NEW r \in Req, NEW b \in Booking, NEW k \in Key, NEW p \in Ref,
             LoadIntent(r, b, k, p)
      PROVE  RefundInv'
  BY <1>1, RefundUnmoved DEF LoadIntent, TypeOK, provider
<1>2. ASSUME NEW r \in Req, ClaimIntent(r) PROVE RefundInv'
  <2>1. /\ req' = [req EXCEPT ![r] = [req[r] EXCEPT !.holds = TRUE]]
        /\ UNCHANGED <<status, payment, returned>> /\ req[r] \in Intent
    BY <1>2, Typed DEF ClaimIntent, provider
  <2>2. req'[r].kind = "intent" /\ \A q \in Req \ {r} : req'[q] = req[q]
    BY <2>1 DEF TypeOK, Intent
  <2> QED BY <2>1, <2>2, RefundUnmoved
<1>3. ASSUME NEW r \in Req, RefuseIntent(r) \/ RefuseRefund(r) \/ FailRefund(r) \/ Abandon(r)
                               \/ Audit(r)
      PROVE  RefundInv'
  BY <1>3, RefundUnmoved
  DEF RefuseIntent, RefuseRefund, FailRefund, Abandon, Audit, End, TypeOK, provider
<1>4. ASSUME NEW r \in Req, InsertIntent(r) PROVE RefundInv'
  <2> DEFINE p == req[r].ref
  <2>1. p \in Ref /\ ~Exists(p) /\ req[r].booking \in Booking
    BY <1>4, Typed DEF InsertIntent, Intent, IntentInv
  <2>2. /\ payment' = [payment EXCEPT ![p] = [booking |-> req[r].booking, status |-> "PENDING"]]
        /\ UNCHANGED <<status, returned>>
        /\ req' = [req EXCEPT ![r] = None] /\ Intending(r)
    BY <1>4 DEF InsertIntent, End, provider
  <2> HIDE DEF p
  <2>3. /\ \A q \in Ref : Exists(q) => payment'[q].booking = payment[q].booking
        /\ \A q \in Ref : \A x : Has(q, x)' <=> IF q = p THEN x = "PENDING" ELSE Has(q, x)
    BY <2>1, <2>2, RowInserted
  <2>4. \A at : ~Refunding(r, at)'
    BY <2>2 DEF Refunding, TypeOK
  <2>5. \A q \in Req : req'[q] = req[q] \/ \A at : ~Refunding(q, at)'
    BY <2>2, <2>4 DEF TypeOK
  <2>6. \A q \in Ref : Has(q, "SUCCEEDED") \/ Collected(q) => q # p /\ Exists(q)
    BY <2>1 DEF Has, Collected
  <2>7. \A q \in Ref : Collected(q) => Collected(q)'
    BY <2>3, <2>6 DEF Collected
  <2> QED BY <2>2, <2>3, <2>5, <2>6, <2>7, RefundStays
<1>5. ASSUME NEW p \in Ref, WebhookSuccess(p) PROVE RefundInv'
  <2> DEFINE b == payment[p].booking
  <2>1. /\ payment' = [payment EXCEPT ![p].status = "SUCCEEDED"]
        /\ status' = [status EXCEPT ![b] = "CONFIRMED"]
        /\ UNCHANGED <<returned, req>> /\ Exists(p)
    BY <1>5 DEF WebhookSuccess, provider
  <2>2. status[b] # "REFUNDED"
    <3>1. b \in Booking
      BY <2>1, Typed DEF Row
    <3> QED BY <1>5, <3>1, Edges DEF WebhookSuccess, TypeOK
  <2>3. /\ \A q \in Ref : Exists(q) => payment'[q].booking = payment[q].booking
        /\ \A q \in Ref : \A x : Has(q, x)' <=> IF q = p THEN x = "SUCCEEDED" ELSE Has(q, x)
    BY <2>1, StatusSet DEF PaymentStatus
  <2>4. \A c \in Booking : status[c] = "REFUNDED" => status'[c] = "REFUNDED"
    BY <2>1, <2>2 DEF TypeOK
  <2>5. \A q \in Ref : /\ Collected(q) => Collected(q)'
                       /\ Has(q, "SUCCEEDED") => Has(q, "SUCCEEDED")'
    BY <2>3 DEF Collected
  <2>6. \A q \in Ref : Has(q, "SUCCEEDED") => Exists(q) /\ payment[q].booking \in Booking
    BY Typed DEF Has, Row
  <2> QED BY <2>1, <2>3, <2>4, <2>5, <2>6, RefundStays
<1>6. ASSUME NEW p \in Ref, WebhookFailure(p) PROVE RefundInv'
  <2> DEFINE b == payment[p].booking
  <2>1. /\ payment' = [payment EXCEPT ![p].status = "FAILED"]
        /\ status' = [status EXCEPT ![b] = "PAYMENT_FAILED"]
        /\ UNCHANGED <<returned, req>> /\ Exists(p)
    BY <1>6 DEF WebhookFailure, provider
  <2>2. status[b] # "REFUNDED" /\ ~Collected(p)
    <3>1. b \in Booking
      BY <2>1, Typed DEF Row
    <3>2. status[b] # "REFUNDED"
      BY <1>6, <3>1, Edges DEF WebhookFailure, TypeOK
    <3> QED BY <1>6, <3>2
            DEF WebhookFailure, CanPay, paymentTransitions, PaymentStatus, Collected, Has
  <2>3. /\ \A q \in Ref : Exists(q) => payment'[q].booking = payment[q].booking
        /\ \A q \in Ref : \A x : Has(q, x)' <=> IF q = p THEN x = "FAILED" ELSE Has(q, x)
    BY <2>1, StatusSet DEF PaymentStatus
  <2>4. \A c \in Booking : status[c] = "REFUNDED" => status'[c] = "REFUNDED"
    BY <2>1, <2>2 DEF TypeOK
  <2>5. \A q \in Ref : /\ Collected(q) => Collected(q)'
                       /\ Has(q, "SUCCEEDED") => Has(q, "SUCCEEDED")'
    BY <2>2, <2>3 DEF Collected
  <2>6. \A q \in Ref : Has(q, "SUCCEEDED") => Exists(q) /\ payment[q].booking \in Booking
    BY Typed DEF Has, Row
  <2> QED BY <2>1, <2>3, <2>4, <2>5, <2>6, RefundStays
<1>7. ASSUME NEW b \in Booking,
             CompleteTour(b) \/ \E to \in Statuses : MoveBooking(b, to)
      PROVE  RefundInv'
  <2>1. PICK to \in Statuses : CanTransition(status[b], to) /\ status' = [status EXCEPT ![b] = to]
    BY <1>7 DEF CompleteTour, MoveBooking, Statuses, ClosedStatuses
  <2>2. UNCHANGED <<payment, returned, req>>
    BY <1>7 DEF CompleteTour, MoveBooking, provider
  <2>3. \A c \in Booking : status[c] = "REFUNDED" => status'[c] = "REFUNDED"
    BY <2>1, Edges DEF TypeOK
  <2>4. \A q \in Ref : /\ Collected(q) => Collected(q)'
                       /\ Has(q, "SUCCEEDED") => Has(q, "SUCCEEDED")'
    BY <2>2 DEF Collected, Has, Exists
  <2>5. \A q \in Ref : Has(q, "SUCCEEDED") => payment[q].booking \in Booking
    BY Typed DEF Has, Row
  <2> QED BY <2>2, <2>3, <2>4, <2>5, RefundStays
<1>8. CASE UNCHANGED <<status, payment, returned, req>>
  <2>1. \A q \in Ref : /\ Collected(q) => Collected(q)'
                       /\ Has(q, "SUCCEEDED") => Has(q, "SUCCEEDED")'
    BY <1>8 DEF Collected, Has, Exists
  <2> QED BY <1>8, <2>1, RefundStays
<1>9. ASSUME NEW p \in Ref, Pay(p) \/ Decline(p)
      PROVE  UNCHANGED <<status, payment, returned, req>>
  BY <1>9 DEF Pay, Decline
<1>10. ASSUME NEW r \in Req, NEW p \in Ref, NEW k \in Key, LoadRefund(r, p, k)
       PROVE  RefundInv'
  <2>1. /\ req'[r].ref = p /\ req'[r].at = "loaded" /\ req'[r].kind = "refund"
        /\ \A q \in Req \ {r} : req'[q] = req[q]
        /\ UNCHANGED <<status, payment, returned>>
    BY <1>10 DEF LoadRefund, TypeOK, provider
  <2>2. Collected(p)
    BY <1>10 DEF LoadRefund, Collected, PaymentInv, VisibleInv, Has
  <2>3. RefundFits(r)'
    BY <2>1, <2>2 DEF RefundFits, Refunding, Collected, Has, Exists
  <2>4. \A q \in Req \ {r} : RefundFits(q)'
    BY <2>1, OthersKept
  <2>5. OneDriver'
    BY <2>1, DriversKept DEF RefundInv, Refunding
  <2> QED BY <2>3, <2>4, <2>5 DEF RefundInv
<1>11. ASSUME NEW r \in Req, ReturnMoney(r) PROVE RefundInv'
  <2> DEFINE p == req[r].ref
  <2>1. /\ req' = [req EXCEPT ![r] = [req[r] EXCEPT !.at = "returned"]]
        /\ returned' = [returned EXCEPT ![p] = returned[p] + 1]
        /\ UNCHANGED <<status, payment>>
        /\ req[r] \in Refund /\ Refunding(r, "loaded")
    BY <1>11, Typed DEF ReturnMoney
  <2>2. /\ req'[r].ref = p /\ req'[r].at = "returned" /\ req'[r].kind = "refund"
        /\ \A q \in Req \ {r} : req'[q] = req[q]
        /\ p \in Ref
    BY <2>1 DEF TypeOK, Refund
  <2>3. returned'[p] > 0 /\ \A q \in Ref : returned[q] > 0 => returned'[q] > 0
    BY <2>1, <2>2 DEF TypeOK
  <2>4. Collected(p)
    BY <2>1 DEF RefundInv, RefundFits
  <2>5. RefundFits(r)'
    BY <2>1, <2>2, <2>3, <2>4 DEF RefundFits, Refunding, Collected, Has, Exists
  <2>6. \A q \in Req \ {r} : RefundFits(q)'
    BY <2>1, <2>2, <2>3, OthersKept
  <2>7. OneDriver'
    BY <2>2, DriversKept DEF RefundInv, Refunding
  <2> QED BY <2>5, <2>6, <2>7 DEF RefundInv
<1>12. ASSUME NEW r \in Req, BeginRefund(r) PROVE RefundInv'
  <2> DEFINE p == req[r].ref
             s == status[payment[p].booking]
  <2>1. /\ req[r] \in Refund /\ Refunding(r, "returned")
        /\ ~PaymentLocked(p) /\ CanPay(payment[p].status, "REFUND_PENDING")
        /\ UNCHANGED <<status, payment, returned>>
    BY <1>12, Typed DEF BeginRefund, provider
  <2>2. req' = [req EXCEPT ![r] = [[req[r] EXCEPT !.at = "driving"] EXCEPT !.seen = s]]
    BY <1>12, <2>1 DEF BeginRefund, TypeOK
  <2>3. /\ req'[r].ref = p /\ req'[r].at = "driving" /\ req'[r].kind = "refund"
        /\ req'[r].seen = s
        /\ \A q \in Req \ {r} : req'[q] = req[q]
        /\ p \in Ref
    BY <2>1, <2>2 DEF TypeOK, Refund
  <2>4. Collected(p) /\ returned[p] > 0
    BY <2>1 DEF RefundInv, RefundFits
  <2>5. Has(p, "SUCCEEDED")
    BY <2>1, <2>4 DEF Collected, Has, CanPay, paymentTransitions, PaymentStatus
  <2>6. RefundFits(r)'
    BY <2>1, <2>3, <2>4, <2>5 DEF RefundFits, Refunding, Collected, Has, Exists
  <2>7. \A q \in Req \ {r} : RefundFits(q)'
    BY <2>1, <2>3, OthersKept
  <2>8. \A q \in Req \ {r} : /\ Refunding(q, "driving")' <=> Refunding(q, "driving")
                             /\ Refunding(q, "driving") => req[q].ref # p
    BY <2>1, <2>3 DEF PaymentLocked, Refunding
  <2>9. OneDriver'
    BY <2>3, <2>8 DEF RefundInv, OneDriver
  <2> QED BY <2>6, <2>7, <2>9 DEF RefundInv
<1>13. ASSUME NEW r \in Req, CommitRefund(r) PROVE RefundInv'
  <2> DEFINE p == req[r].ref
             b == payment[p].booking
  <2>1. /\ req' = [req EXCEPT ![r] = [req[r] EXCEPT !.at = "committed"]]
        /\ payment' = [payment EXCEPT ![p].status = "REFUNDED"]
        /\ status' = [status EXCEPT ![b] = "REFUNDED"]
        /\ returned' = returned
        /\ req[r] \in Refund /\ Refunding(r, "driving")
    BY <1>13, Typed DEF CommitRefund, provider
  <2>2. /\ req'[r].ref = p /\ req'[r].at = "committed" /\ req'[r].kind = "refund"
        /\ \A q \in Req \ {r} : req'[q] = req[q]
        /\ p \in Ref
    BY <2>1 DEF TypeOK, Refund
  <2>3. Has(p, "SUCCEEDED") /\ Exists(p) /\ Collected(p)
    BY <2>1 DEF RefundInv, RefundFits, Has, Collected
  <2>4. /\ \A q \in Ref : Exists(q) => payment'[q].booking = payment[q].booking
        /\ \A q \in Ref : \A x : Has(q, x)' <=> IF q = p THEN x = "REFUNDED" ELSE Has(q, x)
    <3> HIDE DEF p
    <3> QED BY <2>1, <2>2, <2>3, StatusSet DEF PaymentStatus
  <2>5. \A q \in Ref : Collected(q) => Collected(q)'
    BY <2>3, <2>4 DEF Collected
  <2>6. RefundFits(r)'
    <3>1. Collected(p)'
      BY <2>2, <2>3, <2>5
    <3> QED BY <2>2, <3>1 DEF RefundFits, Refunding, Collected, Has, Exists
  <2>7. ASSUME NEW q \in Req \ {r} PROVE RefundFits(q)'
    <3>1. CASE ~Refunding(q, "driving")
      BY <2>1, <2>2, <2>5, <3>1, RefundKept
    <3>2. CASE Refunding(q, "driving")
      <4> DEFINE o == req[q].ref
      <4>1. o \in Ref /\ Has(o, "SUCCEEDED") /\ o # p
        BY <2>1, <3>2, Typed DEF Refund, RefundInv, RefundFits, OneDriver
      <4>2. payment[o].booking \in Booking /\ payment'[o] = payment[o]
        BY <2>1, <4>1, Typed DEF Has, Row, TypeOK
      <4>3. o' = o
        BY <2>2
      <4>4. Has(o, "SUCCEEDED")'
        BY <4>1, <4>2, <4>3 DEF Has, Exists
      <4>5. status[payment[o].booking] = "REFUNDED" => status'[payment'[o].booking] = "REFUNDED"
        BY <2>1, <4>2 DEF TypeOK
      <4> QED BY <2>1, <2>2, <2>5, <4>4, <4>5, RefundKept
    <3> QED BY <3>1, <3>2
  <2>8. OneDriver'
    BY <2>2, DriversKept DEF RefundInv, Refunding
  <2> QED BY <2>6, <2>7, <2>8 DEF RefundInv
<1> QED
  BY <1>1, <1>2, <1>3, <1>4, <1>5, <1>6, <1>7, <1>8, <1>9, <1>10, <1>11, <1>12, <1>13
  DEF Next, Ask, Serve, vars
-----------------------------------------------------------------------------
LEMMA Invariance == Spec => []IInv
<1>1. IInv /\ [Next]_vars => IInv'
  BY TypeStep, PaymentStep, LedgerStep, IntentStep, RefundStep DEF IInv
<1> QED BY InitInv, <1>1, PTL DEF Spec

\* Every variable keeps its type, in every execution of the payments code.
THEOREM TypeCorrect == Spec => []TypeOK
BY Invariance, PTL DEF IInv

\* However webhooks, refunds, overrides and tours interleave, a payment held as
\* collected has a booking past payment, a refunded one a REFUNDED booking.
THEOREM PaymentsFitBookings == Spec => []PaymentFitsBooking
<1>1. IInv => PaymentFitsBooking
  BY DEF IInv, PaymentInv
<1> QED BY Invariance, <1>1, PTL

\* An event is recorded exactly when its payment is final, however often it is
\* delivered: HandleWebhook never records an event without its effects.
THEOREM SeenAreFinal == Spec => []SeenIsFinal
<1>1. IInv => SeenIsFinal
  BY DEF IInv, PaymentInv
<1> QED BY Invariance, <1>1, PTL

\* The ledger has exactly the allocations and reversals the payments call for.
THEOREM LedgerIsExact == Spec => []LedgerFollowsPayments
<1>1. IInv => LedgerFollowsPayments
  BY DEF IInv, LedgerInv, LedgerFollowsPayments, PayPosted, RevPosted, RevIsExact,
         EligibleIsExact, EligibleOf
<1> QED BY Invariance, <1>1, PTL

\* A payment is REFUNDED only after the provider gave its money back.
THEOREM RefundsAreReturned == Spec => []RefundIsReturned
<1>1. IInv => RefundIsReturned
  BY DEF IInv, PaymentInv
<1> QED BY Invariance, <1>1, PTL

\* No interleaving of a refund, which decides by a status it read earlier, with
\* the start of the tour takes a tour under way from its guide.
THEOREM ToursAreNotRefunded == Spec => TourIsNotRefunded
<1> DEFINE Kept == \A b \in Booking :
             status[b] = "IN_PROGRESS" => status'[b] \in {"IN_PROGRESS", "COMPLETED"}
<1>1. IInv /\ [Next]_vars => Kept
  <2> SUFFICES ASSUME IInv, [Next]_vars, NEW b \in Booking, status[b] = "IN_PROGRESS"
               PROVE  status'[b] \in {"IN_PROGRESS", "COMPLETED"}
    OBVIOUS
  <2> USE DEF IInv
  <2>1. ASSUME NEW p \in Ref, WebhookSuccess(p) \/ WebhookFailure(p)
        PROVE  status'[b] = status[b]
    <3>1. payment[p].booking \in Booking
      BY <2>1, Typed DEF WebhookSuccess, WebhookFailure, Row
    <3>2. status[payment[p].booking] = "PAYMENT_PENDING"
      BY <2>1, <3>1, Edges DEF WebhookSuccess, WebhookFailure, TypeOK
    <3> QED BY <2>1, <3>2 DEF WebhookSuccess, WebhookFailure, TypeOK
  <2>2. ASSUME NEW r \in Req, CommitRefund(r) PROVE status'[b] = status[b]
    <3> DEFINE c == payment[req[r].ref].booking
    <3>1. Refunding(r, "driving") /\ Drivable(req[r].seen, status[c])
            /\ status' = [status EXCEPT ![c] = "REFUNDED"]
      BY <2>2 DEF CommitRefund
    <3>2. req[r] \in Refund /\ Has(req[r].ref, "SUCCEEDED")
            /\ (req[r].seen = "REFUNDED" => status[c] = "REFUNDED")
      BY <3>1, Typed DEF RefundInv, RefundFits
    <3>3. c \in Booking /\ status[c] \in Statuses
      BY <3>2, Typed DEF Refund, Has, Row, TypeOK
    <3>4. CASE req[r].seen = "REFUNDED"
      BY <3>1, <3>2, <3>4 DEF TypeOK
    <3>5. CASE req[r].seen # "REFUNDED"
      <4>1. CanTransition(status[c], FirstEdge(req[r].seen))
        BY <3>1, <3>5 DEF Drivable
      <4>2. FirstEdge(req[r].seen) # "COMPLETED"
        BY <3>1, <3>5 DEF Drivable, FirstEdge, ClosedStatuses, CancelledStatuses, ActiveStatuses
      <4>3. status[c] # "IN_PROGRESS"
        BY <3>3, <4>1, <4>2, Edges
      <4> QED BY <3>1, <4>3 DEF TypeOK
    <3> QED BY <3>4, <3>5
  <2>3. ASSUME NEW c \in Booking,
               CompleteTour(c) \/ \E to \in Statuses : MoveBooking(c, to)
        PROVE  status'[b] \in {status[b], "COMPLETED"}
    <3>1. PICK to \in Statuses :
            CanTransition(status[c], to) /\ status' = [status EXCEPT ![c] = to]
      BY <2>3 DEF CompleteTour, MoveBooking, Statuses, ClosedStatuses
    <3> QED BY <3>1, Edges DEF TypeOK
  <2>4. ASSUME NEW r \in Req, InsertIntent(r) \/ ReturnMoney(r) PROVE status'[b] = status[b]
    BY <2>4 DEF InsertIntent, ReturnMoney
  <2>5. ASSUME NEW p \in Ref, Pay(p) PROVE status'[b] = status[b]
    BY <2>5 DEF Pay
  <2>6. CASE QuietStep
    BY <2>6, Quiet
  <2> QED BY <2>1, <2>2, <2>3, <2>4, <2>5, <2>6 DEF Next, Serve, QuietStep
<1>2. Spec => [][Kept]_vars
  BY Invariance, <1>1, PTL DEF Spec
<1> QED BY <1>2 DEF TourIsNotRefunded
-----------------------------------------------------------------------------
\* The books, and the payments the provider took and gave back, as BookingMoney
\* sees them.
M == [b \in Booking |-> MoneyOf(b)]
Taken == Singly(paid)
Given == Singly({p \in Ref : returned[p] > 0})

\* A booking's money follows from what is collected and refunded of it.
LEMMA MoneyOfOne ==
  ASSUME NEW b, NEW p \in Ref, PaymentOf(b) = {p}, NEW back \in BOOLEAN,
         Has(p, "REFUNDED") <=> back
  PROVE  MoneyOf(b) = [payment |-> {p}, back |-> back]
<1> DEFINE given == \E q \in PaymentOf(b) : Has(q, "REFUNDED")
<1>1. given <=> back
  OBVIOUS
<1>2. given = back
  <2> HIDE DEF given
  <2>1. given \in BOOLEAN
    BY DEF given
  <2> QED BY <1>1, <2>1
<1> HIDE DEF given
<1>3. MoneyOf(b) = [payment |-> PaymentOf(b), back |-> given]
  BY DEF MoneyOf, given
<1> QED BY <1>2, <1>3

LEMMA MoneyKept ==
  ASSUME NEW b, PaymentOf(b)' = PaymentOf(b),
         \A p \in PaymentOf(b) : Has(p, "REFUNDED")' <=> Has(p, "REFUNDED")
  PROVE  MoneyOf(b)' = MoneyOf(b)
<1>1. (\E p \in PaymentOf(b) : Has(p, "REFUNDED"))' =
        (\E p \in PaymentOf(b) : Has(p, "REFUNDED"))
  OBVIOUS
<1> QED BY <1>1 DEF MoneyOf

\* A collected payment is the one in its booking's books.
LEMMA CollectedInBooks ==
  ASSUME IInv, NEW p \in Ref, Collected(p)
  PROVE  \E b \in Booking : M[b] # None /\ M[b].payment = {p}
<1> PICK b \in Booking : b = payment[p].booking
  BY Typed DEF IInv, Collected, Has, Row
<1>1. PaymentOf(b) = {p}
  BY DEF PaymentOf, IInv, PaymentInv, OneCollected
<1>2. PICK back \in BOOLEAN : Has(p, "REFUNDED") <=> back
  OBVIOUS
<1>3. M[b] = [payment |-> {p}, back |-> back]
  BY <1>1, <1>2, MoneyOfOne DEF M
<1>4. M[b] \in [payment : {{q} : q \in Ref}, back : BOOLEAN]
  BY <1>3
<1>5. None \notin [payment : {{q} : q \in Ref}, back : BOOLEAN]
  BY NoneIsFresh
<1>6. M[b] # None
  BY Zenon, <1>4, <1>5
<1> QED BY <1>3, <1>6

LEMMA MoneyStep == IInv /\ [Next]_vars => [Money!Next]_<<M, Taken, Given>>
<1> SUFFICES ASSUME IInv, [Next]_vars
             PROVE  Money!Next \/ UNCHANGED <<M, Taken, Given>>
  OBVIOUS
<1> USE DEF IInv
<1>0. paid' = paid /\ returned' = returned => UNCHANGED <<Taken, Given>>
  BY DEF Taken, Given, Singly
<1>1. ASSUME \A q \in Ref : /\ Collected(q)' <=> Collected(q)
                            /\ Has(q, "REFUNDED")' <=> Has(q, "REFUNDED")
                            /\ Collected(q) => payment'[q].booking = payment[q].booking
      PROVE  M' = M
  <2>1. ASSUME NEW b \in Booking PROVE MoneyOf(b)' = MoneyOf(b)
    <3>1. PaymentOf(b)' = PaymentOf(b)
      BY <1>1 DEF PaymentOf
    <3> QED BY <1>1, <3>1, MoneyKept DEF PaymentOf
  <2> QED BY <2>1 DEF M
<1>2. ASSUME NEW p \in Ref, WebhookSuccess(p) PROVE Money!Next
  <2>. PICK b \in Booking : b = payment[p].booking
    BY <1>2, Typed DEF WebhookSuccess, Row
  <2>1. payment' = [payment EXCEPT ![p].status = "SUCCEEDED"] /\ Exists(p)
    BY <1>2 DEF WebhookSuccess
  <2>2. status[b] = "PAYMENT_PENDING"
    BY <1>2, <2>1, Edges DEF WebhookSuccess, TypeOK
  <2>3. /\ \A q \in Ref : Exists(q) => payment'[q].booking = payment[q].booking
        /\ \A q \in Ref : \A x : Has(q, x)' <=> IF q = p THEN x = "SUCCEEDED" ELSE Has(q, x)
    BY <2>1, StatusSet DEF PaymentStatus
  <2>4. \A q \in Ref : Collected(q) => Exists(q) /\ payment[q].booking # b
    BY <2>1, <2>2, AwaitingHasNothing DEF Collected, Has
  <2>5. \A q \in Ref : Collected(q)' <=> q = p \/ Collected(q)
    BY <2>3 DEF Collected
  <2>6. ~Collected(p)
    BY <2>4
  <2>7. PaymentOf(b) = {} /\ PaymentOf(b)' = {p} /\ payment'[p].booking = b
    BY <2>1, <2>3, <2>4, <2>5 DEF PaymentOf
  <2>8. MoneyOf(b) = None
    BY <2>7 DEF MoneyOf
  <2>9. MoneyOf(b)' = [payment |-> {p}, back |-> FALSE]
    <3>1. ~Has(p, "REFUNDED")'
      BY <2>3
    <3> QED BY <2>7, <3>1 DEF MoneyOf
  <2>10. ASSUME NEW c \in Booking \ {b} PROVE MoneyOf(c)' = MoneyOf(c)
    <3>1. PaymentOf(c)' = PaymentOf(c)
      BY <2>3, <2>4, <2>5, <2>7 DEF PaymentOf
    <3>2. \A q \in PaymentOf(c) : Has(q, "REFUNDED")' <=> Has(q, "REFUNDED")
      BY <2>3, <2>6 DEF PaymentOf
    <3> QED BY <3>1, <3>2, MoneyKept
  <2>11. \A c \in Booking : ~(M[c] # None /\ M[c].payment = {p})
    <3>1. \A c \in Booking : MoneyOf(c) # None => MoneyOf(c).payment = PaymentOf(c)
      BY DEF MoneyOf
    <3>2. \A c \in Booking : p \notin PaymentOf(c)
      BY <2>6 DEF PaymentOf
    <3> QED BY <3>1, <3>2 DEF M
  <2>12. M' = [M EXCEPT ![b] = [payment |-> {p}, back |-> FALSE]]
    BY <2>9, <2>10 DEF M
  <2>13. M[b] = None /\ b \in Booking
    BY <2>8 DEF M
  <2>14. {p} \in Taken /\ UNCHANGED <<Taken, Given>>
    BY <1>0, <1>2 DEF WebhookSuccess, provider, Taken, Singly
  <2>15. Money!Capture(b, {p})
    BY <2>11, <2>12, <2>13, <2>14 DEF Money!Capture, Money!InBooks, M, Taken, Given
  <2>16. {p} \in Singly(Ref)
    BY DEF Singly
  <2> QED BY <2>13, <2>15, <2>16 DEF Money!Next
<1>3. ASSUME NEW r \in Req, CommitRefund(r) PROVE Money!Next
  <2>. PICK p \in Ref : p = req[r].ref
    BY <1>3, Typed DEF CommitRefund, Refund
  <2>1. payment' = [payment EXCEPT ![p].status = "REFUNDED"]
    BY <1>3 DEF CommitRefund
  <2>2. Has(p, "SUCCEEDED")
    BY <1>3 DEF CommitRefund, RefundInv, RefundFits
  <2>. PICK b \in Booking : b = payment[p].booking
    BY <2>2, Typed DEF Has, Row
  <2>3. Exists(p) /\ Collected(p)
    BY <2>2 DEF Has, Collected
  <2>4. /\ \A q \in Ref : Exists(q) => payment'[q].booking = payment[q].booking
        /\ \A q \in Ref : \A x : Has(q, x)' <=> IF q = p THEN x = "REFUNDED" ELSE Has(q, x)
    BY <2>1, <2>2, <2>3, StatusSet DEF PaymentStatus
  <2>5. \A q \in Ref : /\ Collected(q)' <=> Collected(q)
                       /\ Collected(q) => payment'[q].booking = payment[q].booking
    BY <2>3, <2>4 DEF Collected, Has
  <2>6. \A c : PaymentOf(c)' = PaymentOf(c)
    BY <2>5 DEF PaymentOf
  <2>7. PaymentOf(b) = {p}
    BY <2>2, <2>3 DEF PaymentOf, PaymentInv, OneCollected
  <2>8. MoneyOf(b) = [payment |-> {p}, back |-> FALSE]
    <3>1. ~Has(p, "REFUNDED")
      BY <2>2 DEF Has
    <3> QED BY <2>2, <2>7, <3>1, MoneyOfOne
  <2>9. MoneyOf(b)' = [payment |-> {p}, back |-> TRUE]
    <3>1. payment'[p] # None /\ payment'[p].status = "REFUNDED"
      BY <2>2, <2>4 DEF Has, Exists
    <3>2. PaymentOf(b)' = {p}
      BY <2>6, <2>7
    <3> QED BY <3>1, <3>2 DEF MoneyOf, Has, Exists
  <2>10. ASSUME NEW c \in Booking \ {b} PROVE MoneyOf(c)' = MoneyOf(c)
    <3>1. \A q \in PaymentOf(c) : Has(q, "REFUNDED")' <=> Has(q, "REFUNDED")
      BY <2>4 DEF PaymentOf
    <3> QED BY <2>6, <3>1, MoneyKept
  <2>11. M[b] = [payment |-> {p}, back |-> FALSE]
    BY <2>3, <2>8 DEF M
  <2>12. M' = [M EXCEPT ![b] = [payment |-> {p}, back |-> TRUE]]
    BY <2>3, <2>9, <2>10 DEF M
  <2>13. M' = [M EXCEPT ![b].back = TRUE]
    <3> DEFINE n == [M[b] EXCEPT !.back = TRUE]
    <3>0. M[b] \in [payment : {{q} : q \in Ref}, back : BOOLEAN]
      BY <2>11
    <3>1. n \in [payment : {{q} : q \in Ref}, back : BOOLEAN]
      BY <3>0
    <3>2. n.payment = {p} /\ n.back = TRUE
      BY <2>11, <3>0
    <3>3. M' = [M EXCEPT ![b] = n]
      <4> HIDE DEF n
      <4>1. n = [payment |-> {p}, back |-> TRUE]
        BY <3>1, <3>2
      <4> QED BY <2>12, <4>1
    <3> QED BY <3>3
  <2>14. M[b] # None
    <3>1. M[b] \in [payment : {{q} : q \in Ref}, back : BOOLEAN]
      BY <2>11
    <3>2. None \notin [payment : {{q} : q \in Ref}, back : BOOLEAN]
      BY NoneIsFresh
    <3> QED BY Zenon, <3>1, <3>2
  <2>15. returned[p] > 0 /\ UNCHANGED <<Taken, Given>>
    BY <1>0, <1>3 DEF CommitRefund, provider, RefundInv, RefundFits
  <2>16. M[b].payment \in Given /\ ~M[b].back
    BY <2>11, <2>15 DEF Given, Singly
  <2>17. Money!RecordBack(b)
    BY <2>13, <2>14, <2>15, <2>16 DEF Money!RecordBack, M, Taken, Given
  <2> QED BY <2>3, <2>17 DEF Money!Next
<1>4. ASSUME NEW r \in Req, InsertIntent(r) PROVE UNCHANGED <<M, Taken, Given>>
  <2>. PICK p \in Ref : p = req[r].ref
    BY <1>4, Typed DEF InsertIntent, Intent
  <2>1. ~Exists(p) /\ req[r].booking \in Booking
    BY <1>4, Typed DEF InsertIntent, Intent, IntentInv
  <2>2. payment' = [payment EXCEPT ![p] = [booking |-> req[r].booking, status |-> "PENDING"]]
    BY <1>4 DEF InsertIntent
  <2>3. /\ \A q \in Ref : Exists(q) => payment'[q].booking = payment[q].booking
        /\ \A q \in Ref : \A x : Has(q, x)' <=> IF q = p THEN x = "PENDING" ELSE Has(q, x)
    BY <2>1, <2>2, RowInserted
  <2>4. M' = M
    BY <1>1, <2>1, <2>3 DEF Collected, Has
  <2> QED BY <1>0, <1>4, <2>4 DEF InsertIntent, provider
<1>5. ASSUME NEW p \in Ref, WebhookFailure(p) PROVE UNCHANGED <<M, Taken, Given>>
  <2>1. payment' = [payment EXCEPT ![p].status = "FAILED"] /\ Exists(p)
    BY <1>5 DEF WebhookFailure
  <2>2. ~Collected(p)
    BY <1>5 DEF WebhookFailure, CanPay, paymentTransitions, PaymentStatus, Collected, Has
  <2>3. /\ \A q \in Ref : Exists(q) => payment'[q].booking = payment[q].booking
        /\ \A q \in Ref : \A x : Has(q, x)' <=> IF q = p THEN x = "FAILED" ELSE Has(q, x)
    BY <2>1, StatusSet DEF PaymentStatus
  <2>4. M' = M
    BY <1>1, <2>2, <2>3 DEF Collected, Has
  <2> QED BY <1>0, <1>5, <2>4 DEF WebhookFailure, provider
<1>6. payment' = payment => M' = M
  BY <1>1 DEF Collected, Has, Exists
<1>7. CASE QuietStep
  BY <1>0, <1>6, <1>7, Quiet
<1>8. ASSUME NEW r \in Req, ReturnMoney(r) PROVE Money!Next
  <2>. PICK p \in Ref : p = req[r].ref
    BY <1>8, Typed DEF ReturnMoney, Refund
  <2>1. \E b \in Booking : M[b] # None /\ M[b].payment = {p}
    BY <1>8, CollectedInBooks DEF ReturnMoney, RefundInv, RefundFits
  <2>2. returned' = [returned EXCEPT ![p] = returned[p] + 1] /\ returned \in [Ref -> Nat]
    BY <1>8 DEF ReturnMoney, TypeOK
  <2>3. {q \in Ref : returned[q] > 0}' = {q \in Ref : returned[q] > 0} \cup {p}
    BY <2>2
  <2>4. Given' = Given \cup {{p}} /\ {p} \in Singly(Ref)
    BY <2>3 DEF Given, Singly
  <2>5. M' = M /\ Taken' = Taken
    BY <1>6, <1>8 DEF ReturnMoney, Taken
  <2>6. Money!Give({p})
    BY <2>1, <2>4, <2>5 DEF Money!Give, Money!InBooks, M, Taken, Given
  <2> QED BY <2>4, <2>6 DEF Money!Next
<1>9. ASSUME NEW p \in Ref, Pay(p) PROVE Money!Next
  <2>1. Taken' = Taken \cup {{p}} /\ {p} \in Singly(Ref)
    BY <1>9 DEF Pay, Taken, Singly
  <2>2. M' = M /\ Given' = Given
    BY <1>6, <1>9 DEF Pay, Given
  <2>3. Money!Take({p})
    BY <2>1, <2>2 DEF Money!Take, M, Taken, Given
  <2> QED BY <2>1, <2>3 DEF Money!Next
<1>10. ASSUME NEW b \in Booking, CompleteTour(b) \/ \E to \in Statuses : MoveBooking(b, to)
       PROVE  UNCHANGED <<M, Taken, Given>>
  BY <1>0, <1>6, <1>10 DEF CompleteTour, MoveBooking, provider
<1> QED
  BY <1>2, <1>3, <1>4, <1>5, <1>7, <1>8, <1>9, <1>10 DEF Next, Serve, QuietStep

\* The books follow the provider as BookingMoney says: a payment is captured in
\* them only after the provider took it, at most one for a booking; refunds are
\* asked of captured payments only, and recorded once, after the money was
\* given back.
THEOREM BooksFollowProvider == Spec => MoneySpec
<1>1. Init => Money!Init
  BY DEF Init, Money!Init, MoneyOf, PaymentOf, Collected, Has, Exists, Singly
<1>2. Spec => Money!Init /\ [][Money!Next]_<<M, Taken, Given>>
  BY Invariance, <1>1, MoneyStep, PTL DEF Spec
<1> QED BY <1>2, PTL DEF MoneySpec, Money!Spec, M, Taken, Given
=============================================================================
