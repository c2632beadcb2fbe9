------------------------------- MODULE Payments -------------------------------
(***************************************************************************)
(* The payments component (payments/service.go, repository.go, handler.go)  *)
(* with what it shares: the status of the bookings paid for, which tours,    *)
(* cancellations and operations move too, and the ledger.                   *)
(*                                                                         *)
(* A webhook is one transaction that locks the payment and the booking       *)
(* before it reads them, hence one step.  An intent and a refund are split   *)
(* at their calls to the provider, at their reads outside the transaction    *)
(* and at their commit.  The provider and the tourist at its payment page    *)
(* are the environment: a reference is paid or declined, never both, and its *)
(* event is delivered any number of times.                                  *)
(***************************************************************************)
EXTENDS BookingStates, Ledger, FiniteSets

CONSTANTS
  Booking,
  Ref,         \* provider references, one per payment
  Key,         \* values of the Idempotency-Key header
  Req,         \* requests served at the same time
  Clash,       \* pairs of bookings of one guide whose windows overlap
  Allocation,  \* splits of an amount that the settings may yield
  None,
  MaxReturns   \* bound: provider refunds per payment

ASSUME ClashIsSymmetric ==
  Clash \subseteq Booking \X Booking /\ \A c \in Clash : <<c[2], c[1]>> \in Clash
ASSUME AllocationIsPositive ==
  \A s \in Allocation : /\ s \in [fee : Nat, levy : Nat, guide : Nat]
                        /\ s.fee + s.levy + s.guide > 0

VARIABLES
  status,      \* bookings.status
  payment,     \* rows of table payments, by provider reference
  seen,        \* references in webhook_events
  ledger,      \* ledger_transactions with their entries
  intentKey,   \* committed idempotency keys of intents, with their payment
  refundKey,   \* committed idempotency keys of refunds
  audited,     \* payments with an audit row of their refund
  paid,        \* provider: references the tourist has paid
  declined,    \* provider: references whose payment failed
  returned,    \* provider: refunds made of each reference
  req          \* the intents and refunds being served

vars == <<status, payment, seen, ledger, intentKey, refundKey, audited,
          paid, declined, returned, req>>

keys == <<intentKey, refundKey>>
provider == <<paid, declined, returned>>

PaymentStatus == {"CREATED", "PENDING", "SUCCEEDED", "FAILED", "EXPIRED",
                  "REFUND_PENDING", "PARTIALLY_REFUNDED", "REFUNDED"}

paymentTransitions == [s \in PaymentStatus |->
  CASE s = "CREATED"            -> {"PENDING", "FAILED", "EXPIRED"}
    [] s = "PENDING"            -> {"SUCCEEDED", "FAILED", "EXPIRED"}
    [] s = "SUCCEEDED"          -> {"REFUND_PENDING"}
    [] s = "REFUND_PENDING"     -> {"PARTIALLY_REFUNDED", "REFUNDED"}
    [] s = "PARTIALLY_REFUNDED" -> {"REFUND_PENDING", "REFUNDED"}
    [] s \in {"FAILED", "EXPIRED", "REFUNDED"} -> {}]

\* payments.canTransition.
CanPay(from, to) == to \in paymentTransitions[from]

Row == [booking : Booking, status : PaymentStatus]

\* An intent past its provider call; it holds its key once it has claimed it.
Intent == [kind : {"intent"}, booking : Booking, key : Key, ref : Ref, holds : BOOLEAN]

\* A refund that has loaded the payment, been granted by the provider, begun its
\* transaction (seen: the booking status it read), or committed it.
Refund == [kind : {"refund"}, ref : Ref, key : Key,
           at : {"loaded", "returned", "driving", "committed"}, seen : Statuses]

LedgerRow == [reference : ({"PAY", "REV"} \X Ref) \cup ({"ELIGIBLE"} \X Booking),
              booking : Booking, entries : Entries]

ASSUME NoneIsFresh ==
  None \notin Row \cup Ref \cup Intent \cup Refund
            \cup [payment : {{p} : p \in Ref}, back : BOOLEAN]

TypeOK ==
  /\ status \in [Booking -> Statuses]
  /\ payment \in [Ref -> Row \cup {None}]
  /\ seen \subseteq Ref /\ paid \subseteq Ref /\ declined \subseteq Ref
  /\ audited \subseteq Ref
  /\ ledger \subseteq LedgerRow
  /\ intentKey \in [Booking \X Key -> Ref \cup {None}]
  /\ refundKey \subseteq Ref \X Key
  /\ returned \in [Ref -> Nat]
  /\ req \in [Req -> Intent \cup Refund \cup {None}]

Init ==
  /\ status = [b \in Booking |-> "PAYMENT_PENDING"]
  /\ payment = [p \in Ref |-> None]
  /\ seen = {} /\ audited = {} /\ ledger = {}
  /\ paid = {} /\ declined = {}
  /\ returned = [p \in Ref |-> 0]
  /\ intentKey = [s \in Booking \X Key |-> None]
  /\ refundKey = {}
  /\ req = [r \in Req |-> None]
-----------------------------------------------------------------------------
Exists(p) == payment[p] # None
Has(p, st) == Exists(p) /\ payment[p].status = st
Intending(r) == req[r] # None /\ req[r].kind = "intent"
Refunding(r, at) == req[r] # None /\ req[r].kind = "refund" /\ req[r].at = at

\* Money of the payment has been taken for its booking, and not failed to be.
Collected(p) == Has(p, "SUCCEEDED") \/ Has(p, "REFUNDED")

\* References a payment has, or an intent was given by the provider.
Used == {p \in Ref : Exists(p)} \cup {req[r].ref : r \in {q \in Req : Intending(q)}}

\* ActiveForBooking, as the query sees it: committed rows only.
Active(b) == {p \in Ref : Exists(p) /\ payment[p].booking = b
                            /\ payment[p].status \in {"CREATED", "PENDING"}}

IntentKeyHeld(b, k) ==
  \E r \in Req : Intending(r) /\ req[r].holds /\ req[r].booking = b /\ req[r].key = k

\* A refund's transaction holds its payment's row, and a key of it.
PaymentLocked(p) == \E r \in Req : Refunding(r, "driving") /\ req[r].ref = p

\* The overlap re-check of transitionTx.
SlotFree(b) == \A c \in Booking : <<b, c>> \in Clash => status[c] \notin ActiveStatuses

\* Bound: MaxReturns provider refunds of a payment, counting those under way.
ReturnsLeft(p) ==
  returned[p] + Cardinality({r \in Req : Refunding(r, "loaded") /\ req[r].ref = p})
    < MaxReturns

End(r) == req' = [req EXCEPT ![r] = None]
-----------------------------------------------------------------------------
\* CreateIntent: the handler has read the booking as payable, the provider has
\* issued a reference; nothing is written yet.
LoadIntent(r, b, k, p) ==
  /\ req[r] = None
  /\ status[b] = "PAYMENT_PENDING"
  /\ p \notin Used
  /\ req' = [req EXCEPT ![r] =
       [kind |-> "intent", booking |-> b, key |-> k, ref |-> p, holds |-> FALSE]]
  /\ UNCHANGED <<status, payment, seen, ledger, keys, audited, provider>>

\* The transaction claims its key and sees no active payment.
ClaimIntent(r) ==
  /\ Intending(r) /\ ~req[r].holds
  /\ ~IntentKeyHeld(req[r].booking, req[r].key)
  /\ intentKey[<<req[r].booking, req[r].key>>] = None
  /\ Active(req[r].booking) = {}
  /\ req' = [req EXCEPT ![r].holds = TRUE]
  /\ UNCHANGED <<status, payment, seen, ledger, keys, audited, provider>>

\* The key is committed (replayIntent answers its payment), or an active
\* payment is found (ErrAlreadyActive).
RefuseIntent(r) ==
  /\ Intending(r) /\ ~req[r].holds
  /\ ~IntentKeyHeld(req[r].booking, req[r].key)
  /\ \/ intentKey[<<req[r].booking, req[r].key>>] # None
     \/ Active(req[r].booking) # {}
  /\ End(r)
  /\ UNCHANGED <<status, payment, seen, ledger, keys, audited, provider>>

\* Insert, CREATED -> PENDING, completion of the key and commit.
InsertIntent(r) ==
  /\ Intending(r) /\ req[r].holds
  /\ payment' = [payment EXCEPT ![req[r].ref] =
       [booking |-> req[r].booking, status |-> "PENDING"]]
  /\ intentKey' = [intentKey EXCEPT ![<<req[r].booking, req[r].key>>] = req[r].ref]
  /\ End(r)
  /\ UNCHANGED <<status, seen, ledger, refundKey, audited, provider>>
-----------------------------------------------------------------------------
\* At the provider's page, which stays open whatever becomes of the booking.
Pay(p) ==
  /\ Exists(p) /\ p \notin paid \cup declined
  /\ paid' = paid \cup {p}
  /\ UNCHANGED <<status, payment, seen, ledger, keys, audited, declined, returned, req>>

Decline(p) ==
  /\ Exists(p) /\ p \notin paid \cup declined
  /\ declined' = declined \cup {p}
  /\ UNCHANGED <<status, payment, seen, ledger, keys, audited, paid, returned, req>>

Allocated(s) ==
  [a \in Account |-> CASE a = "tourist_clearing" -> -(s.fee + s.levy + s.guide)
                       [] a = "platform_revenue" -> s.fee
                       [] a = "tourism_levy_payable" -> s.levy
                       [] a = "guide_payable_pending" -> s.guide
                       [] OTHER -> 0]

\* Mutant: an event is a duplicate when its booking has had one.
Fresh_ByBooking(p) == \A q \in seen : payment[q].booking # payment[p].booking

\* The event can be claimed in webhook_events.
Fresh(p) == p \notin seen

\* Mutant: any booking that is not cancelled is confirmed by its payment.
WebhookSuccess_AnyStatus(p) ==
  /\ p \in paid /\ Exists(p) /\ Fresh(p)
  /\ CanPay(payment[p].status, "SUCCEEDED")
  /\ LET b == payment[p].booking
     IN /\ status[b] \notin ClosedStatuses /\ SlotFree(b)
        /\ seen' = seen \cup {p}
        /\ payment' = [payment EXCEPT ![p].status = "SUCCEEDED"]
        /\ status' = [status EXCEPT ![b] = "CONFIRMED"]
        /\ \E s \in Allocation :
             Post(ledger, ledger', [reference |-> <<"PAY", p>>, booking |-> b,
                                    entries |-> Allocated(s)])
  /\ UNCHANGED <<keys, audited, provider, req>>

\* HandleWebhook and confirmPayment of a success event: all or nothing.  When
\* a guard fails the transaction is undone, its dedupe row too, the provider
\* gets a 400 and delivers again.
WebhookSuccess(p) ==
  /\ p \in paid /\ Exists(p) /\ Fresh(p)
  /\ CanPay(payment[p].status, "SUCCEEDED")
  /\ LET b == payment[p].booking
     IN /\ CanTransition(status[b], "CONFIRMED") /\ SlotFree(b)
        /\ seen' = seen \cup {p}
        /\ payment' = [payment EXCEPT ![p].status = "SUCCEEDED"]
        /\ status' = [status EXCEPT ![b] = "CONFIRMED"]
        /\ \E s \in Allocation :
             Post(ledger, ledger', [reference |-> <<"PAY", p>>, booking |-> b,
                                    entries |-> Allocated(s)])
  /\ UNCHANGED <<keys, audited, provider, req>>

\* Mutant: the failure is recorded although the booking refuses it.

WebhookFailure_KeepBooking(p) ==
  /\ p \in declined /\ Exists(p) /\ Fresh(p)
  /\ payment' = [payment EXCEPT ![p].status = "FAILED"]
  /\ status' = [status EXCEPT ![payment[p].booking] = "PAYMENT_FAILED"]
  /\ seen' = seen \cup {p}
  /\ UNCHANGED <<ledger, keys, audited, provider, req>>

\* Any other event: the payment FAILED, the booking PAYMENT_FAILED.
WebhookFailure(p) ==
  /\ p \in declined /\ Exists(p) /\ Fresh(p)
  /\ CanPay(payment[p].status, "FAILED")
  /\ CanTransition(status[payment[p].booking], "PAYMENT_FAILED")
  /\ payment' = [payment EXCEPT ![p].status = "FAILED"]
  /\ status' = [status EXCEPT ![payment[p].booking] = "PAYMENT_FAILED"]
  /\ seen' = seen \cup {p}
  /\ UNCHANGED <<ledger, keys, audited, provider, req>>
-----------------------------------------------------------------------------
\* Refund, outside the transaction: the payment is refundable and the key has
\* no completed refund (replayRefund).
LoadRefund(r, p, k) ==
  /\ req[r] = None
  /\ Has(p, "SUCCEEDED") \/ Has(p, "PARTIALLY_REFUNDED")
  /\ <<p, k>> \notin refundKey
  /\ ReturnsLeft(p)
  /\ req' = [req EXCEPT ![r] =
       [kind |-> "refund", ref |-> p, key |-> k, at |-> "loaded", seen |-> "DRAFT"]]
  /\ UNCHANGED <<status, payment, seen, ledger, keys, audited, provider>>

\* provider.Refund, which grants every request (the mock always does).
ReturnMoney(r) ==
  /\ Refunding(r, "loaded")
  /\ returned' = [returned EXCEPT ![req[r].ref] = @ + 1]
  /\ req' = [req EXCEPT ![r].at = "returned"]
  /\ UNCHANGED <<status, payment, seen, ledger, keys, audited, paid, declined>>

\* The transaction claims the key, locks the payment, finds it refundable, and
\* reads the booking's status outside the transaction, unlocked.
BeginRefund(r) ==
  /\ Refunding(r, "returned") /\ ~PaymentLocked(req[r].ref)
  /\ <<req[r].ref, req[r].key>> \notin refundKey
  /\ CanPay(payment[req[r].ref].status, "REFUND_PENDING")
  /\ req' = [req EXCEPT ![r].at = "driving",
                        ![r].seen = status[payment[req[r].ref].booking]]
  /\ UNCHANGED <<status, payment, seen, ledger, keys, audited, provider>>

\* The key is committed by now, or the payment refunded (409 either way).
RefuseRefund(r) ==
  /\ Refunding(r, "returned") /\ ~PaymentLocked(req[r].ref)
  /\ \/ <<req[r].ref, req[r].key>> \in refundKey
     \/ ~CanPay(payment[req[r].ref].status, "REFUND_PENDING")
  /\ End(r)
  /\ UNCHANGED <<status, payment, seen, ledger, keys, audited, provider>>

\* refundBooking: the first edge it takes from the status it has read; the
\* edges after it are legal by the table.
FirstEdge(was) ==
  CASE was = "REFUND_PENDING" -> "REFUNDED"
    [] was \in CancelledStatuses \cup {"COMPLETED", "NO_SHOW"} -> "REFUND_PENDING"
    [] was \in ActiveStatuses \ {"IN_PROGRESS"} -> "CANCELLED_BY_ADMIN"

\* Mutant: the booking is driven by the status read, whatever it is now.
Drivable_Stale(was, is) ==
  was \in (ClosedStatuses \cup ActiveStatuses) \ {"IN_PROGRESS"}

Drivable(was, is) ==
  \/ was = "REFUNDED"
  \/ /\ was \in (ClosedStatuses \cup ActiveStatuses) \ {"IN_PROGRESS", "REFUNDED"}
     /\ CanTransition(is, FirstEdge(was))

\* Payment and booking REFUNDED, the allocation reversed, the key completed.
CommitRefund(r) ==
  LET p == req[r].ref
      b == payment[p].booking
  IN /\ Refunding(r, "driving") /\ Drivable(req[r].seen, status[b])
     /\ payment' = [payment EXCEPT ![p].status = "REFUNDED"]
     /\ status' = [status EXCEPT ![b] = "REFUNDED"]
     /\ Post(ledger, ledger', [reference |-> <<"REV", p>>, booking |-> b,
             entries |-> Reversed(Posting(ledger, <<"PAY", p>>).entries)])
     /\ refundKey' = refundKey \cup {<<p, req[r].key>>}
     /\ req' = [req EXCEPT ![r].at = "committed"]
     /\ UNCHANGED <<seen, intentKey, audited, provider>>

\* The booking cannot be refund-driven: rollback, after the money was returned.
FailRefund(r) ==
  /\ Refunding(r, "driving")
  /\ ~Drivable(req[r].seen, status[payment[req[r].ref].booking])
  /\ End(r)
  /\ UNCHANGED <<status, payment, seen, ledger, keys, audited, provider>>

\* The handler's audit row, a transaction of its own.
Audit(r) ==
  /\ Refunding(r, "committed")
  /\ audited' = audited \cup {req[r].ref}
  /\ End(r)
  /\ UNCHANGED <<status, payment, seen, ledger, keys, provider>>

\* The request's context ends or the server stops: what was not committed is
\* undone, what the provider did is not.
Abandon(r) ==
  /\ req[r] # None
  /\ End(r)
  /\ UNCHANGED <<status, payment, seen, ledger, keys, audited, provider>>
-----------------------------------------------------------------------------
\* Guides' steps, cancellations and the operations override (AdminTransition,
\* which reaches every edge of the table, CONFIRMED and COMPLETED included).
MoveBooking(b, to) ==
  /\ CanTransition(status[b], to)
  /\ to = "CONFIRMED" => SlotFree(b)
  /\ status' = [status EXCEPT ![b] = to]
  /\ UNCHANGED <<payment, seen, ledger, keys, audited, provider, req>>

\* The credit of the pending account that tours' Complete looks up.
PendingCredits(b) ==
  {t \in ledger : t.booking = b /\ t.reference[1] = "PAY"
                                /\ t.entries["guide_payable_pending"] > 0}

\* Mutant: completion makes the gross amount eligible.
CompleteTour_Gross(b) ==
  /\ CanTransition(status[b], "COMPLETED")
  /\ status' = [status EXCEPT ![b] = "COMPLETED"]
  /\ IF PendingCredits(b) = {} THEN ledger' = ledger
     ELSE \E t \in PendingCredits(b) :
            Post(ledger, ledger', [reference |-> <<"ELIGIBLE", b>>, booking |-> b,
              entries |-> Moved("guide_payable_pending", "guide_payable_eligible",
                                -t.entries["tourist_clearing"])])
  /\ UNCHANGED <<payment, seen, keys, audited, provider, req>>

\* tours.Complete: COMPLETED, and the guide's share moves pending -> eligible.
CompleteTour(b) ==
  /\ CanTransition(status[b], "COMPLETED")
  /\ status' = [status EXCEPT ![b] = "COMPLETED"]
  /\ IF PendingCredits(b) = {} THEN ledger' = ledger
     ELSE \E t \in PendingCredits(b) :
            Post(ledger, ledger', [reference |-> <<"ELIGIBLE", b>>, booking |-> b,
              entries |-> Moved("guide_payable_pending", "guide_payable_eligible",
                                t.entries["guide_payable_pending"])])
  /\ UNCHANGED <<payment, seen, keys, audited, provider, req>>
-----------------------------------------------------------------------------
Serve(r) ==
  \/ ClaimIntent(r) \/ RefuseIntent(r) \/ InsertIntent(r)
  \/ ReturnMoney(r) \/ BeginRefund(r) \/ RefuseRefund(r)
  \/ CommitRefund(r) \/ FailRefund(r) \/ Audit(r)

Ask(r) ==
  \/ \E b \in Booking, k \in Key, p \in Ref : LoadIntent(r, b, k, p)
  \/ \E p \in Ref, k \in Key : LoadRefund(r, p, k)

Next ==
  \/ \E r \in Req : Ask(r) \/ Serve(r) \/ Abandon(r)
  \/ \E p \in Ref : Pay(p) \/ Decline(p) \/ WebhookSuccess(p) \/ WebhookFailure(p)
  \/ \E b \in Booking : CompleteTour(b) \/ \E to \in Statuses : MoveBooking(b, to)

Spec == Init /\ [][Next]_vars

\* A request runs to its end (its locks are granted in the queue's order), and
\* the provider delivers the event of a payment until it is answered 200.
FairSpec ==
  /\ Spec
  /\ \A r \in Req : SF_vars(Serve(r))
  /\ \A p \in Ref : SF_vars(WebhookSuccess(p)) /\ SF_vars(WebhookFailure(p))
-----------------------------------------------------------------------------
\* A payment the database holds as collected has its booking past payment: no
\* late failure event of another payment, override or race of refunds leaves a
\* paying tourist with an unpaid booking, and a refunded payment has its booking
\* REFUNDED although that status is read unlocked and written later.
PaymentFitsBooking ==
  \A p \in Ref :
    /\ Has(p, "SUCCEEDED") => status[payment[p].booking] \notin UnpaidStatuses
    /\ Has(p, "REFUNDED") => status[payment[p].booking] = "REFUNDED"

\* The webhook's dedupe row and its effects are one: an event is recorded
\* exactly when its payment is final, and what is collected the tourist paid.
\* (The record-only branch of HandleWebhook is unreachable by this.)
SeenIsFinal ==
  \A p \in Ref :
    /\ p \in seen <=> Collected(p) \/ Has(p, "FAILED")
    /\ Collected(p) => p \in paid

\* The ledger follows the payments: an allocation exactly for each collected
\* payment, its exact reversal exactly for each refunded one, and a guide's
\* share becomes eligible once, in the amount the tourist's payment allocated.
LedgerFollowsPayments ==
  /\ \A p \in Ref :
       /\ Posted(ledger, <<"PAY", p>>) <=> Collected(p)
       /\ Posted(ledger, <<"REV", p>>) <=> Has(p, "REFUNDED")
       /\ Has(p, "REFUNDED") =>
            Posting(ledger, <<"REV", p>>).entries =
              Reversed(Posting(ledger, <<"PAY", p>>).entries)
  /\ \A b \in Booking : Posted(ledger, <<"ELIGIBLE", b>>) =>
       \E p \in Ref :
         /\ Collected(p) /\ payment[p].booking = b
         /\ Posting(ledger, <<"ELIGIBLE", b>>).entries["guide_payable_eligible"] =
              Posting(ledger, <<"PAY", p>>).entries["guide_payable_pending"]

\* A tour under way is never refunded or cancelled from under its guide, though
\* a refund decides by a status it read before the tour began.
TourIsNotRefunded ==
  [][\A b \in Booking :
       status[b] = "IN_PROGRESS" => status'[b] \in {"IN_PROGRESS", "COMPLETED"}]_vars

\* What the database calls refunded the provider has really given back.
RefundIsReturned == \A p \in Ref : Has(p, "REFUNDED") => returned[p] > 0

\* The payment's booking waits for a payment, and could be confirmed.
Awaited(p) ==
  /\ Exists(p)
  /\ status[payment[p].booking] = "PAYMENT_PENDING"
  /\ SlotFree(payment[p].booking)

\* A paid tourist gets the booking: as long as the booking waits for payment
\* and its slot is free, the payment is eventually recorded.
PaidIsHonoured == \A p \in Ref : p \in paid ~> p \in seen \/ ~Awaited(p)

\* The payments whose money a booking holds, or held.
PaymentOf(b) == {p \in Ref : Collected(p) /\ payment[p].booking = b}
MoneyOf(b) ==
  IF PaymentOf(b) = {} THEN None
  ELSE [payment |-> PaymentOf(b), back |-> \E p \in PaymentOf(b) : Has(p, "REFUNDED")]

\* A payment is named by its singleton, so that two at once are no payment.
Singly(S) == {{p} : p \in S}

Money == INSTANCE BookingMoney WITH
  Payment <- Singly(Ref), Nothing <- None, books <- [b \in Booking |-> MoneyOf(b)],
  taken <- Singly(paid), given <- Singly({p \in Ref : returned[p] > 0})

\* The books follow the provider: each booking has at most one payment captured
\* in them, one the provider took; refunds are asked of captured payments only;
\* and a payment is marked as given back once, after it was.  It is so however
\* many payments the tourist opened and paid, and however often webhooks and
\* refunds are repeated.  How often the provider takes or gives is not part of
\* it (PaymentsClaims).
MoneySpec == Money!Spec
=============================================================================
