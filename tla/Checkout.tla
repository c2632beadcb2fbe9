------------------------------ MODULE Checkout ------------------------------
(***************************************************************************)
(* The checkout of a booking, on the phone (checkout/[id].tsx) and in the  *)
(* browser (CheckoutClient.tsx): an intent is opened under the key of this *)
(* visit, the provider's page collects, and the client asks for the        *)
(* booking until the webhook has moved it.                                 *)
(*                                                                         *)
(* Of the server: CreateIntent's three steps; the rest is one step each and *)
(* has its races in Payments.                                              *)
(***************************************************************************)
EXTENDS BookingForm, BookingStates

CONSTANTS
  Check,       \* requests for the booking in flight at once
  MaxKeys,     \* bound: idempotency keys of payments, of all visits and devices
  MaxAttempts  \* POLL_MAX_ATTEMPTS, POLL_ATTEMPTS

ASSUME NoViewIsNoStatus == NoView \notin Statuses
ASSUME CheckoutBounds == MaxKeys \in Nat /\ MaxAttempts \in Nat

VARIABLES
  status,     \* the booking's
  payment,    \* per key: the payment row
  opening,    \* per key: what the server's CreateIntent has come to
  linked,     \* the keys whose answer takes a tourist to the provider's page
  collected,  \* the keys whose page has taken the money
  declined,   \* the keys whose page has given up
  raced,      \* CreateIntent was overtaken, by another or by the booking
  overridden, \* operations took the booking where a payment leads, without one
  minted,     \* keys made so far
  view,       \* the booking's status on the page, or NoView
  returned,   \* the page's address carries ?reference=
  section,    \* the payment section
  intent,     \* the payment-intent request under way
  checks      \* the requests for the booking

rowVars == <<status, payment, opening, linked, collected, declined, raced, overridden>>
deskVars == <<minted, view, returned, section, intent, checks>>
checkoutVars == <<rowVars, deskVars>>

Key == 1..MaxKeys
NoIntent == [pc |-> "idle", result |-> "lost"]
NoCheck == [pc |-> "idle", seen |-> NoView, timed |-> FALSE]

\* A payment section as it is mounted; the browser's polls when the provider
\* has sent the tourist back.
Section(polls) ==
  [pay |-> IF polls THEN "polling" ELSE "idle", ticking |-> polls, attempts |-> 0,
   key |-> 0]

CheckoutTypeOK ==
  /\ status \in Statuses /\ payment \in [Key -> {"none", "active", "failed", "paid"}]
  /\ opening \in [Key -> {"no", "loaded", "checked"}] /\ linked \subseteq Key
  /\ collected \subseteq Key /\ declined \subseteq Key /\ minted \in 0..MaxKeys
  /\ raced \in BOOLEAN /\ overridden \in BOOLEAN
  /\ view \in Statuses \cup {NoView} /\ returned \in BOOLEAN
  /\ section \in [pay : {"idle", "starting", "away", "polling", "timeout"}, ticking : BOOLEAN,
                  attempts : 0..MaxAttempts, key : 0..MaxKeys]
  /\ intent \in [pc : {"idle", "sent", "held", "answered"}, result : {"ok", "refused", "lost"}]
  /\ checks \in [Check -> [pc : {"idle", "sent", "served"}, seen : Statuses \cup {NoView},
                           timed : BOOLEAN]]

CheckoutInit ==
  /\ status = "PAYMENT_PENDING" /\ payment = [k \in Key |-> "none"]
  /\ opening = [k \in Key |-> "no"] /\ linked = {} /\ collected = {} /\ declined = {}
  /\ raced = FALSE /\ overridden = FALSE /\ minted = 0
  /\ view = NoView /\ returned = FALSE /\ section = Section(FALSE) /\ intent = NoIntent
  /\ checks = [c \in Check |-> NoCheck]
-----------------------------------------------------------------------------
(* ------------------------------ the server ------------------------------ *)

\* What a booking is once it was paid for.
Road == ActiveStatuses \cup {"COMPLETED", "NO_SHOW", "REFUND_PENDING", "REFUNDED"}

Underway(k) == opening[k] # "no"

\* The tourist, the guide, or operations, whose override takes every edge.
Elsewhere ==
  /\ \E s \in transitions[status] :
       /\ status' = s
       /\ overridden' = (overridden \/ (s \in Road /\ \A k \in Key : payment[k] # "paid"))
  /\ raced' = (raced \/ \E k \in Key : Underway(k))
  /\ UNCHANGED <<payment, opening, linked, collected, declined, deskVars>>

\* The handler has read the booking as payable ...
Loads(k) ==
  /\ status = "PAYMENT_PENDING"
  /\ opening' = [opening EXCEPT ![k] = IF @ = "no" THEN "loaded" ELSE @]
  /\ raced' = (raced \/ \E j \in Key \ {k} : Underway(j))

IntentLoads ==
  /\ intent.pc = "sent"
  /\ \/ Loads(section.key) /\ intent' = [intent EXCEPT !.pc = "held"]
     \/ /\ status # "PAYMENT_PENDING" /\ UNCHANGED <<opening, raced>>
        /\ intent' = [pc |-> "answered", result |-> "refused"]
  /\ UNCHANGED <<status, payment, linked, collected, declined, overridden>>
  /\ UNCHANGED <<minted, view, returned, section, checks>>

\* The tourist's other device, a phone, opens a payment.
OtherDevice ==
  /\ minted < MaxKeys /\ minted' = minted + 1
  /\ Loads(minted') /\ linked' = linked \cup {minted'}
  /\ UNCHANGED <<status, payment, collected, declined, overridden>>
  /\ UNCHANGED <<view, returned, section, intent, checks>>

\* The page that asked may have been left, or have given up.
Replies(k, result) ==
  intent' = IF intent.pc = "held" /\ section.key = k
            THEN [pc |-> "answered", result |-> result] ELSE intent

\* Mutant: a second active payment under another key is not refused.
NoneActive_NotAsked == TRUE
NoneActive == \A k \in Key : payment[k] # "active"

\* ... the transaction has claimed the key, or found its payment, and looks for
\* an active one ...
IntentChecks(k) ==
  /\ opening[k] = "loaded"
  /\ \/ /\ payment[k] = "none" /\ NoneActive
        /\ opening' = [opening EXCEPT ![k] = "checked"] /\ UNCHANGED intent
     \/ /\ payment[k] # "none" \/ ~NoneActive
        /\ opening' = [opening EXCEPT ![k] = "no"]
        /\ Replies(k, IF payment[k] # "none" THEN "ok" ELSE "refused")
  /\ UNCHANGED <<status, payment, linked, collected, declined, raced, overridden>>
  /\ UNCHANGED <<minted, view, returned, section, checks>>

\* ... and inserts its own, which no index keeps from being the second.
IntentInserts(k) ==
  /\ opening[k] = "checked"
  /\ opening' = [opening EXCEPT ![k] = "no"]
  /\ payment' = [payment EXCEPT ![k] = "active"]
  /\ Replies(k, "ok")
  /\ UNCHANGED <<status, linked, collected, declined, raced, overridden>>
  /\ UNCHANGED <<minted, view, returned, section, checks>>

\* The provider's page stays open to whoever has its address.
Collect(k) ==
  /\ payment[k] = "active" /\ k \in linked /\ k \notin collected \cup declined
  /\ collected' = collected \cup {k}
  /\ UNCHANGED <<status, payment, opening, linked, declined, raced, overridden, deskVars>>

Decline(k) ==
  /\ payment[k] = "active" /\ k \in linked /\ k \notin collected \cup declined
  /\ declined' = declined \cup {k}
  /\ UNCHANGED <<status, payment, opening, linked, collected, raced, overridden, deskVars>>

\* HandleWebhook moves payment and booking together, or neither.
Webhook(k) ==
  /\ payment[k] = "active" /\ k \in collected \cup declined
  /\ LET to == IF k \in collected THEN "CONFIRMED" ELSE "PAYMENT_FAILED" IN
     CanTransition(status, to) /\ status' = to
  /\ payment' = [payment EXCEPT ![k] = IF k \in collected THEN "paid" ELSE "failed"]
  /\ raced' = (raced \/ \E j \in Key : Underway(j))
  /\ UNCHANGED <<opening, linked, collected, declined, overridden, deskVars>>
-----------------------------------------------------------------------------
(* ------------------------------- the page ------------------------------- *)

\* The phone's list of statuses; what is not in it is taken for awaiting.
PhoneStatuses ==
  {"PAYMENT_PENDING", "CONFIRMED", "GUIDE_EN_ROUTE", "GUIDE_ARRIVED", "IN_PROGRESS", "COMPLETED",
   "REFUNDED"}

\* Mutant: a status that the phone does not know is shown as it is.
PhoneShows_AsIs(s) == s

\* Mutant: it is shown as one of no booking.
PhoneShows_Unknown(s) == IF s \in PhoneStatuses THEN s ELSE "UNKNOWN"
PhoneShows(s) == IF s \in PhoneStatuses THEN s ELSE "PAYMENT_PENDING"
Shows(s) == IF onPhone THEN PhoneShows(s) ELSE s

\* awaitingPayment, and the phone's "not settled": there is a section.
Awaits(v) == v \in (IF onPhone THEN {"PAYMENT_PENDING"} ELSE {"PAYMENT_PENDING", "PAYMENT_FAILED"})

\* "Payment confirmed": the browser's by its one status, the phone's by what
\* is neither awaited nor "CANCELLED", which no booking is.
SaysConfirmed ==
  IF onPhone THEN view \notin {NoView, "PAYMENT_PENDING"} ELSE view = "CONFIRMED"

\* A booking comes to the page; its section comes, stays or goes with it.
Show(v, s, back) ==
  /\ view' = v
  /\ section' = IF Awaits(v) /\ Awaits(view) THEN s
                ELSE Section(~onPhone /\ back /\ Awaits(v))
  /\ intent' = IF Awaits(v) THEN intent ELSE NoIntent

\* Abstraction: the first read is one step; a failed one leaves a page whose
\* only button reads again.
CheckoutOpened ==
  /\ view = NoView
  /\ returned' \in IF onPhone \/ linked = {} THEN {FALSE} ELSE BOOLEAN
  /\ Show(Shows(status), section, returned')
  /\ UNCHANGED <<rowVars, minted, checks>>

\* The page is left: the key, the intent and the polling go.
CheckoutLeft ==
  /\ view # NoView
  /\ view' = NoView /\ returned' = FALSE /\ section' = Section(FALSE) /\ intent' = NoIntent
  /\ checks' = [c \in Check |-> NoCheck]
  /\ UNCHANGED <<rowVars, minted>>

\* "Pay now": the phone's button is busy until it is done, the browser's while
\* it starts.
PressPay ==
  /\ Awaits(view) /\ intent.pc = "idle"
  /\ section.pay \in (IF onPhone THEN {"idle"} ELSE {"idle", "polling", "timeout"})
  /\ section.key # 0 \/ minted < MaxKeys
  /\ minted' = IF section.key = 0 THEN minted + 1 ELSE minted
  /\ section' = [section EXCEPT !.pay = "starting", !.key = IF @ = 0 THEN minted' ELSE @]
  /\ intent' = [pc |-> "sent", result |-> "lost"]
  /\ UNCHANGED <<rowVars, view, returned, checks>>

IntentLost ==
  /\ intent.pc \in {"sent", "held"} \/ intent.result = "ok"
  /\ losses < MaxLosses
  /\ intent' = [pc |-> "answered", result |-> "lost"]
  /\ UNCHANGED <<rowVars, minted, view, returned, section, checks>>

\* The server wraps a payment in "payment"; the browser looks for its address
\* in "payment_intent", and beside it.
Wrapper == "payment"
PhoneReads == {"payment"}
BrowserReads == {"payment_intent"}
HasLink == Wrapper \in (IF onPhone THEN PhoneReads ELSE BrowserReads)

\* With the address the tourist is taken to the provider's page; without it
\* there is an error and the button again, which is all the browser ever shows.
IntentSettles ==
  /\ intent.pc = "answered" /\ intent' = NoIntent
  /\ IF intent.result = "ok" /\ HasLink
     THEN section' = [section EXCEPT !.pay = "away"] /\ linked' = linked \cup {section.key}
     ELSE section' = [section EXCEPT !.pay = "idle"] /\ UNCHANGED linked
  /\ UNCHANGED <<status, payment, opening, collected, declined, raced, overridden>>
  /\ UNCHANGED <<minted, view, returned, checks>>

\* The phone's browser is closed, whatever was done in it: it polls.
BackFromProvider ==
  /\ section.pay = "away"
  /\ section' = [section EXCEPT !.pay = "polling", !.ticking = TRUE, !.attempts = 0]
  /\ UNCHANGED <<rowVars, minted, view, returned, intent, checks>>
-----------------------------------------------------------------------------
(* ------------------------------- the polling ---------------------------- *)

Idle(c) == checks[c].pc = "idle"
Ask(c, timed) == checks' = [checks EXCEPT ![c] = [pc |-> "sent", seen |-> NoView, timed |-> timed]]

\* Mutant: the attempts are not counted.
Tick_NotCounted(c) ==
  /\ section.ticking /\ Idle(c) /\ (onPhone => \A d \in Check : Idle(d))
  /\ Ask(c, TRUE) /\ UNCHANGED section
  /\ UNCHANGED <<rowVars, minted, view, returned, intent>>

\* Every two seconds: the phone when it has its answer, the browser whether it
\* has or not.
Tick(c) ==
  /\ section.ticking /\ Idle(c) /\ (onPhone => \A d \in Check : Idle(d))
  /\ Ask(c, TRUE)
  /\ section' = [section EXCEPT !.attempts = IF @ < MaxAttempts THEN @ + 1 ELSE @]
  /\ UNCHANGED <<rowVars, minted, view, returned, intent>>

CheckNow(c) ==
  /\ section.pay = "timeout" /\ Idle(c)
  /\ Ask(c, FALSE)
  /\ UNCHANGED <<rowVars, minted, view, returned, section, intent>>

CheckServed(c) ==
  /\ checks[c].pc = "sent"
  /\ checks' = [checks EXCEPT ![c].pc = "served", ![c].seen = status]
  /\ UNCHANGED <<rowVars, minted, view, returned, section, intent>>

\* The last attempt ends the wait; the browser's does with whatever it was
\* doing, also when "Pay now" was pressed meanwhile.
Unmoved(timed) ==
  IF timed /\ section.attempts = MaxAttempts /\ Awaits(view)
  THEN [section EXCEPT !.pay = IF onPhone THEN "idle" ELSE "timeout", !.ticking = FALSE]
  ELSE section

Moved == [section EXCEPT !.pay = "idle"]

\* Only a booking that is no longer awaited is taken over.
TakesOver(v) == v # "PAYMENT_PENDING"

CheckAnswered(c) ==
  /\ checks[c].pc = "served"
  /\ LET v == Shows(checks[c].seen) IN
     IF TakesOver(v) THEN Show(v, Moved, returned)
     ELSE section' = Unmoved(checks[c].timed) /\ UNCHANGED <<view, intent>>
  /\ checks' = [checks EXCEPT ![c] = NoCheck]
  /\ UNCHANGED <<rowVars, minted, returned>>

CheckLost(c) ==
  /\ checks[c].pc # "idle" /\ losses < MaxLosses
  /\ section' = Unmoved(checks[c].timed)
  /\ checks' = [checks EXCEPT ![c] = NoCheck]
  /\ UNCHANGED <<rowVars, minted, view, returned, intent>>

PaidNext ==
  \/ Elsewhere \/ OtherDevice
  \/ \E k \in Key : IntentChecks(k) \/ IntentInserts(k) \/ Collect(k) \/ Decline(k) \/ Webhook(k)
  \/ CheckoutOpened \/ CheckoutLeft \/ PressPay \/ IntentLoads \/ IntentSettles \/ BackFromProvider
  \/ \E c \in Check : Tick(c) \/ CheckNow(c) \/ CheckServed(c) \/ CheckAnswered(c)

CheckoutNext ==
  \/ PaidNext /\ UNCHANGED losses
  \/ (IntentLost \/ \E c \in Check : CheckLost(c)) /\ losses' = losses + 1
-----------------------------------------------------------------------------
(* ------------------------------ properties ----------------------------- *)

\* "Payment confirmed" is said of a booking that was paid, or that operations
\* took where a payment leads: statuses of both clients, and the phone's guess
\* for the ones it does not know.
ConfirmedIsPaid == SaysConfirmed => collected # {} \/ overridden

\* Whatever the visits, keys, devices, declined pages and lost answers, the
\* money of a booking is taken twice only after CreateIntent was overtaken
\* between its read of the booking and its insert.
OneChargeUnlessRaced == raced \/ Cardinality(collected) <= 1

\* "Confirming your payment" ends, by an answer or by the last attempt.
WaitEnds == section.pay = "polling" ~> section.pay # "polling"
=============================================================================
