---------------------------- MODULE ScreensProofs ----------------------------
(***************************************************************************)
(* Theorems of Screens about the booking form, the checkout and the pages, *)
(* for any number of inputs, edits, keys, checks, reads, actions, presses  *)
(* and losses.                                                             *)
(***************************************************************************)
EXTENDS Screens, FiniteSetTheorems, TLAPS

(* ---------------------------- the booking form -------------------------- *)

FormShape ==
  /\ onPhone \in BOOLEAN
  /\ input \in Input \cup {None} /\ asked \subseteq [of : Input, live : BOOLEAN]
  /\ keeper \in [of : Input \cup {None}, key : Nat, held : BOOLEAN]
  /\ submit \in [pc : {"idle", "sent", "answered"}, of : Input \cup {None}, key : Nat,
                 result : {"ok", "refused", "lost"}]
  /\ booked \subseteq [of : Input, key : Nat]

\* A creation under way has the key that is kept; the phone's has its inputs.
\* The browser was answered with all it booked under the keys it has dropped.
\* The last two keys of a phone were made for different inputs.
KeyInv ==
  /\ submit.pc = "idle" => submit.result # "ok"
  /\ submit.pc # "idle" => keeper.held /\ submit.key = keeper.key /\ submit.of \in Input
  /\ IF keeper.held THEN keeper.key # 0 ELSE onPhone => keeper.key = 0
  /\ onPhone /\ submit.pc # "idle" => submit.of = keeper.of
  /\ ~onPhone => \A b \in booked : b.key < keeper.key \/ ~keeper.held => b.key \in told
  /\ \A b \in booked : b.key \in 1 .. keeper.key
  /\ told \subseteq 1 .. keeper.key
  /\ \A b, c \in booked : b.key = c.key => b = c
  /\ onPhone => \A b \in booked : /\ b.key = keeper.key => b.of = keeper.of
                                  /\ b.key + 1 = keeper.key => b.of # keeper.of

\* The request that is not cancelled is for what the form holds.
QuoteInv ==
  /\ onPhone => \A q \in asked : q.live => q.of = input
  /\ QuoteFitsInputs

FormInv == FormShape /\ KeyInv /\ RetryBooksOnce

\* A set without two different members has one at most.
LEMMA AtMostOne ==
  ASSUME NEW S, \A x, y \in S : x = y
  PROVE  Cardinality(S) <= 1
<1>1. CASE S = {}
  BY <1>1, FS_EmptySet
<1>2. CASE S # {}
  <2>1. PICK x \in S : S = {x}
    BY <1>2
  <2> QED BY <2>1, FS_Singleton
<1> QED BY <1>1, <1>2

\* What a step does to the form.
LEMMA FormSteps ==
  ASSUME [Next]_vars
  PROVE  \/ FormNext /\ onPhone' = onPhone
         \/ FormLeft
         \/ UNCHANGED <<onPhone, formVars>>
<1>1. FormNext => onPhone' = onPhone
  BY DEF FormNext, clientVars, Edit, QuoteDue, QuoteAnswered, QuoteFails, Confirm, ServerBooks,
         SubmitLost, NotBooked, Booked
<1> QED BY <1>1 DEF Next, vars, clientVars, OnForm, OnCheckout, OnPage

LEMMA InitForm == Init => FormInv /\ QuoteInv
<1> SUFFICES ASSUME Init PROVE FormInv /\ QuoteInv
  OBVIOUS
<1> QED BY DEF Init, FormInit, FormInv, FormShape, KeyInv, QuoteInv, RetryBooksOnce,
               QuoteFitsInputs, NoKey, NoSubmit

LEMMA NextForm ==
  ASSUME FormInv, [Next]_vars
  PROVE  FormInv'
<1> USE DEF FormInv
<1>1. CASE UNCHANGED <<onPhone, formVars>>
  BY <1>1 DEF FormShape, KeyInv, RetryBooksOnce, formVars, quoteVars, submitVars, bounds
<1>2. CASE FormLeft
  BY <1>2 DEF FormLeft, FormShape, KeyInv, RetryBooksOnce, NoKey, NoSubmit
<1>3. CASE /\ onPhone' = onPhone /\ UNCHANGED submitVars
           /\ \/ \E i \in Input \cup {None} : Edit(i)
              \/ QuoteDue
              \/ \E q \in asked : QuoteAnswered(q) \/ QuoteFails(q)
  <2>1. KeyInv' /\ RetryBooksOnce'
    BY <1>3 DEF KeyInv, RetryBooksOnce, submitVars
  <2>2. FormShape'
    <3>1. input' \in Input \cup {None}
      BY <1>3 DEF FormShape, Edit, QuoteDue, QuoteAnswered, QuoteFails
    <3>2. ASSUME NEW i \in Input \cup {None}, Edit(i) PROVE asked' \subseteq [of : Input, live : BOOLEAN]
      <4>1. \A q \in asked : [q EXCEPT !.live = FALSE] \in [of : Input, live : BOOLEAN]
        <5>1. asked \subseteq [of : Input, live : BOOLEAN] /\ FALSE \in BOOLEAN
          BY DEF FormShape
        <5>2. ASSUME NEW q \in [of : Input, live : BOOLEAN]
              PROVE  [q EXCEPT !.live = FALSE] \in [of : Input, live : BOOLEAN]
          OBVIOUS
        <5> QED BY <5>1, <5>2
      <4>2. asked' = asked \/ asked' = {[q EXCEPT !.live = FALSE] : q \in asked}
        BY <3>2 DEF Edit, Superseded
      <4>3. asked \subseteq [of : Input, live : BOOLEAN]
        BY DEF FormShape
      <4> QED BY <4>1, <4>2, <4>3
    <3>3. CASE QuoteDue
      <4>1. \/ asked' = asked
            \/ input \in Input /\ asked' = asked \cup {[of |-> input, live |-> TRUE]}
        BY <3>3 DEF FormShape, QuoteDue
      <4>2. asked' \subseteq [of : Input, live : BOOLEAN]
        <5>1. input \in Input => [of |-> input, live |-> TRUE] \in [of : Input, live : BOOLEAN]
          OBVIOUS
        <5>2. asked \subseteq [of : Input, live : BOOLEAN]
          BY DEF FormShape
        <5> QED BY <4>1, <5>1, <5>2, Zenon
      <4> QED BY <1>3, <3>1, <4>2 DEF FormShape, submitVars
    <3>4. ASSUME NEW q \in asked, QuoteAnswered(q) \/ QuoteFails(q)
          PROVE  asked' \subseteq [of : Input, live : BOOLEAN]
      BY <3>4 DEF FormShape, QuoteAnswered, QuoteFails
    <3> QED BY <1>3, <3>1, <3>2, <3>3, <3>4 DEF FormShape, submitVars
  <2> QED BY <2>1, <2>2
<1>4. CASE Confirm /\ onPhone' = onPhone
  <2>1. /\ keeper' \in [of : Input \cup {None}, key : Nat, held : BOOLEAN]
        /\ booked' = booked /\ told' = told
        /\ submit' = [pc |-> "sent", of |-> input, key |-> keeper'.key, result |-> "lost"]
        /\ input \in Input /\ input' = input /\ asked' = asked
    BY <1>4 DEF Confirm, FormShape, PhoneKey, BrowserKey, Fresh, quoteVars
  <2>2. \/ keeper' = keeper /\ keeper.held /\ (onPhone => keeper.of = input)
        \/ keeper' = Fresh(input) /\ (onPhone => ~keeper.held \/ keeper.of # input)
                                 /\ (~onPhone => ~keeper.held)
    BY <1>4 DEF Confirm, PhoneKey, BrowserKey
  <2>3. KeyInv'
    <3>1. CASE keeper' = keeper /\ keeper.held /\ (onPhone => keeper.of = input)
      BY <1>4, <2>1, <3>1 DEF KeyInv, FormShape
    <3>2. CASE keeper' = Fresh(input) /\ (onPhone => ~keeper.held \/ keeper.of # input)
                                     /\ (~onPhone => ~keeper.held)
      <4>1. /\ keeper'.key = keeper.key + 1 /\ keeper'.of = input /\ keeper'.held
            /\ keeper.key \in Nat
        BY <3>2 DEF Fresh, FormShape
      <4>2. \A b \in booked : b.key \in 1 .. keeper.key /\ b.key \in Nat
        BY DEF KeyInv, FormShape
      <4>3. \A b \in booked : b.key # keeper'.key /\ (b.key + 1 = keeper'.key => b.key = keeper.key)
        BY <4>1, <4>2
      <4>4. \A b \in booked : b.key + 1 = keeper'.key => b.of # keeper'.of \/ ~onPhone
        BY <3>2, <4>1, <4>2, <4>3 DEF KeyInv
      <4>5. ~onPhone => \A b \in booked : b.key \in told
        BY <3>2 DEF KeyInv
      <4>6. told \subseteq 1 .. keeper'.key
        BY <4>1 DEF KeyInv
      <4> QED BY <1>4, <2>1, <4>1, <4>2, <4>3, <4>4, <4>5, <4>6 DEF KeyInv
    <3> QED BY <2>2, <3>1, <3>2
  <2> QED BY <1>4, <2>1, <2>3 DEF FormShape, RetryBooksOnce
<1>5. CASE ServerBooks /\ onPhone' = onPhone
  <2>1. /\ keeper' = keeper /\ submit.pc = "sent" /\ input' = input /\ asked' = asked
        /\ told' = told
        /\ submit' \in [pc : {"answered"}, of : {submit.of}, key : {submit.key},
                        result : {"ok", "refused"}]
    BY <1>5 DEF ServerBooks, Answers, FormShape, quoteVars
  <2>2. CASE booked' = booked
    BY <1>5, <2>1, <2>2 DEF FormShape, KeyInv, RetryBooksOnce
  <2>3. CASE /\ booked' = booked \cup {[of |-> submit.of, key |-> submit.key]}
             /\ {b \in booked : b.key = submit.key} = {}
    <3> DEFINE new == [of |-> submit.of, key |-> submit.key]
    <3>1. /\ new.key = keeper.key /\ keeper.key \in Nat /\ keeper.key # 0 /\ new.of = submit.of
          /\ keeper.held
          /\ submit.of \in Input /\ (onPhone => new.of = keeper.of)
      BY <2>1 DEF KeyInv, FormShape
    <3>2. \A b \in booked : b.key \in 1 .. (keeper.key - 1) /\ b.key \in Nat
      BY <2>3, <3>1 DEF KeyInv, FormShape
    <3> HIDE DEF new
    <3>3. booked' = booked \cup {new}
      BY <2>3 DEF new
    <3>4. KeyInv'
      BY <1>5, <2>1, <3>1, <3>2, <3>3 DEF KeyInv
    <3>5. ASSUME NEW b \in booked', NEW c \in booked', b.key < c.key
          PROVE  b \in booked /\ (~onPhone => b.key \in told)
      <4>1. b # new /\ b.key < keeper.key
        BY <3>1, <3>2, <3>3, <3>5
      <4> QED BY <3>3, <4>1 DEF KeyInv
    <3>6. ASSUME NEW b \in booked', NEW c \in booked', onPhone, b.of = c.of, b.key < c.key
          PROVE  b.key + 1 < c.key
      <4>1. CASE c \in booked
        BY <3>5, <3>6, <4>1 DEF RetryBooksOnce
      <4>2. CASE c = new
        BY <3>1, <3>2, <3>5, <3>6, <4>2 DEF KeyInv
      <4> QED BY <3>3, <4>1, <4>2
    <3>7. FormShape'
      BY <1>5, <2>1, <3>1, <3>3 DEF FormShape, new
    <3> QED BY <1>5, <2>1, <3>4, <3>5, <3>6, <3>7 DEF RetryBooksOnce
  <2> QED BY <1>5, <2>2, <2>3 DEF ServerBooks
<1>6. CASE (SubmitLost \/ NotBooked) /\ onPhone' = onPhone
  <2>1. /\ keeper' = keeper /\ booked' = booked /\ input' = input /\ asked' = asked
        /\ told' = told
        /\ \/ submit' = NoSubmit
           \/ submit.pc # "idle" /\ submit' = [submit EXCEPT !.pc = "answered", !.result = "lost"]
    BY <1>6 DEF SubmitLost, NotBooked, Answers, quoteVars, KeyInv, FormShape
  <2>2. CASE submit' = NoSubmit
    BY <1>6, <2>1, <2>2 DEF FormShape, KeyInv, RetryBooksOnce, NoSubmit
  <2>3. CASE submit.pc # "idle" /\ submit' = [submit EXCEPT !.pc = "answered", !.result = "lost"]
    <3>1. /\ submit' \in [pc : {"idle", "sent", "answered"}, of : Input \cup {None}, key : Nat,
                          result : {"ok", "refused", "lost"}]
          /\ submit'.pc = "answered" /\ submit'.of = submit.of /\ submit'.key = submit.key
      BY <2>3 DEF FormShape
    <3> QED BY <1>6, <2>1, <2>3, <3>1 DEF FormShape, KeyInv, RetryBooksOnce
  <2> QED BY <2>1, <2>2, <2>3
<1>7. CASE Booked /\ onPhone' = onPhone
  <2>1. /\ submit' = NoSubmit /\ told' = told \cup {keeper.key} /\ keeper.held /\ keeper.key # 0
        /\ keeper' = IF onPhone THEN keeper ELSE [keeper EXCEPT !.held = FALSE]
        /\ booked' = booked /\ input' = input /\ asked' = asked
    BY <1>7 DEF Booked, KeyInv, quoteVars
  <2>2. /\ keeper' \in [of : Input \cup {None}, key : Nat, held : BOOLEAN]
        /\ keeper'.key = keeper.key /\ keeper'.of = keeper.of /\ keeper.key \in Nat
        /\ keeper'.held <=> onPhone
    BY <2>1 DEF FormShape
  <2>3. \A b \in booked : b.key \in 1 .. keeper.key /\ (~onPhone => b.key \in told')
    BY <2>1, <2>2 DEF KeyInv
  <2>4. KeyInv'
    BY <1>7, <2>1, <2>2, <2>3 DEF KeyInv, NoSubmit
  <2>5. FormShape'
    BY <1>7, <2>1, <2>2 DEF FormShape, NoSubmit
  <2> QED BY <1>7, <2>1, <2>4, <2>5 DEF RetryBooksOnce
<1> QED BY <1>1, <1>2, <1>3, <1>4, <1>5, <1>6, <1>7, FormSteps
        DEF FormNext, Edit, QuoteDue, QuoteAnswered, QuoteFails

\* A creation that is repeated goes out under the key of the first: the browser
\* books again only after it was answered with what it has booked, and a phone
\* books the same inputs twice only with a submission of others between, whatever
\* answers are lost and whatever is edited or pressed while the form is there.
THEOREM RetriesBookOnce == Spec => []RetryBooksOnce
<1>1. Init => FormInv
  BY InitForm
<1>2. FormInv /\ [Next]_vars => FormInv'
  BY NextForm
<1> QED BY <1>1, <1>2, PTL DEF Spec, FormInv

LEMMA NextQuote ==
  ASSUME FormInv, QuoteInv, [Next]_vars
  PROVE  QuoteInv'
<1> SUFFICES ASSUME onPhone' PROVE QuoteInv'
  BY DEF QuoteInv, QuoteFitsInputs
<1>1. asked \subseteq [of : Input, live : BOOLEAN]
  BY DEF FormInv, FormShape
<1>2. CASE UNCHANGED <<onPhone, input, quoteVars>>
  BY <1>2 DEF QuoteInv, QuoteFitsInputs, quoteVars
<1>3. CASE FormLeft
  BY <1>3 DEF FormLeft, QuoteInv, QuoteFitsInputs
<1>4. ASSUME NEW i, Edit(i), onPhone PROVE QuoteInv'
  BY <1>1, <1>4 DEF Edit, Superseded, QuoteInv, QuoteFitsInputs
<1>5. CASE QuoteDue /\ onPhone
  <2>1. /\ input' = input
        /\ \/ input = None /\ quote' = None /\ asked' = asked
           \/ input # None /\ asked' = asked \cup {[of |-> input, live |-> TRUE]}
    BY <1>5 DEF QuoteDue
  <2>2. CASE input = None /\ quote' = None /\ asked' = asked
    BY <1>5, <2>1, <2>2 DEF QuoteInv, QuoteFitsInputs
  <2>3. CASE asked' = asked \cup {[of |-> input, live |-> TRUE]}
    <3>1. \E q \in asked' : q.live
      <4>1. [of |-> input, live |-> TRUE] \in asked'
        BY <2>3
      <4> QED BY <4>1
    <3> QED BY <1>5, <2>1, <2>3, <3>1 DEF QuoteInv, QuoteFitsInputs
  <2> QED BY <2>1, <2>2, <2>3
<1>6. ASSUME NEW q \in asked, QuoteAnswered(q) \/ QuoteFails(q), onPhone PROVE QuoteInv'
  BY <1>6 DEF QuoteAnswered, QuoteFails, QuoteInv, QuoteFitsInputs
<1> QED BY <1>2, <1>3, <1>4, <1>5, <1>6, FormSteps
        DEF FormNext, formVars, Confirm, ServerBooks, SubmitLost, NotBooked, Booked

\* The price on the phone is of what the form holds, in whatever order the
\* answers of overlapping requests come.
THEOREM QuotesFit == Spec => []QuoteFitsInputs
<1>1. Init => FormInv /\ QuoteInv
  BY InitForm
<1>2. FormInv /\ QuoteInv /\ [Next]_vars => (FormInv /\ QuoteInv)'
  BY NextForm, NextQuote
<1> QED BY <1>1, <1>2, PTL DEF Spec, QuoteInv
-----------------------------------------------------------------------------
(* ------------------------------ the checkout ---------------------------- *)

\* While no intent was overtaken one at most is under way, for a booking that
\* awaits its payment, and one payment at most is active or paid.
Unraced ==
  /\ \A j, k \in Key : Underway(j) /\ Underway(k) => j = k
  /\ \A j, k \in Key : payment[j] \in {"active", "paid"} /\ payment[k] \in {"active", "paid"} => j = k
  /\ \A k \in Key : /\ Underway(k) => status = "PAYMENT_PENDING"
                    /\ payment[k] = "paid" => status \notin UnpaidStatuses
                    /\ opening[k] = "checked" => NoneActive

\* A booking is where a payment leads because of one, or of operations.
MoneyInv ==
  /\ status \in Statuses /\ payment \in [Key -> {"none", "active", "failed", "paid"}]
  /\ opening \in [Key -> {"no", "loaded", "checked"}] /\ raced \in BOOLEAN
  /\ collected \subseteq Key /\ overridden \in BOOLEAN
  /\ \A k \in collected : payment[k] \in {"active", "paid"} /\ k \notin declined
  /\ \A k \in Key : /\ payment[k] = "paid" => k \in collected
                    /\ opening[k] = "checked" => payment[k] = "none"
  /\ status \in Road => overridden \/ \E k \in Key : payment[k] = "paid"
  /\ raced \/ Unraced

\* What the page has seen, or has on its way, was so.
ViewInv ==
  /\ checks \in [Check -> [pc : {"idle", "sent", "served"}, seen : Statuses \cup {NoView},
                           timed : BOOLEAN]]
  /\ \A c \in Check : /\ checks[c].pc = "served" => checks[c].seen \in Statuses
                      /\ checks[c].seen \in Road => collected # {} \/ overridden
  /\ onPhone => view \in PhoneStatuses \cup {NoView}
  /\ ConfirmedIsPaid

\* What an edge leads to is a status.
LEMMA Edges ==
  ASSUME NEW s \in Statuses, NEW to, CanTransition(s, to)
  PROVE  to \in Statuses
<1> USE DEF CanTransition, transitions, Statuses, UnpaidStatuses, ActiveStatuses,
            ClosedStatuses, CancelledStatuses
<1>1. CASE s \in UnpaidStatuses
  BY <1>1
<1>2. CASE s \in ActiveStatuses
  BY <1>2
<1>3. CASE s \in ClosedStatuses \ {"REFUND_PENDING", "REFUNDED"}
  BY <1>3
<1>4. CASE s \in {"REFUND_PENDING", "REFUNDED"}
  BY <1>4
<1> QED BY <1>1, <1>2, <1>3, <1>4

\* Nothing leads back from a payment.
LEMMA PaidEdges ==
  ASSUME NEW s \in Statuses \ UnpaidStatuses, NEW to \in transitions[s]
  PROVE  to \notin UnpaidStatuses
<1> USE DEF transitions, Statuses, UnpaidStatuses, ActiveStatuses, ClosedStatuses, CancelledStatuses
<1>1. CASE s \in ActiveStatuses
  BY <1>1
<1>2. CASE s \in ClosedStatuses
  BY <1>2
<1> QED BY <1>1, <1>2

LEMMA ShownFacts ==
  ASSUME NEW s \in Statuses
  PROVE  /\ Shows(s) # NoView
         /\ onPhone => Shows(s) \in PhoneStatuses
         /\ onPhone /\ Shows(s) # "PAYMENT_PENDING" => s \in Road
         /\ ~onPhone /\ Shows(s) = "CONFIRMED" => s \in Road
<1>1. PhoneStatuses \subseteq Statuses /\ PhoneStatuses \ {"PAYMENT_PENDING"} \subseteq Road
      /\ "PAYMENT_PENDING" \in PhoneStatuses /\ "CONFIRMED" \in Road
  BY DEF PhoneStatuses, Statuses, UnpaidStatuses, ActiveStatuses, ClosedStatuses, Road
<1> QED BY <1>1, NoViewIsNoStatus DEF Shows, PhoneShows

LEMMA CheckoutSteps ==
  ASSUME [Next]_vars
  PROVE  /\ onPhone' = onPhone
         /\ \/ CheckoutNext
            \/ UNCHANGED checkoutVars
<1>1. FormNext => onPhone' = onPhone
  BY DEF FormNext, clientVars, Edit, QuoteDue, QuoteAnswered, QuoteFails, Confirm, ServerBooks,
         SubmitLost, NotBooked, Booked
<1> QED BY <1>1 DEF Next, vars, clientVars, OnForm, FormLeft, OnCheckout, OnPage

LEMMA InitCheckout == Init => MoneyInv /\ ViewInv
<1> SUFFICES ASSUME Init PROVE MoneyInv /\ ViewInv
  OBVIOUS
<1>1. "PAYMENT_PENDING" \in Statuses /\ "PAYMENT_PENDING" \notin Road /\ NoView \notin Road
      /\ "CONFIRMED" \in Statuses
  BY NoViewIsNoStatus DEF Statuses, UnpaidStatuses, ActiveStatuses, ClosedStatuses, Road
<1> QED BY <1>1, NoViewIsNoStatus
        DEF Init, CheckoutInit, MoneyInv, Unraced, Underway, ViewInv, NoCheck, ConfirmedIsPaid, SaysConfirmed

\* A request is taken for a booking that awaits its payment; another that is
\* under way was overtaken.
LEMMA LoadFacts ==
  ASSUME MoneyInv, NEW k \in Key, Loads(k),
         UNCHANGED <<status, payment, collected, declined, overridden>>
  PROVE  MoneyInv'
<1>1. /\ status = "PAYMENT_PENDING" /\ opening' \in [Key -> {"no", "loaded", "checked"}]
      /\ raced' \in BOOLEAN
  BY DEF Loads, MoneyInv
<1>2. \A j \in Key : opening'[j] = IF j = k /\ opening[k] = "no" THEN "loaded" ELSE opening[j]
  BY DEF Loads, MoneyInv
<1>3. ASSUME ~raced' PROVE Unraced'
  <2>1. ~raced /\ Unraced /\ \A j \in Key : j # k => ~Underway(j)
    BY <1>3 DEF Loads, MoneyInv
  <2>2. \A j \in Key : /\ opening'[j] # "no" => j = k
                       /\ opening'[j] = "checked" => opening[j] = "checked"
    BY <1>2, <2>1 DEF Underway
  <2> QED BY <1>1, <2>1, <2>2 DEF Unraced, Underway, NoneActive
<1> QED BY <1>1, <1>2, <1>3 DEF MoneyInv

\* It becomes a payment when it has seen none; nothing keeps what it has seen
\* from being over but that nobody was there.
LEMMA IntentFacts ==
  ASSUME MoneyInv, NEW k \in Key, IntentChecks(k) \/ IntentInserts(k)
  PROVE  MoneyInv'
<1>1. UNCHANGED <<status, collected, declined, raced, overridden>>
  BY DEF IntentChecks, IntentInserts
<1>2. CASE IntentChecks(k)
  <2>1. PICK new \in {"no", "checked"} :
          /\ opening[k] = "loaded" /\ opening' = [opening EXCEPT ![k] = new] /\ payment' = payment
          /\ new = "checked" => payment[k] = "none" /\ NoneActive
    BY <1>2 DEF IntentChecks
  <2>2. /\ opening' \in [Key -> {"no", "loaded", "checked"}]
        /\ \A j \in Key : opening'[j] = IF j = k THEN new ELSE opening[j]
    BY <2>1 DEF MoneyInv
  <2>3. ASSUME Unraced PROVE Unraced'
    <3>1. \A j \in Key : Underway(j)' => Underway(j)
      BY <2>1, <2>2 DEF Underway
    <3> QED BY <1>1, <2>1, <2>2, <2>3, <3>1 DEF Unraced, NoneActive
  <2> QED BY <1>1, <2>1, <2>2, <2>3 DEF MoneyInv
<1>3. CASE IntentInserts(k)
  <2>1. /\ opening[k] = "checked" /\ opening' = [opening EXCEPT ![k] = "no"]
        /\ payment' = [payment EXCEPT ![k] = "active"] /\ payment[k] = "none"
    BY <1>3 DEF IntentInserts, MoneyInv
  <2>2. /\ opening' \in [Key -> {"no", "loaded", "checked"}]
        /\ payment' \in [Key -> {"none", "active", "failed", "paid"}]
        /\ \A j \in Key : /\ opening'[j] = IF j = k THEN "no" ELSE opening[j]
                          /\ payment'[j] = IF j = k THEN "active" ELSE payment[j]
    BY <2>1 DEF MoneyInv
  <2>3. ASSUME Unraced PROVE Unraced'
    <3>1. Underway(k) /\ status = "PAYMENT_PENDING" /\ status \in UnpaidStatuses /\ NoneActive
      BY <2>1, <2>3 DEF Unraced, Underway, UnpaidStatuses
    <3>2. \A j \in Key : payment[j] \notin {"active", "paid"}
      BY <2>3, <3>1 DEF Unraced, NoneActive
    <3>3. \A j \in Key : ~Underway(j)' /\ opening'[j] = "no"
      <4>1. \A j \in Key : j # k => opening[j] = "no"
        BY <2>3, <3>1 DEF Unraced, Underway
      <4> QED BY <2>2, <4>1 DEF Underway
    <3> QED BY <1>1, <2>2, <3>2, <3>3 DEF Unraced
  <2>4. k \notin collected
    BY <2>1 DEF MoneyInv
  <2> QED BY <1>1, <2>1, <2>2, <2>3, <2>4 DEF MoneyInv
<1> QED BY <1>2, <1>3

\* An override, or a payment, ends what the requests under way rest on.
LEMMA MovedFacts ==
  ASSUME MoneyInv, NEW to \in transitions[status], status' = to, UNCHANGED opening,
         raced' = (raced \/ \E j \in Key : Underway(j)), ~raced'
  PROVE  /\ status' \in Statuses /\ Unraced /\ \A j \in Key : ~Underway(j)' /\ opening'[j] = "no"
         /\ \A j \in Key : payment[j] = "paid" => status' \notin UnpaidStatuses
<1>1. Unraced /\ \A j \in Key : ~Underway(j)
  BY DEF MoneyInv
<1>2. \A j \in Key : ~Underway(j)' /\ opening'[j] = "no"
  BY <1>1 DEF Underway
<1>3. status' \in Statuses
  BY Edges DEF MoneyInv, CanTransition
<1>4. ASSUME NEW j \in Key, payment[j] = "paid" PROVE status' \notin UnpaidStatuses
  <2>1. status \in Statuses \ UnpaidStatuses
    BY <1>1, <1>4 DEF Unraced, MoneyInv
  <2> QED BY <2>1, PaidEdges
<1> QED BY <1>1, <1>2, <1>3, <1>4

LEMMA NextMoney ==
  ASSUME MoneyInv, [Next]_vars
  PROVE  MoneyInv' /\ collected \subseteq collected' /\ (overridden => overridden')
<1> DEFINE Goal == MoneyInv' /\ collected \subseteq collected' /\ (overridden => overridden')
<1>1. CASE UNCHANGED <<status, payment, opening, collected, declined, raced, overridden>>
  BY <1>1 DEF MoneyInv, Unraced, Underway, NoneActive
<1>2. CASE Elsewhere
  <2>1. PICK to \in transitions[status] :
          /\ status' = to
          /\ overridden' = (overridden \/ (to \in Road /\ \A k \in Key : payment[k] # "paid"))
    BY <1>2 DEF Elsewhere
  <2>2. /\ UNCHANGED <<payment, opening, collected, declined>>
        /\ raced' = (raced \/ \E j \in Key : Underway(j))
    BY <1>2 DEF Elsewhere
  <2>3. status' \in Statuses
    BY <2>1, Edges DEF MoneyInv, CanTransition
  <2>4. ASSUME ~raced' PROVE Unraced'
    BY <2>1, <2>2, <2>4, MovedFacts DEF Unraced
  <2>5. raced' \in BOOLEAN /\ overridden' \in BOOLEAN
    BY <2>1, <2>2 DEF MoneyInv
  <2> QED BY <2>1, <2>2, <2>3, <2>4, <2>5 DEF MoneyInv
<1>3. CASE OtherDevice
  <2>1. minted' \in Key => Goal
    BY <1>3, LoadFacts DEF OtherDevice
  <2>2. CASE minted' \notin Key
    <3>1. /\ UNCHANGED <<status, payment, opening, collected, declined, overridden>>
          /\ raced' \in BOOLEAN /\ (raced => raced')
      BY <1>3, <2>2 DEF OtherDevice, Loads, MoneyInv
    <3> QED BY <3>1 DEF MoneyInv, Unraced, Underway, NoneActive
  <2> QED BY <2>1, <2>2
<1>4. CASE IntentLoads
  <2>1. CASE UNCHANGED <<opening, raced>>
    BY <1>1, <1>4, <2>1 DEF IntentLoads
  <2>2. CASE Loads(section.key)
    <3>1. section.key \in Key => Goal
      BY <1>4, <2>2, LoadFacts DEF IntentLoads
    <3>2. CASE section.key \notin Key
      <4>1. /\ UNCHANGED <<status, payment, opening, collected, declined, overridden>>
            /\ raced' \in BOOLEAN /\ (raced => raced')
        BY <1>4, <2>2, <3>2 DEF IntentLoads, Loads, MoneyInv
      <4> QED BY <4>1 DEF MoneyInv, Unraced, Underway, NoneActive
    <3> QED BY <3>1, <3>2
  <2> QED BY <1>4, <2>1, <2>2 DEF IntentLoads
<1>5. ASSUME NEW k \in Key, IntentChecks(k) \/ IntentInserts(k) PROVE Goal
  BY <1>5, IntentFacts DEF IntentChecks, IntentInserts
<1>6. ASSUME NEW k \in Key, Collect(k) PROVE Goal
  BY <1>6 DEF Collect, MoneyInv, Unraced, Underway, NoneActive
<1>7. ASSUME NEW k \in Key, Decline(k) PROVE Goal
  BY <1>7 DEF Decline, MoneyInv, Unraced, Underway, NoneActive
<1>8. ASSUME NEW k \in Key, Webhook(k) PROVE Goal
  <2>1. /\ payment[k] = "active" /\ UNCHANGED <<opening, collected, declined, overridden>>
        /\ CanTransition(status, status')
        /\ raced' = (raced \/ \E j \in Key : Underway(j))
        /\ \/ k \in collected /\ status' = "CONFIRMED" /\ payment' = [payment EXCEPT ![k] = "paid"]
           \/ k \notin collected /\ status' = "PAYMENT_FAILED" /\ payment' = [payment EXCEPT ![k] = "failed"]
    BY <1>8 DEF Webhook
  <2>2. status' \in Statuses
    BY <2>1, Edges DEF MoneyInv
  <2>3. "PAYMENT_FAILED" \notin Road /\ "CONFIRMED" \notin UnpaidStatuses
    BY DEF Road, ActiveStatuses, UnpaidStatuses
  <2>4. PICK new \in {"paid", "failed"} :
          /\ payment' \in [Key -> {"none", "active", "failed", "paid"}]
          /\ \A j \in Key : payment'[j] = IF j = k THEN new ELSE payment[j]
          /\ IF k \in collected THEN new = "paid" /\ status' = "CONFIRMED"
             ELSE new = "failed" /\ status' = "PAYMENT_FAILED"
    BY <2>1 DEF MoneyInv
  <2>5. ASSUME ~raced' PROVE Unraced'
    <3>1. Unraced /\ \A j \in Key : ~Underway(j)' /\ opening'[j] = "no"
      BY <2>1, <2>5, MovedFacts DEF CanTransition
    <3>2. \A j \in Key : j # k => payment'[j] \notin {"active", "paid"}
      BY <2>1, <2>4, <3>1 DEF Unraced
    <3> QED BY <2>3, <2>4, <3>1, <3>2 DEF Unraced
  <2> QED BY <2>1, <2>2, <2>3, <2>4, <2>5 DEF MoneyInv
<1> QED BY <1>1, <1>2, <1>3, <1>4, <1>5, <1>6, <1>7, <1>8, CheckoutSteps
        DEF CheckoutNext, PaidNext, checkoutVars, rowVars, CheckoutOpened, CheckoutLeft, PressPay,
            IntentSettles, BackFromProvider, Tick, CheckNow, CheckServed, CheckAnswered,
            IntentLost, CheckLost

\* However many visits, keys and devices, and whatever is declined, overridden or
\* moved meanwhile, the money of a booking is taken twice only when an intent was
\* overtaken between its read of the booking and its insert.
THEOREM ChargedOnce == Spec => []OneChargeUnlessRaced
<1>1. Init => MoneyInv
  BY InitCheckout
<1>2. MoneyInv /\ [Next]_vars => MoneyInv'
  BY NextMoney
<1>3. MoneyInv => OneChargeUnlessRaced
  <2> SUFFICES ASSUME MoneyInv, ~raced PROVE \A j, k \in collected : j = k
    BY AtMostOne DEF OneChargeUnlessRaced
  <2> QED BY DEF MoneyInv, Unraced
<1> QED BY <1>1, <1>2, <1>3, PTL DEF Spec

LEMMA NextView ==
  ASSUME MoneyInv, ViewInv, [Next]_vars
  PROVE  ViewInv'
<1>1. /\ collected \subseteq collected' /\ onPhone' = onPhone /\ status \in Statuses
      /\ overridden => overridden'
  BY NextMoney, CheckoutSteps DEF MoneyInv
<1>2. CASE UNCHANGED <<view, checks>>
  BY <1>1, <1>2 DEF ViewInv, ConfirmedIsPaid, SaysConfirmed
<1>3. ASSUME checks' = checks, view' = NoView \/ view' = Shows(status) PROVE ViewInv'
  <2>1. view' = Shows(status) /\ status \in Road => collected # {} \/ overridden
    BY DEF MoneyInv
  <2> QED BY <1>1, <1>3, <2>1, ShownFacts, NoViewIsNoStatus
          DEF ViewInv, ConfirmedIsPaid, SaysConfirmed, Statuses, ActiveStatuses
\* The checks: one begins, is served, answered or given up.
<1>4. ASSUME NEW c \in Check, NEW new \in [pc : {"idle", "sent", "served"}, seen : Statuses \cup {NoView},
                                            timed : BOOLEAN],
             checks' = [checks EXCEPT ![c] = new],
             new.seen = NoView \/ new.seen = status, new.pc = "served" => new.seen = status
      PROVE  /\ checks' \in [Check -> [pc : {"idle", "sent", "served"}, seen : Statuses \cup {NoView},
                                       timed : BOOLEAN]]
             /\ \A d \in Check : /\ checks'[d].pc = "served" => checks'[d].seen \in Statuses
                                 /\ checks'[d].seen \in Road => collected' # {} \/ overridden'
  <2>1. new.seen \in Road => collected # {} \/ overridden
    BY <1>4, NoViewIsNoStatus DEF MoneyInv, Road, Statuses, ActiveStatuses, ClosedStatuses
  <2>2. \A d \in Check : checks'[d] = IF d = c THEN new ELSE checks[d]
    BY <1>4 DEF ViewInv
  <2>3. \A d \in Check : /\ checks'[d].pc = "served" => checks'[d].seen \in Statuses
                         /\ checks'[d].seen \in Road => collected' # {} \/ overridden'
    BY <1>1, <1>4, <2>1, <2>2 DEF ViewInv
  <2> QED BY <1>4, <2>3 DEF ViewInv
<1>5. NoCheck \in [pc : {"idle", "sent", "served"}, seen : Statuses \cup {NoView}, timed : BOOLEAN]
  BY DEF NoCheck
<1>6. ASSUME NEW c \in Check, Tick(c) \/ CheckNow(c) PROVE ViewInv'
  <2>1. PICK timed \in BOOLEAN : checks' = [checks EXCEPT ![c] = [pc |-> "sent", seen |-> NoView, timed |-> timed]]
    BY <1>6 DEF Tick, CheckNow, Ask
  <2>2. view' = view
    BY <1>6 DEF Tick, CheckNow
  <2> QED BY <1>1, <1>4, <2>1, <2>2 DEF ViewInv, ConfirmedIsPaid, SaysConfirmed
<1>7. ASSUME NEW c \in Check, CheckServed(c) PROVE ViewInv'
  <2> DEFINE new == [checks[c] EXCEPT !.pc = "served", !.seen = status]
  <2>1. checks[c] \in [pc : {"idle", "sent", "served"}, seen : Statuses \cup {NoView}, timed : BOOLEAN]
    BY DEF ViewInv
  <2>2. /\ new \in [pc : {"idle", "sent", "served"}, seen : Statuses \cup {NoView}, timed : BOOLEAN]
        /\ new.pc = "served" /\ new.seen = status
    BY <1>1, <2>1
  <2>3. checks' = [checks EXCEPT ![c] = new] /\ view' = view
    BY <1>7 DEF CheckServed
  <2> HIDE DEF new
  <2> QED BY <1>1, <1>4, <2>2, <2>3 DEF ViewInv, ConfirmedIsPaid, SaysConfirmed
<1>8. ASSUME NEW c \in Check, CheckLost(c) PROVE ViewInv'
  BY <1>1, <1>4, <1>5, <1>8 DEF CheckLost, NoCheck, ViewInv, ConfirmedIsPaid, SaysConfirmed
<1>9. ASSUME NEW c \in Check, CheckAnswered(c) PROVE ViewInv'
  <2>1. /\ view' = view \/ view' = Shows(checks[c].seen)
        /\ checks[c].seen \in Statuses /\ checks' = [checks EXCEPT ![c] = NoCheck]
    BY <1>9 DEF CheckAnswered, Show, ViewInv
  <2>2. view' # NoView /\ view' # view => (checks[c].seen \in Road => collected # {} \/ overridden)
    BY DEF ViewInv
  <2> QED BY <1>1, <1>4, <1>5, <2>1, <2>2, ShownFacts
          DEF NoCheck, ViewInv, ConfirmedIsPaid, SaysConfirmed
<1>10. CASE CheckoutLeft
  <2>1. view' = NoView /\ checks' = [d \in Check |-> NoCheck]
    BY <1>10 DEF CheckoutLeft
  <2>2. NoView # "CONFIRMED" /\ NoView \notin Road
    BY NoViewIsNoStatus DEF Statuses, Road, ActiveStatuses, ClosedStatuses
  <2> QED BY <1>1, <1>5, <2>1, <2>2 DEF NoCheck, ViewInv, ConfirmedIsPaid, SaysConfirmed
<1>11. CASE CheckoutOpened
  BY <1>3, <1>11 DEF CheckoutOpened, Show
<1>12. CASE CheckoutNext
  BY <1>2, <1>6, <1>7, <1>8, <1>9, <1>10, <1>11, <1>12
     DEF CheckoutNext, PaidNext, Elsewhere, OtherDevice, Collect, Decline, Webhook, PressPay,
         deskVars, IntentLoads, IntentChecks, IntentInserts, IntentSettles, BackFromProvider,
         IntentLost
<1> QED BY <1>2, <1>12, CheckoutSteps DEF checkoutVars, deskVars

\* "Payment confirmed" is said of bookings that were paid, or that operations took
\* where a payment leads, also where the phone guesses and where an answer is late.
THEOREM ConfirmedWasPaid == Spec => []ConfirmedIsPaid
<1>1. Init => MoneyInv /\ ViewInv
  BY InitCheckout
<1>2. MoneyInv /\ ViewInv /\ [Next]_vars => (MoneyInv /\ ViewInv)'
  BY NextMoney, NextView
<1> QED BY <1>1, <1>2, PTL DEF Spec, ViewInv
-----------------------------------------------------------------------------
(* ------------------------------- the pages ------------------------------ *)

Ends(x) == {x.ok, x.conflict, x.failed}
Effects(x) == {x.requests[i].effect : i \in DOMAIN x.requests}

\* What the properties rest on.  Of a read: where the last request counts, a
\* failed one does not leave what was there; on a careful page every answer is
\* taken, a failure is an error, and where there is a Retry no button is.
Reads(r, v) ==
  /\ r.order = "last" => r.fails \in {"error", "silently", "empties"}
  /\ r.asks = {} => ~v.retry
  /\ r.asks \subseteq {"open"} /\ "loading" \notin v.shownIn /\ (v.retry => r.clears) =>
       r.order = "any" /\ r.fails = "error" /\ (v.retry => "error" \notin v.shownIn)

\* Of a button's handler: what is written back is on a button that waits for what
\* is read; a page that reads nothing does not read after it either; on a page
\* that reads as above, the answer of what changed something is shown, or read
\* again.
Handles(p, r, v, b, x) ==
  /\ Len(x.requests) \in {1, 2}
  /\ p # "content" /\ "save" \in Effects(x) => v.buttons[b].on # "form"
  /\ r.asks = {} => Ends(x) \subseteq {"stays", "done"}
  /\ r.asks \subseteq {"open"} /\ "loading" \notin v.shownIn /\ v.buttons[b].flag \notin {"row", "never"} =>
       /\ "refresh" \notin Ends(x)
       /\ x.conflict # "local" /\ x.failed # "local"
       /\ x.ok = "local" => "none" \notin Effects(x)
       /\ x.ok = "stays" => Effects(x) = {"none"} \/ r.asks = {}

Parts(p, w, v) ==
  Reads(w.reads, v) /\ \A b \in DOMAIN w.acts : Handles(p, w.reads, v, b, w.acts[b])

LEMMA Sending ==
  ASSUME NEW e, NEW x, NEW f
  PROVE  Request(e, x, f).effect = e
  BY DEF Request

\* A handler with one request.
LEMMA One ==
  ASSUME NEW e, NEW y, NEW f, NEW x, x.requests = <<Request(e, y, f)>>
  PROVE  Len(x.requests) \in {1, 2} /\ Effects(x) = {e}
<1>1. DOMAIN x.requests = {1} /\ Len(x.requests) = 1 /\ x.requests[1] = Request(e, y, f)
  OBVIOUS
<1> QED BY <1>1, Sending DEF Effects

LEMMA Two ==
  ASSUME NEW e, NEW y, NEW f, NEW g, NEW z, NEW h, NEW x,
         x.requests = <<Request(e, y, f), Request(g, z, h)>>
  PROVE  Len(x.requests) \in {1, 2} /\ Effects(x) = {e, g}
<1>1. /\ DOMAIN x.requests = {1, 2} /\ Len(x.requests) = 2
      /\ x.requests[1] = Request(e, y, f) /\ x.requests[2] = Request(g, z, h)
  OBVIOUS
<1> QED BY <1>1, Sending DEF Effects

LEMMA Plain ==
  ASSUME NEW p, NEW r, NEW v, NEW b, NEW e, NEW y, NEW f, NEW ok,
         p # "content" /\ e = "save" => v.buttons[b].on # "form",
         r.asks = {} => ok \in {"stays", "done"},
         r.asks \subseteq {"open"} /\ "loading" \notin v.shownIn /\ v.buttons[b].flag \notin {"row", "never"} =>
            /\ ok # "refresh"
            /\ ok = "local" => e # "none"
            /\ ok = "stays" => e = "none" \/ r.asks = {}
  PROVE  Handles(p, r, v, b, Act(<<Request(e, y, f)>>, ok))
<1> DEFINE x == Act(<<Request(e, y, f)>>, ok)
<1>1. x.requests = <<Request(e, y, f)>> /\ x.ok = ok /\ x.conflict = "stays" /\ x.failed = "stays"
  BY DEF Act
<1> HIDE DEF x
<1>2. /\ Len(x.requests) \in {1, 2} /\ Ends(x) = {ok, "stays"}
      /\ Effects(x) = {e}
  BY <1>1, One DEF Ends
<1>3. Handles(p, r, v, b, x)
  BY <1>1, <1>2 DEF Handles
<1> QED BY <1>3 DEF x

\* A form on a page that reads nothing.
LEMMA Form ==
  ASSUME NEW p, NEW v, NEW b, NEW e, NEW y, NEW f, NEW ok \in {"stays", "done"}, e # "save"
  PROVE  Handles(p, ReadsNothing, v, b, Act(<<Request(e, y, f)>>, ok))
<1>1. ReadsNothing.asks = {}
  BY DEF ReadsNothing, ReadsQuietly, ReadsOnce
<1> QED BY <1>1, Plain

\* A button of a list with a filter.
LEMMA Listed ==
  ASSUME NEW p, NEW v, NEW b, NEW e, NEW y, NEW f, NEW ok, e # "save"
  PROVE  Handles(p, FilteredBy(ReadsQuietly), v, b, Act(<<Request(e, y, f)>>, ok))
<1>1. "filter" \in FilteredBy(ReadsQuietly).asks
  BY DEF FilteredBy, ReadsQuietly, ReadsOnce
<1> QED BY <1>1, Plain

\* The parts of every page are such parts.
LEMMA Tourists ==
  \A p \in DOMAIN TouristWork : Parts(p, TouristWork[p], TouristShows[p])
<1> USE DEF Parts, Reads, ReadsOnce, ReadsQuietly, ReadsNothing, FilteredBy, CarriesOn,
            NoActs, Button, WhenReady, Always, Renders
<1>1. Parts("webSearch", WebSearchWork, WebSearchShows)
  BY DEF WebSearchWork, WebSearchShows
<1>2. Parts("webDetail", WebDetailWork, WebDetailShows)
  BY DEF WebDetailWork, WebDetailShows
<1>3. Parts("livePanel", LivePanelWork, LivePanelShows)
  BY DEF LivePanelWork, LivePanelShows, WebSocketAsks
<1>4. Parts("webReview", WebReviewWork, WebReviewShows)
  <2> DEFINE x == WebReviewWork.acts["submit"]
  <2>1. /\ WebReviewWork.reads = ReadsNothing /\ DOMAIN WebReviewWork.acts = {"submit"}
        /\ x.requests = <<Request("move", CreateReview, {"rating", "body", "tags"})>>
        /\ x.ok = "done" /\ Ends(x) = {"done", "stays"}
    BY DEF WebReviewWork, Act, Ends
  <2> HIDE DEF x
  <2>2. Handles("webReview", ReadsNothing, WebReviewShows, "submit", x)
    BY <2>1, One DEF WebReviewShows, Handles, Ends
  <2> QED BY <2>1, <2>2 DEF WebReviewShows, x
<1>5. Parts("webSos", WebSosWork, WebSosShows)
  <2>1. Handles("webSos", ReadsNothing, WebSosShows, "trigger", WebSosWork.acts["trigger"])
    <3> HIDE DEF ReadsNothing
    <3> QED BY Form DEF WebSosWork
  <2>2. WebSosWork.reads = ReadsNothing /\ DOMAIN WebSosWork.acts = {"trigger"}
    BY DEF WebSosWork
  <2> QED BY <2>1, <2>2 DEF WebSosShows
<1>6. Parts("receipt", ReceiptWork, ReceiptShows)
  BY DEF ReceiptWork, ReceiptShows
<1>7. Parts("webBookings", WebBookingsWork, WebBookingsShows)
  BY DEF WebBookingsWork, WebBookingsShows
<1>8. Parts("webReviews", WebReviewsWork, WebReviewsShows)
  BY DEF WebReviewsWork, WebReviewsShows
<1>9. Parts("webProfile", WebProfileWork, WebProfileShows)
  BY Plain DEF WebProfileWork, WebProfileShows
<1>10. Parts("webDeletion", WebDeletionWork, WebDeletionShows)
  <2> DEFINE x == WebDeletionWork.acts["delete"]
  <2>1. /\ WebDeletionWork.reads = ReadsQuietly /\ DOMAIN WebDeletionWork.acts = {"delete"}
        /\ x.requests = <<Request("move", NoBody, {})>>
        /\ x.ok = "done" /\ Ends(x) = {"done", "refresh"}
    BY DEF WebDeletionWork, Act, Ends
  <2> HIDE DEF x
  <2>2. Handles("webDeletion", ReadsQuietly, WebDeletionShows, "delete", x)
    BY <2>1, One DEF WebDeletionShows, Handles
  <2> QED BY <2>1, <2>2 DEF WebDeletionShows, x
<1>11. Parts("webRegister", WebRegisterWork, WebRegisterShows)
  <2>1. Handles("webRegister", ReadsNothing, WebRegisterShows, "submit", WebRegisterWork.acts["submit"])
    <3> HIDE DEF ReadsNothing
    <3> QED BY Form DEF WebRegisterWork
  <2>2. WebRegisterWork.reads = ReadsNothing /\ DOMAIN WebRegisterWork.acts = {"submit"}
    BY DEF WebRegisterWork
  <2> QED BY <2>1, <2>2 DEF WebRegisterShows
<1>12. Parts("forgot", ForgotWork, ForgotShows)
  <2>1. Handles("forgot", ReadsNothing, ForgotShows, "submit", ForgotWork.acts["submit"])
    <3> HIDE DEF ReadsNothing
    <3> QED BY Form DEF ForgotWork
  <2>2. ForgotWork.reads = ReadsNothing /\ DOMAIN ForgotWork.acts = {"submit"}
    BY DEF ForgotWork
  <2> QED BY <2>1, <2>2 DEF ForgotShows
<1>13. Parts("reset", ResetWork, ResetShows)
  <2>1. Handles("reset", ReadsNothing, ResetShows, "submit", ResetWork.acts["submit"])
    <3> HIDE DEF ReadsNothing
    <3> QED BY Form DEF ResetWork
  <2>2. ResetWork.reads = ReadsNothing /\ DOMAIN ResetWork.acts = {"submit"}
    BY DEF ResetWork
  <2> QED BY <2>1, <2>2 DEF ResetShows
<1>14. Parts("phoneSearch", PhoneSearchWork, PhoneSearchShows)
  BY DEF PhoneSearchWork, PhoneSearchShows
<1>15. Parts("phoneDetail", PhoneDetailWork, PhoneDetailShows)
  BY Plain DEF PhoneDetailWork, PhoneDetailShows
<1>16. Parts("phoneBookings", PhoneBookingsWork, PhoneBookingsShows)
  BY DEF PhoneBookingsWork, PhoneBookingsShows
<1>17. Parts("phoneProfile", PhoneProfileWork, PhoneProfileShows)
  BY Plain DEF PhoneProfileWork, PhoneProfileShows
<1>18. Parts("phoneGuide", PhoneGuideWork, PhoneGuideShows)
  BY DEF PhoneGuideWork, PhoneGuideShows
<1>19. Parts("phoneReviews", PhoneReviewsWork, PhoneReviewsShows)
  BY DEF PhoneReviewsWork, PhoneReviewsShows
<1>20. Parts("phoneReview", PhoneReviewWork, PhoneReviewShows)
  <2> DEFINE x == PhoneReviewWork.acts["submit"]
  <2>1. /\ PhoneReviewWork.reads = ReadsNothing /\ DOMAIN PhoneReviewWork.acts = {"submit"}
        /\ x.requests = <<Request("move", CreateReview, {"rating", "body", "tags"})>>
        /\ x.ok = "done" /\ Ends(x) = {"done", "stays"}
    BY DEF PhoneReviewWork, Act, Ends
  <2> HIDE DEF x
  <2>2. Handles("phoneReview", ReadsNothing, PhoneReviewShows, "submit", x)
    BY <2>1, One DEF PhoneReviewShows, Handles, Ends
  <2> QED BY <2>1, <2>2 DEF PhoneReviewShows, x
<1>21. Parts("phoneSos", PhoneSosWork, PhoneSosShows)
  <2>1. Handles("phoneSos", ReadsNothing, PhoneSosShows, "send", PhoneSosWork.acts["send"])
    <3> HIDE DEF ReadsNothing
    <3> QED BY Form DEF PhoneSosWork
  <2>2. PhoneSosWork.reads = ReadsNothing /\ DOMAIN PhoneSosWork.acts = {"send"}
    BY DEF PhoneSosWork
  <2> QED BY <2>1, <2>2 DEF PhoneSosShows
<1>22. Parts("privacy", PrivacyWork, PrivacyShows)
  <2> DEFINE x == PrivacyWork.acts["delete"]
  <2>1. /\ PrivacyWork.reads = ReadsQuietly /\ DOMAIN PrivacyWork.acts = {"export", "delete"}
        /\ x.requests = <<Request("move", NoBody, {})>>
        /\ x.ok = "done" /\ Ends(x) = {"done", "reload"}
        /\ PrivacyWork.acts["export"] = Act(<<Request("none", NoBody, {})>>, "stays")
    BY DEF PrivacyWork, Act, Ends
  <2> HIDE DEF x
  <2>2. Len(x.requests) \in {1, 2} /\ Effects(x) = {"move"}
    BY <2>1, One
  <2>3. Handles("privacy", ReadsQuietly, PrivacyShows, "delete", x)
    BY <2>1, <2>2 DEF Handles, Ends
  <2>4. Handles("privacy", ReadsQuietly, PrivacyShows, "export", PrivacyWork.acts["export"])
    BY <2>1, Plain DEF PrivacyWork
  <2> QED BY <2>1, <2>3, <2>4 DEF PrivacyShows, x
<1> HIDE DEF Parts
<1> QED
  BY <1>1, <1>2, <1>3, <1>4, <1>5, <1>6, <1>7, <1>8, <1>9, <1>10, <1>11, <1>12, <1>13,
     <1>14, <1>15, <1>16, <1>17, <1>18, <1>19, <1>20, <1>21, <1>22 DEF TouristWork,
     TouristShows

LEMMA Guides ==
  \A p \in DOMAIN GuideWork : Parts(p, GuideWork[p], GuideShows[p])
<1> USE DEF Parts, Reads, ReadsOnce, ReadsQuietly, ReadsNothing, FilteredBy, CarriesOn,
            NoActs, Button, WhenReady, Always, Renders
<1>1. Parts("dashboard", DashboardWork, DashboardShows)
  BY DEF DashboardWork, DashboardShows
<1>2. Parts("guideRegister", GuideRegisterWork, GuideRegisterShows)
  <2>1. Handles("guideRegister", ReadsNothing, GuideRegisterShows, "submit", GuideRegisterWork.acts["submit"])
    <3> HIDE DEF ReadsNothing
    <3> QED BY Form DEF GuideRegisterWork
  <2>2. GuideRegisterWork.reads = ReadsNothing /\ DOMAIN GuideRegisterWork.acts = {"submit"}
    BY DEF GuideRegisterWork
  <2> QED BY <2>1, <2>2 DEF GuideRegisterShows
<1>3. Parts("apply", ApplyWork, ApplyShows)
  <2> DEFINE x == ApplyWork.acts["submit"]
  <2>1. /\ ApplyWork.reads = ReadsNothing /\ DOMAIN ApplyWork.acts = {"submit"}
        /\ \E y, f, z, h : x.requests = <<Request("write", y, f), Request("write", z, h)>>
        /\ x.ok = "done" /\ Ends(x) = {"done", "stays"}
    BY DEF ApplyWork, Act, Ends
  <2> HIDE DEF x
  <2>2. Len(x.requests) \in {1, 2} /\ Effects(x) = {"write"}
    BY <2>1, Two
  <2>3. Handles("apply", ReadsNothing, ApplyShows, "submit", x)
    BY <2>1, <2>2 DEF Handles, Ends
  <2> QED BY <2>1, <2>3 DEF ApplyShows, x
<1>4. Parts("guideTours", GuideToursWork, GuideToursShows)
  BY DEF GuideToursWork, GuideToursShows
<1>5. Parts("verification", VerificationWork, UploadShows)
  <2> DEFINE x == VerificationWork.acts["upload"]
  <2>1. /\ VerificationWork.reads = ReadsOnce /\ DOMAIN VerificationWork.acts = {"upload"}
        /\ \E y, f, z, h : x.requests = <<Request("write", y, f), Request("write", z, h)>>
        /\ UploadShows.buttons["upload"].flag = "never"
    BY DEF VerificationWork, UploadShows, Act
  <2> HIDE DEF x
  <2>2. Len(x.requests) \in {1, 2} /\ Effects(x) = {"write"}
    BY <2>1, Two
  <2>3. Handles("verification", ReadsOnce, UploadShows, "upload", x)
    BY <2>1, <2>2 DEF Handles
  <2> QED BY <2>1, <2>3 DEF UploadShows, VerificationShows, x
<1>6. Parts("guideProfile", GuideProfileWork, GuideProfileShows)
  BY Plain DEF GuideProfileWork, GuideProfileShows
<1>7. Parts("guideTraining", GuideTrainingWork, GuideTrainingShows)
  BY Plain DEF GuideTrainingWork, GuideTrainingShows
<1>8. Parts("wallet", WalletWork, WalletShows)
  BY Plain DEF WalletWork, WalletShows
<1>9. Parts("guideDeletion", GuideDeletionWork, GuideDeletionShows)
  <2> DEFINE x == GuideDeletionWork.acts["delete"]
  <2>1. /\ GuideDeletionWork.reads = ReadsQuietly /\ DOMAIN GuideDeletionWork.acts = {"delete"}
        /\ x.requests = <<Request("move", NoBody, {})>>
        /\ x.ok = "done" /\ Ends(x) = {"done", "refresh"}
    BY DEF GuideDeletionWork, Act, Ends
  <2> HIDE DEF x
  <2>2. Handles("guideDeletion", ReadsQuietly, GuideDeletionShows, "delete", x)
    BY <2>1, One DEF GuideDeletionShows, Handles
  <2> QED BY <2>1, <2>2 DEF GuideDeletionShows, x
<1>10. Parts("phoneTours", PhoneToursWork, PhoneToursShows)
  BY DEF PhoneToursWork, PhoneToursShows
<1> HIDE DEF Parts
<1> QED
  BY <1>1, <1>2, <1>3, <1>4, <1>5, <1>6, <1>7, <1>8, <1>9, <1>10 DEF GuideWork,
     GuideShows

LEMMA Admins ==
  \A p \in DOMAIN AdminWork : Parts(p, AdminWork[p], AdminShows[p])
<1> USE DEF Parts, Reads, ReadsOnce, ReadsQuietly, ReadsNothing, FilteredBy, CarriesOn,
            NoActs, Button, WhenReady, Always, Renders
<1>1. Parts("queue", QueueWork, QueueShows)
  BY DEF QueueWork, QueueShows
<1>2. Parts("case", CaseWork, CaseShows)
  BY Plain DEF CaseWork, CaseShows, CaseMoves
<1>3. Parts("incidents", IncidentsWork, IncidentsShows)
  <2>1. "frame" \in IncidentsWork.reads.asks /\ IncidentsWork.reads.order = "any"
    BY DEF IncidentsWork, OperationsAsks
  <2> DEFINE r == IncidentsWork.reads
             x == IncidentsWork.acts
  <2>2. ASSUME NEW b, NEW e, NEW y, NEW f, e # "save"
        PROVE  Handles("incidents", r, IncidentsShows, b, Act(<<Request(e, y, f)>>, "reload"))
    <3> HIDE DEF r
    <3>1. r.asks # {} /\ ~(r.asks \subseteq {"open"})
      BY <2>1 DEF r
    <3> QED BY <2>2, <3>1, Plain
  <2>3. \A b \in DOMAIN x : \E e, y, f : e # "save" /\ x[b] = Act(<<Request(e, y, f)>>, "reload")
    BY DEF IncidentsWork
  <2>4. \A b \in DOMAIN x : Handles("incidents", r, IncidentsShows, b, x[b])
    <3> HIDE DEF r, x
    <3> QED BY <2>2, <2>3
  <2> QED BY <2>1, <2>4
<1>4. Parts("content", ContentWork, ContentShows)
  BY Plain DEF ContentWork, ContentShows
<1>5. Parts("finance", FinanceWork, FinanceShows)
  <2>1. \A b \in DOMAIN FinanceWork.acts :
          Handles("finance", FilteredBy(ReadsQuietly), FinanceShows, b, FinanceWork.acts[b])
    <3> HIDE DEF FilteredBy, ReadsQuietly
    <3> QED BY Listed DEF FinanceWork
  <2>2. FinanceWork.reads = FilteredBy(ReadsQuietly)
    BY DEF FinanceWork
  <2> QED BY <2>1, <2>2 DEF FinanceShows
<1>6. Parts("activeTours", ActiveToursWork, ActiveToursShows)
  BY DEF ActiveToursWork, ActiveToursShows, OperationsAsks
<1>7. Parts("training", TrainingWork, TrainingShows)
  BY Plain DEF TrainingWork, TrainingShows
<1>8. Parts("settings", SettingsWork, SettingsShows)
  BY Plain DEF SettingsWork, SettingsShows
<1>9. Parts("legal", LegalWork, LegalShows)
  BY Plain DEF LegalWork, LegalShows
<1>10. Parts("quality", QualityWork, QualityShows)
  <2>1. \A b \in DOMAIN QualityWork.acts :
          Handles("quality", FilteredBy(ReadsQuietly), QualityShows, b, QualityWork.acts[b])
    <3> HIDE DEF FilteredBy, ReadsQuietly
    <3> QED BY Listed DEF QualityWork
  <2>2. QualityWork.reads = FilteredBy(ReadsQuietly)
    BY DEF QualityWork
  <2> QED BY <2>1, <2>2 DEF QualityShows
<1>11. Parts("guides", GuidesWork, GuidesShows)
  BY DEF GuidesWork, GuidesShows
<1>12. Parts("audit", AuditWork, AuditShows)
  BY DEF AuditWork, AuditShows
<1>13. Parts("reports", ReportsWork, ReportsShows)
  BY DEF ReportsWork, ReportsShows
<1> HIDE DEF Parts
<1> QED
  BY <1>1, <1>2, <1>3, <1>4, <1>5, <1>6, <1>7, <1>8, <1>9, <1>10, <1>11, <1>12, <1>13
     DEF AdminWork, AdminShows

LEMMA EveryPage ==
  ASSUME NEW p \in DOMAIN Work
  PROVE  Parts(p, Work[p], Rendered[p])
<1>1. /\ DOMAIN TouristWork = DOMAIN TouristShows /\ DOMAIN GuideWork = DOMAIN GuideShows
      /\ DOMAIN AdminWork = DOMAIN AdminShows
  BY DEF TouristWork, TouristShows, GuideWork, GuideShows, AdminWork, AdminShows
<1> QED BY <1>1, Tourists, Guides, Admins DEF Work, Rendered, Joined
-----------------------------------------------------------------------------
ReadType == [pc : {"idle", "sent", "served"}, of : Filter, live : BOOLEAN, seen : Seen]
ActType ==
  [pc : {"idle", "sent", "answered", "reading"}, name : DOMAIN Acting \cup {"none"},
   row : Row \cup {None}, sent : 0..2, got : Versions, read : Read \cup {None},
   result : {"ok", "conflict", "malformed", "refused", "lost"}, based : BOOLEAN]

Requests(a) == Len(Acting[a.name].requests)

\* PagesTypeOK, and of an action under way, that it has a request left to be served
\* as long as it waits for one.
PagesShape ==
  /\ page \in DOMAIN Work /\ server \in Seen /\ filter \in Filter
  /\ state \in {"loading", "ready", "error", "done"}
  /\ shown = NoView \/ shown \in [of : Filter, rows : Seen]
  /\ reads \in [Read -> ReadType] /\ acts \in [Slot -> ActType]
  /\ busyRow \in Row \cup {None} /\ own \in [Row -> Versions] /\ presses \in 0 .. MaxPresses
  /\ \A s \in Slot : /\ acts[s].pc # "idle" => acts[s].name \in DOMAIN Acting /\ acts[s].row \in Row
                     /\ acts[s].pc = "sent" => acts[s].sent < Requests(acts[s])

LEMMA SamePage ==
  ASSUME page' = page
  PROVE  Acting' = Acting /\ Reading' = Reading /\ Showing' = Showing /\ ActType' = ActType
  BY DEF Acting, Reading, Showing, ActType

LEMMA Blank ==
  /\ NoRead \in ReadType /\ Unread \in Seen /\ NoPageAct \in ActType /\ Home \in Filter
  /\ TheRow \in Row /\ 0 \in Versions /\ [NoRead EXCEPT !.pc = "sent", !.live = TRUE] \in ReadType
<1>1. Home \in Filter /\ TheRow \in Row
  BY SomethingToShow DEF Home, TheRow
<1>2. 0 \in Versions
  BY PagesBounds DEF Versions
<1>3. Unread \in Seen
  BY <1>2 DEF Unread, Seen
<1>4. NoPageAct \in ActType
  BY <1>2 DEF NoPageAct, ActType
<1>5. NoRead \in ReadType /\ [NoRead EXCEPT !.pc = "sent", !.live = TRUE] \in ReadType
  BY <1>1, <1>3 DEF NoRead, ReadType
<1> QED BY <1>1, <1>2, <1>3, <1>4, <1>5

\* A read that begins.
LEMMA Begins ==
  ASSUME NEW l \in Read, NEW f \in Filter, reads \in [Read -> ReadType]
  PROVE  Begun(l, f) \in [Read -> ReadType]
<1>1. [pc |-> "sent", of |-> f, live |-> TRUE, seen |-> Unread] \in ReadType
  BY Blank DEF ReadType
<1>2. ASSUME NEW k \in Read PROVE ReadSuperseded(k) \in ReadType
  BY DEF ReadSuperseded, ReadType
<1> QED BY <1>1, <1>2 DEF Begun

LEMMA Clears ==
  ASSUME Clearing, state \in {"loading", "ready", "error", "done"}
  PROVE  state' \in {"loading", "ready", "error", "done"}
  BY DEF Clearing

\* A read that ends.
LEMMA Ending ==
  ASSUME NEW l \in Read, PagesShape, Over(l), page' = page
  PROVE  /\ reads' \in [Read -> ReadType] /\ reads' = [reads EXCEPT ![l] = NoRead]
         /\ acts' \in [Slot -> ActType] /\ busyRow' \in Row \cup {None}
         /\ \A s \in Slot : acts'[s] = acts[s] \/ acts'[s] = NoPageAct
         /\ \A s \in Slot : acts[s].pc = "reading" /\ acts[s].read = l <=> acts'[s] # acts[s]
<1>1. \A s \in Slot : acts[s].pc = "reading" => acts[s] # NoPageAct
  BY DEF NoPageAct
<1>2. /\ reads' = [reads EXCEPT ![l] = NoRead]
      /\ acts' = [s \in Slot |-> IF s \in Waiting(l) THEN NoPageAct ELSE acts[s]]
      /\ busyRow' \in {busyRow, None}
  BY DEF Over
<1> QED BY <1>1, <1>2, Blank DEF PagesShape, Waiting

\* Every request that is still to be served can take a row one version on.
Due == {d \in Slot \X (0 .. 1) : acts[d[1]].pc = "sent" /\ acts[d[1]].sent <= d[2]}

VersionInv ==
  /\ Cardinality(Due) <= 2 * presses
  /\ \A r \in Row : server[r].ver + Cardinality(Due) <= MaxOthers + 2 * presses

LEMMA DueIsFinite ==
  /\ IsFiniteSet(Due) /\ Cardinality(Due) \in Nat
  /\ IsFiniteSet(Due') /\ Cardinality(Due') \in Nat
<1>1. IsFiniteSet(Slot) /\ IsFiniteSet(0 .. 1)
  <2>1. MaxActs \in Int /\ 0 \in Int /\ 1 \in Int
    BY PagesBounds
  <2>2. \A a, b \in Int : IsFiniteSet(a .. b)
    BY FS_Interval
  <2> QED BY <2>1, <2>2 DEF Slot
<1>2. IsFiniteSet(Slot \X (0 .. 1))
  BY <1>1, FS_Product
<1>3. Due \in SUBSET (Slot \X (0 .. 1)) /\ Due' \in SUBSET (Slot \X (0 .. 1))
  BY DEF Due
<1> DEFINE S == Slot \X (0 .. 1)
<1> HIDE DEF S
<1>4. \A T \in SUBSET S : IsFiniteSet(T) /\ Cardinality(T) \in Nat
  <2>1. IsFiniteSet(S)
    BY <1>2 DEF S
  <2>2. ASSUME NEW T \in SUBSET S PROVE IsFiniteSet(T) /\ Cardinality(T) \in Nat
    <3>1. IsFiniteSet(T)
      BY <2>1, FS_Subset
    <3> QED BY <3>1, FS_CardinalityType
  <2> QED BY <2>2
<1> QED BY <1>3, <1>4 DEF S

\* A step that serves nothing.
LEMMA NothingServed ==
  ASSUME PagesShape, VersionInv, server' = server, presses' = presses,
         \A s \in Slot : acts'[s].pc = "sent" => acts[s].pc = "sent" /\ acts'[s].sent = acts[s].sent
  PROVE  VersionInv'
<1>1. Due' \in SUBSET Due
  BY DEF Due
<1>2. Cardinality(Due') <= Cardinality(Due)
  BY <1>1, DueIsFinite, FS_Subset
<1>3. presses \in Nat /\ \A r \in Row : server[r].ver \in Nat
  BY PagesBounds DEF PagesShape, Seen, Versions
<1>4. Cardinality(Due) \in Nat /\ Cardinality(Due') \in Nat
  BY DueIsFinite
<1> HIDE DEF Due
<1> QED BY <1>2, <1>3, <1>4, PagesBounds DEF VersionInv

LEMMA OneMore ==
  ASSUME NEW S, IsFiniteSet(S), NEW x
  PROVE  /\ IsFiniteSet(S \cup {x}) /\ Cardinality(S \cup {x}) \in Nat
         /\ Cardinality(S \cup {x}) <= Cardinality(S) + 1
<1>1. Cardinality(S) \in Nat
  BY FS_CardinalityType
<1>2. /\ IsFiniteSet(S \cup {x})
      /\ Cardinality(S \cup {x}) = IF x \in S THEN Cardinality(S) ELSE Cardinality(S) + 1
  BY FS_AddElement
<1> QED BY <1>1, <1>2

\* A button that is pressed.
LEMMA Pressed ==
  ASSUME PagesShape, VersionInv, server' = server, presses' = presses + 1, NEW s \in Slot,
         \A t \in Slot \ {s} : acts'[t] = acts[t]
  PROVE  VersionInv'
<1> DEFINE one == Due \cup {<<s, 0>>}
           two == one \cup {<<s, 1>>}
<1>1. Due' \in SUBSET two
  BY DEF Due
<1>2. IsFiniteSet(one) /\ Cardinality(one) <= Cardinality(Due) + 1 /\ Cardinality(one) \in Nat
  BY DueIsFinite, OneMore
<1> HIDE DEF one
<1>3. IsFiniteSet(two) /\ Cardinality(two) <= Cardinality(one) + 1 /\ Cardinality(two) \in Nat
  BY <1>2, OneMore
<1> HIDE DEF two
<1>4. Cardinality(Due') <= Cardinality(two)
  BY <1>1, <1>3, FS_Subset
<1>5. presses \in Nat /\ \A r \in Row : server[r].ver \in Nat
  BY PagesBounds DEF PagesShape, Seen, Versions
<1>6. Cardinality(Due) \in Nat /\ Cardinality(Due') \in Nat
  BY DueIsFinite
<1>7. Cardinality(Due') <= Cardinality(Due) + 2
  BY <1>2, <1>3, <1>4, <1>6
<1> HIDE DEF Due
<1> QED BY <1>5, <1>6, <1>7, PagesBounds DEF VersionInv

\* A request that is served.
LEMMA Served ==
  ASSUME PagesShape, VersionInv, presses' = presses, NEW s \in Slot, acts[s].pc = "sent",
         \A t \in Slot \ {s} : acts'[t] = acts[t],
         acts'[s].pc = "sent" => acts'[s].sent = acts[s].sent + 1,
         \A r \in Row : server'[r].ver \in {server[r].ver, server[r].ver + 1}
  PROVE  VersionInv' /\ \A r \in Row : server'[r].ver \in Versions
<1> DEFINE i == acts[s].sent
<1>1. i \in {0, 1}
  <2>1. Requests(acts[s]) \in {1, 2}
    BY EveryPage DEF PagesShape, Parts, Handles, Requests, Acting
  <2>2. i \in 0 .. 2 /\ i < Requests(acts[s])
    BY DEF PagesShape, ActType
  <2> QED BY <2>1, <2>2
<1>2. <<s, i>> \in Due
  BY <1>1 DEF Due
<1>3. Due' \in SUBSET (Due \ {<<s, i>>})
  <2>1. ASSUME NEW d \in Due' PROVE d \in Due \ {<<s, i>>}
    <3>1. CASE d[1] = s
      BY <1>1, <2>1, <3>1 DEF Due
    <3>2. CASE d[1] # s
      BY <2>1, <3>2 DEF Due
    <3> QED BY <3>1, <3>2
  <2> QED BY <2>1
<1>4. Cardinality(Due') <= Cardinality(Due) - 1
  <2>1. IsFiniteSet(Due \ {<<s, i>>}) /\ Cardinality(Due \ {<<s, i>>}) = Cardinality(Due) - 1
    BY <1>2, DueIsFinite, FS_RemoveElement
  <2> QED BY <1>3, <2>1, FS_Subset
<1>5. presses \in Nat /\ presses <= MaxPresses /\ \A r \in Row : server[r].ver \in Nat
  BY PagesBounds DEF PagesShape, Seen, Versions
<1>6. Cardinality(Due) \in Nat /\ Cardinality(Due') \in Nat
  BY DueIsFinite
<1> HIDE DEF Due
<1>7. Cardinality(Due') <= 2 * presses
  BY <1>4, <1>5, <1>6 DEF VersionInv
<1>8. ASSUME NEW r \in Row
      PROVE  server'[r].ver \in Nat /\ server'[r].ver + Cardinality(Due') <= MaxOthers + 2 * presses
  BY <1>4, <1>5, <1>6, PagesBounds DEF VersionInv
<1>9. ASSUME NEW r \in Row PROVE server'[r].ver \in Versions
  BY <1>5, <1>6, <1>8, PagesBounds DEF Versions
<1> QED BY <1>7, <1>8, <1>9 DEF VersionInv

\* The shape of the pages, with versions within their bound.
PagesInv == PagesShape /\ VersionInv

ActsFit ==
  /\ acts \in [Slot -> ActType]
  /\ \A s \in Slot : /\ acts[s].pc # "idle" => acts[s].name \in DOMAIN Acting /\ acts[s].row \in Row
                     /\ acts[s].pc = "sent" => acts[s].sent < Requests(acts[s])

\* An action that begins or goes on.
LEMMA ActGoes ==
  ASSUME PagesShape, page' = page, NEW s \in Slot, NEW new \in ActType,
         acts' = [acts EXCEPT ![s] = new],
         new.pc # "idle" => new.name \in DOMAIN Acting /\ new.row \in Row,
         new.pc = "sent" => new.sent < Requests(new)
  PROVE  ActsFit'
<1>1. acts' \in [Slot -> ActType]
  BY DEF PagesShape
<1>2. ASSUME NEW t \in Slot
      PROVE  /\ acts'[t].pc # "idle" => acts'[t].name \in DOMAIN Acting /\ acts'[t].row \in Row
             /\ acts'[t].pc = "sent" => acts'[t].sent < Requests(acts'[t])
  BY <1>1 DEF PagesShape
<1>3. \A a : Requests(a)' = Requests(a')
  BY SamePage DEF Requests
<1> QED BY <1>1, <1>2, SamePage DEF ActsFit, Requests

LEMMA ActsStay ==
  ASSUME PagesShape, page' = page, acts' \in [Slot -> ActType],
         \A s \in Slot : acts'[s] = acts[s] \/ acts'[s] = NoPageAct
  PROVE  ActsFit'
<1>1. ASSUME NEW t \in Slot
      PROVE  /\ acts'[t].pc # "idle" => acts'[t].name \in DOMAIN Acting /\ acts'[t].row \in Row
             /\ acts'[t].pc = "sent" => acts'[t].sent < Requests(acts'[t])
  BY DEF PagesShape, NoPageAct
<1> QED BY <1>1, SamePage DEF ActsFit, Requests

LEMMA ShapeNext ==
  ASSUME page \in DOMAIN Work, page' = page, server' \in Seen, filter' \in Filter,
         state' \in {"loading", "ready", "error", "done"},
         shown' = NoView \/ shown' \in [of : Filter, rows : Seen],
         reads' \in [Read -> ReadType], ActsFit', busyRow' \in Row \cup {None},
         own' \in [Row -> Versions], presses' \in 0 .. MaxPresses
  PROVE  PagesShape'
  BY DEF PagesShape, ActsFit

LEMMA ReadStep ==
  ASSUME PagesInv, NEW l \in Read,
         \/ \E f \in Filter : SetFilter(f, l)
         \/ RetryRead(l) \/ News(l) \/ ReadServed(l) \/ ReadAnswered(l) \/ ReadFails(l)
  PROVE  PagesInv' /\ page' = page
<1> USE DEF PagesInv
<1>1. page' = page /\ page \in DOMAIN Work /\ server' = server /\ server \in Seen /\ own' = own
  BY DEF PagesShape, SetFilter, RetryRead, News, ReadServed, ReadAnswered, ReadFails
<1>2. ASSUME NEW f \in Filter, reads' = Begun(l, f), filter' \in {f, filter}, Clearing,
             UNCHANGED <<shown, acts, busyRow>>, presses' \in presses .. MaxPresses
      PROVE  PagesInv'
  <2>1. ActsFit'
    BY <1>1, <1>2, ActsStay DEF PagesShape
  <2>2. PagesShape'
    BY <1>1, <1>2, <2>1, Begins, Clears, ShapeNext, PagesBounds DEF PagesShape
  <2>3. VersionInv'
    <3>1. Due' = Due
      BY <1>2 DEF Due
    <3>2. presses \in Nat /\ \A r \in Row : server[r].ver \in Nat
      BY PagesBounds DEF PagesShape, Seen, Versions
    <3>3. Cardinality(Due) \in Nat
      BY DueIsFinite
    <3> QED BY <1>1, <1>2, <3>1, <3>2, <3>3, PagesBounds DEF VersionInv
  <2> QED BY <2>2, <2>3
<1>3. ASSUME NEW f \in Filter, SetFilter(f, l) PROVE PagesInv'
  BY <1>2, <1>3, PagesBounds DEF SetFilter, PagesShape
<1>4. CASE RetryRead(l) \/ News(l)
  BY <1>2, <1>4, PagesBounds DEF RetryRead, News, PagesShape
<1>5. CASE ReadServed(l)
  <2>1. reads' \in [Read -> ReadType]
    <3> DEFINE new == [[reads[l] EXCEPT !.pc = "served"] EXCEPT !.seen = server]
    <3>1. reads \in [Read -> ReadType] /\ new \in ReadType
      BY <1>1 DEF PagesShape, ReadType
    <3>2. reads' = [reads EXCEPT ![l] = new]
      BY <1>5, <3>1 DEF ReadServed
    <3> QED BY <3>1, <3>2
  <2>2. ActsFit'
    BY <1>1, <1>5, ActsStay DEF ReadServed, PagesShape
  <2>3. PagesShape'
    BY <1>1, <1>5, <2>1, <2>2, ShapeNext DEF ReadServed, PagesShape
  <2>4. VersionInv'
    BY <1>5, NothingServed DEF ReadServed
  <2> QED BY <1>1, <2>3, <2>4
<1>6. ASSUME Over(l), state' \in {"loading", "ready", "error", "done"},
             shown' = NoView \/ shown' \in [of : Filter, rows : Seen],
             UNCHANGED <<filter, presses>>
      PROVE  PagesInv'
  <2>1. ActsFit'
    BY <1>1, <1>6, Ending, ActsStay
  <2>2. PagesShape'
    BY <1>1, <1>6, <2>1, Ending, ShapeNext DEF PagesShape
  <2>3. VersionInv'
    BY <1>1, <1>6, Ending, NothingServed DEF NoPageAct
  <2> QED BY <2>2, <2>3
<1>7. CASE ReadAnswered(l)
  BY <1>6, <1>7 DEF ReadAnswered, PagesShape, ReadType
<1>8. CASE ReadFails(l)
  BY <1>6, <1>8 DEF ReadFails, Failed, PagesShape
<1> QED BY <1>1, <1>3, <1>4, <1>5, <1>7, <1>8

LEMMA RequestCount ==
  ASSUME PagesShape
  PROVE  \A b \in DOMAIN Acting : Len(Acting[b].requests) \in {1, 2}
  BY EveryPage DEF PagesShape, Parts, Handles, Acting

LEMMA PressStep ==
  ASSUME PagesInv, NEW s \in Slot, NEW a \in DOMAIN Acting, NEW r \in Row, Press(s, a, r)
  PROVE  PagesInv'
<1> USE DEF PagesInv
<1> DEFINE based == shown # NoView
           new == [NoPageAct EXCEPT !.pc = "sent", !.name = a, !.row = r, !.based = based]
<1>1. /\ page' = page /\ acts' = [acts EXCEPT ![s] = new] /\ presses' = presses + 1
      /\ presses < MaxPresses /\ busyRow' \in {r, busyRow}
      /\ UNCHANGED <<server, filter, state, shown, reads, own>>
  BY DEF Press
<1>2. based \in BOOLEAN
  OBVIOUS
<1> HIDE DEF based
<1>3. new \in ActType
  BY <1>2, Blank DEF ActType
<1>4. /\ new.pc = "sent" /\ new.name = a /\ new.row = r /\ new.sent = 0
  BY DEF NoPageAct
<1> HIDE DEF new
<1>8. new.sent < Requests(new)
  BY <1>4, RequestCount DEF Requests
<1>5. ActsFit'
  BY <1>1, <1>3, <1>4, <1>8, ActGoes
<1>6. PagesShape'
  BY <1>1, <1>5, ShapeNext, PagesBounds DEF PagesShape
<1>7. VersionInv'
  BY <1>1, Pressed DEF PagesShape
<1> QED BY <1>6, <1>7

LEMMA ServedStep ==
  ASSUME PagesInv, NEW s \in Slot, ActServed(s)
  PROVE  PagesInv'
<1> USE DEF PagesInv
<1> DEFINE a == acts[s]
           request == Acting[a.name].requests[a.sent + 1]
           moved == [server EXCEPT ![a.row] =
                       [ver |-> @.ver + 1, open |-> @.open /\ request.effect # "move"]]
<1>1. /\ page' = page /\ a \in ActType /\ a.pc = "sent" /\ a.name \in DOMAIN Acting
      /\ a.row \in Row /\ a.sent < Requests(a) /\ acts \in [Slot -> ActType]
      /\ UNCHANGED <<filter, state, shown, reads, busyRow, own, presses>>
  BY DEF ActServed, PagesShape
<1>2. CASE server' = server /\ \E result \in {"malformed", "refused", "conflict"} : Answer(s, result)
  <2>1. PICK result \in {"malformed", "refused", "conflict"} :
             acts' = [acts EXCEPT ![s] = [[a EXCEPT !.pc = "answered"] EXCEPT !.result = result]]
    BY <1>1, <1>2 DEF Answer
  <2> DEFINE new == [[a EXCEPT !.pc = "answered"] EXCEPT !.result = result]
  <2>2. new \in ActType /\ new.pc = "answered" /\ new.name = a.name /\ new.row = a.row
    BY <1>1 DEF ActType
  <2> HIDE DEF new
  <2>3. acts' = [acts EXCEPT ![s] = new]
    BY <2>1 DEF new
  <2>4. ActsFit'
    BY <1>1, <2>2, <2>3, ActGoes
  <2>5. PagesShape'
    BY <1>1, <1>2, <2>4, ShapeNext DEF PagesShape
  <2>6. VersionInv'
    BY <1>1, <1>2, <2>2, <2>3, NothingServed
  <2> QED BY <2>5, <2>6
<1>3. CASE /\ server' \in {server, moved}
           /\ acts' = [acts EXCEPT ![s] =
                [a EXCEPT !.sent = @ + 1, !.result = "ok",
                          !.got = IF request.effect = "none" THEN @ ELSE server'[a.row].ver,
                          !.pc = IF a.sent + 1 = Len(Acting[a.name].requests) THEN "answered" ELSE "sent"]]
  <2> DEFINE new == [a EXCEPT !.sent = @ + 1, !.result = "ok",
                          !.got = IF request.effect = "none" THEN @ ELSE server'[a.row].ver,
                          !.pc = IF a.sent + 1 = Len(Acting[a.name].requests) THEN "answered" ELSE "sent"]
  <2>1. a.sent \in {0, 1} /\ Requests(a) \in {1, 2} /\ Requests(a) = Len(Acting[a.name].requests)
    <3>1. Requests(a) \in {1, 2} /\ Requests(a) = Len(Acting[a.name].requests)
      BY <1>1, RequestCount DEF Requests
    <3>2. a.sent \in 0 .. 2
      BY <1>1 DEF ActType
    <3>3. a.sent < Requests(a)
      BY <1>1
    <3>4. \A n \in 0 .. 2, m \in {1, 2} : n < m => n \in {0, 1}
      OBVIOUS
    <3> HIDE DEF a
    <3> QED BY <3>1, <3>2, <3>3, <3>4
  <2>2. server \in Seen /\ \A q \in Row : server[q].ver \in Nat
    BY PagesBounds DEF PagesShape, Seen, Versions
  <2>3. \A q \in Row : server'[q].ver \in {server[q].ver, server[q].ver + 1}
    BY <1>1, <1>3, <2>2 DEF Seen
  <2>4. /\ \A t \in Slot \ {s} : acts'[t] = acts[t]
        /\ acts'[s].pc = "sent" => acts'[s].sent = a.sent + 1
    BY <1>1, <1>3, <2>1 DEF ActType
  <2>5. VersionInv' /\ \A q \in Row : server'[q].ver \in Versions
    BY <1>1, <2>3, <2>4, Served
  <2>6. server' \in Seen
    <3> DEFINE stays == server[a.row].open /\ request.effect # "move"
               row == [ver |-> server[a.row].ver + 1, open |-> stays]
    <3>1. CASE server' = [server EXCEPT ![a.row] = row]
      <4>1. stays \in BOOLEAN
        BY <1>1, <2>2 DEF Seen
      <4> HIDE DEF stays
      <4>2. server'[a.row].ver = row.ver
        BY <1>1, <2>2, <3>1 DEF Seen
      <4>3. row \in [ver : Versions, open : BOOLEAN]
        BY <1>1, <2>5, <4>1, <4>2
      <4> HIDE DEF row
      <4> QED BY <1>1, <2>2, <3>1, <4>3 DEF Seen
    <3> QED BY <1>3, <2>2, <3>1
  <2>7. /\ new \in ActType /\ new.name = a.name /\ new.row = a.row
        /\ new.pc = "sent" => new.sent < Requests(a)
    <3> DEFINE got == IF request.effect = "none" THEN a.got ELSE server'[a.row].ver
               pc == IF a.sent + 1 = Len(Acting[a.name].requests) THEN "answered" ELSE "sent"
    <3>1. /\ got \in Versions /\ pc \in {"sent", "answered"} /\ a.sent + 1 \in 0 .. 2
          /\ pc = "sent" => a.sent + 1 < Requests(a)
      BY <1>1, <2>1, <2>5 DEF ActType
    <3>2. new = [a EXCEPT !.sent = a.sent + 1, !.result = "ok", !.got = got, !.pc = pc]
      BY <1>1 DEF ActType
    <3>3. a \in ActType
      BY <1>1
    <3> HIDE DEF got, pc, new, a
    <3>4. new \in ActType
      BY <3>1, <3>2, <3>3 DEF ActType
    <3>5. new.name = a.name /\ new.row = a.row /\ new.pc = pc /\ new.sent = a.sent + 1
      BY <3>2, <3>3 DEF ActType
    <3> QED BY <3>1, <3>4, <3>5
  <2>8. Requests(new) = Requests(a)
    BY <2>7 DEF Requests
  <2>9. acts' = [acts EXCEPT ![s] = new]
    BY <1>3
  <2> HIDE DEF new
  <2>10. ActsFit'
    BY <1>1, <2>7, <2>8, <2>9, ActGoes
  <2>11. PagesShape'
    BY <1>1, <2>6, <2>10, ShapeNext DEF PagesShape
  <2> QED BY <2>5, <2>11
<1> QED BY <1>2, <1>3 DEF ActServed

LEMMA LostStep ==
  ASSUME PagesInv, NEW s \in Slot, ActLost(s)
  PROVE  PagesInv'
<1> USE DEF PagesInv
<1> DEFINE new == [[acts[s] EXCEPT !.pc = "answered"] EXCEPT !.result = "lost"]
<1>1. /\ page' = page /\ acts[s] \in ActType /\ acts[s].pc # "idle" /\ acts \in [Slot -> ActType]
      /\ acts' = [acts EXCEPT ![s] = new]
      /\ UNCHANGED <<server, filter, state, shown, reads, busyRow, own, presses>>
  BY DEF ActLost, Answer, PagesShape
<1>2. new \in ActType /\ new.pc = "answered" /\ new.name = acts[s].name /\ new.row = acts[s].row
  BY <1>1 DEF ActType
<1> HIDE DEF new
<1>3. ActsFit'
  BY <1>1, <1>2, ActGoes DEF PagesShape
<1>4. PagesShape'
  BY <1>1, <1>3, ShapeNext DEF PagesShape
<1>5. VersionInv'
  BY <1>1, <1>2, NothingServed
<1> QED BY <1>4, <1>5

LEMMA SettleStep ==
  ASSUME PagesInv, NEW s \in Slot, Settle(s)
  PROVE  PagesInv'
<1> USE DEF PagesInv
<1> DEFINE a == acts[s]
<1>1. /\ page' = page /\ a \in ActType /\ a.pc = "answered" /\ a.name \in DOMAIN Acting
      /\ a.row \in Row /\ acts \in [Slot -> ActType] /\ filter \in Filter
      /\ UNCHANGED <<server, filter, presses>>
  BY DEF Settle, PagesShape
<1>2. own' \in [Row -> Versions]
  BY <1>1 DEF Settle, PagesShape, ActType
<1>3. ASSUME reads' \in [Read -> ReadType], ActsFit', busyRow' \in Row \cup {None},
             state' \in {"loading", "ready", "error", "done"},
             shown' = NoView \/ shown' \in [of : Filter, rows : Seen],
             \A t \in Slot : acts'[t].pc = "sent" => acts'[t] = acts[t]
      PROVE  PagesInv'
  <2>1. PagesShape'
    BY <1>1, <1>2, <1>3, ShapeNext DEF PagesShape
  <2>2. VersionInv'
    BY <1>1, <1>3, NothingServed
  <2> QED BY <2>1, <2>2
<1>4. ASSUME Ended(s)
      PROVE  /\ ActsFit' /\ busyRow' \in Row \cup {None}
             /\ \A t \in Slot : acts'[t].pc = "sent" => acts'[t] = acts[t]
  <2>1. acts' \in [Slot -> ActType] /\ \A t \in Slot : acts'[t] = acts[t] \/ acts'[t] = NoPageAct
    BY <1>1, <1>4, Blank DEF Ended
  <2>2. busyRow' \in Row \cup {None}
    BY <1>4 DEF Ended, PagesShape
  <2> QED BY <1>1, <2>1, <2>2, ActsStay DEF NoPageAct
<1>5. CASE Follows(a) = "reload"
  <2>1. PICK l \in Free :
          /\ reads' = Begun(l, filter)
          /\ acts' = [acts EXCEPT ![s] = [NoPageAct EXCEPT !.pc = "reading", !.name = a.name,
                                             !.row = a.row, !.read = l, !.based = a.based]]
    BY <1>5 DEF Settle
  <2> DEFINE new == [NoPageAct EXCEPT !.pc = "reading", !.name = a.name, !.row = a.row, !.read = l,
                                      !.based = a.based]
  <2>2. l \in Read /\ new \in ActType /\ new.pc = "reading" /\ new.name = a.name /\ new.row = a.row
    BY <1>1, Blank DEF Free, ActType
  <2> HIDE DEF new
  <2>3. acts' = [acts EXCEPT ![s] = new]
    BY <2>1 DEF new
  <2>4. ActsFit'
    BY <1>1, <2>2, <2>3, ActGoes
  <2>5. reads' \in [Read -> ReadType]
    BY <1>1, <2>1, <2>2, Begins DEF PagesShape
  <2>6. Clearing /\ UNCHANGED <<shown, busyRow>>
    BY <1>5 DEF Settle
  <2>7. \A t \in Slot : acts'[t].pc = "sent" => acts'[t] = acts[t]
    BY <1>1, <2>2, <2>3
  <2> QED BY <1>3, <2>4, <2>5, <2>6, <2>7, Clears DEF PagesShape
<1>6. CASE Follows(a) = "refresh"
  <2>1. PICK l \in Free : reads' = Begun(l, filter)
    BY <1>6 DEF Settle
  <2>2. Ended(s) /\ Clearing /\ shown' = shown
    BY <1>6 DEF Settle
  <2>3. l \in Read
    BY DEF Free
  <2>4. reads' \in [Read -> ReadType]
    BY <1>1, <2>1, <2>3, Begins DEF PagesShape
  <2> QED BY <1>3, <1>4, <2>2, <2>4, Clears DEF PagesShape
<1>7. CASE Follows(a) = "local"
  <2>1. /\ shown' = IF shown = NoView THEN shown ELSE [shown EXCEPT !.rows[a.row].ver = a.got]
        /\ Ended(s) /\ UNCHANGED <<reads, state>>
    BY <1>7 DEF Settle
  <2>2. shown' = NoView \/ shown' \in [of : Filter, rows : Seen]
    <3>1. CASE shown \in [of : Filter, rows : Seen] /\ shown # NoView
      <4> DEFINE row == [shown.rows[a.row] EXCEPT !.ver = a.got]
                 rows == [shown.rows EXCEPT ![a.row] = row]
      <4>1. row \in [ver : Versions, open : BOOLEAN]
        BY <1>1, <3>1 DEF Seen, ActType
      <4>2. rows \in Seen
        BY <1>1, <3>1, <4>1 DEF Seen
      <4>3. shown' = [shown EXCEPT !.rows = rows]
        BY <2>1, <3>1
      <4> HIDE DEF rows
      <4> QED BY <3>1, <4>2, <4>3
    <3> QED BY <2>1, <3>1 DEF PagesShape
  <2> QED BY <1>3, <1>4, <2>1, <2>2 DEF PagesShape
<1>8. CASE Follows(a) = "stays"
  BY <1>3, <1>4, <1>8 DEF Settle, PagesShape
<1>9. CASE Follows(a) = "done"
  <2>1. /\ state' = "done" /\ shown' = NoView /\ busyRow' = None
        /\ acts' = [t \in Slot |-> NoPageAct] /\ reads' = [l \in Read |-> NoRead]
    BY <1>9 DEF Settle
  <2>2. acts' \in [Slot -> ActType] /\ \A t \in Slot : acts'[t] = NoPageAct
    BY <2>1, Blank
  <2>3. ActsFit'
    BY <1>1, <2>2, ActsStay
  <2> QED BY <1>3, <2>1, <2>2, <2>3, Blank DEF NoPageAct
<1> QED BY <1>5, <1>6, <1>7, <1>8, <1>9 DEF Settle

LEMMA OtherStep ==
  ASSUME PagesInv, Revisit \/ Others \/ DataFrame
  PROVE  PagesInv' /\ page' = page
<1> USE DEF PagesInv
<1>1. page' = page /\ page \in DOMAIN Work /\ presses' = presses
  BY DEF Revisit, Others, DataFrame, PagesShape
<1>2. CASE Revisit
  <2>1. /\ filter' = Home /\ shown' = NoView /\ busyRow' = None /\ server' = server
        /\ acts' = [s \in Slot |-> NoPageAct] /\ own' = [r \in Row |-> 0]
        /\ state' \in {"loading", "ready"}
        /\ \A l \in Read : reads'[l] \in {NoRead, [NoRead EXCEPT !.pc = "sent", !.live = TRUE]}
        /\ reads' = [l \in Read |-> reads'[l]]
    BY <1>2 DEF Revisit, Opening
  <2>2. reads' \in [Read -> ReadType] /\ own' \in [Row -> Versions]
    BY <2>1, Blank
  <2>3. acts' \in [Slot -> ActType] /\ \A t \in Slot : acts'[t] = NoPageAct
    BY <2>1, Blank
  <2>4. ActsFit'
    BY <1>1, <2>3, ActsStay
  <2>5. PagesShape'
    BY <1>1, <2>1, <2>2, <2>4, Blank, ShapeNext DEF PagesShape
  <2>6. VersionInv'
    BY <1>1, <2>1, <2>3, NothingServed DEF NoPageAct
  <2> QED BY <1>1, <2>5, <2>6
<1>3. CASE Others
  <2>1. /\ TheRow \in Row /\ server[TheRow].ver < MaxOthers
        /\ UNCHANGED <<filter, state, shown, reads, acts, busyRow, own>>
    BY <1>3, Blank DEF Others
  <2>2. PICK stays \in BOOLEAN :
          server' = [server EXCEPT ![TheRow] =
                       [ver |-> server[TheRow].ver + 1, open |-> server[TheRow].open /\ stays]]
    BY <1>3 DEF Others
  <2> DEFINE open == server[TheRow].open /\ stays
             row == [ver |-> server[TheRow].ver + 1, open |-> open]
  <2>3. server \in Seen /\ presses \in Nat /\ \A r \in Row : server[r].ver \in Nat
    BY PagesBounds DEF PagesShape, Seen, Versions
  <2>4. open \in BOOLEAN
    BY <2>1, <2>3 DEF Seen
  <2> HIDE DEF open
  <2>5. row \in [ver : Versions, open : BOOLEAN] /\ row.ver = server[TheRow].ver + 1
    BY <2>1, <2>3, <2>4, PagesBounds DEF Versions
  <2>6. server' = [server EXCEPT ![TheRow] = row]
    BY <2>2 DEF open
  <2> HIDE DEF row
  <2>7. server' \in Seen
    BY <2>1, <2>3, <2>5, <2>6 DEF Seen
  <2>8. ActsFit'
    BY <1>1, <2>1, ActsStay DEF PagesShape
  <2>9. PagesShape'
    BY <1>1, <2>1, <2>7, <2>8, ShapeNext DEF PagesShape
  <2>10. VersionInv'
    <3>1. Due' = Due
      BY <2>1 DEF Due
    <3>2. Cardinality(Due) \in Nat
      BY DueIsFinite
    <3> HIDE DEF Due
    <3>3. ASSUME NEW r \in Row PROVE server'[r].ver + Cardinality(Due) <= MaxOthers + 2 * presses
      <4>1. CASE r = TheRow
        BY <2>1, <2>3, <2>5, <2>6, <3>2, <4>1, PagesBounds DEF VersionInv, Seen
      <4>2. CASE r # TheRow
        BY <2>1, <2>3, <2>6, <4>2 DEF VersionInv, Seen
      <4> QED BY <4>1, <4>2
    <3> QED BY <1>1, <3>1, <3>3 DEF VersionInv
  <2> QED BY <1>1, <2>9, <2>10
<1>4. CASE DataFrame
  <2>1. ActsFit'
    BY <1>1, <1>4, ActsStay DEF DataFrame, PagesShape
  <2>2. PagesShape'
    BY <1>1, <1>4, <2>1, ShapeNext DEF DataFrame, PagesShape
  <2>3. VersionInv'
    BY <1>4, NothingServed DEF DataFrame
  <2> QED BY <1>1, <2>2, <2>3
<1> QED BY <1>2, <1>3, <1>4

LEMMA PagesStep ==
  ASSUME PagesInv, PagesNext
  PROVE  PagesInv' /\ page' = page
<1>1. ASSUME NEW s \in Slot, ActServed(s) \/ ActLost(s) \/ Settle(s) PROVE PagesInv' /\ page' = page
  BY <1>1, ServedStep, LostStep, SettleStep DEF ActServed, ActLost, Settle
<1>2. ASSUME NEW s \in Slot, NEW a \in DOMAIN Acting, NEW r \in Row, Press(s, a, r)
      PROVE  PagesInv' /\ page' = page
  BY <1>2, PressStep DEF Press
<1> QED BY <1>1, <1>2, ReadStep, OtherStep DEF PagesNext
-----------------------------------------------------------------------------
\* What a step does to the pages.
LEMMA PageSteps ==
  ASSUME [Next]_vars
  PROVE  \/ PagesNext /\ screen = "page" /\ screen' = "page"
         \/ /\ UNCHANGED pageVars
            /\ screen = "page" => screen' = "page" /\ losses' = losses
            /\ screen' = "page" => screen = "page"
<1>1. FormNext => screen' = screen
  BY DEF FormNext, clientVars, Edit, QuoteDue, QuoteAnswered, QuoteFails, Confirm, ServerBooks,
         SubmitLost, NotBooked, Booked
<1>2. FormLeft => screen' = "checkout"
  BY DEF FormLeft
<1> QED BY <1>1, <1>2 DEF Next, vars, clientVars, OnForm, OnCheckout, OnPage

LEMMA InitPages == Init => PagesInv /\ (screen # "page" => shown = NoView)
<1> SUFFICES ASSUME Init PROVE PagesInv /\ (screen # "page" => shown = NoView)
  OBVIOUS
<1>1. /\ page \in DOMAIN Work /\ server = Unread /\ filter = Home /\ shown = NoView /\ busyRow = None
      /\ state \in {"loading", "ready"} /\ own = [r \in Row |-> 0] /\ presses = 0
      /\ acts = [s \in Slot |-> NoPageAct]
      /\ \A l \in Read : reads[l] \in {NoRead, [NoRead EXCEPT !.pc = "sent", !.live = TRUE]}
      /\ reads = [l \in Read |-> reads[l]]
  <2>1. "webSearch" \in DOMAIN Work
    BY DEF Work, Joined, TouristWork
  <2> QED BY <2>1 DEF Init, PagesInit, ClosedPage
<1>2. acts \in [Slot -> ActType] /\ \A s \in Slot : acts[s].pc = "idle"
  BY <1>1, Blank DEF NoPageAct
<1>3. PagesShape
  BY <1>1, <1>2, Blank, PagesBounds DEF PagesShape
<1>4. VersionInv
  <2>1. Due = {}
    BY <1>2 DEF Due
  <2>2. Cardinality(Due) = 0
    BY <2>1, FS_EmptySet
  <2> QED BY <1>1, <2>2, PagesBounds DEF VersionInv, Unread
<1> QED BY <1>1, <1>3, <1>4 DEF PagesInv

LEMMA NextPages ==
  ASSUME PagesInv, [Next]_vars
  PROVE  PagesInv' /\ page' = page
<1>1. CASE UNCHANGED pageVars
  <2>1. PagesShape'
    <3>1. ActsFit'
      BY <1>1, ActsStay DEF pageVars, PagesInv, PagesShape
    <3> QED BY <1>1, <3>1, ShapeNext DEF pageVars, PagesInv, PagesShape
  <2>2. VersionInv'
    BY <1>1, NothingServed DEF pageVars, PagesInv
  <2> QED BY <1>1, <2>1, <2>2 DEF pageVars, PagesInv
<1> QED BY <1>1, PageSteps, PagesStep

-----------------------------------------------------------------------------
\* A read that counts is for what the page is of.
FitInv ==
  Reading.order = "last" =>
    /\ \A l \in Read : reads[l].live => reads[l].pc # "idle" /\ reads[l].of = filter
    /\ ShownFitsFilter

LEMMA NextLosses ==
  ASSUME losses \in 0 .. MaxLosses, [Next]_vars
  PROVE  losses' \in 0 .. MaxLosses
<1> USE LossesAreCounted
<1>1. PagesNext => losses' \in {losses, losses + 1} /\ (losses' # losses => losses < MaxLosses)
  BY DEF PagesNext, Revisit, Others, DataFrame, SetFilter, RetryRead, News, ReadServed,
         ReadAnswered, ReadFails, Press, ActServed, ActLost, Settle
<1>2. CheckoutNext => losses' \in {losses, losses + 1} /\ (losses' # losses => losses < MaxLosses)
  BY DEF CheckoutNext, IntentLost, CheckLost
<1>3. FormNext => losses' \in {losses, losses + 1} /\ (losses' # losses => losses < MaxLosses)
  BY DEF FormNext, clientVars, Edit, QuoteDue, QuoteAnswered, QuoteFails, Confirm, ServerBooks,
         SubmitLost, NotBooked, Booked
<1>4. FormLeft => losses' = 0
  BY DEF FormLeft
<1> QED BY <1>1, <1>2, <1>3, <1>4 DEF Next, vars, clientVars, OnForm, OnCheckout, OnPage

\* The first read of a page, or none.
FirstRead == {NoRead, [NoRead EXCEPT !.pc = "sent", !.live = TRUE]}

LEMMA FirstReads ==
  ASSUME NEW x \in FirstRead, x.live
  PROVE  x.pc # "idle" /\ x.of = Home
<1>1. ~NoRead.live
  BY DEF NoRead
<1>2. x = [NoRead EXCEPT !.pc = "sent", !.live = TRUE]
  BY <1>1 DEF FirstRead
<1> QED BY <1>2 DEF NoRead

LEMMA LastRead ==
  ASSUME PagesShape, Reading.order = "last"
  PROVE  Reading.fails \in {"error", "silently", "empties"}
  BY EveryPage DEF PagesShape, Parts, Reads, Reading

LEMMA NextFit ==
  ASSUME PagesInv, FitInv, losses \in 0 .. MaxLosses, PagesNext
  PROVE  FitInv'
<1> USE PagesStep
<1>1. page' = page /\ Reading' = Reading
  BY SamePage
<1> SUFFICES ASSUME Reading.order = "last" PROVE FitInv'
  BY <1>1 DEF FitInv
<1> DEFINE Live == \A l \in Read : reads[l].live => reads[l].pc # "idle" /\ reads[l].of = filter
<1>2. /\ reads \in [Read -> ReadType] /\ Live /\ ShownFitsFilter
  BY DEF FitInv, PagesInv, PagesShape
<1>3. ASSUME Live', ShownFitsFilter' PROVE FitInv'
  BY <1>3 DEF FitInv
\* A read begins.
<1>4. ASSUME NEW l \in Read, NEW f \in Filter, reads' = Begun(l, f), filter' = f PROVE FitInv'
  <2>1. \A k \in Read : reads'[k].live => k = l
    BY <1>2, <1>4 DEF Begun, ReadSuperseded, ReadType
  <2>2. reads'[l].live /\ reads'[l].pc = "sent" /\ reads'[l].of = f
    BY <1>4 DEF Begun
  <2> QED BY <1>3, <1>4, <2>1, <2>2 DEF ShownFitsFilter
\* Nothing is read or shown.
<1>5. ASSUME UNCHANGED <<reads, filter>>, losses' \in {losses, losses + 1},
             shown' = NoView \/ state' # "ready"
             \/ (UNCHANGED <<shown, state>>)
      PROVE  FitInv'
  BY <1>1, <1>2, <1>3, <1>5 DEF ShownFitsFilter
\* A read ends.
<1>6. ASSUME NEW l \in Read, Over(l), filter' = filter,
             \/ UNCHANGED <<shown, state, losses>> /\ ~reads[l].live
             \/ UNCHANGED <<shown, state>> /\ losses' = losses + 1 /\ ~reads[l].live
             \/ reads[l].live /\ shown'.of = reads[l].of
             \/ shown' = NoView \/ state' # "ready"
             \/ losses' = losses + 1 /\ Reading.fails = "silently"
      PROVE  FitInv'
  <2>1. reads' = [reads EXCEPT ![l] = NoRead] /\ ~NoRead.live
    BY <1>6 DEF Over, NoRead
  <2>2. \A k \in Read : IF k = l THEN ~reads'[k].live ELSE reads'[k] = reads[k]
    BY <1>2, <2>1
  <2>3. Live'
    BY <1>2, <1>6, <2>2
  <2>4. ShownFitsFilter'
    BY <1>1, <1>2, <1>6, <2>2 DEF ShownFitsFilter
  <2> QED BY <1>3, <2>3, <2>4
<1>7. ASSUME NEW l \in Read, NEW f \in Filter, SetFilter(f, l) PROVE FitInv'
  BY <1>4, <1>7 DEF SetFilter
<1>8. ASSUME NEW l \in Read, RetryRead(l) \/ News(l) PROVE FitInv'
  BY <1>4, <1>8 DEF RetryRead, News, PagesInv, PagesShape
<1>9. ASSUME NEW l \in Read, ReadServed(l) PROVE FitInv'
  <2>1. \A k \in Read : reads'[k].live = reads[k].live /\ reads'[k].of = reads[k].of
                        /\ (reads[k].pc # "idle" => reads'[k].pc # "idle")
    BY <1>2, <1>9 DEF ReadServed, ReadType
  <2>2. filter' = filter /\ UNCHANGED <<shown, state, losses>>
    BY <1>9 DEF ReadServed
  <2> QED BY <1>1, <1>2, <1>3, <2>1, <2>2 DEF ShownFitsFilter
<1>10. ASSUME NEW l \in Read, ReadAnswered(l) PROVE FitInv'
  BY <1>6, <1>10 DEF ReadAnswered
<1>11. ASSUME NEW l \in Read, ReadFails(l) PROVE FitInv'
  BY <1>6, <1>11, LastRead DEF ReadFails, Failed, PagesInv
<1>12. CASE Revisit
  <2>1. filter' = Home /\ shown' = NoView /\ \A l \in Read : reads'[l] \in FirstRead
    BY <1>12 DEF Revisit, Opening, FirstRead
  <2>3. Live'
    <3> SUFFICES ASSUME NEW l \in Read, (reads[l].live)'
                 PROVE  (reads[l].pc # "idle" /\ reads[l].of = filter)'
      OBVIOUS
    <3> QED BY <2>1, FirstReads
  <2> QED BY <1>3, <2>1, <2>3 DEF ShownFitsFilter
<1>13. CASE Others
  BY <1>5, <1>13 DEF Others
<1>14. CASE DataFrame
  <2>1. UNCHANGED <<reads, filter>> /\ shown'.of = filter
    BY <1>14 DEF DataFrame
  <2> QED BY <1>2, <1>3, <2>1 DEF ShownFitsFilter
<1>15. ASSUME NEW s \in Slot, NEW a \in DOMAIN Acting, NEW r \in Row, Press(s, a, r) PROVE FitInv'
  BY <1>5, <1>15 DEF Press
<1>16. ASSUME NEW s \in Slot, ActServed(s) \/ ActLost(s) PROVE FitInv'
  BY <1>5, <1>16 DEF ActServed, ActLost
<1>17. ASSUME NEW s \in Slot, Settle(s) PROVE FitInv'
  <2>1. filter' = filter /\ losses' = losses /\ filter \in Filter
    BY <1>17 DEF Settle, PagesInv, PagesShape
  <2>2. CASE Follows(acts[s]) \in {"reload", "refresh"}
    <3>1. PICK l \in Free : reads' = Begun(l, filter)
      BY <1>17, <2>2 DEF Settle
    <3> QED BY <1>4, <2>1, <3>1 DEF Free
  <2>3. CASE Follows(acts[s]) = "local"
    <3>1. /\ UNCHANGED <<reads, state>>
          /\ shown' = IF shown = NoView THEN shown
                      ELSE [shown EXCEPT !.rows[acts[s].row].ver = acts[s].got]
      BY <1>17, <2>3 DEF Settle
    <3>2. shown' = NoView \/ (shown # NoView /\ shown'.of = shown.of)
      BY <3>1 DEF PagesInv, PagesShape
    <3> QED BY <1>1, <1>2, <1>3, <2>1, <3>1, <3>2 DEF ShownFitsFilter
  <2>4. CASE Follows(acts[s]) = "stays"
    BY <1>5, <1>17, <2>1, <2>4 DEF Settle
  <2>5. CASE Follows(acts[s]) = "done"
    <3>1. shown' = NoView /\ reads' = [l \in Read |-> NoRead]
      BY <1>17, <2>5 DEF Settle
    <3> QED BY <1>3, <3>1 DEF ShownFitsFilter, NoRead
  <2> QED BY <1>17, <2>2, <2>3, <2>4, <2>5 DEF Settle
<1> QED BY <1>7, <1>8, <1>9, <1>10, <1>11, <1>12, <1>13, <1>14, <1>15, <1>16, <1>17 DEF PagesNext

\* Where an effect cancels the read before it, what is shown is of the guide or
\* the filter that the page is of, however the answers of overlapping reads are
\* ordered, unless a read failed and the page keeps silent about it.
THEOREM ShownFits == Spec => []ShownFitsFilter
<1> DEFINE Inv == /\ PagesInv /\ FitInv /\ losses \in 0 .. MaxLosses
                  /\ screen # "page" => shown = NoView
<1>1. Init => Inv
  <2> SUFFICES ASSUME Init PROVE Inv
    OBVIOUS
  <2>1. PagesInv /\ (screen # "page" => shown = NoView) /\ losses = 0
    BY InitPages DEF Init
  <2>2. shown = NoView /\ filter = Home /\ \A l \in Read : reads[l] \in FirstRead
    BY DEF Init, PagesInit, ClosedPage, FirstRead
  <2>4. \A l \in Read : reads[l].live => reads[l].pc # "idle" /\ reads[l].of = filter
    <3> SUFFICES ASSUME NEW l \in Read, reads[l].live
                 PROVE  reads[l].pc # "idle" /\ reads[l].of = filter
      OBVIOUS
    <3> QED BY <2>2, FirstReads
  <2>5. FitInv
    BY <2>2, <2>4 DEF FitInv, ShownFitsFilter
  <2> QED BY <2>1, <2>5, LossesAreCounted
<1>2. Inv /\ [Next]_vars => Inv'
  <2> SUFFICES ASSUME Inv, [Next]_vars PROVE Inv'
    OBVIOUS
  <2>1. PagesInv' /\ page' = page
    BY NextPages
  <2>2. losses' \in 0 .. MaxLosses
    BY NextLosses
  <2>3. CASE PagesNext /\ screen' = "page"
    BY <2>1, <2>2, <2>3, NextFit
  <2>4. CASE /\ UNCHANGED pageVars
             /\ screen = "page" => screen' = "page" /\ losses' = losses
             /\ screen' = "page" => screen = "page"
    <3>1. Reading' = Reading /\ shown' = shown /\ UNCHANGED <<filter, state, reads>>
      BY <2>1, <2>4, SamePage DEF pageVars
    <3>2. FitInv'
      BY <2>4, <3>1 DEF FitInv, ShownFitsFilter
    <3> QED BY <2>1, <2>2, <2>4, <3>1, <3>2
  <2> QED BY <2>3, <2>4, PageSteps
<1>3. Inv => ShownFitsFilter
  BY DEF FitInv, ShownFitsFilter
<1> QED BY <1>1, <1>2, <1>3, PTL DEF Spec

\* What serving a request does to the action it is of.
LEMMA Serves ==
  ASSUME NEW s \in Slot, PagesInv, ActServed(s)
  PROVE  /\ acts[s].pc = "sent" /\ \A t \in Slot \ {s} : acts'[t] = acts[t]
         /\ acts'[s].pc \in {"sent", "answered"} /\ acts'[s].name = acts[s].name
         /\ acts'[s].row = acts[s].row /\ acts'[s].based = acts[s].based
         /\ acts'[s].got \in {acts[s].got, server'[acts[s].row].ver}
         /\ Effects(Acting[acts[s].name]) = {"none"} => acts'[s].got = acts[s].got
         /\ "none" \notin Effects(Acting[acts[s].name]) /\ acts'[s].result = "ok" =>
              acts'[s].got = server'[acts[s].row].ver
         /\ \A r \in Row : server'[r].ver >= server[r].ver
<1> DEFINE a == acts[s]
           request == Acting[a.name].requests[a.sent + 1]
           moved == [server EXCEPT ![a.row] =
                       [ver |-> @.ver + 1, open |-> @.open /\ request.effect # "move"]]
           got == IF request.effect = "none" THEN a.got ELSE server'[a.row].ver
           pc == IF a.sent + 1 = Len(Acting[a.name].requests) THEN "answered" ELSE "sent"
<1>1. /\ a \in ActType /\ a.pc = "sent" /\ a.row \in Row /\ acts \in [Slot -> ActType]
      /\ a.name \in DOMAIN Acting /\ a.sent < Requests(a)
  BY DEF ActServed, PagesInv, PagesShape
<1>2. server \in Seen /\ \A q \in Row : server[q].ver \in Nat
  BY PagesBounds DEF PagesInv, PagesShape, Seen, Versions
<1>3. CASE server' = server /\ \E result \in {"malformed", "refused", "conflict"} : Answer(s, result)
  <2>1. PICK result \in {"malformed", "refused", "conflict"} :
             acts' = [acts EXCEPT ![s] = [[a EXCEPT !.pc = "answered"] EXCEPT !.result = result]]
    BY <1>1, <1>3 DEF Answer
  <2> DEFINE new == [[a EXCEPT !.pc = "answered"] EXCEPT !.result = result]
  <2>2. /\ new.pc = "answered" /\ new.name = a.name /\ new.row = a.row /\ new.based = a.based
        /\ new.got = a.got /\ new.result # "ok"
    BY <1>1 DEF ActType
  <2> HIDE DEF new
  <2>3. acts' = [acts EXCEPT ![s] = new]
    BY <2>1 DEF new
  <2> QED BY <1>1, <1>2, <1>3, <2>2, <2>3
<1>4. CASE /\ server' \in {server, moved}
           /\ acts' = [acts EXCEPT ![s] =
                [a EXCEPT !.sent = @ + 1, !.result = "ok",
                          !.got = IF request.effect = "none" THEN @ ELSE server'[a.row].ver,
                          !.pc = IF a.sent + 1 = Len(Acting[a.name].requests) THEN "answered" ELSE "sent"]]
  <2> DEFINE new == [a EXCEPT !.sent = a.sent + 1, !.result = "ok", !.got = got, !.pc = pc]
  <2>1. acts' = [acts EXCEPT ![s] = new]
    BY <1>1, <1>4 DEF ActType
  <2>2. pc \in {"sent", "answered"}
    OBVIOUS
  <2>3. request.effect \in Effects(Acting[a.name])
    <3>1. a.sent + 1 \in DOMAIN Acting[a.name].requests
      <4>1. Requests(a) \in {1, 2} /\ a.sent \in 0 .. 2 /\ Requests(a) = Len(Acting[a.name].requests)
        BY <1>1, RequestCount DEF Requests, ActType, PagesInv
      <4> QED BY <1>1, <4>1
    <3> QED BY <3>1 DEF Effects
  <2>4. got \in {a.got, server'[a.row].ver}
    OBVIOUS
  <2>5. /\ Effects(Acting[a.name]) = {"none"} => got = a.got
        /\ "none" \notin Effects(Acting[a.name]) => got = server'[a.row].ver
    BY <2>3
  <2>6. \A r \in Row : server'[r].ver >= server[r].ver
    BY <1>1, <1>2, <1>4 DEF Seen
  <2> HIDE DEF pc, got
  <2>7. new.pc = pc /\ new.got = got /\ new.name = a.name /\ new.row = a.row /\ new.based = a.based
    BY <1>1 DEF ActType
  <2> HIDE DEF new
  <2>8. acts'[s] = new /\ \A t \in Slot \ {s} : acts'[t] = acts[t]
    BY <1>1, <2>1
  <2> QED BY <1>1, <2>2, <2>4, <2>5, <2>6, <2>7, <2>8
<1> QED BY <1>3, <1>4 DEF ActServed

\* What is under way was pressed, and is for the same row as then.
LEMMA ActsKept ==
  ASSUME NEW t \in Slot, PagesInv, PagesNext, acts'[t].pc # "idle"
  PROVE  \/ /\ acts[t].pc # "idle" /\ acts'[t].name = acts[t].name
            /\ acts'[t].row = acts[t].row /\ acts'[t].based = acts[t].based
         \/ \E a \in DOMAIN Acting, r \in Row : Press(t, a, r)
<1> DEFINE Same == /\ acts[t].pc # "idle" /\ acts'[t].name = acts[t].name
                   /\ acts'[t].row = acts[t].row /\ acts'[t].based = acts[t].based
<1>1. acts \in [Slot -> ActType]
  BY DEF PagesInv, PagesShape
<1>2. NoPageAct.pc = "idle"
  BY DEF NoPageAct
<1>3. acts'[t] = acts[t] => Same
  OBVIOUS
<1>4. CASE Revisit \/ Others \/ DataFrame
  BY <1>2, <1>3, <1>4 DEF Revisit, Opening, Others, DataFrame
<1>5. ASSUME NEW l \in Read,
             \/ \E f \in Filter : SetFilter(f, l)
             \/ RetryRead(l) \/ News(l) \/ ReadServed(l) \/ ReadAnswered(l) \/ ReadFails(l)
      PROVE  Same
  BY <1>2, <1>3, <1>5
     DEF SetFilter, RetryRead, News, ReadServed, ReadAnswered, ReadFails, Over
<1>6. ASSUME NEW s \in Slot, NEW a \in DOMAIN Acting, NEW r \in Row, Press(s, a, r)
      PROVE  Same \/ \E b \in DOMAIN Acting, q \in Row : Press(t, b, q)
  <2>1. s # t => acts'[t] = acts[t]
    BY <1>1, <1>6 DEF Press
  <2>2. CASE s = t
    <3>1. Press(t, a, r)
      BY <1>6, <2>2
    <3> QED BY <3>1

  <2> QED BY <1>3, <2>1, <2>2, Zenon
<1>7. ASSUME NEW s \in Slot, ActServed(s) PROVE Same
  <2>1. s # t => acts'[t] = acts[t]
    BY <1>1, <1>7 DEF ActServed, Answer
  <2> QED BY <1>3, <1>7, <2>1, Serves
<1>8. ASSUME NEW s \in Slot, ActLost(s) PROVE Same
  <2>1. s # t => acts'[t] = acts[t]
    BY <1>1, <1>8 DEF ActLost, Answer
  <2> QED BY <1>1, <1>3, <1>8, <2>1 DEF ActLost, Answer, ActType
<1>9. ASSUME NEW s \in Slot, Settle(s) PROVE Same
  <2>1. acts[s].pc = "answered"
    BY <1>9 DEF Settle
  <2>2. CASE Follows(acts[s]) = "reload"
    <3>1. PICK l \in Free : acts' = [acts EXCEPT ![s] =
            [NoPageAct EXCEPT !.pc = "reading", !.name = acts[s].name, !.row = acts[s].row,
                              !.read = l, !.based = acts[s].based]]
      BY <1>9, <2>2 DEF Settle
    <3> DEFINE new == [NoPageAct EXCEPT !.pc = "reading", !.name = acts[s].name, !.row = acts[s].row,
                                        !.read = l, !.based = acts[s].based]
    <3>2. new.name = acts[s].name /\ new.row = acts[s].row /\ new.based = acts[s].based
      BY DEF NoPageAct
    <3> HIDE DEF new
    <3>3. acts' = [acts EXCEPT ![s] = new]
      BY <3>1 DEF new
    <3> QED BY <1>1, <1>3, <2>1, <3>2, <3>3
  <2>3. CASE Follows(acts[s]) \in {"refresh", "local", "stays"}
    <3>1. acts' = [acts EXCEPT ![s] = NoPageAct]
      BY <1>9, <2>3 DEF Settle, Ended
    <3> QED BY <1>1, <1>2, <1>3, <3>1
  <2>4. CASE Follows(acts[s]) = "done"
    <3>1. acts'[t] = NoPageAct
      BY <1>9, <2>4 DEF Settle
    <3> QED BY <1>2, <3>1
  <2> QED BY <1>9, <2>2, <2>3, <2>4 DEF Settle
<1> QED BY <1>4, <1>5, <1>6, <1>7, <1>8, <1>9 DEF PagesNext

LEMMA NextSave ==
  ASSUME PagesInv, NoBlindSave, [Next]_vars
  PROVE  NoBlindSave'
<1>1. PagesInv' /\ page' = page /\ Acting' = Acting
  BY NextPages, SamePage
<1> SUFFICES ASSUME NEW s \in Slot, acts'[s].pc # "idle", page # "content",
                    "save" \in Effects(Acting[acts'[s].name])
             PROVE  acts'[s].based
  BY <1>1 DEF NoBlindSave, Effects
<1>2. ASSUME acts[s].pc # "idle", acts'[s].name = acts[s].name, acts'[s].based = acts[s].based
      PROVE  acts'[s].based
  BY <1>2 DEF NoBlindSave, Effects
<1>3. ASSUME NEW a \in DOMAIN Acting, NEW r \in Row, Press(s, a, r) PROVE acts'[s].based
  <2> DEFINE based == shown # NoView
             new == [NoPageAct EXCEPT !.pc = "sent", !.name = a, !.row = r, !.based = based]
  <2>1. acts' = [acts EXCEPT ![s] = new] /\ acts \in [Slot -> ActType] /\ Offered(a, r)
    BY <1>3 DEF Press, PagesInv, PagesShape
  <2>2. new.name = a /\ new.based = based
    BY DEF NoPageAct
  <2> HIDE DEF new
  <2>3. acts'[s] = new
    BY <2>1
  <2>4. Showing.buttons[a].on # "form"
    BY <2>2, <2>3, EveryPage DEF PagesInv, PagesShape, Parts, Handles, Acting, Showing
  <2>5. based
    BY <2>1, <2>4 DEF Offered
  <2> QED BY <2>2, <2>3, <2>5
<1>4. CASE UNCHANGED pageVars
  BY <1>2, <1>4 DEF pageVars
<1>5. CASE PagesNext
  BY <1>2, <1>3, <1>5, ActsKept
<1> QED BY <1>4, <1>5, PageSteps

\* A profile, a setting or a document that is written back was on the screen
\* when the button was pressed, so that none is replaced by an empty form,
\* wherever the reads before it failed or are late; the content editor aside.
THEOREM SavesAreSeen == Spec => []NoBlindSave
<1>1. Init => PagesInv /\ NoBlindSave
  <2>1. Init => \A s \in Slot : acts[s].pc = "idle"
    BY DEF Init, PagesInit, ClosedPage, NoPageAct
  <2> QED BY <2>1, InitPages DEF NoBlindSave
<1>2. PagesInv /\ NoBlindSave /\ [Next]_vars => (PagesInv /\ NoBlindSave)'
  BY NextPages, NextSave
<1> QED BY <1>1, <1>2, PTL DEF Spec
-----------------------------------------------------------------------------
\* What is under way on a page with one flag and no reads of its own: an action,
\* and then the read that follows it.
Alone ==
  /\ \A s, t \in Slot : acts[s].pc # "idle" /\ acts[t].pc # "idle" => s = t
  /\ \A k, l \in Read : reads[k].pc # "idle" /\ reads[l].pc # "idle" => k = l
  /\ \A l \in Read : reads[l].pc # "idle" =>
       /\ reads[l].live
       /\ state = "loading" \/ \E s \in Slot : acts[s].pc = "reading"
       /\ \A s \in Slot : acts[s].pc # "idle" => acts[s].pc = "reading" /\ acts[s].read = l
  /\ state = "loading" => \A s \in Slot : acts[s].pc \in {"idle", "reading"}
  /\ state = "error" /\ Showing.retry => \A s \in Slot : acts[s].pc = "idle"
  /\ Reading.asks = {} => shown = NoView /\ \A l \in Read : reads[l].pc = "idle"

\* What one has done is at the server, and in whatever was read after it.
Known ==
  /\ \A r \in Row : own[r] <= server[r].ver
  /\ \A s \in Slot : acts[s].pc # "idle" => acts[s].got <= server[acts[s].row].ver

UpToDate ==
  /\ \A l \in Read : reads[l].pc = "served" => \A r \in Row : reads[l].seen[r].ver >= own[r]
  /\ state = "ready" /\ shown # NoView /\ (\A s \in Slot : acts[s].pc # "reading") =>
       \A r \in Row : shown.rows[r].ver >= own[r]
  /\ \A s \in Slot : acts[s].pc # "idle" =>
       LET done == Effects(Acting[acts[s].name]) IN
       /\ done = {"none"} => acts[s].got = 0
       /\ "none" \notin done /\ acts[s].pc # "reading" /\ acts[s].result = "ok" =>
            acts[s].got >= own[acts[s].row]

OwnInv == Known /\ (OneReadAtATime => Alone /\ UpToDate)

\* What such a page is made of.
LEMMA OneRead ==
  ASSUME PagesShape, OneReadAtATime
  PROVE  /\ Reading.asks \subseteq {"open"} /\ "loading" \notin Showing.shownIn
         /\ Reading.order = "any" /\ Reading.fails = "error"
         /\ Showing.retry => Reading.clears /\ "error" \notin Showing.shownIn
         /\ Reading.asks = {} => ~Showing.retry
         /\ \A a, b \in DOMAIN Acting :
              Showing.buttons[a].flag = Showing.buttons[b].flag
              /\ Showing.buttons[a].flag \notin {"row", "never"}
<1>1. Reads(Reading, Showing)
  BY EveryPage DEF PagesShape, Parts, Reading, Showing
<1> QED BY <1>1 DEF Reads, OneReadAtATime

\* What follows an action of such a page.
LEMMA OneEnd ==
  ASSUME NEW s \in Slot, PagesShape, OneReadAtATime, acts[s].pc # "idle"
  PROVE  LET a == acts[s]
             done == Effects(Acting[a.name])
         IN /\ Follows(a) # "refresh"
            /\ Reading.asks = {} => Follows(a) \notin {"reload", "local"}
            /\ Follows(a) = "local" => a.result = "ok" /\ "none" \notin done
            /\ Follows(a) = "stays" /\ a.result = "ok" => done = {"none"} \/ Reading.asks = {}
<1> DEFINE a == acts[s]
           x == Acting[a.name]
<1>1. a.name \in DOMAIN Acting
  BY DEF PagesShape
<1>2. Handles(page, Reading, Showing, a.name, x)
  BY <1>1, EveryPage DEF PagesShape, Parts, Reading, Showing, Acting
<1>3. /\ Showing.buttons[a.name].flag \notin {"row", "never"}
      /\ Reading.asks \subseteq {"open"} /\ "loading" \notin Showing.shownIn
  BY <1>1, OneRead
<1>4. /\ "refresh" \notin Ends(x) /\ x.conflict # "local" /\ x.failed # "local"
      /\ x.ok = "local" => "none" \notin Effects(x)
      /\ x.ok = "stays" => Effects(x) = {"none"} \/ Reading.asks = {}
      /\ Reading.asks = {} => Ends(x) \subseteq {"stays", "done"}
  BY <1>2, <1>3 DEF Handles
<1>5. \/ a.result = "ok" /\ Follows(a) = x.ok
      \/ a.result = "conflict" /\ Follows(a) = x.conflict
      \/ a.result \notin {"ok", "conflict"} /\ Follows(a) = x.failed
  BY DEF Follows
<1> HIDE DEF x, a
<1>6. Follows(a) \in Ends(x)
  BY <1>5 DEF Ends
<1> QED BY <1>4, <1>5, <1>6 DEF a, x

LEMMA NextKnown ==
  ASSUME PagesInv, Known, PagesNext
  PROVE  Known'
<1>1. /\ acts \in [Slot -> ActType] /\ own \in [Row -> Nat]
      /\ \A r \in Row : server[r].ver \in Nat
      /\ \A s \in Slot : acts[s].got \in Nat /\ (acts[s].pc # "idle" => acts[s].row \in Row)
  BY PagesBounds DEF PagesInv, PagesShape, ActType, Seen, Versions
<1>2. /\ acts' \in [Slot -> ActType'] /\ \A r \in Row : server'[r].ver \in Nat
      /\ \A s \in Slot : acts'[s].got \in Nat
  BY PagesStep, PagesBounds DEF PagesInv, PagesShape, ActType, Seen, Versions
<1>3. NoPageAct.pc = "idle" /\ NoPageAct.got = 0
  BY DEF NoPageAct
<1>4. ASSUME own' = own, \A r \in Row : server'[r].ver >= server[r].ver,
             \A s \in Slot : acts'[s] = acts[s] \/ acts'[s].pc = "idle" \/ acts'[s].got = 0
                             \/ (acts[s].pc # "idle" /\ acts'[s].row = acts[s].row
                                  /\ acts'[s].got \in {acts[s].got, server'[acts[s].row].ver}),
             \A s \in Slot : acts'[s].pc # "idle" => acts'[s].row \in Row
      PROVE  Known'
  <2>1. \A r \in Row : own'[r] <= server'[r].ver
    BY <1>1, <1>2, <1>4 DEF Known
  <2>2. ASSUME NEW s \in Slot, acts'[s].pc # "idle"
        PROVE  acts'[s].got <= server'[acts'[s].row].ver
    BY <1>1, <1>2, <1>4, <2>2 DEF Known
  <2> QED BY <2>1, <2>2 DEF Known
<1>5. \A s \in Slot : acts'[s].pc # "idle" => acts'[s].row \in Row
  BY PagesStep DEF PagesInv, PagesShape
<1>6. CASE Revisit
  <2>1. /\ own' = [r \in Row |-> 0] /\ \A s \in Slot : acts'[s] = NoPageAct
    BY <1>6 DEF Revisit, Opening
  <2> QED BY <1>2, <1>3, <2>1 DEF Known
<1>7. CASE Others
  <2>1. TheRow \in Row /\ own' = own /\ acts' = acts
    BY <1>7, Blank DEF Others
  <2>2. \A r \in Row : server'[r].ver >= server[r].ver
    BY <1>1, <1>7, <2>1 DEF Others, PagesInv, PagesShape, Seen
  <2> QED BY <1>4, <1>5, <2>1, <2>2
<1>8. CASE DataFrame
  BY <1>1, <1>4, <1>5, <1>8 DEF DataFrame
<1>9. ASSUME NEW l \in Read,
             \/ \E f \in Filter : SetFilter(f, l)
             \/ RetryRead(l) \/ News(l) \/ ReadServed(l) \/ ReadAnswered(l) \/ ReadFails(l)
      PROVE  Known'
  <2>1. own' = own /\ server' = server /\ \A s \in Slot : acts'[s] = acts[s] \/ acts'[s] = NoPageAct
    BY <1>1, <1>9
       DEF SetFilter, RetryRead, News, ReadServed, ReadAnswered, ReadFails, Over
  <2> QED BY <1>1, <1>3, <1>4, <1>5, <2>1
<1>10. ASSUME NEW s \in Slot, NEW a \in DOMAIN Acting, NEW r \in Row, Press(s, a, r)
       PROVE  Known'
  <2> DEFINE based == shown # NoView
             new == [NoPageAct EXCEPT !.pc = "sent", !.name = a, !.row = r, !.based = based]
  <2>1. acts' = [acts EXCEPT ![s] = new] /\ own' = own /\ server' = server
    BY <1>10 DEF Press
  <2>2. new.got = 0
    BY DEF NoPageAct
  <2> HIDE DEF new
  <2> QED BY <1>1, <1>4, <1>5, <2>1, <2>2
<1>11. ASSUME NEW s \in Slot, ActServed(s) PROVE Known'
  <2>1. own' = own
    BY <1>11 DEF ActServed
  <2> QED BY <1>4, <1>5, <1>11, <2>1, Serves
<1>12. ASSUME NEW s \in Slot, ActLost(s) PROVE Known'
  <2> DEFINE new == [[acts[s] EXCEPT !.pc = "answered"] EXCEPT !.result = "lost"]
  <2>1. acts[s].pc # "idle" /\ acts' = [acts EXCEPT ![s] = new] /\ own' = own /\ server' = server
    BY <1>1, <1>12 DEF ActLost, Answer
  <2>2. new.got = acts[s].got /\ new.row = acts[s].row
    BY <1>1 DEF ActType
  <2> HIDE DEF new
  <2> QED BY <1>1, <1>4, <1>5, <2>1, <2>2
<1>13. ASSUME NEW s \in Slot, Settle(s) PROVE Known'
  <2>1. /\ acts[s].pc = "answered" /\ acts[s].row \in Row /\ server' = server
        /\ \A r \in Row : own'[r] = own[r] \/ (r = acts[s].row /\ own'[r] = acts[s].got)
    BY <1>1, <1>13 DEF Settle
  <2>2. \A r \in Row : own'[r] <= server'[r].ver
    BY <2>1 DEF Known
  <2>3. ASSUME NEW t \in Slot PROVE acts'[t] = acts[t] \/ acts'[t].pc = "idle" \/ acts'[t].got = 0
    <3>1. CASE Follows(acts[s]) = "reload"
      <4>1. PICK l \in Free : acts' = [acts EXCEPT ![s] =
              [NoPageAct EXCEPT !.pc = "reading", !.name = acts[s].name, !.row = acts[s].row,
                                !.read = l, !.based = acts[s].based]]
        BY <1>13, <3>1 DEF Settle
      <4> DEFINE new == [NoPageAct EXCEPT !.pc = "reading", !.name = acts[s].name,
                                          !.row = acts[s].row, !.read = l, !.based = acts[s].based]
      <4>2. new.got = 0
        BY DEF NoPageAct
      <4> HIDE DEF new
      <4>3. acts' = [acts EXCEPT ![s] = new]
        BY <4>1 DEF new
      <4> QED BY <1>1, <4>2, <4>3
    <3>2. CASE Follows(acts[s]) # "reload"
      BY <1>1, <1>3, <1>13, <3>2 DEF Settle, Ended
    <3> QED BY <3>1, <3>2
  <2>4. ASSUME NEW t \in Slot, acts'[t].pc # "idle" PROVE acts'[t].got <= server'[acts'[t].row].ver
    <3>1. acts'[t] = acts[t] \/ acts'[t].got = 0
      BY <2>3, <2>4
    <3> QED BY <1>2, <1>5, <2>1, <2>4, <3>1 DEF Known
  <2> QED BY <2>2, <2>4 DEF Known
<1> QED BY <1>6, <1>7, <1>8, <1>9, <1>10, <1>11, <1>12, <1>13 DEF PagesNext

\* While a request of an action is out, nothing else is under way.
LEMMA Only ==
  ASSUME NEW s \in Slot, Alone, acts[s].pc \in {"sent", "answered"}
  PROVE  /\ \A t \in Slot : t # s => acts[t].pc = "idle"
         /\ \A l \in Read : reads[l].pc = "idle"
         /\ state # "loading" /\ ~(state = "error" /\ Showing.retry)
  BY DEF Alone

\* A button that is there and enabled: nothing is under way.
LEMMA Nothing ==
  ASSUME NEW s \in Slot, NEW a \in DOMAIN Acting, NEW r \in Row,
         PagesInv, OneReadAtATime, Alone, Press(s, a, r)
  PROVE  /\ \A t \in Slot : acts[t].pc = "idle"
         /\ \A l \in Read : reads[l].pc = "idle"
         /\ state # "loading" /\ ~(state = "error" /\ Showing.retry)
<1>1. PagesShape /\ state \in Showing.shownIn
  BY DEF PagesInv, Press, Offered
<1>2. \A t \in Slot : acts[t].pc = "idle"
  <2>1. ASSUME NEW t \in Slot, acts[t].pc # "idle" PROVE FALSE
    <3>1. acts[t].name \in DOMAIN Acting
      BY <1>1, <2>1 DEF PagesShape
    <3>2. /\ Showing.buttons[a].flag \notin {"row", "never"}
          /\ Showing.buttons[acts[t].name].flag = Showing.buttons[a].flag
      BY <1>1, <3>1, OneRead
    <3> QED BY <2>1, <3>2 DEF Press, Enabled
  <2> QED BY <2>1
<1>3. state # "loading" /\ ~(state = "error" /\ Showing.retry)
  BY <1>1, OneRead
<1> QED BY <1>2, <1>3 DEF Alone

LEMMA NextAlone ==
  ASSUME PagesInv, OneReadAtATime, Alone, PagesNext
  PROVE  Alone'
<1>1. page' = page /\ Reading' = Reading /\ Showing' = Showing /\ PagesShape
  BY PagesStep, SamePage DEF PagesInv
<1>2. acts \in [Slot -> ActType] /\ reads \in [Read -> ReadType]
  BY <1>1 DEF PagesShape
<1>3. NoPageAct.pc = "idle" /\ NoRead.pc = "idle"
  BY DEF NoPageAct, NoRead
\* Nothing is under way, or a read, or an action.
<1>4. ASSUME \A s \in Slot : acts'[s].pc = "idle", \A l \in Read : reads'[l].pc = "idle",
             Reading.asks = {} => shown' = NoView
      PROVE  Alone'
  BY <1>1, <1>4 DEF Alone
<1>5. ASSUME NEW l \in Read, reads'[l].live, \A k \in Read : k # l => reads'[k].pc = "idle",
             Reading.asks # {}, state' = "loading" \/ \E s \in Slot : acts'[s].pc = "reading",
             \A s, t \in Slot : acts'[s].pc # "idle" /\ acts'[t].pc # "idle" => s = t,
             \A s \in Slot : acts'[s].pc # "idle" =>
               acts'[s].pc = "reading" /\ acts'[s].read = l /\ ~(state' = "error" /\ Showing.retry)
      PROVE  Alone'
  BY <1>1, <1>5 DEF Alone
<1>6. ASSUME NEW s \in Slot, \A t \in Slot : t # s => acts'[t].pc = "idle",
             \A l \in Read : reads'[l].pc = "idle", Reading.asks = {} => shown' = NoView,
             state' # "loading" /\ ~(state' = "error" /\ Showing.retry)
      PROVE  Alone'
  BY <1>1, <1>6 DEF Alone
<1>7. CASE Revisit
  <2>1. /\ shown' = NoView /\ \A s \in Slot : acts'[s] = NoPageAct
        /\ state' = IF "open" \in Reading.asks THEN "loading" ELSE "ready"
        /\ \A l \in Read : reads'[l] = IF "open" \in Reading.asks /\ l = 1
                                       THEN [NoRead EXCEPT !.pc = "sent", !.live = TRUE] ELSE NoRead
    BY <1>7 DEF Revisit, Opening, Reading
  <2>2. [NoRead EXCEPT !.pc = "sent", !.live = TRUE].live
    BY DEF NoRead
  <2>3. CASE "open" \in Reading.asks /\ 1 \in Read
    <3>1. /\ reads'[1].live /\ state' = "loading"
          /\ \A k \in Read : k # 1 => reads'[k].pc = "idle"
          /\ \A s \in Slot : acts'[s].pc = "idle"
      BY <1>3, <2>1, <2>2, <2>3
    <3> QED BY <1>5, <2>3, <3>1
  <2>4. CASE ~("open" \in Reading.asks /\ 1 \in Read)
    BY <1>3, <1>4, <2>1, <2>4
  <2> QED BY <2>3, <2>4
<1>8. CASE Others
  BY <1>1, <1>8 DEF Others, Alone
<1>9. CASE DataFrame
  BY <1>1, <1>9, OneRead DEF DataFrame
<1>10. ASSUME NEW l \in Read, \/ \E f \in Filter : SetFilter(f, l)
                              \/ News(l)
       PROVE  Alone'
  BY <1>1, <1>10, OneRead DEF SetFilter, News
<1>11. ASSUME NEW l \in Read, RetryRead(l) PROVE Alone'
  <2>1. /\ \A s \in Slot : acts[s].pc = "idle"
        /\ Reading.asks # {} /\ Reading.clears /\ state' = "loading"
    BY <1>1, <1>11, OneRead DEF RetryRead, Alone, Clearing
  <2>2. \A k \in Read : reads[k].pc = "idle"
    BY <1>11, <2>1 DEF RetryRead, Alone
  <2>3. reads' = Begun(l, filter) /\ acts' = acts
    BY <1>11 DEF RetryRead
  <2>4. reads'[l].live /\ \A k \in Read : k # l => reads'[k].pc = "idle"
    BY <1>2, <2>2, <2>3 DEF Begun, ReadSuperseded, ReadType
  <2> QED BY <1>5, <2>1, <2>3, <2>4
<1>12. ASSUME NEW l \in Read, ReadServed(l) PROVE Alone'
  <2>1. /\ UNCHANGED <<acts, state, shown>> /\ reads[l].pc # "idle"
        /\ \A k \in Read : reads'[k].live = reads[k].live /\ (k # l => reads'[k] = reads[k])
    BY <1>2, <1>12 DEF ReadServed, ReadType
  <2>2. /\ \A k \in Read : k # l => reads[k].pc = "idle"
        /\ reads[l].live /\ Reading.asks # {}
    BY <2>1 DEF Alone
  <2> QED BY <1>5, <2>1, <2>2 DEF Alone
<1>13. ASSUME NEW l \in Read, ReadAnswered(l) \/ ReadFails(l) PROVE Alone'
  <2>1. reads[l].pc # "idle" /\ Over(l)
    BY <1>13 DEF ReadAnswered, ReadFails
  <2>2. /\ \A k \in Read : k # l => reads[k].pc = "idle"
        /\ Reading.asks # {}
        /\ \A s \in Slot : acts[s].pc # "idle" => acts[s].pc = "reading" /\ acts[s].read = l
    BY <2>1 DEF Alone
  <2>3. /\ \A k \in Read : reads'[k].pc = "idle"
        /\ \A s \in Slot : acts'[s].pc = "idle"
    BY <1>2, <1>3, <2>1, <2>2 DEF Over, Waiting
  <2> QED BY <1>4, <2>2, <2>3
<1>14. ASSUME NEW s \in Slot, NEW a \in DOMAIN Acting, NEW r \in Row, Press(s, a, r) PROVE Alone'
  <2>1. UNCHANGED <<shown, state, reads>> /\ \A t \in Slot : t # s => acts'[t] = acts[t]
    BY <1>2, <1>14 DEF Press
  <2>2. Reading.asks = {} => shown = NoView
    BY DEF Alone
  <2> QED BY <1>6, <1>14, <2>1, <2>2, Nothing
<1>15. ASSUME NEW s \in Slot, ActServed(s) \/ ActLost(s) PROVE Alone'
  <2>1. /\ UNCHANGED <<shown, state, reads>> /\ acts[s].pc \in {"sent", "answered"}
        /\ \A t \in Slot : t # s => acts'[t] = acts[t]
    BY <1>2, <1>15 DEF ActServed, ActLost, Answer
  <2>2. Reading.asks = {} => shown = NoView
    BY DEF Alone
  <2> QED BY <1>6, <2>1, <2>2, Only
<1>16. ASSUME NEW s \in Slot, Settle(s) PROVE Alone'
  <2>1. acts[s].pc = "answered"
    BY <1>16 DEF Settle
  <2>2. /\ \A t \in Slot : t # s => acts[t].pc = "idle"
        /\ \A l \in Read : reads[l].pc = "idle"
        /\ state # "loading" /\ ~(state = "error" /\ Showing.retry)
    BY <2>1, Only
  <2>3. Reading.asks = {} => shown = NoView
    BY DEF Alone
  <2>4. CASE Follows(acts[s]) = "reload"
    <3>1. PICK l \in Free :
            /\ reads' = Begun(l, filter)
            /\ acts' = [acts EXCEPT ![s] =
                 [NoPageAct EXCEPT !.pc = "reading", !.name = acts[s].name, !.row = acts[s].row,
                                   !.read = l, !.based = acts[s].based]]
      BY <1>16, <2>4 DEF Settle
    <3> DEFINE new == [NoPageAct EXCEPT !.pc = "reading", !.name = acts[s].name,
                                        !.row = acts[s].row, !.read = l, !.based = acts[s].based]
    <3>2. new.pc = "reading" /\ new.read = l
      BY DEF NoPageAct
    <3> HIDE DEF new
    <3>3. acts' = [acts EXCEPT ![s] = new]
      BY <3>1 DEF new
    <3>4. l \in Read /\ reads'[l].live /\ \A k \in Read : k # l => reads'[k].pc = "idle"
      BY <1>2, <2>2, <3>1 DEF Free, Begun, ReadSuperseded, ReadType
    <3>5. /\ acts'[s].pc = "reading" /\ acts'[s].read = l
          /\ \A t \in Slot : t # s => acts'[t].pc = "idle"
      BY <1>2, <2>2, <3>2, <3>3
    <3>6. Clearing
      BY <1>16, <2>4 DEF Settle
    <3>7. state' \in {state, "loading"} /\ ~(state' = "error" /\ Showing.retry)
      BY <2>2, <3>6 DEF Clearing
    <3>8. Reading.asks # {}
      BY <1>1, <2>1, <2>4, OneEnd
    <3> QED BY <1>5, <3>4, <3>5, <3>7, <3>8
  <2>5. CASE Follows(acts[s]) = "refresh"
    BY <1>1, <2>1, <2>5, OneEnd
  <2>6. CASE Follows(acts[s]) \in {"local", "stays"}
    <3>1. /\ acts' = [acts EXCEPT ![s] = NoPageAct] /\ reads' = reads
          /\ Follows(acts[s]) = "stays" => shown' = shown
      BY <1>16, <2>6 DEF Settle, Ended
    <3>2. Reading.asks = {} => shown' = NoView
      BY <1>1, <2>1, <2>3, <2>6, <3>1, OneEnd
    <3> QED BY <1>2, <1>3, <1>4, <2>2, <3>1, <3>2
  <2>7. CASE Follows(acts[s]) = "done"
    <3>1. shown' = NoView /\ acts' = [t \in Slot |-> NoPageAct] /\ reads' = [l \in Read |-> NoRead]
      BY <1>16, <2>7 DEF Settle
    <3> QED BY <1>3, <1>4, <3>1
  <2> QED BY <1>16, <2>4, <2>5, <2>6, <2>7 DEF Settle
<1> QED BY <1>7, <1>8, <1>9, <1>10, <1>11, <1>12, <1>13, <1>14, <1>15, <1>16 DEF PagesNext

LEMMA NextUpToDate ==
  ASSUME PagesInv, Known, OneReadAtATime, Alone, UpToDate, PagesNext
  PROVE  UpToDate'
<1>1. /\ page' = page /\ Reading' = Reading /\ Showing' = Showing /\ Acting' = Acting
      /\ PagesShape /\ Known' /\ Alone'
  BY PagesStep, SamePage, NextKnown, NextAlone DEF PagesInv
<1>2. acts \in [Slot -> ActType] /\ reads \in [Read -> ReadType]
  BY <1>1 DEF PagesShape
<1>3. NoPageAct.pc = "idle" /\ NoRead.pc = "idle"
  BY DEF NoPageAct, NoRead
<1>4. /\ own \in [Row -> Nat] /\ \A r \in Row : server[r].ver \in Nat
      /\ \A l \in Read, r \in Row : reads[l].seen[r].ver \in Nat
      /\ shown # NoView => \A r \in Row : shown.rows[r].ver \in Nat
      /\ \A s \in Slot : acts[s].got \in Nat
  BY <1>1, PagesBounds DEF PagesShape, ReadType, ActType, Seen, Versions
<1> DEFINE Read1 == \A l \in Read : reads[l].pc = "served" =>
                      \A r \in Row : reads[l].seen[r].ver >= own[r]
           Shown1 == state = "ready" /\ shown # NoView /\ (\A s \in Slot : acts[s].pc # "reading") =>
                       \A r \in Row : shown.rows[r].ver >= own[r]
           Act1 == \A s \in Slot : acts[s].pc # "idle" =>
                     LET done == Effects(Acting[acts[s].name]) IN
                     /\ done = {"none"} => acts[s].got = 0
                     /\ "none" \notin done /\ acts[s].pc # "reading" /\ acts[s].result = "ok" =>
                          acts[s].got >= own[acts[s].row]
<1>5. Read1 /\ Shown1 /\ Act1
  BY DEF UpToDate
<1>6. ASSUME Read1', Shown1', Act1' PROVE UpToDate'
  BY <1>6 DEF UpToDate
\* Nothing is under way any more.
<1>7. ASSUME \A s \in Slot : acts'[s].pc = "idle", \A l \in Read : reads'[l].pc # "served",
             \/ shown' = NoView \/ state' # "ready"
             \/ \A r \in Row : shown'.rows[r].ver >= own'[r]
      PROVE  UpToDate'
  <2>1. Read1' /\ Act1'
    BY <1>7
  <2>2. Shown1'
    BY <1>7
  <2> QED BY <1>6, <2>1, <2>2
<1>8. CASE Revisit
  <2>1. /\ shown' = NoView /\ \A s \in Slot : acts'[s] = NoPageAct
        /\ \A l \in Read : reads'[l] \in FirstRead
    BY <1>8 DEF Revisit, Opening, FirstRead
  <2>2. \A x \in FirstRead : x.pc # "served"
    <3>1. [NoRead EXCEPT !.pc = "sent", !.live = TRUE].pc = "sent"
      BY DEF NoRead
    <3> QED BY <1>3, <3>1 DEF FirstRead
  <2> QED BY <1>3, <1>7, <2>1, <2>2
<1>9. CASE Others
  BY <1>1, <1>9 DEF Others, UpToDate
<1>10. CASE DataFrame
  BY <1>1, <1>10, OneRead DEF DataFrame
<1>11. ASSUME NEW l \in Read, (\E f \in Filter : SetFilter(f, l)) \/ News(l) PROVE UpToDate'
  BY <1>1, <1>11, OneRead DEF SetFilter, News
<1>12. ASSUME NEW l \in Read, RetryRead(l) PROVE UpToDate'
  <2>1. /\ \A s \in Slot : acts[s].pc = "idle"
        /\ state' = "loading" /\ acts' = acts /\ reads' = Begun(l, filter)
    BY <1>1, <1>12, OneRead DEF RetryRead, Alone, Clearing
  <2>2. \A k \in Read : reads[k].pc = "idle"
    BY <1>12, <2>1 DEF RetryRead, Alone
  <2>3. \A k \in Read : reads'[k].pc # "served"
    BY <1>2, <2>1, <2>2 DEF Begun, ReadSuperseded, ReadType
  <2> QED BY <1>7, <2>1, <2>3
<1>13. ASSUME NEW l \in Read, ReadServed(l) PROVE UpToDate'
  <2>1. /\ UNCHANGED <<acts, state, shown, own>> /\ reads[l] \in ReadType
        /\ reads' = [reads EXCEPT ![l] = [[reads[l] EXCEPT !.pc = "served"] EXCEPT !.seen = server]]
    BY <1>2, <1>13 DEF ReadServed
  <2>2. reads'[l].seen = server /\ \A k \in Read : k # l => reads'[k] = reads[k]
    BY <1>2, <2>1 DEF ReadType
  <2>3. Read1'
    BY <1>4, <1>5, <2>1, <2>2 DEF Known
  <2>4. Shown1' /\ Act1'
    BY <1>1, <1>5, <2>1
  <2> QED BY <1>6, <2>3, <2>4
<1>14. ASSUME NEW l \in Read, ReadAnswered(l) \/ ReadFails(l) PROVE UpToDate'
  <2>1. reads[l].pc # "idle" /\ Over(l) /\ own' = own
    BY <1>14 DEF ReadAnswered, ReadFails
  <2>2. /\ \A k \in Read : k # l => reads[k].pc = "idle"
        /\ reads[l].live
        /\ \A s \in Slot : acts[s].pc # "idle" => acts[s].pc = "reading" /\ acts[s].read = l
    BY <2>1 DEF Alone
  <2>3. /\ \A k \in Read : reads'[k].pc = "idle"
        /\ \A s \in Slot : acts'[s].pc = "idle"
    BY <1>2, <1>3, <2>1, <2>2 DEF Over, Waiting
  <2>4. CASE ReadAnswered(l)
    <3>1. reads[l].pc = "served" /\ shown' = [of |-> reads[l].of, rows |-> reads[l].seen]
      BY <2>2, <2>4 DEF ReadAnswered
    <3>2. \A r \in Row : shown'.rows[r].ver >= own'[r]
      BY <1>5, <2>1, <3>1
    <3> QED BY <1>7, <2>3, <3>2
  <2>5. CASE ReadFails(l)
    <3>1. state' = "error"
      BY <1>1, <2>2, <2>5, OneRead DEF ReadFails, Failed
    <3> QED BY <1>7, <2>3, <3>1
  <2> QED BY <1>14, <2>4, <2>5
<1>15. ASSUME NEW s \in Slot, UNCHANGED <<reads, state, shown, own>>, acts'[s].pc # "reading",
              acts[s].pc # "reading", \A t \in Slot : t # s => acts'[t] = acts[t],
              LET done == Effects(Acting[acts'[s].name]) IN
              /\ done = {"none"} => acts'[s].got = 0
              /\ "none" \notin done /\ acts'[s].result = "ok" => acts'[s].got >= own[acts'[s].row]
       PROVE  UpToDate'
  <2>1. Read1'
    BY <1>5, <1>15
  <2>2. Shown1'
    <3> SUFFICES ASSUME state = "ready", shown # NoView, \A t \in Slot : acts'[t].pc # "reading",
                        NEW r \in Row
                 PROVE  shown.rows[r].ver >= own[r]
      BY <1>15
    <3>1. \A t \in Slot : acts[t].pc # "reading"
      BY <1>15
    <3> QED BY <1>5, <3>1
  <2>3. Act1'
    <3> SUFFICES ASSUME NEW t \in Slot, acts'[t].pc # "idle"
                 PROVE  LET done == Effects(Acting[acts'[t].name]) IN
                        /\ done = {"none"} => acts'[t].got = 0
                        /\ "none" \notin done /\ acts'[t].pc # "reading" /\ acts'[t].result = "ok" =>
                             acts'[t].got >= own[acts'[t].row]
      BY <1>1, <1>15
    <3> QED BY <1>5, <1>15
  <2> QED BY <1>6, <2>1, <2>2, <2>3
<1>16. ASSUME NEW s \in Slot, NEW a \in DOMAIN Acting, NEW r \in Row, Press(s, a, r) PROVE UpToDate'
  <2> DEFINE based == shown # NoView
             new == [NoPageAct EXCEPT !.pc = "sent", !.name = a, !.row = r, !.based = based]
  <2>1. /\ acts' = [acts EXCEPT ![s] = new] /\ acts[s].pc = "idle"
        /\ UNCHANGED <<reads, state, shown, own>>
    BY <1>16 DEF Press
  <2>2. new.got = 0 /\ new.pc = "sent" /\ new.result = "lost"
    BY DEF NoPageAct
  <2> HIDE DEF new
  <2>3. acts'[s] = new /\ \A t \in Slot : t # s => acts'[t] = acts[t]
    BY <1>2, <2>1
  <2> QED BY <1>15, <2>1, <2>2, <2>3
<1>17. ASSUME NEW s \in Slot, ActServed(s) PROVE UpToDate'
  <2>1. UNCHANGED <<reads, state, shown, own>>
    BY <1>17 DEF ActServed
  <2> DEFINE done == Effects(Acting[acts[s].name])
  <2>2. /\ acts[s].pc = "sent" /\ \A t \in Slot \ {s} : acts'[t] = acts[t]
        /\ acts'[s].pc \in {"sent", "answered"} /\ acts'[s].name = acts[s].name
        /\ acts'[s].row = acts[s].row
        /\ done = {"none"} => acts'[s].got = acts[s].got
        /\ "none" \notin done /\ acts'[s].result = "ok" => acts'[s].got = server'[acts[s].row].ver
    BY <1>17, Serves
  <2>3. acts[s].row \in Row
    BY <1>1, <2>2 DEF PagesShape
  <2>4. server'[acts[s].row].ver >= own[acts[s].row]
    <3>1. server'[acts[s].row].ver \in Nat
      BY <2>3, PagesStep, PagesBounds DEF PagesInv, PagesShape, Seen, Versions
    <3>2. own'[acts[s].row] <= server'[acts[s].row].ver
      BY <1>1, <2>3 DEF Known
    <3> QED BY <1>4, <2>1, <2>3, <3>1, <3>2
  <2>5. done = {"none"} => acts[s].got = 0
    BY <1>5, <2>2
  <2> QED BY <1>15, <2>1, <2>2, <2>4, <2>5
<1>18. ASSUME NEW s \in Slot, ActLost(s) PROVE UpToDate'
  <2> DEFINE new == [[acts[s] EXCEPT !.pc = "answered"] EXCEPT !.result = "lost"]
  <2>1. /\ acts[s].pc \in {"sent", "answered"} /\ acts' = [acts EXCEPT ![s] = new]
        /\ UNCHANGED <<reads, state, shown, own>>
    BY <1>18 DEF ActLost, Answer
  <2>2. /\ new.got = acts[s].got /\ new.name = acts[s].name /\ new.result = "lost"
        /\ new.pc = "answered"
    BY <1>2 DEF ActType
  <2> HIDE DEF new
  <2>3. acts'[s] = new /\ \A t \in Slot : t # s => acts'[t] = acts[t]
    BY <1>2, <2>1
  <2>4. Effects(Acting[acts[s].name]) = {"none"} => acts[s].got = 0
    BY <1>5, <2>1
  <2> QED BY <1>15, <2>1, <2>2, <2>3, <2>4
<1>19. ASSUME NEW s \in Slot, Settle(s) PROVE UpToDate'
  <2> DEFINE a == acts[s]
             done == Effects(Acting[a.name])
  <2>1. a.pc = "answered" /\ a \in ActType /\ a.row \in Row
    BY <1>1, <1>2, <1>19 DEF Settle, PagesShape
  <2>2. /\ \A t \in Slot : t # s => acts[t].pc = "idle"
        /\ \A l \in Read : reads[l].pc = "idle"
    BY <2>1, Only
  <2>3. /\ own' = IF a.result = "ok" /\ a.got > own[a.row] THEN [own EXCEPT ![a.row] = a.got] ELSE own
    BY <1>19 DEF Settle
  <2>4. /\ done = {"none"} => a.got = 0
        /\ "none" \notin done /\ a.result = "ok" => a.got >= own[a.row]
    BY <1>5, <2>1
  <2>5. state = "ready" /\ shown # NoView => \A r \in Row : shown.rows[r].ver >= own[r]
    <3>1. \A t \in Slot : acts[t].pc # "reading"
      BY <2>1, <2>2
    <3> QED BY <1>5, <3>1
  <2>6. CASE Follows(a) = "reload"
    <3>1. PICK l \in Free :
            /\ reads' = Begun(l, filter)
            /\ acts' = [acts EXCEPT ![s] =
                 [NoPageAct EXCEPT !.pc = "reading", !.name = a.name, !.row = a.row,
                                   !.read = l, !.based = a.based]]
      BY <1>19, <2>6 DEF Settle
    <3> DEFINE new == [NoPageAct EXCEPT !.pc = "reading", !.name = a.name,
                                        !.row = a.row, !.read = l, !.based = a.based]
    <3>2. new.pc = "reading" /\ new.got = 0
      BY DEF NoPageAct
    <3> HIDE DEF new
    <3>3. acts' = [acts EXCEPT ![s] = new]
      BY <3>1 DEF new
    <3>4. /\ acts'[s].pc = "reading" /\ acts'[s].got = 0
          /\ \A t \in Slot : t # s => acts'[t].pc = "idle"
      BY <1>2, <2>2, <3>2, <3>3
    <3>5. \A k \in Read : reads'[k].pc # "served"
      BY <1>2, <2>2, <3>1 DEF Begun, ReadSuperseded, ReadType
    <3>6. Read1' /\ Shown1'
      BY <3>4, <3>5
    <3>7. Act1'
      BY <3>4
    <3> QED BY <1>6, <3>6, <3>7
  <2>7. ASSUME Ended(s), UNCHANGED <<reads, state>>,
               \/ shown' = NoView
               \/ state = "ready" => \A r \in Row : shown'.rows[r].ver >= own'[r]
        PROVE  UpToDate'
    <3>1. acts' = [acts EXCEPT ![s] = NoPageAct]
      BY <2>7 DEF Ended
    <3>2. \A t \in Slot : acts'[t].pc = "idle"
      BY <1>2, <1>3, <2>2, <3>1
    <3> QED BY <1>7, <2>2, <2>7, <3>2
  <2>8. CASE Follows(a) = "local"
    <3>1. /\ shown' = IF shown = NoView THEN shown ELSE [shown EXCEPT !.rows[a.row].ver = a.got]
          /\ Ended(s) /\ UNCHANGED <<reads, state>>
      BY <1>19, <2>8 DEF Settle
    <3>2. a.result = "ok" /\ a.got >= own[a.row]
      BY <1>1, <2>1, <2>4, <2>8, OneEnd
    <3>3. own'[a.row] = a.got /\ \A r \in Row : r # a.row => own'[r] = own[r]
      BY <1>4, <2>1, <2>3, <3>2
    <3>4. ASSUME state = "ready", shown # NoView, NEW r \in Row
          PROVE  shown'.rows[r].ver >= own'[r]
      <4>1. shown \in [of : Filter, rows : Seen]
        BY <1>1, <3>4 DEF PagesShape
      <4>2. shown'.rows[r].ver = IF r = a.row THEN a.got ELSE shown.rows[r].ver
        BY <2>1, <3>1, <3>4, <4>1 DEF Seen
      <4> QED BY <1>4, <2>1, <2>5, <3>3, <3>4, <4>2
    <3> QED BY <2>7, <3>1, <3>4
  <2>9. CASE Follows(a) = "stays"
    <3>1. Ended(s) /\ UNCHANGED <<reads, state, shown>>
      BY <1>19, <2>9 DEF Settle
    <3>2. shown = NoView \/ own' = own
      <4>1. a.result = "ok" => done = {"none"} \/ Reading.asks = {}
        BY <1>1, <2>1, <2>9, OneEnd
      <4>2. Reading.asks = {} => shown = NoView
        BY DEF Alone
      <4> QED BY <1>4, <2>1, <2>3, <2>4, <4>1, <4>2
    <3> QED BY <2>5, <2>7, <3>1, <3>2
  <2>10. CASE Follows(a) = "refresh"
    BY <1>1, <2>1, <2>10, OneEnd
  <2>11. CASE Follows(a) = "done"
    <3>1. shown' = NoView /\ acts' = [t \in Slot |-> NoPageAct] /\ reads' = [l \in Read |-> NoRead]
      BY <1>19, <2>11 DEF Settle
    <3> QED BY <1>3, <1>7, <3>1
  <2> QED BY <1>19, <2>6, <2>8, <2>9, <2>10, <2>11 DEF Settle
<1> QED BY <1>8, <1>9, <1>10, <1>11, <1>12, <1>13, <1>14, <1>16, <1>17, <1>18, <1>19 DEF PagesNext

LEMMA NextOwn ==
  ASSUME PagesInv, OwnInv, [Next]_vars
  PROVE  OwnInv'
<1>1. CASE PagesNext
  <2>1. page' = page
    BY <1>1, PagesStep
  <2>2. OneReadAtATime' => OneReadAtATime
    BY <2>1, SamePage DEF OneReadAtATime
  <2> QED BY <1>1, <2>2, NextKnown, NextAlone, NextUpToDate DEF OwnInv
<1>2. CASE UNCHANGED pageVars
  <2>1. /\ UNCHANGED <<server, state, shown, reads, acts, own>>
        /\ Acting' = Acting /\ Reading' = Reading /\ Showing' = Showing
    BY <1>2, SamePage DEF pageVars
  <2> QED BY <2>1 DEF OwnInv, OneReadAtATime, Known, Alone, UpToDate
<1> QED BY <1>1, <1>2, PageSteps

\* On a page that reads when it is opened and after its own actions, what one
\* has done is what one sees once nothing is under way: not undone by an answer
\* that was on its way, nor by a failed read, nor by others.
THEOREM OwnActionsShow == Spec => []OwnActionShown
<1>1. Init => PagesInv /\ OwnInv
  <2> SUFFICES ASSUME Init PROVE PagesInv /\ OwnInv
    OBVIOUS
  <2>1. PagesInv
    BY InitPages
  <2>2. /\ shown = NoView /\ own = [r \in Row |-> 0] /\ server = Unread
        /\ \A s \in Slot : acts[s] = NoPageAct
        /\ state \in {"loading", "ready"}
        /\ \A l \in Read : reads[l] \in FirstRead
    BY DEF Init, PagesInit, ClosedPage, FirstRead
  <2>3. NoPageAct.pc = "idle" /\ NoRead.pc = "idle" /\ \A x \in FirstRead : x.pc # "served"
    BY DEF NoPageAct, NoRead, FirstRead
  <2>4. Known /\ UpToDate
    BY <2>2, <2>3 DEF Known, UpToDate, Unread
  <2>5. Alone
    <3>1. \A l \in Read : reads[l].pc # "idle" =>
             l = 1 /\ "open" \in Reading.asks /\ state = "loading"
      BY <2>3 DEF Init, PagesInit, ClosedPage
    <3>2. \A l \in Read : reads[l].pc # "idle" => reads[l].live
      <4>1. \A x \in FirstRead : x.pc # "idle" => x.live
        BY <2>3 DEF FirstRead, NoRead
      <4> QED BY <2>2, <4>1
    <3> QED BY <2>2, <2>3, <3>1, <3>2 DEF Alone
  <2> QED BY <2>1, <2>4, <2>5 DEF OwnInv
<1>2. PagesInv /\ OwnInv /\ [Next]_vars => (PagesInv /\ OwnInv)'
  BY NextPages, NextOwn
<1>3. PagesInv /\ OwnInv => OwnActionShown
  <2> SUFFICES ASSUME PagesInv, OwnInv, OneReadAtATime, state = "ready", shown # NoView,
                      \A s \in Slot : acts[s].pc = "idle", NEW r \in Rows
               PROVE  shown.rows[r].ver >= own[r]
    BY DEF OwnActionShown
  <2>1. r \in Row
    BY Blank DEF Rows
  <2> QED BY <2>1 DEF OwnInv, UpToDate
<1> QED BY <1>1, <1>2, <1>3, PTL DEF Spec
-----------------------------------------------------------------------------
(* ------------------------- what the variables hold ---------------------- *)

\* Every key of a form is made by a press.
FormCounts ==
  /\ due \in BOOLEAN /\ quote \in Input \cup {None}
  /\ quoteState \in {"idle", "loading", "error", "ready"}
  /\ edits \in 0 .. MaxEdits /\ submits \in 0 .. MaxSubmits
  /\ keeper.key <= submits /\ submit.key <= submits /\ leaving \in BOOLEAN

LEMMA NextCounts ==
  ASSUME FormInv, FormCounts, [Next]_vars
  PROVE  FormCounts'
<1> USE FormBounds DEF FormCounts
<1>1. /\ keeper.key \in Nat /\ submit.key \in Nat /\ input \in Input \cup {None}
      /\ asked \subseteq [of : Input, live : BOOLEAN]
  BY DEF FormInv, FormShape
<1>2. CASE UNCHANGED <<onPhone, formVars>>
  BY <1>2 DEF formVars, quoteVars, submitVars, bounds
<1>3. CASE FormLeft
  <2>1. /\ leaving' = FALSE /\ due' = FALSE /\ quote' = None /\ quoteState' = "idle" /\ edits' = 0 /\ submits' = 0
        /\ keeper'.key = 0 /\ submit'.key = 0
    BY <1>3 DEF FormLeft, NoKey, NoSubmit
  <2>2. 0 \in 0 .. MaxEdits /\ 0 \in 0 .. MaxSubmits
    OBVIOUS
  <2>3. keeper'.key <= submits' /\ submit'.key <= submits'
    BY <2>1
  <2> QED BY <2>1, <2>2, <2>3
<1>4. ASSUME NEW i \in Input \cup {None}, Edit(i) PROVE FormCounts'
  <2>1. /\ due' \in BOOLEAN /\ quote' \in Input \cup {None}
        /\ quoteState' \in {"idle", "loading", "error", "ready"}
    BY <1>4 DEF Edit
  <2>2. edits' \in 0 .. MaxEdits /\ UNCHANGED <<submits, keeper, submit, leaving>>
    BY <1>4 DEF Edit, submitVars
  <2> QED BY <2>1, <2>2
<1>5. CASE QuoteDue
  BY <1>5 DEF QuoteDue, submitVars, bounds
<1>6. ASSUME NEW q \in asked, QuoteAnswered(q) \/ QuoteFails(q) PROVE FormCounts'
  <2>1. q.of \in Input
    BY <1>1
  <2> QED BY <1>6, <2>1 DEF QuoteAnswered, QuoteFails, submitVars, bounds
<1>7. CASE Confirm
  <2>1. keeper' \in {keeper, Fresh(input)} /\ submits' = submits + 1 /\ submits < MaxSubmits
    BY <1>7 DEF Confirm, PhoneKey, BrowserKey
  <2>2. keeper'.key <= submits'
    BY <1>1, <2>1 DEF Fresh
  <2>3. submit'.key = keeper'.key
    BY <1>7 DEF Confirm
  <2> QED BY <1>7, <2>1, <2>2, <2>3 DEF Confirm, quoteVars
<1>8. CASE ServerBooks \/ SubmitLost
  <2>1. submit'.key = submit.key
    BY <1>8 DEF ServerBooks, SubmitLost, Answers, FormInv, FormShape
  <2> QED BY <1>8, <2>1 DEF ServerBooks, SubmitLost, quoteVars, bounds
<1>9. CASE NotBooked
  BY <1>9 DEF NotBooked, NoSubmit, quoteVars, bounds
<1>10. CASE Booked
  <2>1. /\ submit'.key = 0 /\ keeper'.key = keeper.key /\ leaving' = TRUE
        /\ submits' = submits /\ 0 <= submits
    BY <1>1, <1>10 DEF Booked, NoSubmit, bounds
  <2> QED BY <1>1, <1>10, <2>1 DEF Booked, quoteVars, bounds
<1> QED BY <1>2, <1>3, <1>4, <1>5, <1>6, <1>7, <1>8, <1>9, <1>10, FormSteps DEF FormNext

LEMMA FormTypes == FormInv /\ FormCounts => FormTypeOK
<1> SUFFICES ASSUME FormInv, FormCounts PROVE FormTypeOK
  OBVIOUS
<1> USE FormBounds
<1>1. keeper.key \in 0 .. MaxSubmits /\ submit.key \in 0 .. MaxSubmits
  BY DEF FormInv, FormShape, FormCounts
<1>2. keeper \in [of : Input \cup {None}, key : 0 .. MaxSubmits, held : BOOLEAN]
  BY <1>1 DEF FormInv, FormShape
<1>3. submit \in [pc : {"idle", "sent", "answered"}, of : Input \cup {None}, key : 0 .. MaxSubmits,
                  result : {"ok", "refused", "lost"}]
  BY <1>1 DEF FormInv, FormShape
<1>4. booked \subseteq [of : Input, key : 1 .. MaxSubmits]
  <2>1. ASSUME NEW b \in booked PROVE b \in [of : Input, key : 1 .. MaxSubmits]
    <3>1. b \in [of : Input, key : Nat] /\ b.key \in 1 .. keeper.key
      BY DEF FormInv, FormShape, KeyInv
    <3>2. b.key \in 1 .. MaxSubmits
      BY <1>1, <3>1
    <3> QED BY <3>1, <3>2
  <2> QED BY <2>1
<1>5. told \subseteq 1 .. MaxSubmits
  BY <1>1 DEF FormInv, KeyInv
<1> QED BY <1>2, <1>3, <1>4, <1>5 DEF FormTypeOK, FormInv, FormShape, FormCounts

\* The rest of what the checkout holds.
SectionType ==
  [pay : {"idle", "starting", "away", "polling", "timeout"}, ticking : BOOLEAN,
   attempts : 0 .. MaxAttempts, key : 0 .. MaxKeys]
IntentType == [pc : {"idle", "sent", "held", "answered"}, result : {"ok", "refused", "lost"}]

CheckoutRest ==
  /\ declined \subseteq Key /\ linked \subseteq Key /\ minted \in 0 .. MaxKeys
  /\ view \in Statuses \cup {NoView} /\ returned \in BOOLEAN
  /\ section \in SectionType /\ intent \in IntentType
  /\ IF intent.pc = "idle" THEN intent = NoIntent ELSE Awaits(view) /\ section.key # 0

LEMMA Sections == ASSUME NEW polls \in BOOLEAN PROVE Section(polls) \in SectionType
  BY CheckoutBounds DEF Section, SectionType

LEMMA NextRest ==
  ASSUME MoneyInv, ViewInv, CheckoutRest, [Next]_vars
  PROVE  CheckoutRest'
<1> USE CheckoutBounds DEF CheckoutRest
<1>1. /\ \A s \in Statuses : Shows(s) \in Statuses
      /\ \A v : Awaits(v)' = Awaits(v)
  BY CheckoutSteps DEF Shows, PhoneShows, Statuses, UnpaidStatuses, Awaits
<1>2. NoIntent \in IntentType /\ NoIntent.pc = "idle" /\ status \in Statuses /\ ~Awaits(NoView)
  BY NoViewIsNoStatus DEF NoIntent, IntentType, MoneyInv, Awaits, Statuses, UnpaidStatuses
<1>3. CASE UNCHANGED checkoutVars
  BY <1>1, <1>3 DEF checkoutVars, deskVars, rowVars
<1>4. CASE Elsewhere
  BY <1>1, <1>4 DEF Elsewhere, deskVars
<1>5. CASE OtherDevice
  <2>1. minted' \in Key /\ linked' = linked \cup {minted'}
    BY <1>5 DEF OtherDevice, Key
  <2> QED BY <1>1, <1>5, <2>1 DEF OtherDevice, Key
<1>6. ASSUME NEW k \in Key, Collect(k) \/ Decline(k) \/ Webhook(k) PROVE CheckoutRest'
  BY <1>1, <1>6 DEF Collect, Decline, Webhook, deskVars
\* A booking comes to the page.
<1>7. ASSUME NEW v \in Statuses, NEW s \in SectionType, NEW back \in BOOLEAN,
             Show(v, s, back), s.key = section.key
      PROVE  /\ view' \in Statuses /\ section' \in SectionType /\ intent' \in IntentType
             /\ IF intent'.pc = "idle" THEN intent' = NoIntent
                ELSE Awaits(view)' /\ section'.key # 0
  <2>1. section' = s \/ \E polls \in BOOLEAN : section' = Section(polls)
    BY <1>7 DEF Show
  <2>2. view' \in Statuses /\ section' \in SectionType /\ intent' \in IntentType
    BY <1>2, <1>7, <2>1, Sections DEF Show
  <2>3. ASSUME intent'.pc # "idle" PROVE Awaits(view)' /\ section'.key # 0
    <3>1. Awaits(v) /\ intent' = intent /\ view' = v
      BY <1>2, <1>7, <2>3 DEF Show
    <3>2. Awaits(view) /\ section.key # 0 /\ section' = s
      BY <1>7, <2>3, <3>1 DEF Show
    <3>3. Awaits(view)'
      BY <1>1, <3>1 DEF Awaits
    <3> QED BY <1>7, <3>2, <3>3
  <2>4. intent' = NoIntent \/ intent' = intent
    BY <1>7 DEF Show
  <2> QED BY <1>2, <2>2, <2>3, <2>4
<1>8. CASE CheckoutOpened
  <2>1. returned' \in BOOLEAN /\ Show(Shows(status), section, returned') /\ UNCHANGED <<rowVars, minted>>
    BY <1>8 DEF CheckoutOpened
  <2> QED BY <1>1, <1>2, <1>7, <2>1 DEF rowVars
<1>9. CASE CheckoutLeft
  BY <1>2, <1>9, Sections DEF CheckoutLeft, rowVars
<1>10. CASE PressPay
  <2>1. /\ minted' \in {minted, minted + 1} /\ minted' \in 0 .. MaxKeys
        /\ UNCHANGED <<rowVars, view, returned>> /\ intent' = [pc |-> "sent", result |-> "lost"]
        /\ section.key # 0 \/ minted' = minted + 1
        /\ Awaits(view)
        /\ section' = [section EXCEPT !.pay = "starting",
                                      !.key = IF section.key = 0 THEN minted' ELSE section.key]
    BY <1>10 DEF PressPay, SectionType
  <2> DEFINE key == IF section.key = 0 THEN minted' ELSE section.key
  <2>2. key \in 0 .. MaxKeys /\ key # 0
    BY <2>1 DEF SectionType
  <2>3. section' = [section EXCEPT !.pay = "starting", !.key = key]
    BY <2>1
  <2> HIDE DEF key
  <2>4. section' \in SectionType /\ section'.key # 0
    BY <2>2, <2>3 DEF SectionType
  <2> QED BY <1>1, <2>1, <2>4 DEF rowVars, IntentType
<1>11. ASSUME IntentLoads \/ \E k \in Key : IntentChecks(k) \/ IntentInserts(k)
       PROVE  CheckoutRest'
  <2>1. /\ \/ intent' = intent
           \/ intent.pc # "idle" /\ intent' = [intent EXCEPT !.pc = "held"]
           \/ /\ intent.pc # "idle"
              /\ \E result \in {"ok", "refused"} : intent' = [pc |-> "answered", result |-> result]
        /\ UNCHANGED <<linked, declined, minted, view, returned, section>>
    BY <1>11 DEF IntentLoads, IntentChecks, IntentInserts, Replies
  <2>2. intent' \in IntentType /\ IF intent'.pc = "idle" THEN intent' = intent ELSE intent.pc # "idle"
    BY <2>1 DEF IntentType
  <2> QED BY <1>1, <2>1, <2>2
<1>12. CASE IntentSettles
  <2>1. PICK pay \in {"away", "idle"} : section' = [section EXCEPT !.pay = pay]
    BY <1>12 DEF IntentSettles
  <2>2. section' \in SectionType
    BY <2>1 DEF SectionType
  <2>3. section.key \in Key
    <3>1. section.key # 0
      BY <1>12 DEF IntentSettles
    <3>2. section.key \in 0 .. MaxKeys
      BY DEF SectionType
    <3> QED BY <3>1, <3>2 DEF Key
  <2> QED BY <1>2, <1>12, <2>2, <2>3 DEF IntentSettles
<1>13. CASE BackFromProvider
  <2>1. 0 \in 0 .. MaxAttempts
    OBVIOUS
  <2>2. section' \in SectionType /\ section'.key = section.key
    BY <1>13, <2>1 DEF BackFromProvider, SectionType
  <2> QED BY <1>1, <1>13, <2>2 DEF BackFromProvider, rowVars
<1>14. ASSUME NEW c \in Check, Tick(c) PROVE CheckoutRest'
  <2>1. PICK n \in 0 .. MaxAttempts : section' = [section EXCEPT !.attempts = n]
    BY <1>14 DEF Tick, SectionType
  <2>2. section' \in SectionType /\ section'.key = section.key
    BY <2>1 DEF SectionType
  <2> QED BY <1>1, <1>14, <2>2 DEF Tick, rowVars
<1>15. ASSUME NEW c \in Check, CheckNow(c) \/ CheckServed(c) PROVE CheckoutRest'
  BY <1>1, <1>15 DEF CheckNow, CheckServed, rowVars
<1>16. /\ Moved \in SectionType /\ Moved.key = section.key
       /\ \A timed : Unmoved(timed) \in SectionType /\ Unmoved(timed).key = section.key
  <2>1. Moved \in SectionType /\ Moved.key = section.key
    BY DEF Moved, SectionType
  <2>2. ASSUME NEW pay \in {"idle", "timeout"}
        PROVE  /\ [section EXCEPT !.pay = pay, !.ticking = FALSE] \in SectionType
               /\ [section EXCEPT !.pay = pay, !.ticking = FALSE].key = section.key
    BY DEF SectionType
  <2> QED BY <2>1, <2>2 DEF Unmoved
<1>17. ASSUME NEW c \in Check, CheckAnswered(c) PROVE CheckoutRest'
  <2>1. /\ checks[c].seen \in Statuses /\ UNCHANGED <<rowVars, minted, returned>>
        /\ \/ Show(Shows(checks[c].seen), Moved, returned)
           \/ section' = Unmoved(checks[c].timed) /\ UNCHANGED <<view, intent>>
    BY <1>17 DEF CheckAnswered, ViewInv
  <2>2. CASE Show(Shows(checks[c].seen), Moved, returned)
    BY <1>1, <1>7, <1>16, <2>1, <2>2 DEF rowVars
  <2>3. CASE section' = Unmoved(checks[c].timed) /\ UNCHANGED <<view, intent>>
    BY <1>1, <1>16, <2>1, <2>3 DEF rowVars
  <2> QED BY <2>1, <2>2, <2>3
<1>18. ASSUME NEW c \in Check, CheckLost(c) PROVE CheckoutRest'
  BY <1>1, <1>16, <1>18 DEF CheckLost, rowVars
<1>19. CASE IntentLost
  <2>1. intent.pc # "idle"
    BY <1>19 DEF IntentLost, NoIntent
  <2> QED BY <1>1, <1>19, <2>1 DEF IntentLost, IntentType, rowVars
<1> QED BY <1>3, <1>4, <1>5, <1>6, <1>8, <1>9, <1>10, <1>11, <1>12, <1>13, <1>14, <1>15, <1>17,
           <1>18, <1>19, CheckoutSteps DEF CheckoutNext, PaidNext

\* The screens hold what they are declared to, with keys, attempts and versions
\* within their bounds.
THEOREM TypeCorrect == Spec => []TypeOK
<1> DEFINE Forms == FormInv /\ FormCounts
           Paying == MoneyInv /\ ViewInv /\ CheckoutRest
           Client == onPhone \in BOOLEAN /\ screen \in {"form", "checkout", "page"}
                     /\ losses \in 0 .. MaxLosses
           Inv == Forms /\ Paying /\ Client /\ PagesInv
<1>1. Init => Inv
  <2> SUFFICES ASSUME Init PROVE Inv
    OBVIOUS
  <2>1. Forms
    <3>1. /\ due = FALSE /\ quote = None /\ quoteState = "idle" /\ edits = 0 /\ submits = 0
          /\ keeper.key = 0 /\ submit.key = 0 /\ leaving = FALSE
      BY DEF Init, FormInit, NoKey, NoSubmit
    <3>2. 0 \in 0 .. MaxEdits /\ 0 \in 0 .. MaxSubmits
      BY FormBounds
    <3>3. keeper.key <= submits /\ submit.key <= submits
      BY <3>1
    <3>4. FormCounts
      BY <3>1, <3>2, <3>3 DEF FormCounts
    <3> QED BY <3>4, InitForm
  <2>2. Paying
    <3>1. CheckoutRest
      <4>1. /\ declined = {} /\ linked = {} /\ minted = 0 /\ view = NoView /\ returned = FALSE
            /\ section = Section(FALSE) /\ intent = NoIntent
        BY DEF Init, CheckoutInit
      <4>2. NoIntent \in IntentType /\ NoIntent.pc = "idle" /\ section \in SectionType
        BY <4>1, Sections DEF NoIntent, IntentType
      <4>3. 0 \in 0 .. MaxKeys
        BY CheckoutBounds
      <4> QED BY <4>1, <4>2, <4>3 DEF CheckoutRest
    <3> QED BY <3>1, InitCheckout
  <2>3. Client
    BY LossesAreCounted DEF Init
  <2> QED BY <2>1, <2>2, <2>3, InitPages
<1>2. Inv /\ [Next]_vars => Inv'
  <2> SUFFICES ASSUME Inv, [Next]_vars PROVE Inv'
    OBVIOUS
  <2>1. Forms'
    BY NextForm, NextCounts
  <2>2. Paying'
    BY NextMoney, NextView, NextRest
  <2>3. Client'
    <3>1. screen' \in {screen, "checkout"}
      BY DEF Next, vars, clientVars, OnForm, OnCheckout, OnPage, FormNext, Edit, QuoteDue,
             QuoteAnswered, QuoteFails, Confirm, ServerBooks, SubmitLost, NotBooked, Booked,
             FormLeft
    <3> QED BY <3>1, CheckoutSteps, NextLosses
  <2> QED BY <2>1, <2>2, <2>3, NextPages
<1>3. Inv => TypeOK
  <2> SUFFICES ASSUME Inv PROVE TypeOK
    OBVIOUS
  <2>1. FormTypeOK
    BY FormTypes
  <2>2. CheckoutTypeOK
    BY DEF CheckoutTypeOK, MoneyInv, ViewInv, CheckoutRest, SectionType, IntentType
  <2>3. PagesTypeOK
    BY DEF PagesInv, PagesShape, PagesTypeOK, ReadType, ActType
  <2> QED BY <2>1, <2>2, <2>3 DEF TypeOK, ClientsTypeOK
<1> QED BY <1>1, <1>2, <1>3, PTL DEF Spec
=============================================================================
