----------------------------- MODULE BookingForm -----------------------------
(***************************************************************************)
(* The tourist's booking form, on the phone (book/[id].tsx) and in the     *)
(* browser (GuideClient.tsx): a debounced quote of what the form holds, and*)
(* the creation of a booking under an idempotency key the client keeps.    *)
(*                                                                         *)
(* An input stands for all that the form holds when it is complete; the    *)
(* key's signature and the body of the request are functions of it.        *)
(***************************************************************************)
EXTENDS Clients

CONSTANTS
  Input,      \* complete contents of the form
  MaxEdits,   \* bound: edits of one form
  MaxSubmits  \* bound: presses of "Confirm booking"

ASSUME InputsAreComplete == None \notin Input
ASSUME FormBounds == MaxEdits \in Nat /\ MaxSubmits \in Nat

VARIABLES
  input,      \* what the form holds, None while incomplete
  due,        \* the 500 ms after an edit run
  asked,      \* quote requests in flight; live: not cancelled by a later edit
  quote,      \* the inputs that the price on the screen is of
  quoteState,
  keeper,     \* the last key made, for which inputs, and whether it is held
  submit,     \* the creation under way
  booked,     \* the bookings the server made from this form
  told,       \* the keys whose booking the client has been answered with
  leaving,    \* the router goes to the checkout
  edits, submits

quoteVars == <<due, asked, quote, quoteState>>
submitVars == <<keeper, submit, booked, told, leaving>>
bounds == <<edits, submits>>
formVars == <<input, quoteVars, submitVars, bounds>>

NoSubmit == [pc |-> "idle", of |-> None, key |-> 0, result |-> "lost"]
NoKey == [of |-> None, key |-> 0, held |-> FALSE]

FormTypeOK ==
  /\ input \in Input \cup {None} /\ due \in BOOLEAN
  /\ asked \subseteq [of : Input, live : BOOLEAN]
  /\ quote \in Input \cup {None}
  /\ quoteState \in {"idle", "loading", "error", "ready"}
  /\ keeper \in [of : Input \cup {None}, key : 0..MaxSubmits, held : BOOLEAN]
  /\ submit \in [pc : {"idle", "sent", "answered"}, of : Input \cup {None},
                 key : 0..MaxSubmits, result : {"ok", "refused", "lost"}]
  /\ booked \subseteq [of : Input, key : 1..MaxSubmits]
  /\ told \subseteq 1..MaxSubmits /\ leaving \in BOOLEAN
  /\ edits \in 0..MaxEdits /\ submits \in 0..MaxSubmits

FormInit ==
  /\ input = None /\ due = FALSE /\ asked = {} /\ quote = None /\ quoteState = "idle"
  /\ keeper = NoKey /\ submit = NoSubmit /\ booked = {} /\ told = {} /\ leaving = FALSE
  /\ edits = 0 /\ submits = 0
-----------------------------------------------------------------------------
(* ------------------------------- the quote ------------------------------ *)

\* Mutant: the phone's cleanup stops the timer, not the request.
Superseded_TimerOnly == asked

\* The cleanup of the phone's effect cancels what is under way; the browser's
\* stops only its timer.
Superseded == IF onPhone THEN {[q EXCEPT !.live = FALSE] : q \in asked} ELSE asked

\* No field of the phone's form is disabled while it submits, nor is the
\* date of the browser's.
Edit(i) ==
  /\ i # input /\ edits < MaxEdits
  /\ input' = i /\ edits' = edits + 1
  /\ asked' = Superseded
  /\ IF onPhone THEN due' = TRUE /\ UNCHANGED <<quote, quoteState>>
     ELSE /\ due' = (i # None)
          /\ quote' = IF i = None THEN None ELSE quote
          /\ quoteState' = IF i = None THEN "idle" ELSE "loading"
  /\ UNCHANGED <<clientVars, submitVars, submits>>

\* A request that was cancelled leaves the phone's form "Getting a price"; the
\* browser's has shown that it loads since the edit, and may be "ready" again.
QuoteDue ==
  /\ due /\ due' = FALSE
  /\ IF input = None
     THEN /\ quote' = None
          /\ quoteState' = IF quoteState = "loading" THEN "loading" ELSE "idle"
          /\ UNCHANGED asked
     ELSE /\ asked' = asked \cup {[of |-> input, live |-> TRUE]}
          /\ quoteState' = IF onPhone THEN "loading" ELSE quoteState
          /\ UNCHANGED quote
  /\ UNCHANGED <<clientVars, input, submitVars, bounds>>

QuoteAnswered(q) ==
  /\ asked' = asked \ {q}
  /\ IF q.live THEN quote' = q.of /\ quoteState' = "ready" ELSE UNCHANGED <<quote, quoteState>>
  /\ UNCHANGED <<clientVars, input, due, submitVars, bounds>>

QuoteFails(q) ==
  /\ losses < MaxLosses /\ losses' = losses + 1
  /\ asked' = asked \ {q}
  /\ IF q.live THEN quote' = None /\ quoteState' = "error" ELSE UNCHANGED <<quote, quoteState>>
  /\ UNCHANGED <<onPhone, screen, input, due, submitVars, bounds>>
-----------------------------------------------------------------------------
(* ------------------------------ the booking ----------------------------- *)

Fresh(i) == [of |-> i, key |-> keeper.key + 1, held |-> TRUE]

\* createIdempotencyKeeper: a key is kept until the signature changes.
PhoneKey(i) == IF ~keeper.held \/ keeper.of # i THEN Fresh(i) ELSE keeper

\* Mutant: every press makes a key.
BrowserKey_PerPress(i) == Fresh(i)

\* idempotencyKeyRef: a key is kept until a booking is made.
BrowserKey(i) == IF ~keeper.held THEN Fresh(i) ELSE keeper

\* The browser's button waits for a quote, of whatever inputs.
Confirm ==
  /\ submit.pc = "idle" /\ input # None /\ submits < MaxSubmits
  /\ onPhone \/ quoteState = "ready"
  /\ keeper' = IF onPhone THEN PhoneKey(input) ELSE BrowserKey(input)
  /\ submit' = [pc |-> "sent", of |-> input, key |-> keeper'.key, result |-> "lost"]
  /\ submits' = submits + 1
  /\ UNCHANGED <<clientVars, input, quoteVars, booked, told, leaving, edits>>

Answers(result) == submit' = [submit EXCEPT !.pc = "answered", !.result = result]

\* A key that is known answers with its booking, or refuses another body;
\* under a new one the guide's calendar decides (see Bookings).
ServerBooks ==
  /\ submit.pc = "sent"
  /\ LET known == {b \in booked : b.key = submit.key} IN
     IF known # {}
     THEN /\ Answers(IF \E b \in known : b.of = submit.of THEN "ok" ELSE "refused")
          /\ UNCHANGED booked
     ELSE \/ Answers("ok") /\ booked' = booked \cup {[of |-> submit.of, key |-> submit.key]}
          \/ Answers("refused") /\ UNCHANGED booked
  /\ UNCHANGED <<clientVars, input, quoteVars, keeper, told, leaving, bounds>>

SubmitLost ==
  /\ submit.pc = "sent" \/ submit.result = "ok"
  /\ losses < MaxLosses /\ losses' = losses + 1
  /\ Answers("lost")
  /\ UNCHANGED <<onPhone, screen, input, quoteVars, keeper, booked, told, leaving, bounds>>

\* The tourist stays on the form and may press again.
NotBooked ==
  /\ submit.pc = "answered" /\ submit.result # "ok"
  /\ submit' = NoSubmit
  /\ UNCHANGED <<clientVars, input, quoteVars, keeper, booked, told, leaving, bounds>>

\* The browser drops its key, the phone keeps it; the router is asked to go to
\* the checkout and the button is enabled again, before it does.
Booked ==
  /\ submit.pc = "answered" /\ submit.result = "ok"
  /\ submit' = NoSubmit
  /\ keeper' = IF onPhone THEN keeper ELSE [keeper EXCEPT !.held = FALSE]
  /\ told' = told \cup {submit.key} /\ leaving' = TRUE
  /\ UNCHANGED <<clientVars, input, quoteVars, booked, bounds>>

\* The form goes, and with it what it held.  Abstraction: what the server still
\* makes of another press is not followed to the checkout.
FormLeft ==
  /\ leaving /\ leaving' = FALSE /\ screen' = "checkout"
  /\ input' = None /\ due' = FALSE /\ asked' = {} /\ quote' = None /\ quoteState' = "idle"
  /\ keeper' = NoKey /\ submit' = NoSubmit /\ booked' = {} /\ told' = {}
  /\ edits' = 0 /\ submits' = 0
  /\ losses' = 0 /\ UNCHANGED onPhone

FormNext ==
  \/ \E i \in Input \cup {None} : Edit(i)
  \/ QuoteDue
  \/ \E q \in asked : QuoteAnswered(q) \/ QuoteFails(q)
  \/ Confirm \/ ServerBooks \/ SubmitLost \/ NotBooked \/ Booked
-----------------------------------------------------------------------------
(* ------------------------------ properties ----------------------------- *)

\* A creation that is repeated goes out under the key of the first: the browser
\* books again only after it was answered with what it has booked, and between
\* two bookings of the same inputs a phone has submitted others.
RetryBooksOnce ==
  \A b, c \in booked : b.key < c.key =>
    IF onPhone THEN b.of = c.of => b.key + 1 < c.key ELSE b.key \in told

\* The price on the phone is of what the form holds once no edit is waiting
\* and no answer is awaited, in whatever order the answers came.
QuoteFitsInputs ==
  onPhone /\ ~due /\ (\A q \in asked : ~q.live) => quote \in {None, input}
=============================================================================
