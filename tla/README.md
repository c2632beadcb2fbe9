# ProGuideGH in TLA+

A verification development of ProGuideGH: a Go API over Postgres and Redis
(`src/services/api`) through which tourists book guides, pay, are matched with a
guide and take the tour, and guides are certified and paid out; and the five
clients of that API (`src/apps`: two Expo apps, three Next.js apps), with the
client library the phone apps share (`src/packages/api-client`). Modules are
checked with TLC on small instances and, where a proof module exists, proved with
TLAPS for every value of their constants.

On the server all state that matters is in Postgres; the server is a set of
requests (and two background loops) that run transactions at READ COMMITTED. What
can go wrong is of a few kinds: a row read in one statement and written in
another, two requests at once where only an index, a row lock or an exclusion
constraint stands between them, a provider called in the middle of an operation,
a webhook delivered again, a process that stops between two commits. In the
clients it is what happens around an `await`: a second press, an answer that
overtakes another, a lost answer to a request that was served, a screen that is
left before its answer comes, a timer that races a socket, an app that is killed
between two writes. Every model cuts the code exactly at these points and joins
what a lock, a transaction or one turn of an event loop makes one.

## 1. Inventory

Server components; paths are below `src/services/api/internal` unless said
otherwise.

| component | state | operations | works with | hard behaviour | correct when |
|---|---|---|---|---|---|
| bookings | `bookings`, `booking_status_events`, `idempotency_keys` | create, transition | assigned by dispatch, moved by payments, tours, operations | overlap query then exclusion constraint; key claimed before the row exists | no guide double booked; one booking per key; legal history |
| payments | `payments`, `webhook_events`, `idempotency_keys` | CreateIntent, HandleWebhook, Refund | provider, ledger, bookings, receipts; hook to dispatch | provider called between transactions; duplicate and late events; status read unlocked | booking, payment and ledger agree; the books follow what the provider took and gave |
| ledger | `ledger_transactions`, `ledger_entries` | Post, Reversal | payments, tours, payouts | unique references as the last guard | every posting balances and is made once |
| tours | booking status, `ends_at` | GuideStep, Complete, AdminTransition | bookings, ledger | completion races refund | share becomes eligible once |
| dispatch | `dispatch_offers`, `guide_dispatch_stats` | Dispatch, Accept, Decline, ExpireStale | bookings, Redis, hook and sweeper of `cmd/api` | runs without a lock; opposite lock orders; lazy and swept expiry | one guide per booking; answers final; counters exact |
| payouts | `payouts`, `payout_accounts` | Batch, Transition, accounts, ExportCSV | ledger, weekly scheduler of `cmd/api` | balances read before the transaction; a failed payout is queued again | within what was earned when batches and retries are orderly (section 3); PAID means posted |
| certification | `certification_cases`, `certification_events` | OpenCase, Transition | guides, documents, roles | two officers at once; reapplication race; SUSPENDED and EXPIRED lead past a stage | a visible guide went through the stages, insurance having one way around it; one open case |
| guides | `guide_profiles`, `guide_documents` | Apply, RegisterDocument, profile, search | certification | the gate written three times | gates agree |
| auth | `refresh_sessions`, challenges | login, MFA, refresh, logout | every client | rotation in three statements without a transaction; reuse revokes the chain | a client left alone is never signed out |
| tracking, realtime | Redis position, hub of connections | ingest, subscribe | tours, dispatch | status judged before the write; snapshot before registration | a closed tour has no position; what a frame misses a read finds |
| privacy | `account_deletions`, legal documents | preview, Delete, export | every table with personal data | blockers read before the transaction | nothing owed or running is erased |
| availability | `availability_windows`, `time_off`, Redis presence | ReplaceSchedule, AddTimeOff, AvailableAt, presence | search, dispatch, bookings | presence expires; minutes, zones, midnight | offline guides leave the pool |
| reviews | `reviews`, `quality_flags`, cached rating | Create | bookings, guides, incidents | aggregate then write | the cache follows the table |
| incidents, safety | `incidents`, `incident_events`, `sos_events` | Trigger, Acknowledge, Escalate, Assign, Resolve, Close | bookings, realtime | status judged before an unconditional update | closed is terminal |
| training | `courses`, `enrollments`, `certificates` | Enroll, CompleteLesson, SubmitQuiz | - | completion decided by later statements | one certificate |
| admin, catalog, tourists, receipts, reporting, platform/* | accounts, settings, read models | | all | | see `PROJECT.json` |

Client components; paths are below `src/apps` unless said otherwise.

| component | state | operations | works with | hard behaviour | correct when |
|---|---|---|---|---|---|
| client sessions (`packages/api-client`, `lib/api.ts`, `lib/session.tsx`) | stored tokens, the shared `refreshPromise`, SessionStatus | call, 401 and rotation, sign-in with MFA, sign-out, restart | auth | several calls meet a 401 at once; two writes for two tokens; tabs share cookies but no promise | one rotation at a time; nobody waits for ever; no retry with the token refused |
| guide clients: presence and jobs | the switch and its heartbeat, the list of offers, socket, poll timer | go online/offline, load, accept, decline | dispatch, availability, realtime | heartbeat overtakes "offline"; socket gives up; unordered loads | an open offer reaches the list; offline means no new offers (broken, section 6) |
| guide clients: tour and location | the tour shown, the stored location key, updates of the system | next step, turn sharing on and off, post a fix | tours, tracking | permission granted after the screen is left; app killed; tour moved elsewhere | the key follows the screen; a closed tour has no position |
| booking form (`book/[id].tsx`, `GuideClient.tsx`) | inputs, quote, idempotency key | edit, quote, confirm | bookings | debounced quotes overtake each other; a creation is repeated after a lost answer, or pressed again before the form is left | a retry goes out under the key of the first; the price is of the inputs |
| checkout (`checkout/[id].tsx`, `CheckoutClient.tsx`) | payment section, status shown, poll count | pay, poll, retry, return from the provider | payments, webhooks | two visits or devices with two keys at once; wait for a webhook that is late | charged once unless intents overtake each other; confirmed means paid or overridden; the wait ends |
| pages: 22 of tourists, 10 of guides, 13 of operations | load state, what is shown, busy flags | read, filter, retry, press | every endpoint | reads overlap, actions race reads, answers are lost, rows change elsewhere | own work is seen; a filter shows its rows; loading ends |

The apps also write where the server writes once: several clients of one user,
and several users, change the same rows. In the client models they are the
actions `Others` and `Elsewhere`, and in the server models they are simply more
requests.

`PROJECT.json` lists every component with its files and status, and hazards at
their lines.

## 2. Modules

| module | what it is | code |
|---|---|---|
| `BookingStates` | booking statuses, the transition table, the active statuses, `Overlaps` | bookings/statemachine.go, availability/doc.go |
| `GuideCalendar` | abstract: a window of a guide is taken once, kept, released for good | - |
| `Bookings` | sessions that create, move and assign, with keys, row locks, overlap queries and the exclusion constraint | bookings/repository.go, service.go, migration 0004 |
| `Ledger` | what a balanced posting is, `Post`, `Reversed` | ledger/ledger.go |
| `BookingMoney` | abstract: the books capture one payment of a booking, which the provider took, and record once that it was given back, after it was; how often the provider takes or gives is left open | - |
| `Payments` | intents, webhooks, refunds; provider and tourist as environment; completion | payments/*.go, tours/service.go |
| `Matching` | abstract: an open booking is matched once, and that guide's offer won | - |
| `Dispatch` | runs, acceptances, declines, expiry, moves | dispatch/*.go |
| `Payouts` | batches, the payout machine, accounts, export | payouts/*.go |
| `Certification` | application, case, transitions, documents, the gates | certification/*.go, guides/*.go |
| `ClientSession` | calls, rotation, sign-in and sign-out of the five clients, with the server's three statements | packages/api-client, lib/api.ts, login pages, auth/ |
| `JobFeed` | the guide's switch, heartbeat, socket, poll timer and list of offers | guide-mobile and guide-web jobs, realtime/, availability presence |
| `TourScreen` | the screen of one tour and the two ways of sharing a position | guide-mobile tours/[id].tsx, guide-web TourClient.tsx, tracking/ |
| `GuideApp` | composes `JobFeed` and `TourScreen`: from the dashboard to the end of a tour | |
| `Clients` | what the screens of an app share: the kind of client, the screen that is open, losses | |
| `BookingForm` | edits, debounced quote, idempotency key, creation | tourist apps |
| `Checkout` | intent under the key of a visit, provider's page, polling, what is said | tourist apps |
| `PageParts` | the parts pages are made of: how they read, act and render; the bodies the handlers decode | the handlers' request structs |
| `TouristPages`, `GuidePages`, `AdminPages` | for each of the 45 pages, which of the parts it has | the pages |
| `Pages` | what pages do, of whatever parts | |
| `Screens` | composes `BookingForm`, `Checkout` and `Pages` | |
| `PaymentsClaims` | what a comment says and the code does not keep | quoted there |
| `MC*` | instances for TLC | - |
| `BookingsProofs`, `PaymentsProofs`, `DispatchProofs`, `PayoutsProofs`, `CertificationProofs`, `ClientSessionProofs`, `GuideAppProofs`, `ScreensProofs` | the theorems of the module they are named after; those of `Screens` cover form, checkout and pages | - |

`Bookings` and `Dispatch` and `Payments` each hold the part of a booking their
component decides by: the calendar module keeps guide, window and history, the
money and matching modules only the status (and guide). A step of the others is
`MoveBooking`, which takes any edge of the same table `BookingStates`, so each
module is checked against everything the rest may do to its bookings. In the same
way the client modules keep of the server what a client can tell apart: one step
per request, with the refusals it may answer, since the races behind one request
are the business of the server modules - except where a client's property depends
on them, as on those of CreateIntent at the checkout and of the refresh.

Some definitions are followed by a variant marked "Mutant", such as
`Tick_NotCounted`. It is the definition as a plausible bug would have it and no
specification uses it; section 3 says what it is for.

### How state and actions correspond

*Bookings.* `booking`, `events`, `claims` are the tables; `txn` is what a session
holds before its commit: a key (`ClaimKey`), a row lock (`LockForMove`,
`LockForAssign`). `CheckSlot`/`RecheckSlot` are the overlap queries, which see
commits only; `Insert`, `CommitMove`, `AssignGuide` are the last statement
with its constraint, the event and the commit. `Replay` answers a repeated key.

*Payments.* `payment`, `seen` (webhook_events), `ledger`, the two kinds of keys.
An intent is `LoadIntent` (checks and provider call), `ClaimIntent`,
`InsertIntent`; a refund `LoadRefund`, `ReturnMoney` (provider), `BeginRefund`,
`CommitRefund` with `FirstEdge`/`Drivable` judged on the status it has *read*,
then `Audit`, which is outside its transaction. A webhook locks payment and
booking first and is one step. `Abandon` ends a request anywhere.

*Dispatch.* A run is `StartRun`, `LoadBooking`, `CheckLive`, `NumberBatch`,
`ChooseGuides`, `InsertOffers`, one per query; an acceptance `LockOffer`,
`LockBooking`, `CommitAccept`, which supersedes the siblings and so needs their
rows: `WaitsFor` is the lock graph and `BreakDeadlock` the detector of Postgres.
Deadlines are instants that pass (`Deadline`), noticed by `LazyExpire` or `Sweep`.

*Payouts.* `StartBatch` reads the balances, at any time and for any date, whatever
other batches do; `InsertBatch` writes; `LoadPayout` reads a status,
`SetStatus`/`MarkPaid`/`RefuseMove` write. The amounts of the payouts, not the
transfers themselves, are modelled; `MaxAmount` bounds what a guide is owed at once.
`strayed` is a history: it is set when batches of two dates are under way at once,
or a failed payout is about to be retried that its guide's balance does not cover.

*Certification.* `Apply`, `ReadCase`, `BeginOpen`, `InsertCase` are the four
statements of an application; `LockCase`, `CheckEvidence`, `Commit` a transition.
`opened` orders transactions by their start, which is what `now()` is. Documents
appear, expire and are erased in between. `PubliclyVisible` and `Searchable` are
the Go gate and its SQL copy. An event is its edge; its reason and its actor are left
out, for nothing reads them back.

*Client sessions.* A token is named by the `refresh_sessions` row it belongs to,
and so is the access token issued with it; `expired` is the rows whose access
token has run out. `session` holds each row's state, the row it was rotated to
and the sign-in it comes from. The server's rotation is three statements in no
transaction, `ServerReads`, `ServerCreates`, `ServerMarks`; a row presented again
after it was marked revokes the chain (`reuse`). A client sends a call with what
the store has; on a 401 it starts or joins the `promise` of its context; when the
rotation answers, a phone app writes its two tokens one after the other (`Save`)
while cookies change at once; then the calls go out again. When it fails, the
promise is settled first and every call that waited for it deletes the two tokens
on its own, one after the other (`Expire`), so that another 401 can start a refresh
in between. A sign-in's two writes (`SaveLogin`) and a sign-out's request and two
deletes (`EndSession`, `ClearTokens`) are steps of their own as well; SecureStore
itself is assumed not to fail. `App` is the five clients, which differ in their
store and in what the login page does with an MFA challenge. `Restart` kills the
phone app between any two steps.

*Guide clients.* `list` is the offers shown, `load` the reads under way, `act` the
accept or decline under way, `sock` the hook's socket with its attempts, `conn`
the server's side: the upgrade reads the open offers, registers later and sends
what it read. `presence` is the Redis key with the client's switch and the
heartbeats on their way. `TourScreen` has what is shown of the tour, the request
under way (`asking`), the stored key that authorises the background task, the
updates of the system (`running`), the fix being posted, and the position in
Redis; ingestion is a read of the status and a later write.

*Booking form.* An input stands for a complete content of the form. `asked` is the
quote requests in flight, live until a later edit cancels them; `keeper` the key
and the input it was made for; `submit` the creation under way, whose answer may be
lost after it was served. Phones and browsers keep keys differently (`PhoneKey`,
`BrowserKey`). `Booked` takes the answer: the browser drops its key,
both ask the router to leave and enable the button again; until the router has
(`FormLeft`) the form is there to be edited and submitted. What the server makes of
such a late press is not followed to the checkout.

*Checkout.* Each visit of the screen makes a key; `payment` per key is the row.
CreateIntent is three steps of the server, `IntentLoads`, `IntentChecks` and
`IntentInserts`, which overlap those of another key; `raced` records that one was
overtaken by another or by a move of the booking. `linked` is the keys whose
answer shows a tourist the way to the provider, which the browser's never does;
`collected` and `declined` are what the provider's pages have done; the webhook and
`Elsewhere`, which takes every edge of the table, move `status`, and `overridden`
records that operations took it where a payment leads, without one; `section` is
the payment section with its polls, `checks` the requests for the booking. The
tourist may leave and come back, and pay on a second device (`OtherDevice`).

*Pages.* A page is a record: what makes it read (`asks`), which answers it takes
(`order`), whether a read clears it, what a failed read does; for each button the
requests its handler sends in turn, what follows success, conflict and failure;
in which states a button is there and which flag disables it. `TouristPages`,
`GuidePages` and `AdminPages` give these records and `Pages` the one machine that
runs them: `SetFilter`, `RetryRead`, `News` begin a read, `ReadServed`,
`ReadAnswered`, `ReadFails` end it; `Press`, `ActServed`, `Settle` are an action.
A row is its version and whether it is still open. A request fits an endpoint
when it sends what the handler's struct requires and no field it does not know.

## 3. Runs

| run | instance | shows |
|---|---|---|
| `bookings` | 2 bookings, 1 guide, 2 overlapping windows, 2 keys, 2 sessions, at most 6 events a booking | `NoDoubleBooking`, `OneBookingPerKey`, `HistoryIsPath`, and that rows, locks, queries and constraint implement `GuideCalendar` |
| `payments` | 1 booking, 3 payments, 3 keys, 2 requests, 2 splits of the amount, at most 2 provider refunds each | `PaymentFitsBooking`, `LedgerFollowsPayments`, `TourIsNotRefunded`, and that payments implement `BookingMoney`: the books follow the provider |
| `payments_paid` | 2 bookings of one slot, 2 payments, 1 request, no refunds, fair | `PaidIsHonoured`: a paid booking whose slot stays free is confirmed |
| `dispatch` | 1 booking, 2 guides, 2 batches of 2, 2 requests, fair | `OutcomeIsFinal`, `CountersAreExact`, `EveryRequestEnds`, and that offers implement `Matching` |
| `dispatch_two_tours` | 2 overlapping bookings, 2 guides, 1 batch each | `GuideIsFree`: no guide accepts two tours at one time |
| `payouts` | 1 guide, 2 tours with shares 1 and 2, 2 payouts, 2 dates, 1 account, 2 requests that both run batches, amounts to 3 | `PaidIsPosted`, `OncePerDate`, `MachineIsFollowed`, and `OrderlyStaysWithin`: within what was earned as long as batches under way are of one date and a failed payout is retried only while the balance covers it |
| `certification` | 1 guide, 2 cases, 2 applications, 2 officers, 3 document groups, at most 13 events a case | `OneOpenCase`, `VisibleIsVetted` (every stage but insurance, and around that one only by a suspension or expiry at CERTIFIED), `SuspendedTogether` |
| `client_session` | any of the 5 clients, 2 tabs, 2 calls, 2 rotations at the server, 2 rows, 1 kill | `OneRotationAtATime`, `NoneForgotten`, `RetryHasNewToken` |
| `guide_app` | either client, 1 offer, 2 loads, 1 attempt to reconnect, 1 frame, 1 loss, fair | `PollingCatchesUp`, `KeyFollowsScreen`, `RefusedIsCorrected`, `PositionFades` |
| `screens` | the form and checkout on either client, 2 inputs, 4 edits, 3 submissions, 1 payment key, 2 polls; each of 45 pages with 2 rows, 2 filters, 2 reads and 2 actions at once, 1 change by others; 1 loss, fair | `RetryBooksOnce`, `QuoteFitsInputs`, `ConfirmedIsPaid`, `WaitEnds`; `OwnActionShown`, `ShownFitsFilter`, `NoBlindSave`, `LoadingEnds` |
| `checkout` | the checkout with 2 payment keys, 1 edit, 1 submission, no pages | `OneChargeUnlessRaced`: two charges only where CreateIntent was overtaken |
| `two_active_payments` | as small as the case allows | a counterexample, see 6 |

The runs `client_session`, `guide_app` and `screens` also check the modules' type
invariants. Those of the server modules, and `ConfirmedOnce`, `SeenIsFinal`,
`RefundIsReturned`, `GatesAgree` and certification's
`HistoryIsPath`, are proved (section 4) and in no run.

Why the bounds are enough. Every race of the server is between two requests over
one booking, one slot, one payout or one case: two requests, and two of what they
race for, make all of them happen. Three payments let a refund, a late
failure and a second capture be three different ones. Six events reach every
terminal status of a booking after an assignment. Thirteen events let a case run
the main line (10 with the opening), be suspended or expired, return, and be
suspended again, or be sent back to training. Three of the four document groups
are followed, the fourth being held: the gate and the evidence treat the groups
alike. Two guides in a batch of two make sibling offers; two batches make a
re-dispatch. The shares 1 and 2 make the sum of two payouts differ from either.

In the clients two calls share one refresh, and a third finds it as the second
does; two tabs make two promises over one jar. Two rows are a sign-in and its
rotation, or a second sign-in; that a third changes nothing is what the proofs of
`ClientSession` are for. Four edits take a form from empty to one input,
to another and back; three submissions repeat one under a kept key and then under
a new one. One payment key is a visit, and the form, the pages and liveness need no
second; two are two visits or devices, whose intents overlap, and have the run
`checkout`. Two reads overlap in either order,
two filters tell whose answer is shown, two actions share a flag or a row. One
loss is any one request or answer, lost before or after it was served, at any point.

Symmetry is used over identities that are only compared for equality, and in no
run that checks liveness. Deadlock is not checked where the system may stop: all
bookings closed, all rows used up, the account erased, nobody presses.

Every property of a passing run has a mutant: a definition changed as a plausible
bug would change it (a dropped lock or index, a missing status in a set, a
swapped account, a cleanup that does not cancel), kept beside the definition and
unused otherwise, under which TLC finds the property violated.

### Fairness

*Server requests.* `SF` on the continuation of a request (`Serve`): Postgres
grants a row lock in the queue's order, so a request whose lock is free again and
again gets it; a plain `WF` would demand the lock to stay free. *Webhooks.* `SF`
on the delivery of an event: the provider redelivers until it is answered 200.
Nothing else of the server is fair: not tourists, guides, officers, deadlines,
rollbacks or crashes. `EveryRequestEnds` rests on the deadlock detector, which is
part of `Serve`.

*Clients.* `WF` on what machines do: the server answers a request that has
reached it, the client takes an answer that has come (or the loss of it), timers
and polls fire, positions expire in Redis. At the checkout this is the polling and
the answers to it (`ChecksEnd`), not the intents. Lossy steps are bounded and
never fair, and nobody has to press anything: users may stop at any point. The
socket need not ever connect, which is what makes `PollingCatchesUp` say something.

### What is assumed of the environment

- A provider settles a reference one way only: paid or declined.
- The provider grants a refund that is asked for, each time (as the mock does).
- The clocks of the server and of the database agree.
- The payout delay setting does not change while earnings clear.
- Nothing of batches and retries: they overlap as they like. `OrderlyStaysWithin`
  says which discipline of operations (`Orderly`) keeps a guide's payouts within
  what it earned; the code does not enforce it, and section 6 tells of both ways
  around it.
- An access token does not run out while the rotation that issues it is on its
  way, nor while a phone app writes it: it lives for minutes, these last moments.
- The guarantees of `OneRotationAtATime` are for a client that is left alone, and
  its definition says so: one context, not killed, that loses no answer. On a phone a
  lost answer matters too: a 401 that comes while the tokens are being deleted
  presents the token whose answer was lost. The other cases are in section 6.
- A guide's phone that loses a tour to another guide keeps its key, for the page's
  early return leaves it; `KeyFollowsScreen` names this exception.

## 4. Theorems

Each holds for any number of sessions, requests, bookings, guides, calls and so
on. All proofs follow one plan: an inductive invariant that says what an actor
holds while it is between two steps, one step per action, and PTL to close.

- `BookingsProofs`. `IInv == TypeOK /\ LockInv`: two sessions never hold one row
  or one key, and a checked move still stands on the status it read. On it
  `CalendarSafe` (`NoDoubleBooking`), `HistorySafe` (`HistoryIsPath`),
  `ConfirmationSafe` (`ConfirmedOnce`), `CreationSafe` (`OneBookingPerKey`, by an
  invariant relating keys, answers and rows) and `CalendarRefinement`: the
  specification implements `GuideCalendar`.
- `PaymentsProofs`. `IInv` joins the types with `PaymentInv` (payment against
  booking, dedupe row and provider; one collected payment a booking), `LedgerInv`
  (which postings exist, each with its exact entries), `IntentInv` and
  `RefundInv` (what a request knows at each of its cuts: once a refund has begun,
  its payment's row is locked and the money returned). None of the properties is
  inductive alone: that a refund finds its posting needs the ledger, that the
  ledger is exact needs the payments, that payments are exact needs the requests.
  On it `PaymentsFitBookings`, `SeenAreFinal`, `LedgerIsExact`,
  `RefundsAreReturned`, the action property `ToursAreNotRefunded`, and
  `BooksFollowProvider`: the specification implements `BookingMoney`. What it does
  not promise is that the provider is asked once: two references of a booking can
  be paid, and a refund asked twice (section 6); the books hold one of each.
- `DispatchProofs`. `IInv == TypeOK /\ RunInv /\ OfferHeld /\ BookingHeld /\
  UnpaidHasNoGuide`: what each run has read and not written yet; an acceptance
  that holds an offer's row finds it as it judged it, and alone; likewise the
  booking's row; a booking without a payment has no guide. On it
  `OutcomesAreFinal`, although the update that sets an outcome looks at no
  status; `CountersExact`, which counts members of finite sets as they grow by
  one; `GuidesAreFree`, from the overlap query at the assignment and the symmetry
  of overlapping; and `FirstAcceptanceWins`: the specification implements `Matching`.
- `PayoutsProofs`. `IInv == TypeOK /\ MovesAreLegal /\ PaidIsPosted /\
  OncePerDate`: a request that will write a status has judged an edge of the
  machine, from which `FollowsMachine`, `PaidPosted` and `OneOfADate`.
  `StaysWithinEarnings` rests on `EarningsInv`, which every step of an orderly state
  into another preserves: what a batch read and will insert still fits what the
  guide has earned beside the payouts of other dates (`BatchesFit`), though others
  of its date have inserted theirs meanwhile. `Orderly` speaks of dates, and of the
  balance at the moment of a retry, and of no amount that a batch has read. A sum is the
  number of pairs of a row and one of its units (`Units`), so it grows with the
  set and by the amount of a new row, by the library's facts about cardinality
  and without induction; `MCPayouts` has TLC compare it with the sum of the
  community modules.
- `CertificationProofs`. `IInv == TypeOK /\ LockInv /\ ProfileInv`: a transition
  holds its case alone, in the status it read; whoever applies or has a case has a
  profile. `HistorySafe` and `OneOpenSafe` are inductive on it (no edge leaves
  REJECTED); `SuspendedSafe` needs `OneOpenSafe`, for a reactivation leaves no
  other suspended case; `GatesSafe` is a consequence; `VisibleSafe` needs that a
  case behind a stage went through it, and one past CERTIFIED through
  INSURANCE_ACTIVE or around it by a suspension or expiry at CERTIFIED
  (`StageInv`), and that no two cases have one opening time (`OpenedInv`).
- `ClientSessionProofs`. `IInv == TypeOK /\ RotTokens /\ WaitInv /\ RowInv`
  (`Coherence`): a promise that has asked and its rotation name each other, one
  that saves has its tokens, calls wait for open promises only, whoever names a
  row names one that is used. `NobodyForgotten` follows. `RetriesAreFresh` adds
  `RefusedInv` (what was refused has run out, what is fresh has not) and
  `FreshInv` (the access token stored once a refresh is over is the fresh one).
  `RotationsAreSingle` adds `DistinctInv` (no row is on its way in two places),
  `ReuseInv` (in a client that is left alone - one context, not killed, no answer
  lost - every token that is stored, about to be stored by a sign-in, or presented
  was never rotated and is presented once, but the stored one while it is being
  replaced; this holds through every order of the single writes and deletes) and
  `AliveInv` (the only second live row of a sign-in is the one the server is about
  to mark).
- `GuideAppProofs`. `IInv` joins the types with `SockInv` (only a hook that has
  given up has failed more often than it may), `DeskInv` (a step is taken from a
  page that reads nothing, and what follows it reads), `AskInv` (the phone waits
  for a permission on a page that shows the tour live), `KeyInv` and `RankInv`.
  `TypeCorrect` and `KeyIsTheScreens` follow: the property alone does not say where
  the key is while a step is on its way, `KeyInv` does. Its exceptions are a killed
  app, a permission granted after the screen was left, and a tour that went to
  another guide. `RefusedStaysBehind`: a
  tour has a rank that no edge lowers; what was refused has a rank behind the
  tour's and behind what is read after it, while the button is of the next one.
- `ScreensProofs`, form and checkout. `FormInv`: a creation under way has the key
  that is kept, a phone's key has its input, the last two keys of a phone were made
  for different inputs, and a key the browser has dropped was answered; hence
  `RetriesBookOnce`, which says what the keys do guarantee: in the browser a second
  booking comes after the answer to the first only, on the phone after other inputs
  only. That it can come at all is told in section 6. `QuotesFit`
  by `QuoteInv`: the request that is not cancelled is for what the form holds.
  `ChargedOnce` by `MoneyInv`: unless an intent was overtaken (`raced`) one intent
  at most is under way, for a booking that awaits its payment, and one key at most
  has a payment that is active or paid (`Unraced`); only such a one is collected.
  `ConfirmedWasPaid` by `ViewInv`: a status behind the payment comes with a paid
  payment or with operations' override, and an answer on its way to the page with
  such a status likewise.
- `ScreensProofs`, pages. What pages do is generic and what each is made of is
  data, so the proofs have two layers. `EveryPage` goes through the 45 pages and
  establishes what the properties rest on (`Parts`): how those read that have no
  reads of their own, what follows their actions, which buttons save. The rest
  uses `Parts` only. `PagesInv` is the shape of the pages with `VersionInv`: the
  requests still to be served (`Due`, a finite set that is counted) and the
  versions reached are within what was pressed. `ShownFits` by `FitInv`: where an
  effect cancels, a read that counts is for what the page is of. `SavesAreSeen`
  needs of a button only whether it waits for what is read. `OwnActionsShow` by
  `OwnInv`: on the pages of the property nothing runs beside an action but the
  read that follows it (`Alone`), no row is behind what was done to it (`Known`),
  and a read, an answer or what is shown has it (`UpToDate`). `TypeCorrect` adds
  `FormCounts` (a form has made no more keys than presses) and `CheckoutRest`.

Assumptions are those named in the modules: overlapping windows are intervals,
`Clash` is symmetric, bookings and guides are finite where they are counted,
likewise payouts and tours, shares and allocations are positive, null records are
fresh, a page has a row and a filter to show, bounds are naturals. Bounds are
guards of the models, so the theorems hold for every bound.

Every invariant and every action property of a passing run is stated by a
theorem. Only model-checked is liveness (`PaidIsHonoured`, `EveryRequestEnds`,
`PollingCatchesUp`, `PositionFades`, `WaitEnds`, `LoadingEnds`):
fairness needs ENABLED, which is out of the prover's reach. So is induction over
data, which no proof needs and no module invites: none declares a RECURSIVE operator.

## 5. Not modelled

- Reviews, incidents, safety and training: see their hazards in section 6.
- Erasure of the payout account; certification models what an erasure does to a guide.
- Prices, commission rounding and the wall clock arithmetic of coverage: pure
  functions with tests of their own. Amounts are symbolic splits.
- Content of receipts, notification stubs, broadcasts and audit rows other than
  the refund's: no state of the models depends on them.
- Signatures of webhooks, encryption, codes, passwords and permissions: each
  server action's caller is authenticated and allowed.
- Redis on the server's side of a booking: presence and offer keys that dispatch
  reads are caches of what the rows say. Presence and positions are modelled with
  the guide's clients.
- The record-only branch of HandleWebhook: `SeenIsFinal` shows it unreachable.
- The order in which ExpireStale and InsertOffers touch rows; the connection
  pool; the map of connections under its mutex; the scheduler's run-once guard,
  which only narrows when a batch may run.
- `completed_at`, reasons and audit rows of certification; ends_at at completion.
- Pages of staff accounts and invitations, the acceptance of an invitation and the
  roster of a course: forms with one request each, or one read.
- Layout, wording, navigation, translations and styles; public marketing pages;
  `packages/ui`, `ui-native`, `tokens`; the contracts generated from OpenAPI, the
  largest file of the repository, which holds types only; infra, scripts and tests.

## 6. Where the code disagrees with what is said of it

With a run:

1. `two_active_payments`: two intents with different keys open two payments,
   though CreateIntent refuses a second active one (payments/service.go:133).

Seen while modelling, without a run of their own. Where a property would say what
the document does, it says instead how far the code keeps it, and names the rest:

- From two devices of a tourist the two payments can both be taken
  (`OneChargeUnlessRaced` has `raced` for it), though CheckoutClient.tsx:196 says "you
  will not be charged twice"; the books capture one of the two (`BookingMoney`).
- A refund is asked of the provider twice under one key when the first request is
  still under way or has stopped after the provider's answer, though Refund is
  "Idempotent on Idempotency-Key" (payments/service.go:463, 489-493); `returned`
  counts to 2, and `BookingMoney` leaves it open.
- The override of operations confirms a booking without a payment
  (tours/service.go:182-197; `overridden` in `ConfirmedIsPaid`), though
  docs/implementation-status.md:441 ties confirmation to the provider's state. It
  completes a tour without the posting of the guide's share, too.
- Two batches of different dates both read the balance and both queue it
  (payouts/service.go:160-175), and a FAILED payout is made up for by the next batch
  and may then be retried, so that both are PAID (payouts/repository.go:35-38, 235).
  Those are the two cases of `strayed`. docs/implementation-status.md:461 says a
  payout cannot exceed the balance, apps/marketing-web/app/pricing/page.tsx:97 that
  a failed transfer is never paid twice.
- CERTIFIED, SUSPENDED or EXPIRED, ACTIVE goes around INSURANCE_ACTIVE
  (certification/statemachine.go:44, 47, 48), which statemachine_test.go:50 says
  cannot be skipped; `VisibleIsVetted` names this way, and no other. A usable
  insurance document is still asked for by the gate.
- A heartbeat that the request to go offline overtakes marks the guide for another
  300 seconds (lib/presence.tsx:84), though guide-mobile/src/app/index.tsx:26 says
  new offers stop immediately.
- On the phone the inputs A, B, A make three keys; when the answer to the first is
  lost and the second is refused, A is booked twice, though
  docs/implementation-status.md:265 says a retry never can. The slot's exclusion
  constraint does not help: it covers bookings from CONFIRMED on. `RetryBooksOnce`
  asks no more than that other inputs came between.
- In the browser the key is dropped and "Confirm" enabled again before the router has
  left the form (GuideClient.tsx:149-161): one more press books again. And a key is
  kept over changed inputs, which the server refuses until the page is reloaded.
- The handlers decode with DisallowUnknownFields, and forms of the web apps send what
  they do not know: the tourist's profile `phone`, `language`,
  `emergency_contact_phone` and `accessibility_needs`, the guide's `specialties` for
  `specialty_ids`; the reset form `token` and `new_password`. The registration of a
  tourist lacks `full_name`. None of them ever succeeds, though
  docs/compliance/ghana.md:33 names profile editing as the means of correction.

Money and bookings, further:

- A refund after completion reverses only the posting of the payment: the guide's
  share stays eligible (payments/service.go:543-547).
- Two dispatch runs at once offer a booking to a guide twice
  (dispatch/service.go:109-140); offers are inserted for a booking already taken
  (:236); a guide who declines during a run is asked again (:374); two
  acceptances can deadlock (:338) and one of them is aborted.
- The export names accounts that nobody verified (payouts/repository.go:451,
  migrations/0011_legal_body.up.sql:99), and the account that is latest then.
- After PAYMENT_FAILED there is no way to pay again (payments/service.go:86, 258):
  the web's "Retry payment" never succeeds.
- A tourist who returns from the provider without having paid gets ErrAlreadyActive
  from then on, against the comment of CheckoutClient.tsx:112-113.
- A refund's audit row is lost if the request ends after its commit
  (payments/handler.go:209-212); a refund of a tour that began meanwhile is refused
  after the money was returned (service.go:602-634).
- The web never finds the provider's link: the server answers `payment`
  (payments/handler.go:97), tourist-web unwraps `payment_intent`
  (lib/bookings.ts:133), though CheckoutClient.tsx:36-37 says it hands off.
- The phone never shows a cancelled booking as cancelled: a status it does not know
  is "awaiting payment", and on the guide's screen "Assigned to you".
- In the browser an older quote may replace a newer one, and the poll after
  PAYMENT_FAILED is never stopped; on the phone clearing the inputs during a quote
  leaves it loading.

Certification and documents:

- A rejected guide cannot apply again: OpenCase returns the rejected case
  (certification/repository.go:121 against statemachine.go:32-33).
- `guide_profiles.status` stays `certified` after EXPIRED or a rejection that
  follows retraining, and the role is never withdrawn (repository.go:329-344).
- No code reviews a document: its status stays `uploaded`, and the receipt's
  insured flag, which wants `approved`, is never set (payments/service.go:411-413).
- An application begun before a case that is opened and rejected meanwhile opens a
  case that the guide's own page never shows (`opened_at` order).
- guide-web unwraps `document` and looks for the upload link inside; the server
  sends it beside (verification/page.tsx:196-210).

Sessions:

- A network failure during a refresh signs the user out as a refused one does,
  where ADR 0009 speaks of expired, revoked and reused tokens only.
- Two tabs that rotate at once, an answer that is lost, or a kill between the two
  writes to SecureStore end in a reuse, and the chain is revoked.
- A refresh on its way while the user signs out writes tokens back.
- The login page offers "Try again" for an MFA challenge that is consumed; no web
  app calls /auth/logout.

Screens of guides and of operations:

- One `busyOfferId` or `busyId` stands for all rows: acting on a second row enables
  the first again (jobs, finance, settings, quality).
- Loads of the job list and of filtered lists are unordered: an older answer may
  replace a newer one; answers of an incident's detail likewise; the live panel may
  put a late poll over a newer frame.
- An offer made between the socket's snapshot and its registration is not announced.
- The location key outlives a killed app, and a view that does not know the tour is
  over (tours/[id].tsx:4-8 says otherwise); the phone's tour stays stale after a
  refusal, and its "Pull down" has nothing to pull.
- The content page saves over content it could not read; a template is created
  twice by two presses; profiles are last write wins; the reviews of one guide stay
  on the phone when the next guide's cannot be read; training forms can be used
  while the page still loads.

Hazards of parts without a module: of two reviews at once the older average can be
cached last; an incident closed in between is reopened by a transition that judged
the status before, and an SOS is acknowledged apart from its incident; the
completion of a course is decided by later statements; webhooks are deduplicated by
payment, not by event; the gate of a guide is written three times (`GatesSafe`
shows two of them equal); refunds take a second connection of the pool while they
hold one.
