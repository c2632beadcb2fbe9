------------------------------- MODULE Dispatch -------------------------------
(***************************************************************************)
(* The dispatch component (dispatch/service.go, repository.go): batches of  *)
(* offers of a confirmed booking without a guide, their acceptance, decline  *)
(* and expiry, and the bookings they read and write.                        *)
(*                                                                         *)
(* A run of Dispatch is split at each of its queries, which share no         *)
(* transaction; an acceptance at the row locks it waits for.  Deadlines are  *)
(* instants that pass.  Redis keys and broadcasts are left out: the rows are *)
(* authoritative.                                                           *)
(***************************************************************************)
EXTENDS BookingStates, FiniteSets

CONSTANTS
  Booking,
  Guide,
  Req,         \* requests served at the same time
  Clash,       \* pairs of bookings whose windows overlap
  None,
  BatchSize,   \* dispatch_batch_size
  MaxBatch,    \* bound: batches of a booking, counting the runs under way
  Moves        \* bound: statuses a booking is moved to, beside CONFIRMED

ASSUME Rows == IsFiniteSet(Booking) /\ IsFiniteSet(Guide)
ASSUME ClashOfOthers ==
  /\ Clash \subseteq Booking \X Booking
  /\ \A c \in Clash : c[1] # c[2] /\ <<c[2], c[1]>> \in Clash
ASSUME Bounds ==
  BatchSize \in Nat \ {0} /\ MaxBatch \in Nat /\ Moves \subseteq Statuses \ {"CONFIRMED"}

VARIABLES
  status,   \* bookings.status
  guide,    \* bookings.guide_id
  offer,    \* rows of dispatch_offers: their status, by booking, guide and batch
  late,     \* offers past their expires_at
  stats,    \* guide_dispatch_stats
  req       \* the requests being served

vars == <<status, guide, offer, late, stats, req>>
bookings == <<status, guide>>
offers == <<offer, late, stats>>

OfferStatus == {"OFFERED", "ACCEPTED", "DECLINED", "EXPIRED", "SUPERSEDED"}
OfferId == Booking \X Guide \X (1 .. MaxBatch)
Counter == {"offers", "accepts", "declines", "expiries"}

\* A run of Dispatch: asked for, or asked by a decline; then past each query.
Run == [kind : {"dispatch"}, booking : Booking,
        at : {"asked", "declined", "swept", "loaded", "clear", "numbered", "chosen"},
        batch : 0 .. MaxBatch, guides : SUBSET Guide]

\* An acceptance holds its offer's row, then its booking's too.
Acceptance == [kind : {"accept"}, offer : OfferId, at : {"offer", "booking"}]

ASSUME NoneIsFresh == None \notin Guide \cup OfferStatus \cup Run \cup Acceptance

TypeOK ==
  /\ status \in [Booking -> Statuses]
  /\ guide \in [Booking -> Guide \cup {None}]
  /\ offer \in [OfferId -> OfferStatus \cup {None}]
  /\ late \subseteq OfferId
  /\ stats \in [Guide -> [Counter -> Nat]]
  /\ req \in [Req -> Run \cup Acceptance \cup {None}]

Init ==
  /\ status = [b \in Booking |-> "PAYMENT_PENDING"]
  /\ guide = [b \in Booking |-> None]
  /\ offer = [o \in OfferId |-> None]
  /\ late = {}
  /\ stats = [g \in Guide |-> [c \in Counter |-> 0]]
  /\ req = [r \in Req |-> None]
-----------------------------------------------------------------------------
OffersOf(b) == {o \in OfferId : o[1] = b /\ offer[o] # None}

\* LiveOffers: OFFERED and not past the deadline.
Live(b) == {o \in OffersOf(b) : offer[o] = "OFFERED" /\ o \notin late}

\* NextBatchSeq: one past the last batch.
IsNextBatch(b, n) ==
  /\ \A o \in OffersOf(b) : o[3] < n
  /\ n = 1 \/ \E o \in OffersOf(b) : o[3] = n - 1

\* A guide's other active bookings leave the window of b free.
GuideFree(g, b) ==
  \A c \in Booking : <<b, c>> \in Clash /\ status[c] \in ActiveStatuses => guide[c] # g

\* Candidates: free, and not a decliner of this booking.  Who passes the gates
\* of certification, documents, schedule and presence is left open.
Candidates(b) ==
  {g \in Guide : GuideFree(g, b) /\ \A o \in OffersOf(b) : o[2] = g => offer[o] # "DECLINED"}

At(r, kind, at) == req[r] # None /\ req[r].kind = kind /\ req[r].at = at
Accepting(r) == At(r, "accept", "offer") \/ At(r, "accept", "booking")

\* Mutant: the offer is read by a plain SELECT.
OfferLocked_PlainSelect(o) == FALSE

\* The row locks an acceptance holds until it commits.
OfferLocked(o) == \E r \in Req : Accepting(r) /\ req[r].offer = o
BookingLocked(b) == \E r \in Req : At(r, "accept", "booking") /\ req[r].offer[1] = b

\* Bound: MaxBatch batches of a booking, counting the other runs under way.
BatchesLeft(r, b) ==
  LET others == {q \in Req \ {r} : req[q] # None /\ req[q].kind = "dispatch"
                                     /\ req[q].booking = b}
  IN \E n \in 1 .. MaxBatch : IsNextBatch(b, n) /\ n + Cardinality(others) <= MaxBatch

Ended(r) == [req EXCEPT ![r] = None]
End(r) == req' = Ended(r)
Go(r, at) == req' = [req EXCEPT ![r].at = at]
Count(g, c) == stats' = [stats EXCEPT ![g][c] = @ + 1]
-----------------------------------------------------------------------------
RunAt(b, at, n, gs) ==
  [kind |-> "dispatch", booking |-> b, at |-> at, batch |-> n, guides |-> gs]
NewRun(b, at) == RunAt(b, at, 0, {})

\* The payment's webhook confirms the booking and then runs OnConfirmed.
Confirm(r, b) ==
  /\ req[r] = None /\ BatchesLeft(r, b) /\ ~BookingLocked(b)
  /\ CanTransition(status[b], "CONFIRMED")
  /\ status' = [status EXCEPT ![b] = "CONFIRMED"]
  /\ req' = [req EXCEPT ![r] = NewRun(b, "asked")]
  /\ UNCHANGED <<guide, offers>>

\* Operations ask for a dispatch of any booking.
AskDispatch(r, b) ==
  /\ req[r] = None /\ BatchesLeft(r, b)
  /\ req' = [req EXCEPT ![r] = NewRun(b, "asked")]
  /\ UNCHANGED <<bookings, offers>>

Stale == {o \in OfferId : offer[o] = "OFFERED" /\ o \in late}

\* ExpireStale, one transaction: its UPDATE waits for the rows others hold.
ExpireStale ==
  /\ \A o \in Stale : ~OfferLocked(o)
  /\ offer' = [o \in OfferId |-> IF o \in Stale THEN "EXPIRED" ELSE offer[o]]
  /\ stats' = [g \in Guide |-> [stats[g] EXCEPT
       !["expiries"] = @ + Cardinality({o \in Stale : o[2] = g})]]
  /\ UNCHANGED late

\* The sweeper's tick, and the lists guides read.
Sweep == Stale # {} /\ ExpireStale /\ UNCHANGED <<bookings, req>>

StartRun(r) ==
  /\ At(r, "dispatch", "asked")
  /\ ExpireStale
  /\ Go(r, "swept")
  /\ UNCHANGED bookings

\* The booking is CONFIRMED and has no guide, or ErrNotDispatchable.
LoadBooking(r) ==
  /\ At(r, "dispatch", "swept")
  /\ LET b == req[r].booking
     IN IF status[b] = "CONFIRMED" /\ guide[b] = None THEN Go(r, "loaded") ELSE End(r)
  /\ UNCHANGED <<bookings, offers>>

\* A live batch is returned as it is.
CheckLive(r) ==
  /\ At(r, "dispatch", "loaded")
  /\ IF Live(req[r].booking) = {} THEN Go(r, "clear") ELSE End(r)
  /\ UNCHANGED <<bookings, offers>>

NumberBatch(r) ==
  /\ At(r, "dispatch", "clear")
  /\ \E n \in 1 .. MaxBatch :
       /\ IsNextBatch(req[r].booking, n)
       /\ req' = [req EXCEPT ![r] = RunAt(@.booking, "numbered", n, {})]
  /\ UNCHANGED <<bookings, offers>>

\* The best BatchSize of those who pass the gates; nobody: dispatch.unmatched.
ChooseGuides(r) ==
  /\ At(r, "dispatch", "numbered")
  /\ \E gs \in SUBSET Candidates(req[r].booking) :
       /\ Cardinality(gs) <= BatchSize
       /\ IF gs = {} THEN End(r)
          ELSE req' = [req EXCEPT ![r] = RunAt(@.booking, "chosen", @.batch, gs)]
  /\ UNCHANGED <<bookings, offers>>

BatchOf(r) == {<<req[r].booking, g, req[r].batch>> : g \in req[r].guides}

\* All the offers and counters, or none: UNIQUE (booking, guide, batch) fails
\* the transaction.  Their foreign key waits for a held booking row.
InsertOffers(r) ==
  /\ At(r, "dispatch", "chosen") /\ ~BookingLocked(req[r].booking)
  /\ \A o \in BatchOf(r) : offer[o] = None
  /\ offer' = [o \in OfferId |-> IF o \in BatchOf(r) THEN "OFFERED" ELSE offer[o]]
  /\ stats' = [g \in Guide |-> [stats[g] EXCEPT
       !["offers"] = IF g \in req[r].guides THEN @ + 1 ELSE @]]
  /\ End(r)
  /\ UNCHANGED <<bookings, late>>

FailInsert(r) ==
  /\ At(r, "dispatch", "chosen") /\ ~BookingLocked(req[r].booking)
  /\ \E o \in BatchOf(r) : offer[o] # None
  /\ End(r)
  /\ UNCHANGED <<bookings, offers>>
-----------------------------------------------------------------------------
\* Accept locks the offer and finds it OFFERED and in time; any other request
\* for it changes nothing, but for LazyExpire.
LockOffer(r, o) ==
  /\ req[r] = None /\ ~OfferLocked(o)
  /\ offer[o] = "OFFERED" /\ o \notin late
  /\ req' = [req EXCEPT ![r] = [kind |-> "accept", offer |-> o, at |-> "offer"]]
  /\ UNCHANGED <<bookings, offers>>

\* Mutant: the expiry is not counted.
LazyExpire_NotCounted(o) ==
  /\ ~OfferLocked(o) /\ offer[o] = "OFFERED" /\ o \in late
  /\ offer' = [offer EXCEPT ![o] = "EXPIRED"]
  /\ UNCHANGED <<bookings, late, stats, req>>

\* Accept finds the offer OFFERED but late, and persists the expiry.
LazyExpire(o) ==
  /\ ~OfferLocked(o) /\ offer[o] = "OFFERED" /\ o \in late
  /\ offer' = [offer EXCEPT ![o] = "EXPIRED"]
  /\ Count(o[2], "expiries")
  /\ UNCHANGED <<bookings, late, req>>

\* Mutant: the booking's guide is not checked again under its lock.
Assignable_AnyGuide(b) == status[b] = "CONFIRMED"

\* The re-check of the locked booking.
Assignable(b) == status[b] = "CONFIRMED" /\ guide[b] = None

LockBooking(r) ==
  /\ At(r, "accept", "offer") /\ ~BookingLocked(req[r].offer[1])
  /\ Assignable(req[r].offer[1])
  /\ Go(r, "booking")
  /\ UNCHANGED <<bookings, offers>>

\* Mutant: only a booking that is no longer CONFIRMED is refused.
RefuseAccept_StatusOnly(r) ==
  /\ At(r, "accept", "offer") /\ ~BookingLocked(req[r].offer[1])
  /\ status[req[r].offer[1]] # "CONFIRMED"
  /\ End(r)
  /\ UNCHANGED <<bookings, offers>>

\* ErrOfferClosed.
RefuseAccept(r) ==
  /\ At(r, "accept", "offer") /\ ~BookingLocked(req[r].offer[1])
  /\ ~Assignable(req[r].offer[1])
  /\ End(r)
  /\ UNCHANGED <<bookings, offers>>

\* Mutant: no exclusion constraint.
OverlapAllowed_NoConstraint(g, b) == TRUE

\* bookings_no_guide_overlap admits the assignment.
OverlapAllowed(g, b) == GuideFree(g, b)

\* The offers SupersedeOthers updates.
Siblings(o) == {p \in OffersOf(o[1]) \ {o} : offer[p] = "OFFERED"}

\* AssignGuide, ACCEPTED, the siblings SUPERSEDED, and commit; the siblings'
\* rows must not be held by other acceptances.
CommitAccept(r) ==
  LET o == req[r].offer
  IN /\ At(r, "accept", "booking") /\ OverlapAllowed(o[2], o[1])
     /\ \A p \in Siblings(o) : ~OfferLocked(p)
     /\ guide' = [guide EXCEPT ![o[1]] = o[2]]
     /\ offer' = [p \in OfferId |-> CASE p = o -> "ACCEPTED"
                                      [] p \in Siblings(o) -> "SUPERSEDED"
                                      [] OTHER -> offer[p]]
     /\ Count(o[2], "accepts")
     /\ End(r)
     /\ UNCHANGED <<status, late>>

\* ErrOverlap.
RefuseOverlap(r) ==
  /\ At(r, "accept", "booking") /\ ~OverlapAllowed(req[r].offer[2], req[r].offer[1])
  /\ End(r)
  /\ UNCHANGED <<bookings, offers>>

\* r waits for a row q holds: the booking's, or a sibling offer's.
WaitsFor(r, q) ==
  /\ Accepting(r) /\ Accepting(q) /\ req[r].offer[1] = req[q].offer[1]
  /\ \/ At(r, "accept", "offer") /\ At(q, "accept", "booking")
     \/ At(r, "accept", "booking") /\ req[q].offer \in Siblings(req[r].offer)

\* Postgres breaks a cycle of waits by failing one of its transactions.
BreakDeadlock(r) ==
  /\ \E q \in Req \ {r} : WaitsFor(r, q) /\ WaitsFor(q, r)
  /\ End(r)
  /\ UNCHANGED <<bookings, offers>>
-----------------------------------------------------------------------------
\* Decline commits; the request goes on to see whether anything is live.
Decline(r, o) ==
  /\ req[r] = None /\ ~OfferLocked(o)
  /\ offer[o] = "OFFERED" /\ o \notin late
  /\ offer' = [offer EXCEPT ![o] = "DECLINED"]
  /\ Count(o[2], "declines")
  /\ req' = [req EXCEPT ![r] = NewRun(o[1], "declined")]
  /\ UNCHANGED <<bookings, late>>

\* The next batch, when nothing live is left.
AfterDecline(r) ==
  /\ At(r, "dispatch", "declined")
  /\ IF Live(req[r].booking) = {} /\ BatchesLeft(r, req[r].booking)
     THEN Go(r, "asked") ELSE End(r)
  /\ UNCHANGED <<bookings, offers>>

\* The deadline of a batch passes.
Deadline(b, n) ==
  LET due == {o \in OffersOf(b) : o[3] = n} \ late
  IN /\ due # {}
     /\ late' = late \cup due
     /\ UNCHANGED <<bookings, offer, stats, req>>

\* Any other step of the booking: its offers are left as they are.
MoveBooking(b, to) ==
  /\ ~BookingLocked(b) /\ CanTransition(status[b], to)
  /\ status' = [status EXCEPT ![b] = to]
  /\ UNCHANGED <<guide, offers, req>>

\* The request's context ends or the server stops; locks are released.
Abandon(r) ==
  /\ req[r] # None
  /\ End(r)
  /\ UNCHANGED <<bookings, offers>>
-----------------------------------------------------------------------------
Ask(r) ==
  \/ \E b \in Booking : Confirm(r, b) \/ AskDispatch(r, b)
  \/ \E o \in OfferId : LockOffer(r, o) \/ Decline(r, o)

Serve(r) ==
  \/ StartRun(r) \/ LoadBooking(r) \/ CheckLive(r) \/ NumberBatch(r) \/ ChooseGuides(r)
  \/ InsertOffers(r) \/ FailInsert(r)
  \/ LockBooking(r) \/ RefuseAccept(r) \/ CommitAccept(r) \/ RefuseOverlap(r)
  \/ BreakDeadlock(r) \/ AfterDecline(r)

Next ==
  \/ \E r \in Req : Ask(r) \/ Serve(r) \/ Abandon(r)
  \/ Sweep
  \/ \E o \in OfferId : LazyExpire(o)
  \/ \E b \in Booking : \/ \E n \in 1 .. MaxBatch : Deadline(b, n)
                        \/ \E to \in Moves : MoveBooking(b, to)

Spec == Init /\ [][Next]_vars

\* A request runs on, its row locks granted in the queue's order.
FairSpec == Spec /\ \A r \in Req : SF_vars(Serve(r))
-----------------------------------------------------------------------------
\* An answered, expired or superseded offer stays so: neither the sweeper, nor a
\* second answer, nor the acceptance of a sibling, overwrites an outcome, though
\* SetOfferStatus writes without looking at the status.
OutcomeIsFinal ==
  [][\A o \in OfferId : offer[o] \notin {None, "OFFERED"} => offer'[o] = offer[o]]_vars

\* The reliability counters that score guides count each outcome once, whoever
\* of sweeper, lazy expiry and answers got there first.
CountersAreExact ==
  LET NumberOf(g, outcomes) == Cardinality({o \in OfferId : o[2] = g /\ offer[o] \in outcomes})
  IN \A g \in Guide :
       /\ stats[g]["offers"] = NumberOf(g, OfferStatus)
       /\ stats[g]["accepts"] = NumberOf(g, {"ACCEPTED"})
       /\ stats[g]["declines"] = NumberOf(g, {"DECLINED"})
       /\ stats[g]["expiries"] = NumberOf(g, {"EXPIRED"})

\* No guide is on two tours at once, however many offers were accepted at once.
GuideIsFree ==
  \A c \in Clash :
    status[c[1]] \in ActiveStatuses /\ status[c[2]] \in ActiveStatuses /\ guide[c[1]] # None
      => guide[c[1]] # guide[c[2]]

\* Every request ends: no cycle of offer and booking locks is for ever.
EveryRequestEnds == \A r \in Req : req[r] # None ~> req[r] = None

PhaseOf(b) == CASE status[b] \in UnpaidStatuses -> "waiting"
                [] status[b] = "CONFIRMED" -> "open"
                [] OTHER -> "closed"

Match == INSTANCE Matching WITH
  phase <- [b \in Booking |-> PhaseOf(b)],
  won <- {<<o[1], o[2]>> : o \in {p \in OfferId : offer[p] = "ACCEPTED"}}

\* The first acceptance wins: a booking is given one guide, once, while it is
\* confirmed, and exactly that guide's offer is ACCEPTED.
MatchingSpec == Match!Spec
=============================================================================
