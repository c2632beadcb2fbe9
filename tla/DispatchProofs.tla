---------------------------- MODULE DispatchProofs ---------------------------
(***************************************************************************)
(* Theorems of Dispatch, for every choice of its constants.                 *)
(***************************************************************************)
EXTENDS Dispatch, FiniteSetTheorems, TLAPS

\* A run that has numbered its batch holds a number of the bound.
RunInv ==
  \A r \in Req : At(r, "dispatch", "numbered") \/ At(r, "dispatch", "chosen")
                   => req[r].batch \in 1 .. MaxBatch

\* What an acceptance has locked stays as it found it, and it alone has it.
OfferHeld ==
  /\ \A r \in Req : Accepting(r) => offer[req[r].offer] = "OFFERED"
  /\ \A r, q \in Req : Accepting(r) /\ Accepting(q) /\ req[r].offer = req[q].offer => r = q
BookingHeld ==
  /\ \A r \in Req : At(r, "accept", "booking") => Assignable(req[r].offer[1])
  /\ \A r, q \in Req :
       At(r, "accept", "booking") /\ At(q, "accept", "booking")
           /\ req[r].offer[1] = req[q].offer[1]
         => r = q

\* A guide comes after the payment.
UnpaidHasNoGuide == \A b \in Booking : status[b] \in UnpaidStatuses => guide[b] = None

IInv == TypeOK /\ RunInv /\ OfferHeld /\ BookingHeld /\ UnpaidHasNoGuide

-----------------------------------------------------------------------------
\* Only a booking awaiting payment is confirmed, one that was confirmed never
\* awaits payment again, and a closed one stays closed.
LEMMA Edges ==
  ASSUME NEW s \in Statuses, NEW to, CanTransition(s, to)
  PROVE  /\ to \in Statuses
         /\ to = "CONFIRMED" => s = "PAYMENT_PENDING"
         /\ s \notin UnpaidStatuses => to \notin UnpaidStatuses
         /\ s \in ClosedStatuses => to \in ClosedStatuses
<1> USE DEF CanTransition, transitions, Statuses, UnpaidStatuses, ActiveStatuses,
            ClosedStatuses, CancelledStatuses
<1>1. CASE s \in UnpaidStatuses
  BY <1>1
<1>2. CASE s \in ActiveStatuses
  BY <1>2
<1>3. CASE s \in ClosedStatuses \ {"REFUND_PENDING", "REFUNDED"}
  BY <1>3
<1>4. CASE s \in {"REFUND_PENDING", "REFUNDED"}
  BY <1>4
<1> QED BY <1>1, <1>2, <1>3, <1>4

LEMMA ReqFacts ==
  ASSUME TypeOK, NEW r \in Req
  PROVE  /\ \A at : At(r, "dispatch", at) => req[r] \in Run
         /\ Accepting(r) => req[r] \in Acceptance /\ req[r].offer \in OfferId
         /\ \A at : At(r, "accept", at) => req[r] \in Acceptance /\ req[r].offer \in OfferId
  BY DEF TypeOK, At, Accepting, Run, Acceptance

LEMMA IdFacts ==
  ASSUME NEW o \in OfferId
  PROVE  o[1] \in Booking /\ o[2] \in Guide /\ o[3] \in 1 .. MaxBatch /\ o = <<o[1], o[2], o[3]>>
  BY DEF OfferId

\* The offers of finitely many bookings and guides are finitely many.
LEMMA IdsAreFinite == \A S \in SUBSET OfferId : IsFiniteSet(S) /\ Cardinality(S) \in Nat
<1> DEFINE Pairs == (Booking \X Guide) \X (1 .. MaxBatch)
           f == [o \in OfferId |-> <<<<o[1], o[2]>>, o[3]>>]
<1>1. IsFiniteSet(1 .. MaxBatch)
  BY FS_Interval, Bounds
<1>2. IsFiniteSet(Booking \X Guide)
  BY FS_Product, Rows
<1>3. IsFiniteSet(Pairs)
  BY <1>1, <1>2, FS_Product
<1>4. f \in Injection(OfferId, Pairs)
  <2>1. f \in [OfferId -> Pairs]
    BY IdFacts
  <2>2. \A a, b \in OfferId : f[a] = f[b] => a = b
    BY IdFacts
  <2> QED BY <2>1, <2>2 DEF Injection, IsInjective
<1>5. IsFiniteSet(OfferId)
  BY <1>3, <1>4, FS_Injection
<1> QED BY <1>5, FS_Subset, FS_CardinalityType

\* What remains unexpanded of a request that goes on.
LEMMA GoFacts ==
  ASSUME TypeOK, NEW r \in Req, NEW at, Go(r, at)
  PROVE  /\ \A q \in Req : q # r => req'[q] = req[q]
         /\ req'[r] = [req[r] EXCEPT !.at = at]
         /\ req' = [q \in Req |-> req'[q]]
  BY DEF TypeOK, Go

LEMMA EndFacts ==
  ASSUME TypeOK, NEW r \in Req, End(r)
  PROVE  /\ \A q \in Req : q # r => req'[q] = req[q]
         /\ req'[r] = None
         /\ req' \in [Req -> Run \cup Acceptance \cup {None}]
  BY DEF TypeOK, End, Ended

\* A step along the table keeps bookings typed; only the payment activates one.
LEMMA MoveFacts ==
  ASSUME TypeOK, NEW b \in Booking, NEW to, CanTransition(status[b], to),
         status' = [status EXCEPT ![b] = to]
  PROVE  /\ status' \in [Booking -> Statuses] /\ status[b] \in Statuses
         /\ status'[b] = to /\ to \in Statuses
         /\ \A c \in Booking : c # b => status'[c] = status[c]
         /\ to \in ActiveStatuses => status[b] \in ActiveStatuses \cup UnpaidStatuses
         /\ to \in UnpaidStatuses => status[b] \in UnpaidStatuses
<1>1. status[b] \in Statuses
  BY DEF TypeOK
<1>2. to \in Statuses /\ (status[b] \in ClosedStatuses => to \in ClosedStatuses)
        /\ (status[b] \notin UnpaidStatuses => to \notin UnpaidStatuses)
  BY <1>1, Edges
<1> QED BY <1>1, <1>2 DEF TypeOK, Statuses, ActiveStatuses, ClosedStatuses, CancelledStatuses

-----------------------------------------------------------------------------
LEMMA Initially == Init => IInv
<1> SUFFICES ASSUME Init PROVE IInv
  OBVIOUS
<1>1. TypeOK
  BY DEF Init, TypeOK, Statuses, UnpaidStatuses
<1>2. \A r \in Req : req[r] = None
  BY DEF Init
<1>3. UnpaidHasNoGuide
  BY DEF Init, UnpaidHasNoGuide
<1> QED BY <1>1, <1>2, <1>3 DEF IInv, RunInv, OfferHeld, BookingHeld, At, Accepting

LEMMA SweepFacts ==
  ASSUME IInv, ExpireStale
  PROVE  /\ offer' \in [OfferId -> OfferStatus \cup {None}]
         /\ stats' \in [Guide -> [Counter -> Nat]]
         /\ late' = late
         /\ \A o \in OfferId : offer'[o] # offer[o] => offer[o] = "OFFERED" /\ offer'[o] = "EXPIRED"
                                                       /\ ~OfferLocked(o)
         /\ \A o \in OfferId : offer[o] # None => offer'[o] # None
<1> USE DEF IInv
<1>1. offer' \in [OfferId -> OfferStatus \cup {None}]
  BY DEF ExpireStale, TypeOK, OfferStatus
<1>2. ASSUME NEW g \in Guide PROVE stats'[g] \in [Counter -> Nat]
  <2> DEFINE expired == {o \in Stale : o[2] = g}
  <2>1. Cardinality(expired) \in Nat
    BY IdsAreFinite DEF Stale
  <2> HIDE DEF expired
  <2>2. stats'[g] = [stats[g] EXCEPT !["expiries"] = @ + Cardinality(expired)]
    BY DEF ExpireStale, expired
  <2>3. stats[g] \in [Counter -> Nat] /\ stats[g]["expiries"] \in Nat
    BY DEF TypeOK, Counter
  <2>4. stats[g]["expiries"] + Cardinality(expired) \in Nat
    BY <2>1, <2>3
  <2> QED BY <2>2, <2>3, <2>4
<1>3. stats' \in [Guide -> [Counter -> Nat]]
  <2>1. stats' = [g \in Guide |-> stats'[g]]
    BY DEF ExpireStale
  <2> QED BY <1>2, <2>1
<1>4. \A o \in OfferId : offer'[o] # offer[o] =>
        offer[o] = "OFFERED" /\ offer'[o] = "EXPIRED" /\ ~OfferLocked(o)
  BY DEF ExpireStale, Stale
<1>5. \A o \in OfferId : offer[o] # None => offer'[o] # None
  <2>1. "EXPIRED" # None
    BY NoneIsFresh DEF OfferStatus
  <2> QED BY <1>4, <2>1
<1> QED BY <1>1, <1>3, <1>4, <1>5 DEF ExpireStale

LEMMA CountType ==
  ASSUME TypeOK, NEW g \in Guide, NEW c \in Counter, Count(g, c)
  PROVE  stats' \in [Guide -> [Counter -> Nat]]
<1>1. stats[g] \in [Counter -> Nat] /\ stats[g][c] + 1 \in Nat
  BY DEF TypeOK
<1>2. [stats[g] EXCEPT ![c] = stats[g][c] + 1] \in [Counter -> Nat]
  BY <1>1
<1>3. stats' = [stats EXCEPT ![g] = [stats[g] EXCEPT ![c] = stats[g][c] + 1]]
  BY DEF Count
<1> QED BY <1>2, <1>3 DEF TypeOK

LEMMA RunType ==
  ASSUME NEW b \in Booking, NEW n \in 0 .. MaxBatch, NEW gs \in SUBSET Guide,
         NEW at \in {"asked", "declined", "swept", "loaded", "clear", "numbered", "chosen"}
  PROVE  RunAt(b, at, n, gs) \in Run
  BY DEF RunAt, Run

LEMMA NewRunType ==
  ASSUME NEW b \in Booking, NEW at \in {"asked", "declined"}
  PROVE  NewRun(b, at) \in Run
<1>1. 0 \in 0 .. MaxBatch /\ {} \in SUBSET Guide
  BY Bounds
<1> QED BY <1>1, RunType DEF NewRun

\* A run that goes on is a run.
LEMMA GoRun ==
  ASSUME TypeOK, NEW r \in Req, NEW from, At(r, "dispatch", from),
         NEW at \in {"asked", "declined", "swept", "loaded", "clear", "numbered", "chosen"},
         Go(r, at)
  PROVE  req' \in [Req -> Run \cup Acceptance \cup {None}]
<1>1. req[r] \in Run
  BY ReqFacts
<1>2. [req[r] EXCEPT !.at = at] \in Run
  BY <1>1 DEF Run
<1> QED BY <1>2, GoFacts DEF TypeOK

LEMMA BatchIds ==
  ASSUME IInv, NEW r \in Req, At(r, "dispatch", "chosen")
  PROVE  BatchOf(r) \subseteq OfferId
<1>1. req[r] \in Run /\ req[r].batch \in 1 .. MaxBatch
  BY ReqFacts DEF IInv, RunInv
<1>2. req[r].booking \in Booking /\ req[r].guides \subseteq Guide
  BY <1>1 DEF Run
<1> QED BY <1>1, <1>2 DEF BatchOf, OfferId

LEMMA TypeStep == IInv /\ [Next]_vars => TypeOK'
<1> SUFFICES ASSUME IInv, [Next]_vars PROVE TypeOK'
  OBVIOUS
<1> USE DEF IInv
<1> DEFINE ReqType == req' \in [Req -> Run \cup Acceptance \cup {None}]
<1>1. ASSUME NEW r \in Req, NEW b \in Booking, Confirm(r, b) PROVE TypeOK'
  <2>1. status' \in [Booking -> Statuses]
    BY <1>1, MoveFacts DEF Confirm
  <2>2. ReqType
    BY <1>1, NewRunType DEF Confirm, TypeOK
  <2> QED BY <1>1, <2>1, <2>2 DEF Confirm, TypeOK, offers
<1>2. ASSUME NEW r \in Req, NEW b \in Booking, AskDispatch(r, b) PROVE TypeOK'
  <2>1. ReqType
    BY <1>2, NewRunType DEF AskDispatch, TypeOK
  <2> QED BY <1>2, <2>1 DEF AskDispatch, TypeOK, offers, bookings
<1>3. ASSUME NEW r \in Req, NEW o \in OfferId, LockOffer(r, o) PROVE TypeOK'
  <2>1. [kind |-> "accept", offer |-> o, at |-> "offer"] \in Acceptance
    BY DEF Acceptance
  <2>2. ReqType
    BY <1>3, <2>1 DEF LockOffer, TypeOK
  <2> QED BY <1>3, <2>2 DEF LockOffer, TypeOK, offers, bookings
<1>4. ASSUME NEW r \in Req, NEW o \in OfferId, Decline(r, o) PROVE TypeOK'
  <2>1. o[1] \in Booking /\ o[2] \in Guide /\ "declines" \in Counter
    BY IdFacts DEF Counter
  <2>2. stats' \in [Guide -> [Counter -> Nat]]
    BY <1>4, <2>1, CountType DEF Decline
  <2>3. ReqType
    BY <1>4, <2>1, NewRunType DEF Decline, TypeOK
  <2>4. offer' \in [OfferId -> OfferStatus \cup {None}]
    BY <1>4 DEF Decline, TypeOK, OfferStatus
  <2> QED BY <1>4, <2>2, <2>3, <2>4 DEF Decline, TypeOK, bookings
<1>5. ASSUME NEW r \in Req, StartRun(r) PROVE TypeOK'
  BY <1>5, SweepFacts, GoRun DEF StartRun, TypeOK, bookings
<1>6. ASSUME NEW r \in Req, LoadBooking(r) \/ CheckLive(r) \/ AfterDecline(r) PROVE TypeOK'
  <2>1. ReqType
    BY <1>6, EndFacts, GoRun DEF LoadBooking, CheckLive, AfterDecline
  <2> QED BY <1>6, <2>1 DEF LoadBooking, CheckLive, AfterDecline, TypeOK, bookings, offers
<1>7. ASSUME NEW r \in Req, NumberBatch(r) PROVE TypeOK'
  <2>1. req[r] \in Run
    BY <1>7, ReqFacts DEF NumberBatch
  <2>2. PICK n \in 1 .. MaxBatch :
          req' = [req EXCEPT ![r] = RunAt(req[r].booking, "numbered", n, {})]
    BY <1>7 DEF NumberBatch
  <2>3. RunAt(req[r].booking, "numbered", n, {}) \in Run
    BY <2>1, RunType DEF Run
  <2> QED BY <1>7, <2>2, <2>3 DEF NumberBatch, TypeOK, bookings, offers
<1>8. ASSUME NEW r \in Req, ChooseGuides(r) PROVE TypeOK'
  <2>1. req[r] \in Run
    BY <1>8, ReqFacts DEF ChooseGuides
  <2>2. PICK gs \in SUBSET Guide :
          \/ End(r)
          \/ req' = [req EXCEPT ![r] = RunAt(req[r].booking, "chosen", req[r].batch, gs)]
    BY <1>8 DEF ChooseGuides, Candidates
  <2>3. RunAt(req[r].booking, "chosen", req[r].batch, gs) \in Run
    BY <2>1, RunType DEF Run
  <2>4. ReqType
    BY <2>2, <2>3, EndFacts DEF TypeOK
  <2> QED BY <1>8, <2>4 DEF ChooseGuides, TypeOK, bookings, offers
<1>9. ASSUME NEW r \in Req, InsertOffers(r) PROVE TypeOK'
  <2>1. offer' \in [OfferId -> OfferStatus \cup {None}]
    BY <1>9 DEF InsertOffers, TypeOK, OfferStatus
  <2>2. stats' \in [Guide -> [Counter -> Nat]]
    <3>1. ASSUME NEW g \in Guide PROVE stats'[g] \in [Counter -> Nat]
      <4>1. /\ stats'[g] = [stats[g] EXCEPT
                 !["offers"] = IF g \in req[r].guides THEN @ + 1 ELSE @]
            /\ stats[g] \in [Counter -> Nat] /\ stats[g]["offers"] \in Nat
        BY <1>9 DEF InsertOffers, TypeOK, Counter
      <4>2. (IF g \in req[r].guides THEN stats[g]["offers"] + 1 ELSE stats[g]["offers"]) \in Nat
        BY <4>1
      <4> QED BY <4>1, <4>2
    <3>2. stats' = [g \in Guide |-> stats'[g]]
      BY <1>9 DEF InsertOffers
    <3> QED BY <3>1, <3>2
  <2> QED BY <1>9, <2>1, <2>2, EndFacts DEF InsertOffers, TypeOK, bookings
<1>10. ASSUME NEW r \in Req,
              FailInsert(r) \/ RefuseAccept(r) \/ RefuseOverlap(r) \/ BreakDeadlock(r) \/ Abandon(r)
       PROVE  TypeOK'
  BY <1>10, EndFacts
     DEF FailInsert, RefuseAccept, RefuseOverlap, BreakDeadlock, Abandon, TypeOK, bookings, offers
<1>11. ASSUME NEW r \in Req, LockBooking(r) PROVE TypeOK'
  <2>1. req[r] \in Acceptance
    BY <1>11, ReqFacts DEF LockBooking
  <2>2. [req[r] EXCEPT !.at = "booking"] \in Acceptance
    BY <2>1 DEF Acceptance
  <2>3. ReqType
    BY <1>11, <2>2, GoFacts DEF LockBooking, TypeOK
  <2> QED BY <1>11, <2>3 DEF LockBooking, TypeOK, bookings, offers
<1>12. ASSUME NEW r \in Req, CommitAccept(r) PROVE TypeOK'
  <2>1. PICK o \in OfferId : o = req[r].offer
    BY <1>12, ReqFacts DEF CommitAccept
  <2>2. o[1] \in Booking /\ o[2] \in Guide /\ "accepts" \in Counter
    BY IdFacts DEF Counter
  <2>3. stats' \in [Guide -> [Counter -> Nat]]
    BY <1>12, <2>1, <2>2, CountType DEF CommitAccept
  <2>4. guide' \in [Booking -> Guide \cup {None}]
    BY <1>12, <2>1, <2>2 DEF CommitAccept, TypeOK
  <2>5. offer' \in [OfferId -> OfferStatus \cup {None}]
    BY <1>12, <2>1 DEF CommitAccept, TypeOK, OfferStatus
  <2> QED BY <1>12, <2>3, <2>4, <2>5, EndFacts DEF CommitAccept, TypeOK
<1>13. CASE Sweep
  BY <1>13, SweepFacts DEF Sweep, TypeOK, bookings
<1>14. ASSUME NEW o \in OfferId, LazyExpire(o) PROVE TypeOK'
  <2>1. stats' \in [Guide -> [Counter -> Nat]]
    BY <1>14, IdFacts, CountType DEF LazyExpire, Counter
  <2>2. offer' \in [OfferId -> OfferStatus \cup {None}]
    BY <1>14 DEF LazyExpire, TypeOK, OfferStatus
  <2> QED BY <1>14, <2>1, <2>2 DEF LazyExpire, TypeOK, bookings
<1>15. ASSUME NEW b \in Booking, NEW n \in 1 .. MaxBatch, Deadline(b, n) PROVE TypeOK'
  BY <1>15 DEF Deadline, OffersOf, TypeOK, bookings
<1>16. ASSUME NEW b \in Booking, NEW to \in Moves, MoveBooking(b, to) PROVE TypeOK'
  BY <1>16, MoveFacts DEF MoveBooking, TypeOK, offers
<1>17. CASE UNCHANGED vars
  BY <1>17 DEF TypeOK, vars
<1> QED
  BY <1>1, <1>2, <1>3, <1>4, <1>5, <1>6, <1>7, <1>8, <1>9, <1>10, <1>11, <1>12, <1>13, <1>14,
     <1>15, <1>16, <1>17 DEF Next, Ask, Serve

-----------------------------------------------------------------------------
\* Who writes an offer: nobody but its acceptance while that holds it.
LEMMA CommitFacts ==
  ASSUME IInv, NEW r \in Req, CommitAccept(r)
  PROVE  /\ req[r].offer \in OfferId /\ Accepting(r) /\ At(r, "accept", "booking")
         /\ offer[req[r].offer] = "OFFERED" /\ offer'[req[r].offer] = "ACCEPTED"
         /\ \A p \in OfferId : p # req[r].offer =>
              \/ offer'[p] = offer[p]
              \/ offer[p] = "OFFERED" /\ offer'[p] = "SUPERSEDED" /\ ~OfferLocked(p)
         /\ Assignable(req[r].offer[1])
<1>1. At(r, "accept", "booking") /\ Accepting(r) /\ req[r].offer \in OfferId
  BY ReqFacts DEF CommitAccept, Accepting, IInv
<1>2. offer[req[r].offer] = "OFFERED" /\ Assignable(req[r].offer[1])
  BY <1>1 DEF IInv, OfferHeld, BookingHeld
<1>3. PICK o \in OfferId : o = req[r].offer
  BY <1>1
<1>4. \A p \in OfferId : offer'[p] = CASE p = o -> "ACCEPTED"
                                       [] p \in Siblings(o) -> "SUPERSEDED"
                                       [] OTHER -> offer[p]
  BY <1>3 DEF CommitAccept
<1>5. offer'[o] = "ACCEPTED" /\ \A p \in OfferId : p # o =>
        \/ offer'[p] = offer[p]
        \/ p \in Siblings(o) /\ offer'[p] = "SUPERSEDED"
  <2>1. offer'[o] = "ACCEPTED"
    BY <1>4 DEF Siblings
  <2>2. ASSUME NEW p \in OfferId, p # o, p \in Siblings(o) PROVE offer'[p] = "SUPERSEDED"
    BY <1>4, <2>2
  <2>3. ASSUME NEW p \in OfferId, p # o, p \notin Siblings(o) PROVE offer'[p] = offer[p]
    BY <1>4, <2>3
  <2> QED BY <2>1, <2>2, <2>3
<1>6. \A p \in Siblings(o) : offer[p] = "OFFERED" /\ ~OfferLocked(p)
  BY <1>3 DEF CommitAccept, Siblings
<1>7. \A p \in OfferId : p # o =>
        \/ offer'[p] = offer[p]
        \/ offer[p] = "OFFERED" /\ offer'[p] = "SUPERSEDED" /\ ~OfferLocked(p)
  BY <1>5, <1>6
<1> QED BY <1>1, <1>2, <1>3, <1>5, <1>7

LEMMA InsertFacts ==
  ASSUME IInv, NEW r \in Req, InsertOffers(r)
  PROVE  \A o \in OfferId : \/ offer'[o] = offer[o] /\ o \notin BatchOf(r)
                            \/ offer[o] = None /\ offer'[o] = "OFFERED" /\ o \in BatchOf(r)
  BY BatchIds DEF InsertOffers, IInv, TypeOK

\* Every step that writes offers.
LEMMA OfferSteps ==
  ASSUME IInv, [Next]_vars
  PROVE  \/ offer' = offer
         \/ ExpireStale
         \/ \E r \in Req : InsertOffers(r) \/ CommitAccept(r)
         \/ \E o \in OfferId : LazyExpire(o) \/ \E r \in Req : Decline(r, o)
  BY DEF Next, Ask, Serve, Confirm, AskDispatch, LockOffer, StartRun, LoadBooking, CheckLive,
         NumberBatch, ChooseGuides, FailInsert, LockBooking, RefuseAccept, RefuseOverlap,
         BreakDeadlock, AfterDecline, Abandon, Sweep, Deadline, MoveBooking, offers, vars

\* An outcome stays; an offer that is ACCEPTED has been by an acceptance.
LEMMA OutcomeStep ==
  ASSUME IInv, [Next]_vars
  PROVE  /\ \A o \in OfferId : offer[o] \notin {None, "OFFERED"} => offer'[o] = offer[o]
         /\ \/ \A o \in OfferId : offer'[o] = "ACCEPTED" => offer[o] = "ACCEPTED"
            \/ \E r \in Req : CommitAccept(r)
<1> USE DEF IInv
<1>1. CASE offer' = offer
  BY <1>1
<1>2. CASE ExpireStale
  BY <1>2, SweepFacts
<1>3. ASSUME NEW r \in Req, InsertOffers(r)
      PROVE  \A o \in OfferId : offer'[o] # offer[o] => offer[o] = None /\ offer'[o] = "OFFERED"
  BY <1>3, InsertFacts
<1>4. ASSUME NEW r \in Req, CommitAccept(r)
      PROVE  \A o \in OfferId : offer'[o] # offer[o] => offer[o] = "OFFERED"
  BY <1>4, CommitFacts
<1>5. ASSUME NEW o \in OfferId, LazyExpire(o) \/ \E r \in Req : Decline(r, o)
      PROVE  \A p \in OfferId : offer'[p] # offer[p] =>
               offer[p] = "OFFERED" /\ offer'[p] \in {"EXPIRED", "DECLINED"}
  BY <1>5 DEF LazyExpire, Decline, TypeOK
<1> QED BY <1>1, <1>2, <1>3, <1>4, <1>5, OfferSteps

\* The row lock of an offer keeps it OFFERED for the others' steps.
LEMMA LockedStays ==
  ASSUME IInv, [Next]_vars, NEW r \in Req, Accepting(r), ~CommitAccept(r)
  PROVE  offer'[req[r].offer] = "OFFERED"
<1> USE DEF IInv
<1>0. /\ req[r].offer \in OfferId /\ offer[req[r].offer] = "OFFERED"
      /\ OfferLocked(req[r].offer)
  BY ReqFacts DEF OfferHeld, OfferLocked
<1>2. CASE ExpireStale
  BY <1>0, <1>2, SweepFacts
<1>3. ASSUME NEW q \in Req, InsertOffers(q) PROVE offer'[req[r].offer] = "OFFERED"
  BY <1>0, <1>3, InsertFacts
<1>4. ASSUME NEW q \in Req, CommitAccept(q) PROVE offer'[req[r].offer] = "OFFERED"
  <2>1. req[q].offer # req[r].offer
    BY <1>4, CommitFacts DEF OfferHeld
  <2> QED BY <1>0, <1>4, <2>1, CommitFacts
<1>5. ASSUME NEW o \in OfferId, LazyExpire(o) \/ \E q \in Req : Decline(q, o)
      PROVE  offer'[req[r].offer] = "OFFERED"
  BY <1>0, <1>5 DEF LazyExpire, Decline, TypeOK
<1> QED BY <1>0, <1>2, <1>3, <1>4, <1>5, OfferSteps

-----------------------------------------------------------------------------
\* A request changes by its own steps.
LEMMA OwnSteps ==
  ASSUME TypeOK, [Next]_vars, NEW r \in Req, req'[r] # req[r]
  PROVE  Ask(r) \/ Serve(r) \/ Abandon(r)
<1>1. ASSUME NEW q \in Req, q # r, Ask(q) \/ Serve(q) \/ Abandon(q) PROVE req'[r] = req[r]
  BY <1>1 DEF Ask, Serve, Abandon, Confirm, AskDispatch, LockOffer, Decline, StartRun, LoadBooking,
     CheckLive, NumberBatch, ChooseGuides, InsertOffers, FailInsert, LockBooking, RefuseAccept,
     CommitAccept, RefuseOverlap, BreakDeadlock, AfterDecline, Go, End, Ended, TypeOK
<1>2. req' = req \/ \E q \in Req : Ask(q) \/ Serve(q) \/ Abandon(q)
  BY DEF Next, Sweep, LazyExpire, Deadline, MoveBooking, offers, vars
<1> QED BY <1>1, <1>2

LEMMA RunStep == IInv /\ [Next]_vars => RunInv'
<1> SUFFICES ASSUME IInv, [Next]_vars, NEW r \in Req,
                    (At(r, "dispatch", "numbered") \/ At(r, "dispatch", "chosen"))'
             PROVE  req'[r].batch \in 1 .. MaxBatch
  BY DEF RunInv
<1> USE DEF IInv
<1>0. req'[r] # None /\ req'[r].kind = "dispatch" /\ req'[r].at \in {"numbered", "chosen"}
  BY DEF At
<1>1. CASE req'[r] = req[r]
  BY <1>0, <1>1 DEF RunInv, At
<1>2. CASE NumberBatch(r)
  <2>1. PICK n \in 1 .. MaxBatch :
          req' = [req EXCEPT ![r] = RunAt(req[r].booking, "numbered", n, {})]
    BY <1>2 DEF NumberBatch
  <2> QED BY <2>1 DEF RunAt, TypeOK
<1>3. CASE ChooseGuides(r)
  <2>1. req[r].batch \in 1 .. MaxBatch
    BY <1>3 DEF ChooseGuides, RunInv
  <2>2. PICK gs : \/ End(r)
                  \/ req' = [req EXCEPT ![r] = RunAt(req[r].booking, "chosen", req[r].batch, gs)]
    BY <1>3 DEF ChooseGuides
  <2>3. ~End(r)
    BY <1>0, EndFacts
  <2> QED BY <2>1, <2>2, <2>3 DEF RunAt, TypeOK
<1>4. ASSUME NEW at, NEW from, NEW kind, At(r, kind, from), Go(r, at) PROVE req'[r].at = at
  <2>1. req[r] \in Run \/ req[r] \in Acceptance
    BY <1>4 DEF At, TypeOK
  <2>2. req'[r] = [req[r] EXCEPT !.at = at]
    BY <1>4, GoFacts
  <2> QED BY <2>1, <2>2 DEF Run, Acceptance
<1>5. ASSUME End(r) PROVE FALSE
  BY <1>0, <1>5, EndFacts
<1>6. ASSUME NEW b, NEW at \in {"asked", "declined"}, req' = [req EXCEPT ![r] = NewRun(b, at)]
      PROVE  FALSE
  BY <1>0, <1>6 DEF NewRun, RunAt, TypeOK
<1>7. CASE Ask(r)
  <2>1. \A o \in OfferId : ~LockOffer(r, o)
    BY <1>0 DEF LockOffer, TypeOK
  <2> QED BY <1>6, <1>7, <2>1 DEF Ask, Confirm, AskDispatch, Decline
<1>8. CASE Serve(r) /\ ~NumberBatch(r) /\ ~ChooseGuides(r)
  <2>1. PICK at, from, kind :
          /\ at \in {"swept", "loaded", "clear", "booking", "asked"}
          /\ At(r, kind, from) /\ Go(r, at)
    BY <1>5, <1>8 DEF Serve, StartRun, LoadBooking, CheckLive, InsertOffers, FailInsert,
       LockBooking, RefuseAccept, CommitAccept, RefuseOverlap, BreakDeadlock, AfterDecline
  <2> QED BY <1>0, <1>4, <2>1
<1>9. ~Abandon(r)
  BY <1>5 DEF Abandon
<1> QED BY <1>1, <1>2, <1>3, <1>7, <1>8, <1>9, OwnSteps

\* An acceptance holds on, locks its offer, or goes on to lock its booking.
Holds(r) == req'[r] = req[r] /\ Accepting(r) /\ ~CommitAccept(r)
Locks(r, o) == LockOffer(r, o) /\ req'[r] = [kind |-> "accept", offer |-> o, at |-> "offer"]
LocksBooking(r) ==
  LockBooking(r) /\ Accepting(r) /\ req'[r].offer = req[r].offer /\ req'[r].at = "booking"

LEMMA HowHeld ==
  ASSUME IInv, [Next]_vars, NEW r \in Req, Accepting(r)'
  PROVE  Holds(r) \/ LocksBooking(r) \/ \E o \in OfferId : Locks(r, o)
<1> USE DEF IInv
<1>0. req'[r] # None /\ req'[r].kind = "accept" /\ req'[r].at \in {"offer", "booking"}
  BY DEF Accepting, At
<1>1. ASSUME End(r) PROVE FALSE
  BY <1>0, <1>1, EndFacts
<1>2. CASE req'[r] = req[r]
  <2>1. Accepting(r)
    BY <1>0, <1>2 DEF Accepting, At
  <2> QED BY <1>1, <1>2, <2>1 DEF Holds, CommitAccept
<1>3. ASSUME NEW o \in OfferId, LockOffer(r, o) PROVE Locks(r, o)
  BY <1>3 DEF LockOffer, Locks, TypeOK
<1>4. ASSUME LockBooking(r) PROVE LocksBooking(r)
  <2>1. req[r] \in Acceptance /\ Accepting(r) /\ Go(r, "booking")
    BY <1>4, ReqFacts DEF LockBooking, Accepting
  <2>2. req'[r] = [req[r] EXCEPT !.at = "booking"]
    BY <2>1, GoFacts
  <2>3. req'[r].offer = req[r].offer /\ req'[r].at = "booking"
    BY <2>1, <2>2 DEF Acceptance
  <2> QED BY <1>4, <2>1, <2>3 DEF LocksBooking
<1>5. ASSUME NEW at, NEW from, At(r, "dispatch", from), Go(r, at) PROVE FALSE
  <2>1. req[r] \in Run
    BY <1>5, ReqFacts
  <2> QED BY <1>0, <1>5, <2>1, GoFacts DEF Run
<1>6. ASSUME NEW b, NEW at, NEW n, NEW gs, req' = [req EXCEPT ![r] = RunAt(b, at, n, gs)]
      PROVE  FALSE
  BY <1>0, <1>6 DEF RunAt, TypeOK
<1>7. CASE Ask(r)
  BY <1>3, <1>6, <1>7 DEF Ask, Confirm, AskDispatch, Decline, NewRun
<1>8. CASE Serve(r)
  BY <1>1, <1>4, <1>5, <1>6, <1>8 DEF Serve, StartRun, LoadBooking, CheckLive, NumberBatch,
     ChooseGuides, InsertOffers, FailInsert, RefuseAccept, CommitAccept, RefuseOverlap,
     BreakDeadlock, AfterDecline
<1>9. ~Abandon(r)
  BY <1>1 DEF Abandon
<1> QED BY <1>2, <1>7, <1>8, <1>9, OwnSteps

LEMMA OfferHeldStep == IInv /\ [Next]_vars => OfferHeld'
<1> SUFFICES ASSUME IInv, [Next]_vars PROVE OfferHeld'
  OBVIOUS
<1> USE DEF IInv
<1>1. ASSUME NEW r \in Req, Accepting(r)' PROVE offer'[req'[r].offer] = "OFFERED"
  <2>1. CASE Holds(r)
    BY <2>1, LockedStays DEF Holds
  <2>2. CASE LocksBooking(r)
    BY <2>2 DEF LocksBooking, LockBooking, offers, OfferHeld
  <2>3. ASSUME NEW o \in OfferId, Locks(r, o) PROVE offer'[req'[r].offer] = "OFFERED"
    BY <2>3 DEF Locks, LockOffer, offers
  <2> QED BY <1>1, <2>1, <2>2, <2>3, HowHeld
<1>2. ASSUME NEW r \in Req, NEW q \in Req, Accepting(r)', Accepting(q)',
             req'[r].offer = req'[q].offer
      PROVE  r = q
  <2> DEFINE Old(p) == Accepting(p) /\ req'[p].offer = req[p].offer
  <2>1. ASSUME NEW p \in Req, Accepting(p)' PROVE Old(p) \/ \E o \in OfferId : Locks(p, o)
    BY <2>1, HowHeld DEF Holds, LocksBooking
  <2>2. ASSUME NEW p \in Req, NEW l \in Req, NEW o \in OfferId, Old(p), Locks(l, o),
               req'[p].offer = req'[l].offer
        PROVE  FALSE
    BY <2>2 DEF Locks, LockOffer, OfferLocked
  <2>3. ASSUME NEW p \in Req, NEW l \in Req, NEW o \in OfferId, NEW u \in OfferId,
               Locks(p, o), Locks(l, u)
        PROVE  p = l
    <3>1. req'[l] \in Acceptance
      BY <2>3 DEF Locks, Acceptance
    <3>2. req[l] = None /\ (l # p => req'[l] = req[l])
      BY <2>3 DEF Locks, LockOffer, TypeOK
    <3> QED BY <3>1, <3>2, NoneIsFresh
  <2>4. CASE Old(r) /\ Old(q)
    BY <1>2, <2>4 DEF OfferHeld
  <2> HIDE DEF Old
  <2> QED BY <1>2, <2>1, <2>2, <2>3, <2>4
<1> QED BY <1>1, <1>2 DEF OfferHeld

\* A held booking row is not written by others.
LEMMA BookingStays ==
  ASSUME IInv, [Next]_vars, NEW r \in Req, At(r, "accept", "booking"), ~CommitAccept(r)
  PROVE  status'[req[r].offer[1]] = "CONFIRMED" /\ guide'[req[r].offer[1]] = None
<1> USE DEF IInv
<1> DEFINE Confirmed == status'[req[r].offer[1]] = "CONFIRMED" /\ guide'[req[r].offer[1]] = None
<1>0. /\ req[r].offer[1] \in Booking /\ Assignable(req[r].offer[1])
      /\ BookingLocked(req[r].offer[1])
  BY ReqFacts, IdFacts DEF BookingHeld, BookingLocked
<1>1. CASE status' = status /\ guide' = guide
  BY <1>0, <1>1 DEF Assignable
<1>2. ASSUME NEW q \in Req, NEW b \in Booking, Confirm(q, b) PROVE Confirmed
  <2>1. q # r /\ b # req[r].offer[1]
    BY <1>0, <1>2 DEF Confirm, At
  <2> QED BY <1>0, <1>2, <2>1 DEF Confirm, Assignable, TypeOK
<1>3. ASSUME NEW b \in Booking, NEW to \in Moves, MoveBooking(b, to)
      PROVE  Confirmed
  BY <1>0, <1>3 DEF MoveBooking, Assignable, TypeOK
<1>4. ASSUME NEW q \in Req, CommitAccept(q) PROVE Confirmed
  <2>1. q # r /\ At(q, "accept", "booking") /\ req[q].offer[1] # req[r].offer[1]
    BY <1>4, CommitFacts DEF BookingHeld
  <2> QED BY <1>0, <1>4, <2>1, EndFacts DEF CommitAccept, Assignable, TypeOK
<1> QED BY <1>1, <1>2, <1>3, <1>4
        DEF Next, Ask, Serve, AskDispatch, LockOffer, Decline, StartRun, LoadBooking, CheckLive,
         NumberBatch, ChooseGuides, InsertOffers, FailInsert, LockBooking, RefuseAccept,
         RefuseOverlap, BreakDeadlock, AfterDecline, Abandon, Sweep, LazyExpire, Deadline,
         bookings, offers, vars

LEMMA BookingHeldStep == IInv /\ [Next]_vars => BookingHeld'
<1> SUFFICES ASSUME IInv, [Next]_vars PROVE BookingHeld'
  OBVIOUS
<1> USE DEF IInv
<1> DEFINE Had(r) == At(r, "accept", "booking") /\ ~CommitAccept(r) /\ req'[r].offer = req[r].offer
           Gets(r) == /\ LocksBooking(r) /\ Assignable(req[r].offer[1])
                      /\ ~BookingLocked(req[r].offer[1]) /\ At(r, "accept", "offer")
                      /\ status' = status /\ guide' = guide
                      /\ \A q \in Req : q # r => req'[q] = req[q]
<1>1. ASSUME NEW r \in Req, At(r, "accept", "booking")' PROVE Had(r) \/ Gets(r)
  <2>1. Accepting(r)' /\ req'[r].at = "booking"
    BY <1>1 DEF Accepting, At
  <2>2. CASE Holds(r)
    BY <2>1, <2>2 DEF Holds, Accepting, At
  <2>3. CASE LocksBooking(r)
    BY <2>3, GoFacts DEF LocksBooking, LockBooking, bookings
  <2>4. ASSUME NEW o \in OfferId, Locks(r, o) PROVE FALSE
    BY <2>1, <2>4 DEF Locks
  <2> QED BY <2>1, <2>2, <2>3, <2>4, HowHeld
<1>2. ASSUME NEW r \in Req, At(r, "accept", "booking")' PROVE Assignable(req[r].offer[1])'
  <2>1. CASE Had(r)
    BY <2>1, BookingStays DEF Assignable
  <2>2. CASE Gets(r)
    BY <2>2 DEF LocksBooking, Assignable
  <2> QED BY <1>1, <1>2, <2>1, <2>2
<1>3. ASSUME NEW r \in Req, NEW q \in Req, At(r, "accept", "booking")', At(q, "accept", "booking")',
             req'[r].offer[1] = req'[q].offer[1]
      PROVE  r = q
  <2>1. CASE Had(r) /\ Had(q)
    BY <1>3, <2>1 DEF BookingHeld
  <2>2. ASSUME NEW p \in Req, NEW l \in Req, Had(p), Gets(l), req'[p].offer[1] = req'[l].offer[1]
        PROVE  FALSE
    BY <2>2 DEF BookingLocked, LocksBooking
  <2>3. CASE Gets(r) /\ Gets(q)
    BY <2>3, <1>3 DEF At
  <2> HIDE DEF Had, Gets
  <2> QED BY <1>1, <1>3, <2>1, <2>2, <2>3
<1> QED BY <1>2, <1>3 DEF BookingHeld

-----------------------------------------------------------------------------
\* What a step does to the bookings: a status takes an edge, or an acceptance
\* assigns a guide who is free.
LEMMA BookingSteps ==
  ASSUME IInv, [Next]_vars
  PROVE  \/ status' = status /\ guide' = guide
         \/ /\ \E b \in Booking : \E to : CanTransition(status[b], to)
                                              /\ status' = [status EXCEPT ![b] = to]
            /\ guide' = guide
         \/ \E o \in OfferId :
              /\ Assignable(o[1]) /\ GuideFree(o[2], o[1])
              /\ guide' = [guide EXCEPT ![o[1]] = o[2]] /\ status' = status
              /\ \E r \in Req : CommitAccept(r) /\ o = req[r].offer
<1>1. ASSUME NEW r \in Req, NEW b \in Booking, Confirm(r, b)
      PROVE  /\ CanTransition(status[b], "CONFIRMED")
             /\ status' = [status EXCEPT ![b] = "CONFIRMED"] /\ guide' = guide
  BY <1>1 DEF Confirm
<1>2. ASSUME NEW b \in Booking, NEW to \in Moves, MoveBooking(b, to)
      PROVE  CanTransition(status[b], to) /\ status' = [status EXCEPT ![b] = to] /\ guide' = guide
  BY <1>2 DEF MoveBooking
<1>3. ASSUME NEW r \in Req, CommitAccept(r)
      PROVE  /\ req[r].offer \in OfferId
             /\ Assignable(req[r].offer[1]) /\ GuideFree(req[r].offer[2], req[r].offer[1])
             /\ guide' = [guide EXCEPT ![req[r].offer[1]] = req[r].offer[2]] /\ status' = status
  BY <1>3, CommitFacts DEF CommitAccept, OverlapAllowed
<1>4. \/ status' = status /\ guide' = guide
      \/ \E r \in Req, b \in Booking : Confirm(r, b)
      \/ \E b \in Booking, to \in Moves : MoveBooking(b, to)
      \/ \E r \in Req : CommitAccept(r)
  BY DEF Next, Ask, Serve, AskDispatch, LockOffer, Decline, StartRun, LoadBooking, CheckLive,
         NumberBatch, ChooseGuides, InsertOffers, FailInsert, LockBooking, RefuseAccept,
         RefuseOverlap, BreakDeadlock, AfterDecline, Abandon, Sweep, LazyExpire, Deadline,
         bookings, offers, vars
<1> QED BY <1>1, <1>2, <1>3, <1>4

LEMMA UnpaidStep == IInv /\ [Next]_vars => UnpaidHasNoGuide'
<1> SUFFICES ASSUME IInv, [Next]_vars PROVE UnpaidHasNoGuide'
  OBVIOUS
<1> USE DEF IInv
<1>1. CASE status' = status /\ guide' = guide
  BY <1>1 DEF UnpaidHasNoGuide
<1>2. ASSUME NEW b \in Booking, NEW to, CanTransition(status[b], to),
             status' = [status EXCEPT ![b] = to], guide' = guide
      PROVE  UnpaidHasNoGuide'
  BY <1>2, MoveFacts DEF UnpaidHasNoGuide
<1>3. ASSUME NEW o \in OfferId, Assignable(o[1]), guide' = [guide EXCEPT ![o[1]] = o[2]],
             status' = status
      PROVE  UnpaidHasNoGuide'
  BY <1>3, IdFacts DEF UnpaidHasNoGuide, Assignable, TypeOK, UnpaidStatuses
<1> QED BY <1>1, <1>2, <1>3, BookingSteps

LEMMA Inductive == Spec => []IInv
  BY Initially, TypeStep, RunStep, OfferHeldStep, BookingHeldStep, UnpaidStep,
     PTL DEF Spec, IInv

\* A booking that becomes active has no guide yet, and a guide who is assigned
\* is free of the overlapping ones.
LEMMA FreeStep == IInv /\ GuideIsFree /\ [Next]_vars => GuideIsFree'
<1> SUFFICES ASSUME IInv, GuideIsFree, [Next]_vars PROVE GuideIsFree'
  OBVIOUS
<1> USE DEF IInv
<1>0. \A c \in Clash : /\ c[1] \in Booking /\ c[2] \in Booking /\ c = <<c[1], c[2]>>
                       /\ c[1] # c[2] /\ <<c[2], c[1]>> \in Clash
  <2> SUFFICES ASSUME NEW c \in Clash
               PROVE  /\ c[1] \in Booking /\ c[2] \in Booking /\ c = <<c[1], c[2]>>
                      /\ c[1] # c[2] /\ <<c[2], c[1]>> \in Clash
    OBVIOUS
  <2>1. c \in Booking \X Booking
    BY ClashOfOthers
  <2> QED BY <2>1, ClashOfOthers
<1>1. CASE status' = status /\ guide' = guide
  BY <1>1 DEF GuideIsFree
<1>2. ASSUME NEW b \in Booking, NEW to, CanTransition(status[b], to),
             status' = [status EXCEPT ![b] = to], guide' = guide
      PROVE  GuideIsFree'
  <2>1. /\ status[b] \in ActiveStatuses \/ to \notin ActiveStatuses \/ guide[b] = None
        /\ status'[b] = to /\ \A c \in Booking : c # b => status'[c] = status[c]
    BY <1>2, MoveFacts DEF UnpaidHasNoGuide
  <2> QED BY <1>0, <1>2, <2>1 DEF GuideIsFree
<1>3. ASSUME NEW o \in OfferId, Assignable(o[1]), GuideFree(o[2], o[1]),
             guide' = [guide EXCEPT ![o[1]] = o[2]], status' = status
      PROVE  GuideIsFree'
  <2>1. /\ guide'[o[1]] = o[2] /\ \A b \in Booking : b # o[1] => guide'[b] = guide[b]
        /\ o[1] \in Booking
    BY <1>3, IdFacts DEF TypeOK
  <2>2. SUFFICES ASSUME NEW c \in Clash, status[c[1]] \in ActiveStatuses,
                        status[c[2]] \in ActiveStatuses, guide'[c[1]] # None
                 PROVE  guide'[c[1]] # guide'[c[2]]
    BY <1>3 DEF GuideIsFree
  <2>3. CASE c[1] = o[1]
    <3>1. c[2] \in Booking /\ <<o[1], c[2]>> \in Clash /\ c[2] # o[1]
      BY <1>0, <2>2, <2>3
    <3>2. guide[c[2]] # o[2]
      BY <1>3, <2>2, <3>1 DEF GuideFree
    <3> QED BY <2>1, <2>3, <3>1, <3>2
  <2>4. CASE c[2] = o[1]
    <3>1. c[1] \in Booking /\ <<o[1], c[1]>> \in Clash /\ c[1] # o[1]
      BY <1>0, <2>2, <2>4
    <3>2. guide[c[1]] # o[2]
      BY <1>3, <2>2, <3>1 DEF GuideFree
    <3> QED BY <2>1, <2>4, <3>1, <3>2
  <2>5. CASE c[1] # o[1] /\ c[2] # o[1]
    BY <1>0, <2>1, <2>2, <2>5 DEF GuideIsFree
  <2> QED BY <2>3, <2>4, <2>5
<1> QED BY <1>1, <1>2, <1>3, BookingSteps

-----------------------------------------------------------------------------
\* The offers of a guide with one of the outcomes.
Outcomes(g, outcomes) == {o \in OfferId : o[2] = g /\ offer[o] \in outcomes}

LEMMA CountersRead ==
  CountersAreExact <=>
    \A g \in Guide :
      /\ stats[g]["offers"] = Cardinality(Outcomes(g, OfferStatus))
      /\ stats[g]["accepts"] = Cardinality(Outcomes(g, {"ACCEPTED"}))
      /\ stats[g]["declines"] = Cardinality(Outcomes(g, {"DECLINED"}))
      /\ stats[g]["expiries"] = Cardinality(Outcomes(g, {"EXPIRED"}))
  BY DEF CountersAreExact, Outcomes

LEMMA OutcomesFinite ==
  ASSUME NEW g, NEW outcomes
  PROVE  IsFiniteSet(Outcomes(g, outcomes)) /\ Cardinality(Outcomes(g, outcomes)) \in Nat
  BY IdsAreFinite DEF Outcomes

\* One offer is answered or expires, siblings may be superseded: one counter
\* of one guide goes up by one, and so does what it counts.
LEMMA Answered ==
  ASSUME TypeOK, CountersAreExact, NEW o \in OfferId, NEW st, NEW c,
         <<st, c>> \in {<<"ACCEPTED", "accepts">>, <<"DECLINED", "declines">>,
                        <<"EXPIRED", "expiries">>},
         offer[o] = "OFFERED", offer'[o] = st,
         \A p \in OfferId : p # o =>
           offer'[p] = offer[p] \/ (offer[p] = "OFFERED" /\ offer'[p] = "SUPERSEDED"),
         Count(o[2], c)
  PROVE  CountersAreExact'
<1>0. /\ o[2] \in Guide /\ st \in OfferStatus /\ c \in Counter
      /\ "OFFERED" # None /\ "SUPERSEDED" \in OfferStatus /\ "OFFERED" \in OfferStatus
      /\ None \notin OfferStatus
  BY IdFacts, NoneIsFresh DEF OfferStatus, Counter
<1>1. ASSUME NEW g \in Guide PROVE Outcomes(g, OfferStatus)' = Outcomes(g, OfferStatus)
  BY <1>0, <1>1 DEF Outcomes, TypeOK
<1>2. ASSUME NEW g \in Guide, NEW t \in {"ACCEPTED", "DECLINED", "EXPIRED"}, g # o[2] \/ t # st
      PROVE  Outcomes(g, {t})' = Outcomes(g, {t})
  BY <1>2 DEF Outcomes
<1>3. /\ Outcomes(o[2], {st})' = Outcomes(o[2], {st}) \cup {o}
      /\ o \notin Outcomes(o[2], {st})
  BY DEF Outcomes
<1>4. Cardinality(Outcomes(o[2], {st})') = Cardinality(Outcomes(o[2], {st})) + 1
  BY <1>3, OutcomesFinite, FS_AddElement
<1>5. /\ stats'[o[2]][c] = stats[o[2]][c] + 1
      /\ \A g \in Guide, d \in Counter : g # o[2] \/ d # c => stats'[g][d] = stats[g][d]
  BY <1>0 DEF Count, TypeOK
<1>6. ASSUME NEW g \in Guide
      PROVE  /\ stats'[g]["offers"] = Cardinality(Outcomes(g, OfferStatus)')
             /\ stats'[g]["accepts"] = Cardinality(Outcomes(g, {"ACCEPTED"})')
             /\ stats'[g]["declines"] = Cardinality(Outcomes(g, {"DECLINED"})')
             /\ stats'[g]["expiries"] = Cardinality(Outcomes(g, {"EXPIRED"})')
  <2>0. {"offers", "accepts", "declines", "expiries"} \subseteq Counter
    BY DEF Counter
  <2>1. CASE g # o[2]
    BY <1>1, <1>2, <1>5, <2>0, <2>1, CountersRead
  <2>2. CASE g = o[2] /\ st = "ACCEPTED"
    BY <1>1, <1>2, <1>4, <1>5, <2>0, <2>2, CountersRead
  <2>3. CASE g = o[2] /\ st = "DECLINED"
    BY <1>1, <1>2, <1>4, <1>5, <2>0, <2>3, CountersRead
  <2>4. CASE g = o[2] /\ st = "EXPIRED"
    BY <1>1, <1>2, <1>4, <1>5, <2>0, <2>4, CountersRead
  <2> QED BY <2>1, <2>2, <2>3, <2>4
<1> QED BY <1>6 DEF CountersAreExact, Outcomes

\* A sweep counts the offers it expires, each with its guide.
LEMMA SweepCounts == IInv /\ CountersAreExact /\ ExpireStale => CountersAreExact'
<1> SUFFICES ASSUME IInv, CountersAreExact, ExpireStale PROVE CountersAreExact'
  OBVIOUS
<1> USE DEF IInv
<1>0. {"OFFERED", "EXPIRED"} \subseteq OfferStatus /\ {"offers", "accepts", "declines", "expiries"} = Counter
  BY DEF OfferStatus, Counter
<1>1. \A o \in OfferId : offer'[o] = IF o \in Stale THEN "EXPIRED" ELSE offer[o]
  BY DEF ExpireStale
<1>2. \A o \in Stale : o \in OfferId /\ offer[o] = "OFFERED"
  BY DEF Stale
<1>3. ASSUME NEW g \in Guide
      PROVE  /\ stats'[g]["offers"] = Cardinality(Outcomes(g, OfferStatus)')
             /\ stats'[g]["accepts"] = Cardinality(Outcomes(g, {"ACCEPTED"})')
             /\ stats'[g]["declines"] = Cardinality(Outcomes(g, {"DECLINED"})')
             /\ stats'[g]["expiries"] = Cardinality(Outcomes(g, {"EXPIRED"})')
  <2> DEFINE mine == {o \in Stale : o[2] = g}
  <2>1. Outcomes(g, OfferStatus)' = Outcomes(g, OfferStatus)
    BY <1>0, <1>1, <1>2 DEF Outcomes
  <2>2. ASSUME NEW t \in {"ACCEPTED", "DECLINED"} PROVE Outcomes(g, {t})' = Outcomes(g, {t})
    BY <1>1, <1>2 DEF Outcomes
  <2>3. Outcomes(g, {"EXPIRED"})' = Outcomes(g, {"EXPIRED"}) \cup mine
    BY <1>1, <1>2 DEF Outcomes
  <2>4. Outcomes(g, {"EXPIRED"}) \cap mine = {}
    BY <1>2 DEF Outcomes
  <2>5. mine \subseteq OfferId
    BY <1>2
  <2>6. stats'[g] = [stats[g] EXCEPT !["expiries"] = @ + Cardinality(mine)]
    BY DEF ExpireStale
  <2> HIDE DEF mine
  <2>7. Cardinality(Outcomes(g, {"EXPIRED"})') = Cardinality(Outcomes(g, {"EXPIRED"})) + Cardinality(mine)
    <3>1. IsFiniteSet(mine) /\ Cardinality(mine) \in Nat
      BY <2>5, IdsAreFinite
    <3>2. /\ IsFiniteSet(Outcomes(g, {"EXPIRED"}))
          /\ Cardinality(Outcomes(g, {"EXPIRED"})) \in Nat
      BY OutcomesFinite
    <3>3. Cardinality(Outcomes(g, {"EXPIRED"}) \cup mine)
            = Cardinality(Outcomes(g, {"EXPIRED"})) + Cardinality(mine) - Cardinality({})
      BY <2>4, <3>1, <3>2, FS_Union
    <3>4. Cardinality({}) = 0
      BY FS_EmptySet
    <3>5. Cardinality(Outcomes(g, {"EXPIRED"})') = Cardinality(Outcomes(g, {"EXPIRED"}) \cup mine)
      BY <2>3
    <3> HIDE DEF Outcomes
    <3> QED BY <3>1, <3>2, <3>3, <3>4, <3>5
  <2>8. /\ stats'[g]["expiries"] = stats[g]["expiries"] + Cardinality(mine)
        /\ stats'[g]["offers"] = stats[g]["offers"] /\ stats'[g]["accepts"] = stats[g]["accepts"]
        /\ stats'[g]["declines"] = stats[g]["declines"]
    <3>1. stats[g] \in [Counter -> Nat]
      BY DEF TypeOK
    <3> QED BY <1>0, <2>6, <3>1
  <2> QED BY <2>1, <2>2, <2>7, <2>8, CountersRead
<1> QED BY <1>3 DEF CountersAreExact, Outcomes

\* A new batch offers each of its guides one tour.
LEMMA InsertCounts ==
  ASSUME IInv, CountersAreExact, NEW r \in Req, InsertOffers(r)
  PROVE  CountersAreExact'
<1> USE DEF IInv
<1>0. /\ "OFFERED" \in OfferStatus /\ None \notin OfferStatus
      /\ {"offers", "accepts", "declines", "expiries"} = Counter
  BY NoneIsFresh DEF OfferStatus, Counter
<1>1. At(r, "dispatch", "chosen") /\ req[r] \in Run
  BY ReqFacts DEF InsertOffers
<1>2. \A o \in OfferId : \/ offer'[o] = offer[o] /\ o \notin BatchOf(r)
                         \/ offer[o] = None /\ offer'[o] = "OFFERED" /\ o \in BatchOf(r)
  BY InsertFacts
<1>3. ASSUME NEW g \in Guide
      PROVE  /\ stats'[g]["offers"] = Cardinality(Outcomes(g, OfferStatus)')
             /\ stats'[g]["accepts"] = Cardinality(Outcomes(g, {"ACCEPTED"})')
             /\ stats'[g]["declines"] = Cardinality(Outcomes(g, {"DECLINED"})')
             /\ stats'[g]["expiries"] = Cardinality(Outcomes(g, {"EXPIRED"})')
  <2> DEFINE o == <<req[r].booking, g, req[r].batch>>
  <2>1. ASSUME NEW t \in {"ACCEPTED", "DECLINED", "EXPIRED"}
        PROVE  Outcomes(g, {t})' = Outcomes(g, {t})
    <3>1. t # None /\ t # "OFFERED"
      BY <1>0, NoneIsFresh DEF OfferStatus
    <3> QED BY <1>2, <3>1 DEF Outcomes
  <2>2. /\ stats[g] \in [Counter -> Nat]
        /\ stats'[g] = [stats[g] EXCEPT !["offers"] = IF g \in req[r].guides THEN @ + 1 ELSE @]
    BY DEF InsertOffers, TypeOK
  <2>3. /\ stats'[g]["offers"] = IF g \in req[r].guides THEN stats[g]["offers"] + 1
                                 ELSE stats[g]["offers"]
        /\ stats'[g]["accepts"] = stats[g]["accepts"]
        /\ stats'[g]["declines"] = stats[g]["declines"]
        /\ stats'[g]["expiries"] = stats[g]["expiries"]
    BY <1>0, <2>2
  <2>4. CASE g \in req[r].guides
    <3>1. o \in BatchOf(r) /\ o \in OfferId /\ offer[o] = None /\ offer'[o] = "OFFERED"
      BY <1>1, <1>2, <2>4, BatchIds DEF BatchOf
    <3>2. \A p \in BatchOf(r) : p[2] = g => p = o
      BY DEF BatchOf
    <3> HIDE DEF o
    <3>3. o[2] = g
      BY DEF o
    <3>4. Outcomes(g, OfferStatus)' = Outcomes(g, OfferStatus) \cup {o}
      BY <1>0, <1>2, <3>1, <3>2, <3>3 DEF Outcomes
    <3>5. o \notin Outcomes(g, OfferStatus)
      BY <1>0, <3>1 DEF Outcomes
    <3>6. Cardinality(Outcomes(g, OfferStatus)') = Cardinality(Outcomes(g, OfferStatus)) + 1
      BY <3>4, <3>5, OutcomesFinite, FS_AddElement
    <3> QED BY <2>1, <2>3, <2>4, <3>6, CountersRead
  <2>5. CASE g \notin req[r].guides
    <3>1. \A p \in BatchOf(r) : p[2] # g
      BY <2>5 DEF BatchOf
    <3>2. Outcomes(g, OfferStatus)' = Outcomes(g, OfferStatus)
      BY <1>2, <3>1 DEF Outcomes
    <3> QED BY <2>1, <2>3, <2>5, <3>2, CountersRead
  <2> QED BY <2>4, <2>5
<1> QED BY <1>3 DEF CountersAreExact, Outcomes

LEMMA CountersStep == IInv /\ CountersAreExact /\ [Next]_vars => CountersAreExact'
<1> SUFFICES ASSUME IInv, CountersAreExact, [Next]_vars PROVE CountersAreExact'
  OBVIOUS
<1> USE DEF IInv
<1>1. ASSUME NEW r \in Req, CommitAccept(r) PROVE CountersAreExact'
  <2>1. PICK o \in OfferId : o = req[r].offer
    BY <1>1, CommitFacts
  <2>2. /\ offer[o] = "OFFERED" /\ offer'[o] = "ACCEPTED" /\ Count(o[2], "accepts")
        /\ \A p \in OfferId : p # o =>
             offer'[p] = offer[p] \/ (offer[p] = "OFFERED" /\ offer'[p] = "SUPERSEDED")
    BY <1>1, <2>1, CommitFacts DEF CommitAccept
  <2> QED BY <2>2, Answered
<1>2. ASSUME NEW o \in OfferId, LazyExpire(o) PROVE CountersAreExact'
  <2>1. /\ offer[o] = "OFFERED" /\ offer'[o] = "EXPIRED" /\ Count(o[2], "expiries")
        /\ \A p \in OfferId : p # o => offer'[p] = offer[p]
    BY <1>2 DEF LazyExpire, TypeOK
  <2> QED BY <2>1, Answered
<1>3. ASSUME NEW o \in OfferId, NEW r \in Req, Decline(r, o) PROVE CountersAreExact'
  <2>1. /\ offer[o] = "OFFERED" /\ offer'[o] = "DECLINED" /\ Count(o[2], "declines")
        /\ \A p \in OfferId : p # o => offer'[p] = offer[p]
    BY <1>3 DEF Decline, TypeOK
  <2> QED BY <2>1, Answered
<1>4. CASE offer' = offer /\ stats' = stats
  <2>1. \A g, outcomes : Outcomes(g, outcomes)' = Outcomes(g, outcomes)
    BY <1>4 DEF Outcomes
  <2>2. ASSUME NEW g \in Guide
        PROVE  /\ stats'[g]["offers"] = Cardinality(Outcomes(g, OfferStatus)')
               /\ stats'[g]["accepts"] = Cardinality(Outcomes(g, {"ACCEPTED"})')
               /\ stats'[g]["declines"] = Cardinality(Outcomes(g, {"DECLINED"})')
               /\ stats'[g]["expiries"] = Cardinality(Outcomes(g, {"EXPIRED"})')
    BY <1>4, <2>1, CountersRead
  <2> QED BY <2>2 DEF CountersAreExact, Outcomes
<1>5. \/ offer' = offer /\ stats' = stats
      \/ ExpireStale
      \/ \E r \in Req : InsertOffers(r) \/ CommitAccept(r)
      \/ \E o \in OfferId : LazyExpire(o) \/ \E r \in Req : Decline(r, o)
  BY DEF Next, Ask, Serve, Confirm, AskDispatch, LockOffer, StartRun, LoadBooking, CheckLive,
         NumberBatch, ChooseGuides, FailInsert, LockBooking, RefuseAccept, RefuseOverlap,
         BreakDeadlock, AfterDecline, Abandon, Sweep, Deadline, MoveBooking, offers, vars
<1> QED BY <1>1, <1>2, <1>3, <1>4, <1>5, SweepCounts, InsertCounts

-----------------------------------------------------------------------------
\* What Matching sees: the phases, the guides and who won.
Phase == [b \in Booking |-> PhaseOf(b)]
Won == {<<o[1], o[2]>> : o \in {p \in OfferId : offer[p] = "ACCEPTED"}}

LEMMA MatchStep == IInv /\ [Next]_vars => [Match!Next]_(Match!vars)
<1> SUFFICES ASSUME IInv, [Next]_vars PROVE Match!Next \/ Match!vars' = Match!vars
  OBVIOUS
<1> USE DEF IInv
<1>1. ASSUME ~\E r \in Req : CommitAccept(r) PROVE Won' = Won
  <2>1. \A o \in OfferId : offer'[o] = "ACCEPTED" <=> offer[o] = "ACCEPTED"
    <3>1. "ACCEPTED" # None
      BY NoneIsFresh DEF OfferStatus
    <3> QED BY <1>1, <3>1, OutcomeStep
  <2> QED BY <2>1 DEF Won
<1>2. CASE status' = status /\ guide' = guide /\ ~\E r \in Req : CommitAccept(r)
  <2>1. Phase' = Phase /\ Won' = Won
    BY <1>1, <1>2 DEF Phase, PhaseOf
  <2> QED BY <1>2, <2>1 DEF Match!vars, Phase, Won
<1>3. ASSUME NEW b \in Booking, NEW to, CanTransition(status[b], to),
             status' = [status EXCEPT ![b] = to], guide' = guide,
             ~\E r \in Req : CommitAccept(r)
      PROVE  Match!Next \/ Match!vars' = Match!vars
  <2>1. /\ status'[b] = to /\ \A c \in Booking : c # b => status'[c] = status[c]
        /\ status[b] \in Statuses
    BY <1>3, MoveFacts
  <2>2. \A c \in Booking : c # b => PhaseOf(c)' = PhaseOf(c)
    BY <2>1 DEF PhaseOf
  <2>3. Phase' = [Phase EXCEPT ![b] = PhaseOf(b)']
    BY <2>2 DEF Phase
  <2>4. Won' = Won
    BY <1>1, <1>3
  <2>5. CASE PhaseOf(b)' = PhaseOf(b)
    <3>1. Phase' = Phase
      BY <2>2, <2>5 DEF Phase
    <3> QED BY <1>3, <2>4, <3>1 DEF Match!vars, Phase, Won
  <2>6. CASE PhaseOf(b) = "waiting" /\ PhaseOf(b)' = "open"
    <3>1. Match!Open(b)
      BY <1>3, <2>3, <2>4, <2>6 DEF Match!Open, Phase, Won
    <3> QED BY <3>1 DEF Match!Next
  <2>7. CASE PhaseOf(b) # "closed" /\ PhaseOf(b)' = "closed"
    <3>1. Match!Close(b)
      BY <1>3, <2>3, <2>4, <2>7 DEF Match!Close, Phase, Won
    <3> QED BY <3>1 DEF Match!Next
  <2>8. /\ PhaseOf(b)' = "open" => PhaseOf(b) = "waiting"
        /\ PhaseOf(b)' = "waiting" => PhaseOf(b) = "waiting"
    <3>1. to = "CONFIRMED" => status[b] = "PAYMENT_PENDING"
      BY <1>3, <2>1, Edges
    <3>2. to \in UnpaidStatuses => status[b] \in UnpaidStatuses
      BY <1>3, MoveFacts
    <3> QED BY <2>1, <3>1, <3>2 DEF PhaseOf, UnpaidStatuses
  <2>9. PhaseOf(b)' \in {"waiting", "open", "closed"} /\ PhaseOf(b) \in {"waiting", "open", "closed"}
    BY DEF PhaseOf
  <2> QED BY <2>5, <2>6, <2>7, <2>8, <2>9
<1>4. ASSUME NEW r \in Req, CommitAccept(r) PROVE Match!Next
  <2>1. PICK o \in OfferId : o = req[r].offer
    BY <1>4, CommitFacts
  <2>2. o[1] \in Booking /\ o[2] \in Guide
    BY IdFacts
  <2>3. /\ guide' = [guide EXCEPT ![o[1]] = o[2]] /\ status' = status
        /\ status[o[1]] = "CONFIRMED" /\ guide[o[1]] = None
    BY <1>4, <2>1, CommitFacts DEF CommitAccept, Assignable
  <2>4. Won' = Won \cup {<<o[1], o[2]>>}
    <3>1. \A p \in OfferId : offer'[p] = "ACCEPTED" <=> p = o \/ offer[p] = "ACCEPTED"
      BY <1>4, <2>1, CommitFacts
    <3> QED BY <3>1 DEF Won
  <2>5. Phase' = Phase /\ Phase[o[1]] = "open"
    BY <2>2, <2>3 DEF Phase, PhaseOf, UnpaidStatuses
  <2>6. Match!Match(o[1], o[2])
    BY <2>3, <2>4, <2>5 DEF Match!Match, Phase, Won
  <2> QED BY <2>2, <2>6 DEF Match!Next
<1> QED BY <1>2, <1>3, <1>4, BookingSteps

-----------------------------------------------------------------------------
\* Every reachable state is well typed, for any number of bookings, guides,
\* requests and batches.
THEOREM TypeCorrect == Spec => []TypeOK
  BY Inductive, PTL DEF IInv

\* Whoever answers, sweeps or supersedes at the same time, no outcome of an offer
\* is overwritten: SetOfferStatus looks at no status, the row locks see to it.
THEOREM OutcomesAreFinal == Spec => OutcomeIsFinal
<1>1. IInv /\ [Next]_vars =>
        [\A o \in OfferId : offer[o] \notin {None, "OFFERED"} => offer'[o] = offer[o]]_vars
  BY OutcomeStep
<1> QED BY <1>1, Inductive, PTL DEF Spec, OutcomeIsFinal

\* The reliability counters count each outcome once, in every race of the
\* sweeper, the lists, the runs and the answers.
THEOREM CountersExact == Spec => []CountersAreExact
<1>1. Init => CountersAreExact
  <2> SUFFICES ASSUME Init PROVE CountersAreExact
    OBVIOUS
  <2>1. \A o \in OfferId : offer[o] = None
    BY DEF Init
  <2>2. ASSUME NEW g, NEW outcomes \in SUBSET OfferStatus PROVE Outcomes(g, outcomes) = {}
    BY <2>1, NoneIsFresh DEF Outcomes
  <2>3. Cardinality({}) = 0
    BY FS_EmptySet
  <2>4. ASSUME NEW g \in Guide, NEW c \in Counter PROVE stats[g][c] = 0
    BY DEF Init
  <2>5. /\ {"ACCEPTED"} \in SUBSET OfferStatus /\ {"DECLINED"} \in SUBSET OfferStatus
        /\ {"EXPIRED"} \in SUBSET OfferStatus
        /\ {"offers", "accepts", "declines", "expiries"} = Counter
    BY DEF OfferStatus, Counter
  <2> QED BY <2>2, <2>3, <2>4, <2>5, CountersRead
<1> QED BY <1>1, CountersStep, Inductive, PTL DEF Spec

\* No guide is on two overlapping tours, whatever was offered and accepted at once.
THEOREM GuidesAreFree == Spec => []GuideIsFree
<1>1. Init => GuideIsFree
  <2>1. ASSUME Init, NEW c \in Clash PROVE guide[c[1]] = None
    <3>1. c \in Booking \X Booking
      BY ClashOfOthers
    <3> QED BY <2>1, <3>1 DEF Init
  <2> QED BY <2>1 DEF GuideIsFree
<1> QED BY <1>1, FreeStep, Inductive, PTL DEF Spec

\* Dispatch implements Matching: the first acceptance wins, once, of a booking
\* that is confirmed, and no other offer says ACCEPTED.
THEOREM FirstAcceptanceWins == Spec => MatchingSpec
<1>1. Init => Match!Init
  <2> SUFFICES ASSUME Init PROVE Match!Init
    OBVIOUS
  <2>1. Phase = [b \in Booking |-> "waiting"]
    BY DEF Init, Phase, PhaseOf, UnpaidStatuses
  <2>2. Won = {}
    <3>1. \A o \in OfferId : offer[o] # "ACCEPTED"
      BY NoneIsFresh DEF Init, OfferStatus
    <3> QED BY <3>1 DEF Won
  <2> QED BY <2>1, <2>2 DEF Init, Match!Init, Phase, Won
<1> QED BY <1>1, MatchStep, Inductive, PTL DEF Spec, MatchingSpec, Match!Spec
=============================================================================
