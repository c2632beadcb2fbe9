------------------------------- MODULE Bookings -------------------------------
(***************************************************************************)
(* The bookings component (bookings/repository.go and its callers): rows of  *)
(* the bookings table, their status events, and the idempotency keys of      *)
(* creation, written by concurrent database transactions.                   *)
(*                                                                         *)
(* A transaction is split where another one can come between: after it has  *)
(* taken its row lock or its key, after its overlap query, and at its        *)
(* commit.  Its writes become visible at the commit.  The last UPDATE of a   *)
(* transaction and its commit are one step: a second writer the exclusion    *)
(* constraint would make wait for the first is simply not enabled before.    *)
(***************************************************************************)
EXTENDS BookingStates, Sequences, FiniteSets

CONSTANTS
  Booking,    \* booking ids
  Guide,
  NoGuide,    \* guide_id IS NULL: a marketplace booking
  Tourist,
  Key,        \* values of the Idempotency-Key header
  Window,     \* [starts, ends] records, starts < ends
  Txn,        \* database sessions
  None,       \* absent row, absent key, no running transaction
  MaxEvents   \* bound: status events per booking

ASSUME GuidesAreNotNull == NoGuide \notin Guide
ASSUME WindowsAreIntervals ==
  \A w \in Window : w.starts \in Nat /\ w.ends \in Nat /\ w.starts < w.ends

VARIABLES
  booking,   \* rows of table bookings
  events,    \* rows of booking_status_events, per booking in insertion order
  claims,    \* committed rows of idempotency_keys, by [tourist, key]
  txn,       \* the running transaction of each session
  created    \* history: what creation requests were answered with

vars == <<booking, events, claims, txn, created>>

\* The part of a creation payload that decides the calendar; payloadHash
\* compares the whole of it.
Payload == [guide : Guide \cup {NoGuide}, window : Window]
Scope == Tourist \X Key
Row == [tourist : Tourist, guide : Guide \cup {NoGuide}, window : Window,
        status : Statuses]
Event == [from : Statuses \cup {None}, to : Statuses]
Claim == [payload : Payload, entity : Booking]

\* A creation holds its key from the first INSERT on; a status move and an
\* assignment hold the booking's row lock.
Creation == [kind : {"create"}, scope : Scope, payload : Payload, checked : BOOLEAN]
Move == [kind : {"move"}, booking : Booking, to : Statuses, checked : BOOLEAN]
Assignment == [kind : {"assign"}, booking : Booking, guide : Guide]

ASSUME NoneIsFresh ==
  None \notin Booking \cup Statuses \cup Row \cup Claim
            \cup Creation \cup Move \cup Assignment \cup [guide : Guide, window : Window]

TypeOK ==
  /\ booking \in [Booking -> Row \cup {None}]
  /\ events \in [Booking -> Seq(Event)]
  /\ claims \in [Scope -> Claim \cup {None}]
  /\ txn \in [Txn -> Creation \cup Move \cup Assignment \cup {None}]
  /\ created \subseteq [scope : Scope, payload : Payload, booking : Booking]

Init ==
  /\ booking = [b \in Booking |-> None]
  /\ events = [b \in Booking |-> << >>]
  /\ claims = [s \in Scope |-> None]
  /\ txn = [t \in Txn |-> None]
  /\ created = {}
-----------------------------------------------------------------------------
Exists(b) == booking[b] # None

Running(t, kind) == txn[t] # None /\ txn[t].kind = kind

\* Mutant: SELECT without FOR UPDATE.
RowLocked_PlainSelect(b) == FALSE

RowLocked(b) ==
  \E t \in Txn : (Running(t, "move") \/ Running(t, "assign")) /\ txn[t].booking = b

\* Mutant: the key is looked up, and inserted only with the booking.
KeyHeld_CheckThenInsert(s) == FALSE

KeyHeld(s) == \E t \in Txn : Running(t, "create") /\ txn[t].scope = s

\* Rows the overlap query and the exclusion constraint look at.
OnCalendar(b) ==
  Exists(b) /\ booking[b].status \in ActiveStatuses /\ booking[b].guide # NoGuide

\* The query SELECT ... FOR UPDATE over a guide's overlapping active rows.
Conflicts(self, guide, window) ==
  {b \in Booking : /\ b # self /\ OnCalendar(b)
                   /\ booking[b].guide = guide
                   /\ Overlaps(booking[b].window, window)}

\* Mutant: no exclusion constraint, the overlap queries only.
ExclusionAllows_QueriesOnly(b, row) == TRUE

\* Migration 0004: EXCLUDE (guide_id =, tstzrange &&) over the active rows.
ExclusionAllows(b, row) ==
  row.status \in ActiveStatuses /\ row.guide # NoGuide
    => Conflicts(b, row.guide, row.window) = {}

\* Bound: every running creation finds a booking id left.
IdsLeft == Cardinality({t \in Txn : Running(t, "create")})
             < Cardinality({b \in Booking : ~Exists(b)})

End(t) == txn' = [txn EXCEPT ![t] = None]
-----------------------------------------------------------------------------
\* Repository.Create: INSERT INTO idempotency_keys ... ON CONFLICT DO NOTHING
\* takes the key; it waits while another session's INSERT is uncommitted.
ClaimKey(t, s, p) ==
  /\ txn[t] = None /\ ~KeyHeld(s) /\ claims[s] = None
  /\ IdsLeft
  /\ txn' = [txn EXCEPT ![t] =
       [kind |-> "create", scope |-> s, payload |-> p, checked |-> FALSE]]
  /\ UNCHANGED <<booking, events, claims, created>>

\* The key is committed: replay answers the original booking when the payload
\* is the same (and ErrIdempotencyConflict, changing nothing, when it differs).
Replay(t, s, p) ==
  /\ txn[t] = None /\ ~KeyHeld(s) /\ claims[s] # None
  /\ claims[s].payload = p
  /\ created' = created \cup {[scope |-> s, payload |-> p, booking |-> claims[s].entity]}
  /\ UNCHANGED <<booking, events, claims, txn>>

\* The overlap query of a direct booking; a marketplace booking has none.
CheckSlot(t) ==
  /\ Running(t, "create") /\ ~txn[t].checked
  /\ txn[t].payload.guide # NoGuide =>
       Conflicts(None, txn[t].payload.guide, txn[t].payload.window) = {}
  /\ txn' = [txn EXCEPT ![t].checked = TRUE]
  /\ UNCHANGED <<booking, events, claims, created>>

\* ErrOverlap: the query found a row (and is not waiting for its lock).
RejectSlot(t) ==
  /\ Running(t, "create") /\ ~txn[t].checked
  /\ txn[t].payload.guide # NoGuide
  /\ \E b \in Conflicts(None, txn[t].payload.guide, txn[t].payload.window) : ~RowLocked(b)
  /\ End(t)
  /\ UNCHANGED <<booking, events, claims, created>>

\* insertWithEvents, completion of the key and commit: the row is never seen
\* in DRAFT by another session.
Insert(t, b) ==
  /\ Running(t, "create") /\ txn[t].checked
  /\ ~Exists(b)
  /\ LET s == txn[t].scope
         p == txn[t].payload
     IN /\ booking' = [booking EXCEPT ![b] =
             [tourist |-> s[1], guide |-> p.guide, window |-> p.window,
              status |-> "PAYMENT_PENDING"]]
        /\ claims' = [claims EXCEPT ![s] = [payload |-> p, entity |-> b]]
        /\ created' = created \cup {[scope |-> s, payload |-> p, booking |-> b]}
  /\ events' = [events EXCEPT ![b] =
       << [from |-> None, to |-> "DRAFT"],
          [from |-> "DRAFT", to |-> "PAYMENT_PENDING"] >>]
  /\ End(t)
-----------------------------------------------------------------------------
\* transitionTx: SELECT ... FOR UPDATE and the legality check under the lock.
\* Any status may be asked for (AdminTransition takes it from the request).
LockForMove(t, b, to) ==
  /\ txn[t] = None /\ Exists(b) /\ ~RowLocked(b)
  /\ CanTransition(booking[b].status, to)
  /\ Len(events[b]) < MaxEvents
  /\ txn' = [txn EXCEPT ![t] =
       [kind |-> "move", booking |-> b, to |-> to, checked |-> FALSE]]
  /\ UNCHANGED <<booking, events, claims, created>>

NeedsSlot(t) == txn[t].to = "CONFIRMED" /\ booking[txn[t].booking].guide # NoGuide

SlotConflicts(t) ==
  LET b == txn[t].booking IN Conflicts(b, booking[b].guide, booking[b].window)

\* The overlap re-check of a move into CONFIRMED.
RecheckSlot(t) ==
  /\ Running(t, "move") /\ ~txn[t].checked
  /\ NeedsSlot(t) => SlotConflicts(t) = {}
  /\ txn' = [txn EXCEPT ![t].checked = TRUE]
  /\ UNCHANGED <<booking, events, claims, created>>

\* UPDATE, the event row and the commit; the constraint is checked here.
CommitMove(t) ==
  /\ Running(t, "move") /\ txn[t].checked
  /\ LET b == txn[t].booking
         row == [booking[b] EXCEPT !.status = txn[t].to]
     IN /\ ExclusionAllows(b, row)
        /\ booking' = [booking EXCEPT ![b] = row]
        /\ events' = [events EXCEPT ![b] =
             Append(@, [from |-> booking[b].status, to |-> txn[t].to])]
  /\ End(t)
  /\ UNCHANGED <<claims, created>>

\* ErrOverlap, from the re-check or from the constraint.
RejectMove(t) ==
  /\ Running(t, "move") /\ NeedsSlot(t)
  /\ IF txn[t].checked
     THEN SlotConflicts(t) # {}
     ELSE \E b \in SlotConflicts(t) : ~RowLocked(b)
  /\ End(t)
  /\ UNCHANGED <<booking, events, claims, created>>
-----------------------------------------------------------------------------
\* dispatch's Accept, as far as it touches a booking: lock, require CONFIRMED
\* and guideless, UPDATE guide_id under the constraint alone, event, commit.
LockForAssign(t, b, g) ==
  /\ txn[t] = None /\ Exists(b) /\ ~RowLocked(b)
  /\ booking[b].status = "CONFIRMED" /\ booking[b].guide = NoGuide
  /\ Len(events[b]) < MaxEvents
  /\ txn' = [txn EXCEPT ![t] = [kind |-> "assign", booking |-> b, guide |-> g]]
  /\ UNCHANGED <<booking, events, claims, created>>

AssignGuide(t) ==
  /\ Running(t, "assign")
  /\ LET b == txn[t].booking
         row == [booking[b] EXCEPT !.guide = txn[t].guide]
     IN /\ ExclusionAllows(b, row)
        /\ booking' = [booking EXCEPT ![b] = row]
        /\ events' = [events EXCEPT ![b] =
             Append(@, [from |-> "CONFIRMED", to |-> "CONFIRMED"])]
  /\ End(t)
  /\ UNCHANGED <<claims, created>>

RejectAssign(t) ==
  /\ Running(t, "assign")
  /\ Conflicts(txn[t].booking, txn[t].guide, booking[txn[t].booking].window) # {}
  /\ End(t)
  /\ UNCHANGED <<booking, events, claims, created>>

\* The request's context is cancelled, the connection or the server is lost:
\* the deferred Rollback, or Postgres itself, undoes the transaction.
Rollback(t) ==
  /\ txn[t] # None
  /\ End(t)
  /\ UNCHANGED <<booking, events, claims, created>>
-----------------------------------------------------------------------------
\* The steps a session that has begun a transaction takes to end it.
Continue(t) ==
  \/ CheckSlot(t) \/ RejectSlot(t) \/ (\E b \in Booking : Insert(t, b))
  \/ RecheckSlot(t) \/ CommitMove(t) \/ RejectMove(t)
  \/ AssignGuide(t) \/ RejectAssign(t)

Begin(t) ==
  \/ \E s \in Scope, p \in Payload : ClaimKey(t, s, p) \/ Replay(t, s, p)
  \/ \E b \in Booking, to \in Statuses : LockForMove(t, b, to)
  \/ \E b \in Booking, g \in Guide : LockForAssign(t, b, g)

Next == \E t \in Txn : Begin(t) \/ Continue(t) \/ Rollback(t)

Spec == Init /\ [][Next]_vars
-----------------------------------------------------------------------------
\* A guide is never on two tours at once: whatever the order in which payments
\* land, guides are assigned and operations override statuses, two bookings in
\* active statuses of one guide have disjoint windows.  The overlap queries
\* alone do not give it (two confirmations can both see a free slot); it rests
\* on the exclusion constraint being consulted by every write of a row.
NoDoubleBooking ==
  \A b, c \in Booking :
    b # c /\ OnCalendar(b) /\ OnCalendar(c) /\ booking[b].guide = booking[c].guide
      => ~Overlaps(booking[b].window, booking[c].window)

\* Idempotent creation: all successful answers to one tourist's key name one
\* booking and were given for one payload, and a booking answers one key only,
\* however many sessions raced and whichever of them rolled back.
OneBookingPerKey ==
  \A r, q \in created :
    r.scope = q.scope \/ r.booking = q.booking => r = q

\* The recorded history h leads from creation to the given status along legal
\* edges (or the assignment's CONFIRMED -> CONFIRMED record).
IsPathTo(h, status) ==
  /\ Len(h) >= 2 /\ h[1] = [from |-> None, to |-> "DRAFT"]
  /\ h[Len(h)].to = status
  /\ \A i \in 2 .. Len(h) :
       /\ h[i].from = h[i-1].to
       /\ \/ CanTransition(h[i].from, h[i].to)
          \/ h[i] = [from |-> "CONFIRMED", to |-> "CONFIRMED"]

\* The immutable history of every booking is a path of the state machine that
\* ends in the row's status, although the status an event leaves is read in one
\* statement and written in another of a transaction that others race with.
HistoryIsPath ==
  \A b \in Booking :
    IF Exists(b) THEN IsPathTo(events[b], booking[b].status) ELSE events[b] = << >>

Confirming(e) == e.to = "CONFIRMED" /\ e.from # "CONFIRMED"

\* A booking is confirmed at most once in its life: after a cancellation, a
\* no-show, a refund or a failed payment no sequence of overrides brings it
\* back to CONFIRMED a second time, so one slot is paid for once.
ConfirmedOnce ==
  \A b \in Booking : \A i, j \in 1 .. Len(events[b]) :
    Confirming(events[b][i]) /\ Confirming(events[b][j]) => i = j

\* The window a row occupies, and the bookings that are over.
SlotOf(b) == IF OnCalendar(b)
             THEN [guide |-> booking[b].guide, window |-> booking[b].window]
             ELSE None
Closed == {b \in Booking : Exists(b) /\ booking[b].status \in ClosedStatuses}

Calendar == INSTANCE GuideCalendar WITH
  NoSlot <- None, slot <- [b \in Booking |-> SlotOf(b)], closed <- Closed

\* The rows implement the calendar: a slot is taken once, kept unchanged until
\* the booking closes, and a closed booking never returns.
CalendarSpec == Calendar!Spec
=============================================================================
