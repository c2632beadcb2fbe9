--------------------------- MODULE BookingsProofs ----------------------------
(***************************************************************************)
(* Theorems of Bookings, for every choice of its constants.                 *)
(***************************************************************************)
EXTENDS Bookings, TLAPS

\* Sessions and rows are coherent: a session that moves or assigns a booking
\* works on a row that exists, in the state it found when it took the lock, and
\* no other session holds that row; a creation's key is not committed yet and no
\* other creation holds it.
LockInv ==
  /\ \A t \in Txn : Running(t, "move") =>
       /\ Exists(txn[t].booking)
       /\ CanTransition(booking[txn[t].booking].status, txn[t].to)
  /\ \A t \in Txn : Running(t, "assign") =>
       /\ Exists(txn[t].booking)
       /\ booking[txn[t].booking].status = "CONFIRMED"
       /\ booking[txn[t].booking].guide = NoGuide
  /\ \A t, u \in Txn :
       /\ Running(t, "move") \/ Running(t, "assign")
       /\ Running(u, "move") \/ Running(u, "assign")
       /\ txn[t].booking = txn[u].booking
       => t = u

IInv == TypeOK /\ LockInv

-----------------------------------------------------------------------------
\* Only a booking awaiting payment is confirmed, one that was confirmed never
\* awaits payment again, and a closed one stays closed.
LEMMA Edges ==
  ASSUME NEW s \in Statuses, NEW to, CanTransition(s, to)
  PROVE  /\ to = "CONFIRMED" => s = "PAYMENT_PENDING"
         /\ s \notin UnpaidStatuses => to \notin UnpaidStatuses
         /\ s \in ClosedStatuses => to \in ClosedStatuses
<1> USE DEF CanTransition, transitions, Statuses, UnpaidStatuses, ActiveStatuses,
            ClosedStatuses, CancelledStatuses
<1>1. CASE s \in UnpaidStatuses
  BY <1>1
<1>2. CASE s \in ActiveStatuses
  BY <1>2
<1>3. CASE s \in ClosedStatuses \ {"REFUND_PENDING", "REFUNDED"}
  BY <1>3
<1>4. CASE s \in {"REFUND_PENDING", "REFUNDED"}
  BY <1>4
<1> QED BY <1>1, <1>2, <1>3, <1>4

\* The kinds of transaction are told apart by their kind.
LEMMA TxnKinds ==
  ASSUME TypeOK, NEW t \in Txn
  PROVE  /\ Running(t, "create") => txn[t] \in Creation
         /\ Running(t, "move")   => txn[t] \in Move
         /\ Running(t, "assign") => txn[t] \in Assignment
  BY DEF TypeOK, Running, Creation, Move, Assignment

\* An existing row is a Row.
LEMMA RowTyped ==
  ASSUME TypeOK, NEW b \in Booking, Exists(b)
  PROVE  booking[b] \in Row
  BY DEF TypeOK, Exists

LEMMA TypeInit == Init => IInv
  BY DEF Init, IInv, TypeOK, LockInv, Running

LEMMA TypeStep == IInv /\ [Next]_vars => TypeOK'
<1> SUFFICES ASSUME IInv, [Next]_vars PROVE TypeOK'
  OBVIOUS
<1> USE DEF IInv
<1>1. ASSUME NEW t \in Txn, NEW s \in Scope, NEW p \in Payload, ClaimKey(t, s, p)
      PROVE  TypeOK'
  BY <1>1 DEF ClaimKey, TypeOK, Creation
<1>2. ASSUME NEW t \in Txn, NEW s \in Scope, NEW p \in Payload, Replay(t, s, p)
      PROVE  TypeOK'
  <2>1. claims[s] \in Claim
    BY <1>2 DEF Replay, TypeOK
  <2> QED BY <1>2, <2>1 DEF Replay, TypeOK, Claim
<1>3. ASSUME NEW t \in Txn, CheckSlot(t) PROVE TypeOK'
  <2>1. txn[t] \in Creation
    BY <1>3, TxnKinds DEF CheckSlot
  <2>2. [txn[t] EXCEPT !.checked = TRUE] \in Creation
    BY <2>1 DEF Creation
  <2>3. txn' = [txn EXCEPT ![t] = [txn[t] EXCEPT !.checked = TRUE]]
    BY <1>3 DEF CheckSlot
  <2> QED BY <1>3, <2>2, <2>3 DEF CheckSlot, TypeOK
<1>4. ASSUME NEW t \in Txn, RejectSlot(t) \/ RejectMove(t) \/ RejectAssign(t) \/ Rollback(t)
      PROVE  TypeOK'
  BY <1>4 DEF RejectSlot, RejectMove, RejectAssign, Rollback, End, TypeOK
<1>5. ASSUME NEW t \in Txn, NEW b \in Booking, Insert(t, b) PROVE TypeOK'
  <2> DEFINE s == txn[t].scope
             p == txn[t].payload
  <2>1. s \in Scope /\ p \in Payload
    BY <1>5, TxnKinds DEF Insert, Creation
  <2>2. s[1] \in Tourist
    BY <2>1 DEF Scope
  <2>3. [tourist |-> s[1], guide |-> p.guide, window |-> p.window,
         status |-> "PAYMENT_PENDING"] \in Row
    BY <2>1, <2>2 DEF Row, Payload, Statuses, UnpaidStatuses
  <2>4. booking' \in [Booking -> Row \cup {None}]
    BY <1>5, <2>3 DEF Insert, TypeOK
  <2>5. claims' \in [Scope -> Claim \cup {None}]
    BY <1>5, <2>1 DEF Insert, TypeOK, Claim
  <2>6. created' \subseteq [scope : Scope, payload : Payload, booking : Booking]
    BY <1>5, <2>1 DEF Insert, TypeOK
  <2>7. << [from |-> None, to |-> "DRAFT"],
           [from |-> "DRAFT", to |-> "PAYMENT_PENDING"] >> \in Seq(Event)
    BY DEF Event, Statuses, UnpaidStatuses
  <2>8. events' \in [Booking -> Seq(Event)]
    BY <1>5, <2>7 DEF Insert, TypeOK
  <2>9. txn' \in [Txn -> Creation \cup Move \cup Assignment \cup {None}]
    BY <1>5 DEF Insert, End, TypeOK
  <2> QED BY <2>4, <2>5, <2>6, <2>8, <2>9 DEF TypeOK
<1>6. ASSUME NEW t \in Txn, NEW b \in Booking, NEW to \in Statuses, LockForMove(t, b, to)
      PROVE  TypeOK'
  BY <1>6 DEF LockForMove, TypeOK, Move
<1>7. ASSUME NEW t \in Txn, RecheckSlot(t) PROVE TypeOK'
  <2>1. txn[t] \in Move
    BY <1>7, TxnKinds DEF RecheckSlot
  <2>2. [txn[t] EXCEPT !.checked = TRUE] \in Move
    BY <2>1 DEF Move
  <2>3. txn' = [txn EXCEPT ![t] = [txn[t] EXCEPT !.checked = TRUE]]
    BY <1>7 DEF RecheckSlot
  <2> QED BY <1>7, <2>2, <2>3 DEF RecheckSlot, TypeOK
<1>8. ASSUME NEW t \in Txn, CommitMove(t) PROVE TypeOK'
  <2> DEFINE b == txn[t].booking
             row == [booking[b] EXCEPT !.status = txn[t].to]
             e == [from |-> booking[b].status, to |-> txn[t].to]
  <2>1. b \in Booking /\ txn[t].to \in Statuses /\ Exists(b)
    BY <1>8, TxnKinds DEF CommitMove, Move, LockInv
  <2>2. booking[b] \in Row
    BY <2>1, RowTyped
  <2>3. row \in Row /\ e \in Event
    BY <2>1, <2>2 DEF Row, Event
  <2>4. booking' = [booking EXCEPT ![b] = row]
        /\ events' = [events EXCEPT ![b] = Append(@, e)]
        /\ txn' = [txn EXCEPT ![t] = None] /\ UNCHANGED <<claims, created>>
    BY <1>8 DEF CommitMove, End
  <2>5. Append(events[b], e) \in Seq(Event)
    BY <2>1, <2>3 DEF TypeOK
  <2> HIDE DEF row, e, b
  <2> QED BY <2>1, <2>3, <2>4, <2>5 DEF TypeOK
<1>9. ASSUME NEW t \in Txn, NEW b \in Booking, NEW g \in Guide, LockForAssign(t, b, g)
      PROVE  TypeOK'
  BY <1>9 DEF LockForAssign, TypeOK, Assignment
<1>10. ASSUME NEW t \in Txn, AssignGuide(t) PROVE TypeOK'
  <2> DEFINE b == txn[t].booking
             row == [booking[b] EXCEPT !.guide = txn[t].guide]
             e == [from |-> "CONFIRMED", to |-> "CONFIRMED"]
  <2>1. b \in Booking /\ txn[t].guide \in Guide /\ Exists(b)
    BY <1>10, TxnKinds DEF AssignGuide, Assignment, LockInv
  <2>2. booking[b] \in Row
    BY <2>1, RowTyped
  <2>3. row \in Row /\ e \in Event
    BY <2>1, <2>2 DEF Row, Event, Statuses, ActiveStatuses
  <2>4. booking' = [booking EXCEPT ![b] = row]
        /\ events' = [events EXCEPT ![b] = Append(@, e)]
        /\ txn' = [txn EXCEPT ![t] = None] /\ UNCHANGED <<claims, created>>
    BY <1>10 DEF AssignGuide, End
  <2>5. Append(events[b], e) \in Seq(Event)
    BY <2>1, <2>3 DEF TypeOK
  <2> HIDE DEF row, e, b
  <2> QED BY <2>1, <2>3, <2>4, <2>5 DEF TypeOK
<1>11. CASE UNCHANGED vars
  BY <1>11 DEF vars, TypeOK
<1> QED
  BY <1>1, <1>2, <1>3, <1>4, <1>5, <1>6, <1>7, <1>8, <1>9, <1>10, <1>11
     DEF Next, Begin, Continue

\* Ending a transaction without touching the rows keeps the sessions coherent.
LEMMA LockEnd ==
  ASSUME TypeOK, LockInv, NEW t \in Txn, End(t), booking' = booking
  PROVE  LockInv'
<1>1. \A u \in Txn : txn'[u] = IF u = t THEN None ELSE txn[u]
  BY DEF End, TypeOK
<1>2. \A u \in Txn : u # t \/ txn'[u] = None
  BY <1>1
<1> QED BY <1>1, <1>2 DEF LockInv, Running, Exists

\* A write of the locked row leaves the other sessions' rows alone.
LEMMA LockWrite ==
  ASSUME TypeOK, LockInv, NEW t \in Txn, Running(t, "move") \/ Running(t, "assign"),
         NEW row, booking' = [booking EXCEPT ![txn[t].booking] = row], End(t)
  PROVE  LockInv'
<1>1. \A u \in Txn : txn'[u] = IF u = t THEN None ELSE txn[u]
  BY DEF End, TypeOK
<1>2. \A u \in Txn : u # t /\ (Running(u, "move") \/ Running(u, "assign"))
                     => txn[u].booking # txn[t].booking
  BY DEF LockInv
<1>3. \A u \in Txn : u # t /\ (Running(u, "move") \/ Running(u, "assign"))
                     => booking'[txn[u].booking] = booking[txn[u].booking]
  <2> TAKE u \in Txn
  <2> HAVE u # t /\ (Running(u, "move") \/ Running(u, "assign"))
  <2>1. txn[u].booking \in Booking
    BY TxnKinds DEF Move, Assignment
  <2> QED BY <1>2, <2>1 DEF TypeOK
<1> QED BY <1>1, <1>3 DEF LockInv, Running, Exists

\* Taking a free row's lock.
LEMMA LockTake ==
  ASSUME TypeOK, LockInv, NEW t \in Txn, NEW b \in Booking, NEW x,
         txn[t] = None, Exists(b), ~RowLocked(b), UNCHANGED booking,
         txn' = [txn EXCEPT ![t] = x], x # None, x.booking = b,
         \/ x.kind = "move" /\ CanTransition(booking[b].status, x.to)
         \/ x.kind = "assign" /\ booking[b].status = "CONFIRMED"
                             /\ booking[b].guide = NoGuide
  PROVE  LockInv'
<1>1. \A u \in Txn : txn'[u] = IF u = t THEN x ELSE txn[u]
  BY DEF TypeOK
<1>2. \A u \in Txn : Running(u, "move") \/ Running(u, "assign") => txn[u].booking # b
  BY DEF RowLocked
<1> QED BY <1>1, <1>2 DEF LockInv, Running, Exists

LEMMA LockStep == IInv /\ [Next]_vars => LockInv'
<1> SUFFICES ASSUME IInv, [Next]_vars PROVE LockInv'
  OBVIOUS
<1> USE DEF IInv
<1>1. ASSUME NEW t \in Txn, NEW s \in Scope, NEW p \in Payload, ClaimKey(t, s, p)
      PROVE  LockInv'
  <2>1. \A u \in Txn : txn'[u] = IF u = t
          THEN [kind |-> "create", scope |-> s, payload |-> p, checked |-> FALSE]
          ELSE txn[u]
    BY <1>1 DEF ClaimKey, TypeOK
  <2>2. booking' = booking
    BY <1>1 DEF ClaimKey
  <2> QED BY <2>1, <2>2 DEF LockInv, Running, Exists
<1>2. ASSUME NEW t \in Txn, NEW s \in Scope, NEW p \in Payload, Replay(t, s, p)
      PROVE  LockInv'
  BY <1>2 DEF Replay, LockInv, Running, Exists
<1>3. ASSUME NEW t \in Txn, CheckSlot(t) \/ RecheckSlot(t) PROVE LockInv'
  <2>1. txn' = [txn EXCEPT ![t].checked = TRUE] /\ booking' = booking
    BY <1>3 DEF CheckSlot, RecheckSlot
  <2>2. txn[t] \in Creation \cup Move
    BY <1>3, TxnKinds DEF CheckSlot, RecheckSlot
  <2>3. \A u \in Txn : u # t => txn'[u] = txn[u]
    BY <2>1 DEF TypeOK
  <2>4. txn'[t] = [txn[t] EXCEPT !.checked = TRUE]
    BY <2>1 DEF TypeOK
  <2>5. CASE txn[t] \in Creation
    <3>1. txn'[t].kind = "create"
      BY <2>4, <2>5 DEF Creation
    <3> QED BY <2>1, <2>3, <3>1 DEF LockInv, Running, Exists
  <2>6. CASE txn[t] \in Move
    <3>1. txn'[t] \in Move /\ txn'[t].kind = "move" /\ txn[t].kind = "move"
          /\ txn'[t].booking = txn[t].booking /\ txn'[t].to = txn[t].to
      BY <2>4, <2>6 DEF Move
    <3>2. txn[t] # None
      BY <1>3 DEF CheckSlot, RecheckSlot, Running
    <3>3. \A u \in Txn : Running(u, "move")' => Running(u, "move") /\ txn'[u].booking = txn[u].booking
                           /\ txn'[u].to = txn[u].to
      BY <2>3, <3>1, <3>2 DEF Running
    <3>4. \A u \in Txn : Running(u, "assign")' => Running(u, "assign") /\ txn'[u] = txn[u]
      BY <2>3, <3>1 DEF Running
    <3> QED BY <2>1, <3>3, <3>4 DEF LockInv, Exists
  <2> QED BY <2>2, <2>5, <2>6
<1>4. ASSUME NEW t \in Txn, RejectSlot(t) \/ RejectMove(t) \/ RejectAssign(t) \/ Rollback(t)
      PROVE  LockInv'
  <2>1. End(t) /\ booking' = booking
    BY <1>4 DEF RejectSlot, RejectMove, RejectAssign, Rollback
  <2> QED BY <2>1, LockEnd
<1>5. ASSUME NEW t \in Txn, NEW b \in Booking, Insert(t, b) PROVE LockInv'
  <2>1. \A u \in Txn : txn'[u] = IF u = t THEN None ELSE txn[u]
    BY <1>5 DEF Insert, End, TypeOK
  <2>2. \A c \in Booking : c # b => booking'[c] = booking[c]
    BY <1>5 DEF Insert, TypeOK
  <2>3. \A u \in Txn : Running(u, "move") \/ Running(u, "assign")
                       => txn[u].booking \in Booking /\ txn[u].booking # b
    BY <1>5, TxnKinds DEF Insert, LockInv, Move, Assignment
  <2> QED BY <2>1, <2>2, <2>3 DEF LockInv, Running, Exists
<1>6. ASSUME NEW t \in Txn, NEW b \in Booking, NEW to \in Statuses, LockForMove(t, b, to)
      PROVE  LockInv'
  <2> DEFINE x == [kind |-> "move", booking |-> b, to |-> to, checked |-> FALSE]
  <2>1. x \in Move
    BY DEF Move
  <2>2. x # None
    BY <2>1, NoneIsFresh
  <2>3. x.booking = b /\ x.kind = "move" /\ CanTransition(booking[b].status, x.to)
    BY <1>6 DEF LockForMove
  <2>4. txn[t] = None /\ Exists(b) /\ ~RowLocked(b) /\ UNCHANGED booking
        /\ txn' = [txn EXCEPT ![t] = x]
    BY <1>6 DEF LockForMove
  <2> HIDE DEF x
  <2> QED BY <2>2, <2>3, <2>4, LockTake
<1>7. ASSUME NEW t \in Txn, CommitMove(t) PROVE LockInv'
  BY <1>7, LockWrite DEF CommitMove
<1>8. ASSUME NEW t \in Txn, NEW b \in Booking, NEW g \in Guide, LockForAssign(t, b, g)
      PROVE  LockInv'
  <2> DEFINE x == [kind |-> "assign", booking |-> b, guide |-> g]
  <2>1. x \in Assignment
    BY DEF Assignment
  <2>2. x # None
    BY <2>1, NoneIsFresh
  <2>3. x.booking = b /\ x.kind = "assign" /\ booking[b].status = "CONFIRMED"
        /\ booking[b].guide = NoGuide
    BY <1>8 DEF LockForAssign
  <2>4. txn[t] = None /\ Exists(b) /\ ~RowLocked(b) /\ UNCHANGED booking
        /\ txn' = [txn EXCEPT ![t] = x]
    BY <1>8 DEF LockForAssign
  <2> HIDE DEF x
  <2> QED BY <2>2, <2>3, <2>4, LockTake
<1>9. ASSUME NEW t \in Txn, AssignGuide(t) PROVE LockInv'
  BY <1>9, LockWrite DEF AssignGuide
<1>10. CASE UNCHANGED vars
  BY <1>10 DEF vars, LockInv, Running, Exists
<1> QED
  BY <1>1, <1>2, <1>3, <1>4, <1>5, <1>6, <1>7, <1>8, <1>9, <1>10
     DEF Next, Begin, Continue

LEMMA Inductive == IInv /\ [Next]_vars => IInv'
  BY TypeStep, LockStep DEF IInv

\* Every reachable state is well typed and its sessions are coherent with the
\* rows they hold (SELECT ... FOR UPDATE in transitionTx and in Accept).
THEOREM Coherence == Spec => []IInv
<1>1. Init => IInv
  BY TypeInit
<1>2. IInv /\ [Next]_vars => IInv'
  BY Inductive
<1> QED BY <1>1, <1>2, PTL DEF Spec

\* Type correctness of Bookings, for any number of sessions and bookings.
THEOREM TypeCorrect == Spec => []TypeOK
<1>1. IInv => TypeOK
  BY DEF IInv
<1> QED BY <1>1, Coherence, PTL
-----------------------------------------------------------------------------
LEMMA OverlapsSymmetric ==
  ASSUME NEW v, NEW w, Overlaps(v, w)
  PROVE  Overlaps(w, v)
  BY DEF Overlaps

\* Writing one row keeps the calendar free of double bookings when the
\* exclusion constraint allows the row.
LEMMA ExclusionKeepsCalendar ==
  ASSUME TypeOK, NoDoubleBooking, NEW b \in Booking, NEW row, ExclusionAllows(b, row),
         booking' = [booking EXCEPT ![b] = row]
  PROVE  NoDoubleBooking'
<1> SUFFICES ASSUME NEW c \in Booking, NEW d \in Booking, c # d,
                    OnCalendar(c)', OnCalendar(d)', booking'[c].guide = booking'[d].guide,
                    Overlaps(booking'[c].window, booking'[d].window)
             PROVE  FALSE
  BY DEF NoDoubleBooking
<1>1. \A e \in Booking : booking'[e] = IF e = b THEN row ELSE booking[e]
  BY DEF TypeOK
<1>2. \A e \in Booking : e # b /\ OnCalendar(e)' => OnCalendar(e)
  BY <1>1 DEF OnCalendar, Exists
<1>3. OnCalendar(b)' => row.status \in ActiveStatuses /\ row.guide # NoGuide
  BY <1>1 DEF OnCalendar
<1>4. CASE c = b
  <2>1. Overlaps(booking[d].window, row.window)
    BY <1>1, <1>4, OverlapsSymmetric
  <2>2. d \in Conflicts(b, row.guide, row.window)
    BY <1>1, <1>2, <1>4, <2>1 DEF Conflicts
  <2> QED BY <1>3, <1>4, <2>2 DEF ExclusionAllows
<1>5. CASE d = b
  <2>1. c \in Conflicts(b, row.guide, row.window)
    BY <1>1, <1>2, <1>5 DEF Conflicts
  <2> QED BY <1>3, <1>5, <2>1 DEF ExclusionAllows
<1>6. CASE c # b /\ d # b
  BY <1>1, <1>2, <1>6 DEF NoDoubleBooking
<1> QED BY <1>4, <1>5, <1>6

\* The calendar guarantee holds whatever the number of sessions, bookings and
\* guides and whatever the windows: every write of a row consults the constraint.
THEOREM CalendarSafe == Spec => []NoDoubleBooking
<1>1. Init => NoDoubleBooking
  BY DEF Init, NoDoubleBooking, OnCalendar, Exists
<1>2. IInv /\ NoDoubleBooking /\ [Next]_vars => NoDoubleBooking'
  <2> SUFFICES ASSUME IInv, NoDoubleBooking, [Next]_vars PROVE NoDoubleBooking'
    OBVIOUS
  <2> USE DEF IInv
  <2>1. ASSUME booking' = booking PROVE NoDoubleBooking'
    BY <2>1 DEF NoDoubleBooking, OnCalendar, Exists
  <2>2. ASSUME NEW t \in Txn, NEW b \in Booking, Insert(t, b) PROVE NoDoubleBooking'
    <3> DEFINE row == [tourist |-> txn[t].scope[1], guide |-> txn[t].payload.guide,
                       window |-> txn[t].payload.window, status |-> "PAYMENT_PENDING"]
    <3>1. booking' = [booking EXCEPT ![b] = row]
      BY <2>2 DEF Insert
    <3>2. ExclusionAllows(b, row)
      BY DEF ExclusionAllows, ActiveStatuses
    <3> HIDE DEF row
    <3> QED BY <3>1, <3>2, ExclusionKeepsCalendar
  <2>3. ASSUME NEW t \in Txn, CommitMove(t) PROVE NoDoubleBooking'
    <3> DEFINE b == txn[t].booking
               row == [booking[b] EXCEPT !.status = txn[t].to]
    <3>1. b \in Booking
      BY <2>3, TxnKinds DEF CommitMove, Move
    <3>2. booking' = [booking EXCEPT ![b] = row] /\ ExclusionAllows(b, row)
      BY <2>3 DEF CommitMove
    <3> HIDE DEF b, row
    <3> QED BY <3>1, <3>2, ExclusionKeepsCalendar
  <2>4. ASSUME NEW t \in Txn, AssignGuide(t) PROVE NoDoubleBooking'
    <3> DEFINE b == txn[t].booking
               row == [booking[b] EXCEPT !.guide = txn[t].guide]
    <3>1. b \in Booking
      BY <2>4, TxnKinds DEF AssignGuide, Assignment
    <3>2. booking' = [booking EXCEPT ![b] = row] /\ ExclusionAllows(b, row)
      BY <2>4 DEF AssignGuide
    <3> HIDE DEF b, row
    <3> QED BY <3>1, <3>2, ExclusionKeepsCalendar
  <2> QED BY <2>1, <2>2, <2>3, <2>4 DEF Next, Begin, Continue, vars, ClaimKey, Replay,
       CheckSlot, RejectSlot, LockForMove, RecheckSlot, RejectMove, LockForAssign,
       RejectAssign, Rollback
<1> QED BY <1>1, <1>2, Coherence, PTL DEF Spec
-----------------------------------------------------------------------------
\* The only steps that write a row with its event, as facts about that row.
LEMMA CommitFacts ==
  ASSUME IInv, NEW t \in Txn, CommitMove(t) \/ AssignGuide(t)
  PROVE  \E b \in Booking, row \in Row, e \in Event :
           /\ Exists(b) /\ booking[b] \in Row
           /\ booking' = [booking EXCEPT ![b] = row]
           /\ events' = [events EXCEPT ![b] = Append(@, e)]
           /\ e.from = booking[b].status /\ e.to = row.status
           /\ \/ /\ CanTransition(e.from, e.to)
                 /\ row.guide = booking[b].guide /\ row.window = booking[b].window
              \/ /\ e = [from |-> "CONFIRMED", to |-> "CONFIRMED"]
                 /\ booking[b].guide = NoGuide /\ row.window = booking[b].window
<1> USE DEF IInv
<1> DEFINE b == txn[t].booking
<1>1. CASE CommitMove(t)
  <2> DEFINE row == [booking[b] EXCEPT !.status = txn[t].to]
             e == [from |-> booking[b].status, to |-> txn[t].to]
  <2>1. b \in Booking /\ txn[t].to \in Statuses /\ Exists(b)
        /\ CanTransition(booking[b].status, txn[t].to)
    BY <1>1, TxnKinds DEF CommitMove, Move, LockInv
  <2>2. booking[b] \in Row
    BY <2>1, RowTyped
  <2>3. row \in Row /\ e \in Event /\ row.status = txn[t].to
        /\ row.guide = booking[b].guide /\ row.window = booking[b].window
    BY <2>1, <2>2 DEF Row, Event
  <2>4. booking' = [booking EXCEPT ![b] = row] /\ events' = [events EXCEPT ![b] = Append(@, e)]
    BY <1>1 DEF CommitMove
  <2>5. e.from = booking[b].status /\ e.to = row.status /\ CanTransition(e.from, e.to)
    BY <2>1, <2>3
  <2> HIDE DEF row, e, b
  <2> QED BY <2>1, <2>2, <2>3, <2>4, <2>5
<1>2. CASE AssignGuide(t)
  <2> DEFINE row == [booking[b] EXCEPT !.guide = txn[t].guide]
             e == [from |-> "CONFIRMED", to |-> "CONFIRMED"]
  <2>1. b \in Booking /\ txn[t].guide \in Guide /\ Exists(b)
        /\ booking[b].status = "CONFIRMED" /\ booking[b].guide = NoGuide
    BY <1>2, TxnKinds DEF AssignGuide, Assignment, LockInv
  <2>2. booking[b] \in Row
    BY <2>1, RowTyped
  <2>3. row \in Row /\ e \in Event /\ row.status = "CONFIRMED"
        /\ row.window = booking[b].window
    BY <2>1, <2>2 DEF Row, Event, Statuses, ActiveStatuses
  <2>4. booking' = [booking EXCEPT ![b] = row] /\ events' = [events EXCEPT ![b] = Append(@, e)]
    BY <1>2 DEF AssignGuide
  <2>5. e.from = booking[b].status /\ e.to = row.status
    BY <2>1, <2>3
  <2>6. e = [from |-> "CONFIRMED", to |-> "CONFIRMED"]
    OBVIOUS
  <2> HIDE DEF row, e, b
  <2> QED BY <2>1, <2>2, <2>3, <2>4, <2>5, <2>6
<1> QED BY <1>1, <1>2

\* A booking with a confirming event is no longer one that awaits payment.
Settled ==
  \A b \in Booking : \A i \in 1 .. Len(events[b]) :
    Confirming(events[b][i]) => Exists(b) /\ booking[b].status \notin UnpaidStatuses

HistoryInv == HistoryIsPath /\ Settled /\ ConfirmedOnce

\* Appending a legal event to one booking's history.
LEMMA HistoryAppend ==
  ASSUME IInv, HistoryInv, NEW b \in Booking, NEW row \in Row, NEW e \in Event,
         Exists(b), booking[b] \in Row,
         booking' = [booking EXCEPT ![b] = row],
         events' = [events EXCEPT ![b] = Append(@, e)],
         e.from = booking[b].status, e.to = row.status,
         CanTransition(e.from, e.to) \/ e = [from |-> "CONFIRMED", to |-> "CONFIRMED"]
  PROVE  HistoryInv'
<1> DEFINE h == events[b]
<1>1. h \in Seq(Event) /\ Len(h) \in Nat /\ Len(h) >= 2
  BY DEF IInv, TypeOK, HistoryInv, HistoryIsPath, IsPathTo
<1>2. /\ events'[b] = Append(h, e) /\ booking'[b] = row /\ Exists(b)'
      /\ \A c \in Booking : c # b => events'[c] = events[c] /\ booking'[c] = booking[c]
  <2>1. row # None
    BY NoneIsFresh
  <2> QED BY <2>1 DEF IInv, TypeOK, Exists
<1>3. /\ Len(Append(h, e)) = Len(h) + 1
      /\ Append(h, e)[Len(h) + 1] = e
      /\ \A i \in 1 .. Len(h) : Append(h, e)[i] = h[i]
  BY <1>1
<1>4. /\ h[1] = [from |-> None, to |-> "DRAFT"]
      /\ h[Len(h)].to = e.from
      /\ \A i \in 2 .. Len(h) :
           /\ h[i].from = h[i-1].to
           /\ CanTransition(h[i].from, h[i].to) \/ h[i] = [from |-> "CONFIRMED", to |-> "CONFIRMED"]
  BY DEF HistoryInv, HistoryIsPath, IsPathTo
<1>5. e.from \in Statuses /\ e.to \in Statuses
  BY DEF Row
<1> HIDE DEF h
<1>6. HistoryIsPath'
  <2> DEFINE g == Append(h, e)
  <2>1. /\ Len(g) >= 2 /\ g[1] = [from |-> None, to |-> "DRAFT"]
        /\ g[Len(g)].to = row.status
    BY <1>1, <1>3, <1>4
  <2>2. ASSUME NEW i \in 2 .. Len(g)
        PROVE  /\ g[i].from = g[i-1].to
               /\ CanTransition(g[i].from, g[i].to) \/ g[i] = [from |-> "CONFIRMED", to |-> "CONFIRMED"]
    <3>1. CASE i \in 2 .. Len(h)
      <4>1. i - 1 \in 1 .. Len(h) /\ i \in 1 .. Len(h)
        BY <1>1, <3>1
      <4> QED BY <1>3, <1>4, <3>1, <4>1
    <3>2. CASE i = Len(h) + 1
      <4>1. i - 1 = Len(h) /\ i - 1 \in 1 .. Len(h)
        BY <1>1, <3>2
      <4>2. g[i] = e /\ g[i-1] = h[Len(h)]
        BY <1>3, <3>2, <4>1
      <4> QED BY <1>4, <4>2
    <3> QED BY <1>1, <1>3, <3>1, <3>2
  <2> HIDE DEF g
  <2>3. events'[b] = g
    BY <1>2 DEF g
  <2>7. IsPathTo(g, row.status)
    BY <2>1, <2>2 DEF IsPathTo
  <2>4. ASSUME NEW c \in Booking, c # b
        PROVE  /\ events'[c] = events[c] /\ booking'[c] = booking[c]
               /\ Exists(c)' <=> Exists(c)
    BY <1>2, <2>4 DEF Exists
  <2> SUFFICES ASSUME NEW c \in Booking
               PROVE  IF Exists(c)' THEN IsPathTo(events'[c], booking'[c].status)
                      ELSE events'[c] = << >>
    BY DEF HistoryIsPath
  <2>5. CASE c = b
    BY <1>2, <2>3, <2>5, <2>7
  <2>6. CASE c # b
    BY <2>4, <2>6 DEF HistoryInv, HistoryIsPath
  <2> QED BY <2>5, <2>6
<1>7. Confirming(e) => e.from = "PAYMENT_PENDING" /\ e.to = "CONFIRMED"
  BY <1>5, Edges DEF Confirming
<1>8. \A i \in 1 .. Len(h) : Confirming(h[i]) => e.from \notin UnpaidStatuses
  BY DEF HistoryInv, Settled, h
<1>9. Settled'
  <2>1. e.from \notin UnpaidStatuses => e.to \notin UnpaidStatuses
    BY <1>5, Edges DEF UnpaidStatuses
  <2>2. ASSUME NEW i \in 1 .. Len(Append(h, e)), Confirming(Append(h, e)[i])
        PROVE  row.status \notin UnpaidStatuses
    <3>1. CASE i \in 1 .. Len(h)
      BY <1>3, <1>8, <2>1, <2>2, <3>1
    <3>2. CASE i = Len(h) + 1
      BY <1>3, <1>7, <2>2, <3>2 DEF UnpaidStatuses
    <3> QED BY <1>1, <1>3, <3>1, <3>2
  <2>3. \A c \in Booking : c # b => (Exists(c)' <=> Exists(c))
    BY <1>2 DEF Exists
  <2> QED BY <1>2, <2>2, <2>3 DEF HistoryInv, Settled
<1>10. ConfirmedOnce'
  <2>1. Confirming(e) => \A i \in 1 .. Len(h) : ~Confirming(h[i])
    BY <1>7, <1>8 DEF UnpaidStatuses
  <2>2. \A i, j \in 1 .. Len(h) : Confirming(h[i]) /\ Confirming(h[j]) => i = j
    BY DEF HistoryInv, ConfirmedOnce, h
  <2>3. \A i, j \in 1 .. Len(Append(h, e)) :
          Confirming(Append(h, e)[i]) /\ Confirming(Append(h, e)[j]) => i = j
    <3> TAKE i, j \in 1 .. Len(Append(h, e))
    <3> HAVE Confirming(Append(h, e)[i]) /\ Confirming(Append(h, e)[j])
    <3>1. \A k \in 1 .. Len(Append(h, e)) : k \in 1 .. Len(h) \/ k = Len(h) + 1
      BY <1>1, <1>3
    <3>2. CASE i \in 1 .. Len(h) /\ j \in 1 .. Len(h)
      BY <1>3, <2>2, <3>2
    <3>3. CASE i = Len(h) + 1 /\ j \in 1 .. Len(h)
      BY <1>3, <2>1, <3>3
    <3>4. CASE i \in 1 .. Len(h) /\ j = Len(h) + 1
      BY <1>3, <2>1, <3>4
    <3> QED BY <3>1, <3>2, <3>3, <3>4
  <2>4. ASSUME NEW c \in Booking
        PROVE  \A i, j \in 1 .. Len(events'[c]) :
                 Confirming(events'[c][i]) /\ Confirming(events'[c][j]) => i = j
    <3>1. CASE c = b
      BY <1>2, <2>3, <3>1
    <3>2. CASE c # b
      BY <1>2, <3>2 DEF HistoryInv, ConfirmedOnce
    <3> QED BY <3>1, <3>2
  <2> QED BY <2>4 DEF ConfirmedOnce
<1> QED BY <1>6, <1>9, <1>10 DEF HistoryInv

\* The two events of a creation make a history.
LEMMA HistoryInsert ==
  ASSUME IInv, HistoryInv, NEW t \in Txn, NEW b \in Booking, Insert(t, b)
  PROVE  HistoryInv'
<1> DEFINE h == << [from |-> None, to |-> "DRAFT"], [from |-> "DRAFT", to |-> "PAYMENT_PENDING"] >>
<1>1. /\ events'[b] = h /\ Exists(b)' /\ booking'[b].status = "PAYMENT_PENDING"
      /\ \A c \in Booking : c # b =>
           /\ events'[c] = events[c] /\ booking'[c] = booking[c]
           /\ Exists(c)' <=> Exists(c)
  <2> DEFINE row == [tourist |-> txn[t].scope[1], guide |-> txn[t].payload.guide,
                     window |-> txn[t].payload.window, status |-> "PAYMENT_PENDING"]
  <2>1. booking' = [booking EXCEPT ![b] = row] /\ events' = [events EXCEPT ![b] = h]
    BY DEF Insert
  <2>2. row \in Row
    <3>1. txn[t].scope \in Scope /\ txn[t].payload \in Payload
      BY TxnKinds DEF IInv, Insert, Creation
    <3> QED BY <3>1 DEF Scope, Row, Payload, Statuses, UnpaidStatuses
  <2>3. row # None
    BY <2>2, NoneIsFresh
  <2>4. row.status = "PAYMENT_PENDING"
    OBVIOUS
  <2> HIDE DEF row, h
  <2> QED BY <2>1, <2>3, <2>4 DEF IInv, TypeOK, Exists
<1>2. Len(h) = 2 /\ h[1] = [from |-> None, to |-> "DRAFT"]
      /\ h[2] = [from |-> "DRAFT", to |-> "PAYMENT_PENDING"]
  OBVIOUS
<1>3. CanTransition("DRAFT", "PAYMENT_PENDING")
  BY DEF CanTransition, transitions, Statuses, UnpaidStatuses, ActiveStatuses,
         ClosedStatuses, CancelledStatuses
<1>4. \A i \in 1 .. Len(h) : ~Confirming(h[i])
  BY <1>2 DEF Confirming
<1> HIDE DEF h
<1>5. HistoryIsPath'
  <2>1. \A i \in 2 .. Len(h) : i = 2
    BY <1>2
  <2>2. \A i \in 2 .. Len(h) :
          /\ h[i].from = h[i-1].to
          /\ CanTransition(h[i].from, h[i].to) \/ h[i] = [from |-> "CONFIRMED", to |-> "CONFIRMED"]
    BY <1>2, <1>3, <2>1
  <2>3. Len(h) >= 2 /\ h[Len(h)].to = "PAYMENT_PENDING"
    BY <1>2
  <2>7. IsPathTo(h, "PAYMENT_PENDING")
    BY <1>2, <2>2, <2>3 DEF IsPathTo
  <2>4. ASSUME NEW c \in Booking, c # b
        PROVE  /\ events'[c] = events[c] /\ booking'[c] = booking[c]
               /\ Exists(c)' <=> Exists(c)
    BY <1>1, <2>4
  <2> SUFFICES ASSUME NEW c \in Booking
               PROVE  IF Exists(c)' THEN IsPathTo(events'[c], booking'[c].status)
                      ELSE events'[c] = << >>
    BY DEF HistoryIsPath
  <2>5. CASE c = b
    BY <1>1, <2>5, <2>7
  <2>6. CASE c # b
    BY <2>4, <2>6 DEF HistoryInv, HistoryIsPath
  <2> QED BY <2>5, <2>6
<1>6. Settled'
  <2> SUFFICES ASSUME NEW c \in Booking, NEW i \in 1 .. Len(events'[c]), Confirming(events'[c][i])
               PROVE  Exists(c)' /\ booking'[c].status \notin UnpaidStatuses
    BY DEF Settled
  <2>1. c # b
    BY <1>1, <1>4
  <2>2. events'[c] = events[c] /\ booking'[c] = booking[c] /\ (Exists(c)' <=> Exists(c))
    BY <1>1, <2>1
  <2> QED BY <2>2 DEF HistoryInv, Settled
<1>7. ConfirmedOnce'
  <2> SUFFICES ASSUME NEW c \in Booking, NEW i \in 1 .. Len(events'[c]), NEW j \in 1 .. Len(events'[c]),
                      Confirming(events'[c][i]), Confirming(events'[c][j])
               PROVE  i = j
    BY DEF ConfirmedOnce
  <2> QED BY <1>1, <1>4 DEF HistoryInv, ConfirmedOnce
<1> QED BY <1>5, <1>6, <1>7 DEF HistoryInv

LEMMA HistoryInductive == IInv /\ HistoryInv /\ [Next]_vars => HistoryInv'
<1> SUFFICES ASSUME IInv, HistoryInv, [Next]_vars PROVE HistoryInv'
  OBVIOUS
<1>1. ASSUME NEW t \in Txn, CommitMove(t) \/ AssignGuide(t) PROVE HistoryInv'
  BY <1>1, CommitFacts, HistoryAppend
<1>2. ASSUME NEW t \in Txn, NEW b \in Booking, Insert(t, b) PROVE HistoryInv'
  BY <1>2, HistoryInsert
<1>3. ASSUME UNCHANGED <<booking, events>> PROVE HistoryInv'
  BY <1>3 DEF HistoryInv, HistoryIsPath, Settled, ConfirmedOnce, Exists
<1> QED BY <1>1, <1>2, <1>3 DEF Next, Begin, Continue, vars, ClaimKey, Replay,
       CheckSlot, RejectSlot, LockForMove, RecheckSlot, RejectMove, LockForAssign,
       RejectAssign, Rollback

LEMMA HistoryInit == Init => HistoryInv
  BY DEF Init, HistoryInv, HistoryIsPath, Settled, ConfirmedOnce, Exists

\* The immutable status history is a path of the state machine, in every
\* interleaving of the transactions that write it.
THEOREM HistorySafe == Spec => []HistoryIsPath
<1>1. HistoryInv => HistoryIsPath
  BY DEF HistoryInv
<1> QED BY <1>1, HistoryInit, HistoryInductive, Coherence, PTL DEF Spec

\* No sequence of payments, overrides and refunds confirms a booking twice.
THEOREM ConfirmationSafe == Spec => []ConfirmedOnce
<1>1. HistoryInv => ConfirmedOnce
  BY DEF HistoryInv
<1> QED BY <1>1, HistoryInit, HistoryInductive, Coherence, PTL DEF Spec
-----------------------------------------------------------------------------
\* Why one key answers with one booking: an answer repeats the committed claim
\* of its key, claims name different existing bookings, and a key in the hands
\* of a running creation is neither committed nor in a second session's hands.
KeyInv ==
  /\ \A r \in created :
       /\ claims[r.scope] # None
       /\ claims[r.scope].payload = r.payload /\ claims[r.scope].entity = r.booking
  /\ \A s \in Scope : claims[s] # None => Exists(claims[s].entity)
  /\ \A s, u \in Scope :
       claims[s] # None /\ claims[u] # None /\ claims[s].entity = claims[u].entity => s = u
  /\ \A t \in Txn : Running(t, "create") => claims[txn[t].scope] = None
  /\ \A t, u \in Txn :
       Running(t, "create") /\ Running(u, "create") /\ txn[t].scope = txn[u].scope => t = u

LEMMA KeyInit == Init => KeyInv
  BY DEF Init, KeyInv, Running

\* KeyInv speaks of creations, rows' existence, claims and answers only.
LEMMA KeyFrame ==
  ASSUME TypeOK, KeyInv, UNCHANGED <<claims, created>>,
         \A b \in Booking : Exists(b) => Exists(b)',
         \A t \in Txn : Running(t, "create")' =>
                         Running(t, "create") /\ txn'[t].scope = txn[t].scope
  PROVE  KeyInv'
<1>1. \A s \in Scope : claims[s] # None => claims[s].entity \in Booking
  BY DEF TypeOK, Claim
<1> QED BY <1>1 DEF KeyInv

LEMMA KeyStep == IInv /\ KeyInv /\ [Next]_vars => KeyInv'
<1> SUFFICES ASSUME IInv, KeyInv, [Next]_vars PROVE KeyInv'
  OBVIOUS
<1> USE DEF IInv
<1>1. ASSUME NEW t \in Txn, NEW s \in Scope, NEW p \in Payload, ClaimKey(t, s, p)
      PROVE  KeyInv'
  <2> DEFINE x == [kind |-> "create", scope |-> s, payload |-> p, checked |-> FALSE]
  <2>1. txn' = [txn EXCEPT ![t] = x] /\ UNCHANGED <<booking, claims, created>>
        /\ claims[s] = None /\ ~KeyHeld(s)
    BY <1>1 DEF ClaimKey
  <2>2. x.scope = s
    OBVIOUS
  <2>3. \A u \in Txn : txn'[u] = IF u = t THEN x ELSE txn[u]
    BY <2>1 DEF TypeOK
  <2> HIDE DEF x
  <2> QED BY <2>1, <2>2, <2>3 DEF KeyInv, Running, KeyHeld, Exists
<1>2. ASSUME NEW t \in Txn, NEW s \in Scope, NEW p \in Payload, Replay(t, s, p)
      PROVE  KeyInv'
  <2>1. /\ claims[s] # None /\ claims[s].payload = p
        /\ created' = created \cup {[scope |-> s, payload |-> p, booking |-> claims[s].entity]}
        /\ UNCHANGED <<booking, claims, txn>>
    BY <1>2 DEF Replay
  <2> QED BY <2>1 DEF KeyInv, Running, Exists
<1>3. ASSUME NEW t \in Txn, CheckSlot(t) \/ RecheckSlot(t) PROVE KeyInv'
  <2>1. txn' = [txn EXCEPT ![t].checked = TRUE] /\ UNCHANGED <<booking, claims, created>>
    BY <1>3 DEF CheckSlot, RecheckSlot
  <2>2. txn[t] \in Creation \cup Move
    BY <1>3, TxnKinds DEF CheckSlot, RecheckSlot
  <2>3. \A u \in Txn : u # t => txn'[u] = txn[u]
    BY <2>1 DEF TypeOK
  <2>4. txn'[t] = [txn[t] EXCEPT !.checked = TRUE]
    BY <2>1 DEF TypeOK
  <2>5. txn[t] # None
    BY <1>3 DEF CheckSlot, RecheckSlot, Running
  <2>6. Running(t, "create")' => Running(t, "create") /\ txn'[t].scope = txn[t].scope
    BY <2>2, <2>4, <2>5 DEF Running, Creation, Move
  <2>7. \A u \in Txn : Running(u, "create")' =>
                         Running(u, "create") /\ txn'[u].scope = txn[u].scope
    BY <2>3, <2>6 DEF Running
  <2> QED BY <2>1, <2>7, KeyFrame DEF Exists
<1>4. ASSUME NEW t \in Txn, UNCHANGED <<claims, created>>, End(t),
             \A b \in Booking : Exists(b) => Exists(b)'
      PROVE  KeyInv'
  <2>1. \A u \in Txn : txn'[u] = IF u = t THEN None ELSE txn[u]
    BY <1>4 DEF End, TypeOK
  <2> QED BY <1>4, <2>1, KeyFrame DEF Running
<1>5. ASSUME NEW t \in Txn, NEW b \in Booking, Insert(t, b) PROVE KeyInv'
  <2> DEFINE s == txn[t].scope
             p == txn[t].payload
             row == [tourist |-> s[1], guide |-> p.guide, window |-> p.window,
                     status |-> "PAYMENT_PENDING"]
             c == [payload |-> p, entity |-> b]
  <2>1. s \in Scope /\ p \in Payload /\ Running(t, "create") /\ ~Exists(b)
    BY <1>5, TxnKinds DEF Insert, Creation
  <2>2. row \in Row /\ c \in Claim
    BY <2>1 DEF Scope, Row, Payload, Statuses, UnpaidStatuses, Claim
  <2>3. row # None /\ c # None
    BY <2>2, NoneIsFresh
  <2>4. /\ booking' = [booking EXCEPT ![b] = row] /\ claims' = [claims EXCEPT ![s] = c]
        /\ created' = created \cup {[scope |-> s, payload |-> p, booking |-> b]}
        /\ txn' = [txn EXCEPT ![t] = None]
    BY <1>5 DEF Insert, End
  <2>5. c.payload = p /\ c.entity = b
    OBVIOUS
  <2> HIDE DEF row, c
  <2>6. \A a \in Booking : booking'[a] # None <=> a = b \/ Exists(a)
    BY <2>3, <2>4 DEF TypeOK, Exists
  <2>7. \A u \in Scope : claims'[u] = IF u = s THEN c ELSE claims[u]
    BY <2>4 DEF TypeOK
  <2>8. \A u \in Txn : txn'[u] = IF u = t THEN None ELSE txn[u]
    BY <2>4 DEF TypeOK
  <2>9. claims[s] = None /\ \A u \in Txn : u # t /\ Running(u, "create") => txn[u].scope # s
    BY <2>1 DEF KeyInv
  <2>10. \A u \in Scope : claims[u] # None => claims[u].entity \in Booking /\ claims[u].entity # b
    BY <2>1 DEF KeyInv, TypeOK, Claim
  <2>11. \A r \in created : r.scope \in Scope
    BY DEF TypeOK
  <2>12. \A r \in created' : /\ claims'[r.scope] # None
                             /\ claims'[r.scope].payload = r.payload
                             /\ claims'[r.scope].entity = r.booking
    <3>1. \A r \in created : r.scope # s
      BY <2>9 DEF KeyInv
    <3>2. \A r \in created : claims'[r.scope] = claims[r.scope]
      BY <2>7, <2>11, <3>1
    <3> QED BY <2>1, <2>3, <2>4, <2>5, <2>7, <3>2 DEF KeyInv
  <2>13. \A u \in Scope : claims'[u] # None => booking'[claims'[u].entity] # None
    BY <2>5, <2>6, <2>7, <2>10 DEF KeyInv
  <2>14. \A u, v \in Scope :
          claims'[u] # None /\ claims'[v] # None /\ claims'[u].entity = claims'[v].entity => u = v
    BY <2>5, <2>7, <2>10 DEF KeyInv
  <2>15. \A u \in Txn : Running(u, "create")' =>
           /\ Running(u, "create") /\ txn'[u] = txn[u] /\ txn[u].scope \in Scope
           /\ txn[u].scope # s
    BY <2>8, <2>9, TxnKinds DEF Running, Creation
  <2> HIDE DEF s, p
  <2> QED BY <2>7, <2>12, <2>13, <2>14, <2>15 DEF KeyInv, Exists
<1>6. ASSUME NEW t \in Txn, NEW x, x.kind # "create", txn' = [txn EXCEPT ![t] = x],
             UNCHANGED <<booking, claims, created>>
      PROVE  KeyInv'
  <2>1. \A u \in Txn : txn'[u] = IF u = t THEN x ELSE txn[u]
    BY <1>6 DEF TypeOK
  <2> QED BY <1>6, <2>1, KeyFrame DEF Running, Exists
<1>7. ASSUME NEW t \in Txn, CommitMove(t) \/ AssignGuide(t) PROVE KeyInv'
  <2>1. \E b \in Booking, row \in Row : booking' = [booking EXCEPT ![b] = row]
    BY <1>7, CommitFacts
  <2>2. \A b \in Booking : Exists(b) => Exists(b)'
    BY <2>1, NoneIsFresh DEF Exists, TypeOK
  <2> QED BY <1>4, <1>7, <2>2 DEF CommitMove, AssignGuide
<1>8. ASSUME NEW t \in Txn, RejectSlot(t) \/ RejectMove(t) \/ RejectAssign(t) \/ Rollback(t)
      PROVE  KeyInv'
  BY <1>4, <1>8 DEF RejectSlot, RejectMove, RejectAssign, Rollback, Exists
<1>9. ASSUME NEW t \in Txn, NEW b \in Booking, NEW to \in Statuses, LockForMove(t, b, to)
      PROVE  KeyInv'
  BY <1>6, <1>9 DEF LockForMove
<1>10. ASSUME NEW t \in Txn, NEW b \in Booking, NEW g \in Guide, LockForAssign(t, b, g)
      PROVE  KeyInv'
  BY <1>6, <1>10 DEF LockForAssign
<1>11. CASE UNCHANGED vars
  BY <1>11 DEF vars, KeyInv, Running, Exists
<1> QED
  BY <1>1, <1>2, <1>3, <1>5, <1>7, <1>8, <1>9, <1>10, <1>11 DEF Next, Begin, Continue

\* Idempotent creation, for any number of racing sessions, keys and tourists.
THEOREM CreationSafe == Spec => []OneBookingPerKey
<1>1. TypeOK /\ KeyInv => OneBookingPerKey
  <2> SUFFICES ASSUME TypeOK, KeyInv, NEW r \in created, NEW q \in created,
                      r.scope = q.scope \/ r.booking = q.booking
               PROVE  r = q
    BY DEF OneBookingPerKey
  <2>1. /\ r \in [scope : Scope, payload : Payload, booking : Booking]
        /\ q \in [scope : Scope, payload : Payload, booking : Booking]
    BY DEF TypeOK
  <2>2. r.scope = q.scope
    BY <2>1 DEF KeyInv
  <2>3. r.payload = q.payload /\ r.booking = q.booking
    BY <2>2 DEF KeyInv
  <2> QED BY <2>1, <2>2, <2>3
<1> QED BY <1>1, KeyInit, KeyStep, Coherence, TypeCorrect, PTL DEF Spec
-----------------------------------------------------------------------------
\* A write of one row changes that booking's slot only.
LEMMA SlotFrame ==
  ASSUME TypeOK, NEW b \in Booking, NEW row \in Row, booking' = [booking EXCEPT ![b] = row]
  PROVE  /\ booking'[b] = row /\ row # None
         /\ \A c \in Booking : c # b => booking'[c] = booking[c] /\ SlotOf(c)' = SlotOf(c)
         /\ Closed' = IF row.status \in ClosedStatuses THEN Closed \cup {b} ELSE Closed \ {b}
<1>1. booking'[b] = row /\ row # None /\ \A c \in Booking : c # b => booking'[c] = booking[c]
  BY NoneIsFresh DEF TypeOK
<1>2. \A c \in Booking : c # b => SlotOf(c)' = SlotOf(c)
  BY <1>1 DEF SlotOf, OnCalendar, Exists
<1>3. Closed' = IF row.status \in ClosedStatuses THEN Closed \cup {b} ELSE Closed \ {b}
  BY <1>1 DEF Closed, Exists
<1> QED BY <1>1, <1>2, <1>3

\* A committed move or assignment is a step of the calendar, or leaves it alone.
LEMMA CalendarCommit ==
  ASSUME IInv, NoDoubleBooking', NEW b \in Booking, NEW row \in Row, NEW e \in Event,
         Exists(b), booking[b] \in Row,
         booking' = [booking EXCEPT ![b] = row],
         e.from = booking[b].status, e.to = row.status,
         \/ /\ CanTransition(e.from, e.to)
            /\ row.guide = booking[b].guide /\ row.window = booking[b].window
         \/ /\ e = [from |-> "CONFIRMED", to |-> "CONFIRMED"]
            /\ booking[b].guide = NoGuide /\ row.window = booking[b].window
  PROVE  [Calendar!Next]_(Calendar!calendarVars)
<1> DEFINE slot == [c \in Booking |-> SlotOf(c)]
           s == booking[b].status
<1> USE DEF IInv
<1>1. /\ booking'[b] = row /\ row # None
      /\ \A c \in Booking : c # b => booking'[c] = booking[c] /\ SlotOf(c)' = SlotOf(c)
      /\ Closed' = IF row.status \in ClosedStatuses THEN Closed \cup {b} ELSE Closed \ {b}
  BY SlotFrame
<1>2. s \in Statuses /\ row.status \in Statuses
  BY DEF Row
<1>3. /\ SlotOf(b) = IF s \in ActiveStatuses /\ booking[b].guide # NoGuide
                     THEN [guide |-> booking[b].guide, window |-> booking[b].window] ELSE None
      /\ SlotOf(b)' = IF row.status \in ActiveStatuses /\ row.guide # NoGuide
                      THEN [guide |-> row.guide, window |-> row.window] ELSE None
      /\ b \in Closed <=> s \in ClosedStatuses
  BY <1>1 DEF SlotOf, OnCalendar, Exists, Closed
<1>4. \A x \in ActiveStatuses : x \notin ClosedStatuses /\ x \notin UnpaidStatuses
  BY DEF ActiveStatuses, ClosedStatuses, UnpaidStatuses, CancelledStatuses
<1>5. "CONFIRMED" \in ActiveStatuses
  BY DEF ActiveStatuses
<1>6. Statuses = UnpaidStatuses \cup ActiveStatuses \cup ClosedStatuses
  BY DEF Statuses
<1>7. CanTransition(s, row.status) =>
        /\ s \notin UnpaidStatuses => row.status \notin UnpaidStatuses
        /\ s \in ClosedStatuses => row.status \in ClosedStatuses
  BY <1>2, Edges
<1>8. CASE row.status \in ClosedStatuses /\ s \notin ClosedStatuses
  <2>1. b \notin Closed /\ Closed' = Closed \cup {b}
    BY <1>1, <1>3, <1>8
  <2>2. [c \in Booking |-> SlotOf(c)]' = [slot EXCEPT ![b] = None]
    BY <1>1, <1>3, <1>4, <1>8
  <2>3. Calendar!Close(b)
    BY <2>1, <2>2 DEF Calendar!Close
  <2> QED BY <2>3 DEF Calendar!Next
<1>9. CASE SlotOf(b)' = SlotOf(b) /\ (row.status \in ClosedStatuses <=> s \in ClosedStatuses)
  <2>1. Closed' = Closed
    BY <1>1, <1>3, <1>9
  <2>2. [c \in Booking |-> SlotOf(c)]' = slot
    BY <1>1, <1>9
  <2> QED BY <2>1, <2>2 DEF Calendar!calendarVars
<1>10. CASE /\ s \notin ClosedStatuses /\ SlotOf(b) = None
            /\ row.status \in ActiveStatuses /\ row.guide # NoGuide
  <2> DEFINE new == [guide |-> row.guide, window |-> row.window]
  <2>1. new \in Calendar!Slot
    BY <1>10 DEF Row, Calendar!Slot
  <2>2. SlotOf(b)' = new /\ OnCalendar(b)'
    BY <1>1, <1>3, <1>10 DEF OnCalendar, Exists
  <2>3. [c \in Booking |-> SlotOf(c)]' = [slot EXCEPT ![b] = new]
    BY <1>1, <2>2
  <2>4. b \notin Closed /\ Closed' = Closed
    BY <1>1, <1>3, <1>4, <1>10
  <2>5. ASSUME NEW other \in Booking, slot[other] # None
        PROVE  ~(slot[other].guide = new.guide /\ Calendar!Overlaps(slot[other].window, new.window))
    <3>1. other # b
      BY <1>10, <2>5
    <3>2. OnCalendar(other) /\ slot[other] = [guide |-> booking[other].guide,
                                             window |-> booking[other].window]
      BY <2>5 DEF SlotOf
    <3>3. OnCalendar(other)' /\ booking'[other] = booking[other]
      BY <1>1, <3>1, <3>2 DEF OnCalendar, Exists
    <3>4. booking'[other].guide = booking'[b].guide
            => ~Overlaps(booking'[other].window, booking'[b].window)
      BY <2>2, <3>1, <3>3 DEF NoDoubleBooking
    <3> QED BY <1>1, <3>2, <3>3, <3>4 DEF Overlaps, Calendar!Overlaps
  <2>6. slot[b] = None
    BY <1>10
  <2> HIDE DEF new
  <2>7. \E x \in Calendar!Slot :
          /\ \A other \in Booking : slot[other] # None =>
               ~(slot[other].guide = x.guide /\ Calendar!Overlaps(slot[other].window, x.window))
          /\ [c \in Booking |-> SlotOf(c)]' = [slot EXCEPT ![b] = x]
    <3> HIDE DEF slot
    <3> QED BY <2>1, <2>3, <2>5
  <2>8. Calendar!Take(b)
    BY <2>4, <2>6, <2>7 DEF Calendar!Take
  <2> QED BY <2>8 DEF Calendar!Next
<1>11. CASE e = [from |-> "CONFIRMED", to |-> "CONFIRMED"] /\ booking[b].guide = NoGuide
  <2>1. s = "CONFIRMED" /\ row.status = "CONFIRMED"
    BY <1>11
  <2>2. SlotOf(b) = None
    BY <1>3, <1>11
  <2>3. CASE row.guide = NoGuide
    BY <1>3, <1>9, <2>1, <2>2, <2>3
  <2>4. CASE row.guide # NoGuide
    BY <1>4, <1>5, <1>10, <2>1, <2>2, <2>4
  <2> QED BY <2>3, <2>4
<1>12. CASE /\ CanTransition(s, row.status)
            /\ row.guide = booking[b].guide /\ row.window = booking[b].window
  <2>1. CASE s \in ClosedStatuses
    BY <1>3, <1>4, <1>7, <1>9, <1>12, <2>1
  <2>2. CASE s \notin ClosedStatuses /\ row.status \notin ClosedStatuses
    <3>1. CASE s \in ActiveStatuses
      <4>1. row.status \in ActiveStatuses
        BY <1>2, <1>4, <1>6, <1>7, <1>12, <2>2, <3>1
      <4> QED BY <1>3, <1>9, <1>12, <2>2, <3>1, <4>1
    <3>2. CASE s \notin ActiveStatuses
      <4>1. SlotOf(b) = None
        BY <1>3, <3>2
      <4>2. CASE row.status \in ActiveStatuses /\ row.guide # NoGuide
        BY <1>10, <2>2, <4>1, <4>2
      <4>3. CASE ~(row.status \in ActiveStatuses /\ row.guide # NoGuide)
        BY <1>3, <1>9, <2>2, <4>1, <4>3
      <4> QED BY <4>2, <4>3
    <3> QED BY <3>1, <3>2
  <2> QED BY <1>8, <2>1, <2>2
<1> QED BY <1>11, <1>12

\* The rows, their locks, the overlap queries and the exclusion constraint
\* implement the guide's calendar.
THEOREM CalendarRefinement == Spec => CalendarSpec
<1>1. Init => Calendar!Init
  BY DEF Init, Calendar!Init, SlotOf, OnCalendar, Exists, Closed
<1>2. IInv /\ NoDoubleBooking' /\ [Next]_vars => [Calendar!Next]_(Calendar!calendarVars)
  <2> SUFFICES ASSUME IInv, NoDoubleBooking', [Next]_vars
               PROVE  [Calendar!Next]_(Calendar!calendarVars)
    OBVIOUS
  <2>1. ASSUME NEW t \in Txn, CommitMove(t) \/ AssignGuide(t)
        PROVE  [Calendar!Next]_(Calendar!calendarVars)
    BY <2>1, CommitFacts, CalendarCommit
  <2>2. ASSUME NEW t \in Txn, NEW b \in Booking, Insert(t, b)
        PROVE  [Calendar!Next]_(Calendar!calendarVars)
    <3> DEFINE row == [tourist |-> txn[t].scope[1], guide |-> txn[t].payload.guide,
                       window |-> txn[t].payload.window, status |-> "PAYMENT_PENDING"]
    <3>1. txn[t].scope \in Scope /\ txn[t].payload \in Payload
      BY <2>2, TxnKinds DEF IInv, Insert, Creation
    <3>2. row \in Row /\ row.status \notin ActiveStatuses /\ row.status \notin ClosedStatuses
      BY <3>1 DEF Scope, Row, Payload, Statuses, UnpaidStatuses, ActiveStatuses,
                  ClosedStatuses, CancelledStatuses
    <3>3. booking' = [booking EXCEPT ![b] = row] /\ ~Exists(b)
      BY <2>2 DEF Insert
    <3> HIDE DEF row
    <3>4. /\ booking'[b] = row /\ row # None
          /\ \A c \in Booking : c # b => booking'[c] = booking[c] /\ SlotOf(c)' = SlotOf(c)
          /\ Closed' = Closed \ {b}
      BY <3>2, <3>3, SlotFrame DEF IInv
    <3>5. SlotOf(b) = None /\ SlotOf(b)' = None /\ b \notin Closed
      BY <3>2, <3>3, <3>4 DEF SlotOf, OnCalendar, Closed, Exists
    <3>6. [c \in Booking |-> SlotOf(c)]' = [c \in Booking |-> SlotOf(c)] /\ Closed' = Closed
      BY <3>4, <3>5
    <3> QED BY <3>6 DEF Calendar!calendarVars
  <2>3. ASSUME booking' = booking PROVE [Calendar!Next]_(Calendar!calendarVars)
    <3>1. [c \in Booking |-> SlotOf(c)]' = [c \in Booking |-> SlotOf(c)] /\ Closed' = Closed
      BY <2>3 DEF SlotOf, OnCalendar, Exists, Closed
    <3> QED BY <3>1 DEF Calendar!calendarVars
  <2> QED BY <2>1, <2>2, <2>3 DEF Next, Begin, Continue, vars, ClaimKey, Replay,
       CheckSlot, RejectSlot, LockForMove, RecheckSlot, RejectMove, LockForAssign,
       RejectAssign, Rollback
<1> QED BY <1>1, <1>2, Coherence, CalendarSafe, PTL DEF Spec, CalendarSpec, Calendar!Spec
=============================================================================
