---------------------------- MODULE BookingMoney -----------------------------
(***************************************************************************)
(* What the payments component promises of its records of each booking's     *)
(* money, against what the provider really did.  The books capture a payment *)
(* only after the provider took it, at most one for a booking, for good; the  *)
(* provider is asked to give back captured money only, and the books record  *)
(* that a payment was given back once, after the provider did.               *)
(*                                                                         *)
(* It promises nothing of how often the provider takes or gives: it may take  *)
(* several payments of a booking, of which the books capture one, and give a  *)
(* captured payment back again, or without the books ever learning of it.    *)
(***************************************************************************)
CONSTANTS Booking, Payment, Nothing

VARIABLES
  books,  \* what is recorded of a booking: nothing, or its captured payment
  taken,  \* provider: payments taken from tourists
  given   \* provider: payments given back, once or more

Init == books = [b \in Booking |-> Nothing] /\ taken = {} /\ given = {}

InBooks(b, p) == books[b] # Nothing /\ books[b].payment = p

Take(p) == taken' = taken \cup {p} /\ UNCHANGED <<books, given>>

Give(p) ==
  /\ \E b \in Booking : InBooks(b, p)
  /\ given' = given \cup {p}
  /\ UNCHANGED <<books, taken>>

Capture(b, p) ==
  /\ p \in taken
  /\ books[b] = Nothing /\ \A c \in Booking : ~InBooks(c, p)
  /\ books' = [books EXCEPT ![b] = [payment |-> p, back |-> FALSE]]
  /\ UNCHANGED <<taken, given>>

RecordBack(b) ==
  /\ books[b] # Nothing /\ ~books[b].back /\ books[b].payment \in given
  /\ books' = [books EXCEPT ![b].back = TRUE]
  /\ UNCHANGED <<taken, given>>

Next ==
  \/ \E p \in Payment : Take(p) \/ Give(p) \/ \E b \in Booking : Capture(b, p)
  \/ \E b \in Booking : RecordBack(b)

Spec == Init /\ [][Next]_<<books, taken, given>>
=============================================================================
