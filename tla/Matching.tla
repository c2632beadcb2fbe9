------------------------------- MODULE Matching -------------------------------
(***************************************************************************)
(* What dispatch promises of the bookings that wait for a guide: while a    *)
(* booking is open it may be matched, once, to one guide; that guide's offer *)
(* and no other is the one that won; a booking closes for good.             *)
(***************************************************************************)
CONSTANTS Booking, Guide, None

VARIABLES
  phase,   \* of each booking: "waiting" for payment, "open" or "closed"
  guide,   \* of each booking: its guide or None
  won      \* pairs of a booking and a guide told to have won it

vars == <<phase, guide, won>>

Init ==
  /\ phase = [b \in Booking |-> "waiting"]
  /\ guide = [b \in Booking |-> None]
  /\ won = {}

Open(b) ==
  /\ phase[b] = "waiting"
  /\ phase' = [phase EXCEPT ![b] = "open"]
  /\ UNCHANGED <<guide, won>>

Close(b) ==
  /\ phase[b] # "closed"
  /\ phase' = [phase EXCEPT ![b] = "closed"]
  /\ UNCHANGED <<guide, won>>

Match(b, g) ==
  /\ phase[b] = "open" /\ guide[b] = None
  /\ guide' = [guide EXCEPT ![b] = g]
  /\ won' = won \cup {<<b, g>>}
  /\ UNCHANGED phase

Next == \E b \in Booking : Open(b) \/ Close(b) \/ \E g \in Guide : Match(b, g)

Spec == Init /\ [][Next]_vars
=============================================================================
