------------------------------- MODULE Payouts -------------------------------
(***************************************************************************)
(* The payouts component (payouts/service.go, repository.go): the batch that *)
(* queues what each guide is owed, the payout state machine with its ledger  *)
(* posting, payout accounts and the export of transfers to finance.         *)
(*                                                                         *)
(* A batch reads the balances in one query and inserts in a transaction of   *)
(* its own; a transition reads the payout first and writes later.  Earnings  *)
(* come from tours.Complete; the transfers themselves are made outside.      *)
(***************************************************************************)
EXTENDS Ledger, FiniteSets, Functions

CONSTANTS
  Guide,
  Tour,       \* bookings that complete
  GuideOf,    \* the guide of each
  Share,      \* what it earns its guide
  Payout,     \* bound: rows of payouts
  Date,       \* dates batches are scheduled for
  Dest,       \* bound: rows of payout_accounts
  Req,        \* requests served at the same time
  Runner,     \* those that may run a batch, the scheduler among them
  MaxAmount,  \* bound: what a guide is owed at once
  None

ASSUME Earnings == GuideOf \in [Tour -> Guide] /\ Share \in [Tour -> Nat \ {0}]
ASSUME Requests == Runner \subseteq Req /\ MaxAmount \in Nat
ASSUME Countable == IsFiniteSet(Payout) /\ IsFiniteSet(Tour)

VARIABLES
  done,       \* tours with an ELIGIBLE posting
  cleared,    \* those past the payout delay
  payout,     \* rows of payouts
  ledger,     \* postings of the type payout
  dest,       \* rows of payout_accounts
  latest,     \* of each guide: its last payout account
  sent,       \* lines of the exported files: a payout and its destination
  req,        \* the requests being served
  strayed     \* history: batches and retries have not always been orderly

vars == <<done, cleared, payout, ledger, dest, latest, sent, req, strayed>>
earnings == <<done, cleared>>
accounts == <<dest, latest, sent>>

\* What the batch and the state machine create; the schema's two other statuses
\* are never written.
PayoutStatus == {"QUEUED", "PROCESSING", "PAID", "FAILED", "RETRY_QUEUED", "MANUAL_REVIEW"}

allowedTransitions == [s \in PayoutStatus |->
  CASE s = "QUEUED"        -> {"PROCESSING", "MANUAL_REVIEW"}
    [] s = "PROCESSING"    -> {"PAID", "FAILED", "MANUAL_REVIEW"}
    [] s = "FAILED"        -> {"RETRY_QUEUED", "MANUAL_REVIEW"}
    [] s = "RETRY_QUEUED"  -> {"PROCESSING", "MANUAL_REVIEW"}
    [] s = "MANUAL_REVIEW" -> {"RETRY_QUEUED"}
    [] s = "PAID"          -> {}]

\* These draw down their guide's balance.
deductedStatuses == PayoutStatus \ {"FAILED"}

Amount == 0 .. MaxAmount

Row == [guide : Guide, amount : Amount \ {0}, date : Date, status : PayoutStatus]

Entry == [reference : Payout, entries : Entries]

Batch == [kind : {"batch"}, date : Date, amount : [Guide -> Amount]]
Move == [kind : {"move"}, payout : Payout, from : PayoutStatus, to : PayoutStatus]

ASSUME NoneIsFresh == None \notin Dest \cup Row \cup Batch \cup Move

TypeOK ==
  /\ done \subseteq Tour /\ cleared \subseteq done
  /\ payout \in [Payout -> Row \cup {None}]
  /\ ledger \subseteq Entry
  /\ dest \in [Dest -> [guide : Guide, verified : BOOLEAN] \cup {None}]
  /\ latest \in [Guide -> Dest \cup {None}]
  /\ sent \subseteq Payout \X Dest
  /\ req \in [Req -> Batch \cup Move \cup {None}]
  /\ strayed \in BOOLEAN

Init ==
  /\ done = {} /\ cleared = {}
  /\ payout = [p \in Payout |-> None]
  /\ ledger = {}
  /\ dest = [a \in Dest |-> None]
  /\ latest = [g \in Guide |-> None]
  /\ sent = {}
  /\ req = [r \in Req |-> None]
  /\ strayed = FALSE
-----------------------------------------------------------------------------
Rows == {p \in Payout : payout[p] # None}
PayoutsOf(g, statuses) == {p \in Rows : payout[p].guide = g /\ payout[p].status \in statuses}

\* The sum of n over S, counted unit by unit.
Units(n, S) == UNION {{x} \X (1 .. n[x]) : x \in S}
Sum(n, S) == Cardinality(Units(n, S))

Amounts(ps) == Sum([p \in ps |-> payout[p].amount], ps)
Earned(g, tours) == Sum(Share, {t \in tours : GuideOf[t] = g})

\* EligiblePayoutAmounts: what has cleared the delay, net of payouts, if positive.
Due(g) ==
  LET net == Earned(g, cleared) - Amounts(PayoutsOf(g, deductedStatuses))
  IN IF net > 0 THEN net ELSE 0

\* Mutant: the migration's index is missing.
IndexAdmits_Absent(g, d) == TRUE

\* The index leaves failed payouts out.
Standing == PayoutStatus \ {"FAILED"}

\* idx_payouts_guide_schedule: one payout that has not failed by guide and date.
IndexAdmits(g, d) == \A p \in PayoutsOf(g, Standing) : payout[p].date # d

Batching(r) == req[r] # None /\ req[r].kind = "batch"
Moving(r) == req[r] # None /\ req[r].kind = "move"
End(r) == req' = [req EXCEPT ![r] = None]
-----------------------------------------------------------------------------
\* tours.Complete posts the guide's share to the eligible account.
CompleteTour(t) ==
  /\ t \notin done
  /\ done' = done \cup {t}
  /\ UNCHANGED <<cleared, payout, ledger, accounts, req>>

\* payout_delay_days have passed since the tour ended.
Clear(t) ==
  /\ t \in done \ cleared
  /\ cleared' = cleared \cup {t}
  /\ UNCHANGED <<done, payout, ledger, accounts, req>>

\* RunBatch reads every guide's balance, whatever other batches are under way.
StartBatch(r, d) ==
  /\ r \in Runner /\ req[r] = None
  /\ \E amount \in [Guide -> Amount] :
       /\ \A g \in Guide : amount[g] = Due(g)
       /\ req' = [req EXCEPT ![r] = [kind |-> "batch", date |-> d, amount |-> amount]]
  /\ UNCHANGED <<earnings, payout, ledger, accounts>>

\* InsertBatch: a row for each guide it owes, but where the index has one.
InsertBatch(r) ==
  /\ Batching(r)
  /\ LET d == req[r].date
         owed == {g \in Guide : req[r].amount[g] > 0 /\ IndexAdmits(g, d)}
     IN \E row \in Injection(owed, Payout \ Rows) :
          payout' = [p \in Payout |->
            IF \E g \in owed : row[g] = p
            THEN LET g == CHOOSE h \in owed : row[h] = p
                 IN [guide |-> g, amount |-> req[r].amount[g], date |-> d,
                     status |-> "QUEUED"]
            ELSE payout[p]]
  /\ End(r)
  /\ UNCHANGED <<earnings, ledger, accounts>>
-----------------------------------------------------------------------------
\* Transition reads the payout and checks the edge (and that a failure comes
\* with a reason, which is recorded and read by nothing).
LoadPayout(r, p, to) ==
  /\ req[r] = None /\ p \in Rows
  /\ to \in allowedTransitions[payout[p].status]
  /\ req' = [req EXCEPT ![r] =
       [kind |-> "move", payout |-> p, from |-> payout[p].status, to |-> to]]
  /\ UNCHANGED <<earnings, payout, ledger, accounts>>

\* Mutant: the update asks only for the payout's id.
Unmoved_NotAsked(r) == TRUE

\* SetStatus updates only where the status is still the one that was read.
Unmoved(r) == payout[req[r].payout].status = req[r].from

\* Mutant: the index leaves out what is queued for a retry.
Reinstated_Always(r) == TRUE

\* A payout that failed may come back only if its date is free again.
Reinstated(r) ==
  payout[req[r].payout].status = "FAILED"
    => IndexAdmits(payout[req[r].payout].guide, payout[req[r].payout].date)

SetStatus(r) ==
  /\ Moving(r) /\ req[r].to # "PAID"
  /\ Unmoved(r) /\ Reinstated(r)
  /\ payout' = [payout EXCEPT ![req[r].payout].status = req[r].to]
  /\ End(r)
  /\ UNCHANGED <<earnings, ledger, accounts>>

PayoutPosting(p) ==
  [reference |-> p,
   entries |-> Moved("guide_payable_eligible", "tourist_clearing", payout[p].amount)]

\* Mutant: the posting is committed though the row was not PROCESSING.
MarkPaid_KeepPosting(r) ==
  LET p == req[r].payout
  IN /\ Moving(r) /\ req[r].to = "PAID"
     /\ Post(ledger, ledger', PayoutPosting(p))
     /\ payout' = [payout EXCEPT ![p].status = IF @ = "PROCESSING" THEN "PAID" ELSE @]
     /\ End(r)
     /\ UNCHANGED <<earnings, accounts>>

\* markPaid: the posting and the status, or neither.
MarkPaid(r) ==
  LET p == req[r].payout
  IN /\ Moving(r) /\ req[r].to = "PAID"
     /\ Post(ledger, ledger', PayoutPosting(p))
     /\ payout[p].status = "PROCESSING"
     /\ payout' = [payout EXCEPT ![p].status = "PAID"]
     /\ End(r)
     /\ UNCHANGED <<earnings, accounts>>

\* The row moved meanwhile, or the index or the ledger has one already.
RefuseMove(r) ==
  /\ Moving(r)
  /\ IF req[r].to = "PAID"
     THEN Posted(ledger, req[r].payout) \/ payout[req[r].payout].status # "PROCESSING"
     ELSE ~(Unmoved(r) /\ Reinstated(r))
  /\ End(r)
  /\ UNCHANGED <<earnings, payout, ledger, accounts>>
-----------------------------------------------------------------------------
\* PutPayoutAccount: the newest row is the guide's account.
PutAccount(g, a) ==
  /\ dest[a] = None
  /\ dest' = [dest EXCEPT ![a] = [guide |-> g, verified |-> FALSE]]
  /\ latest' = [latest EXCEPT ![g] = a]
  /\ UNCHANGED <<earnings, payout, ledger, sent, req>>

VerifyAccount(a) ==
  /\ dest[a] # None
  /\ dest' = [dest EXCEPT ![a].verified = TRUE]
  /\ UNCHANGED <<earnings, payout, ledger, latest, sent, req>>

\* ExportCSV: a line for each payout queued for the date whose guide has an account.
Export(d) ==
  LET queued == {p \in Rows : payout[p].date = d
                   /\ payout[p].status \in {"QUEUED", "RETRY_QUEUED"}
                   /\ latest[payout[p].guide] # None}
  IN /\ sent' = sent \cup {<<p, latest[payout[p].guide]>> : p \in queued}
     /\ UNCHANGED <<earnings, payout, ledger, dest, latest, req>>

\* The request's context ends or the server stops before it writes.
Abandon(r) ==
  /\ req[r] # None
  /\ End(r)
  /\ UNCHANGED <<earnings, payout, ledger, accounts>>
-----------------------------------------------------------------------------
Serve(r) ==
  \/ \E d \in Date : StartBatch(r, d)
  \/ \E p \in Payout, to \in PayoutStatus : LoadPayout(r, p, to)
  \/ InsertBatch(r) \/ SetStatus(r) \/ MarkPaid(r) \/ RefuseMove(r) \/ Abandon(r)

\* A failed payout is about to be queued again, or sent to review.
Retrying(r) == Moving(r) /\ req[r].from = "FAILED" /\ Unmoved(r)

\* What those who run batches and retries would have to see to, for the code does
\* not: batches under way at once are of one date, and a failed payout is retried
\* only while its guide's balance covers it and no batch is under way.
Orderly ==
  /\ \A r, q \in Req : Batching(r) /\ Batching(q) => req[r].date = req[q].date
  /\ \A r \in Req : Retrying(r) =>
       /\ payout[req[r].payout].amount <= Due(payout[req[r].payout].guide)
       /\ \A q \in Req : ~Batching(q)

Next ==
  /\ \/ \E r \in Req : Serve(r)
     \/ \E t \in Tour : CompleteTour(t) \/ Clear(t)
     \/ \E a \in Dest : VerifyAccount(a) \/ \E g \in Guide : PutAccount(g, a)
     \/ \E d \in Date : Export(d)
  /\ strayed' = (strayed \/ ~Orderly')

Spec == Init /\ [][Next]_vars
-----------------------------------------------------------------------------
\* A payout is PAID exactly when the ledger holds its posting, of its amount: no
\* transition that lost a race leaves a debit, and none is paid without one.
PaidIsPosted ==
  /\ \A p \in Rows : payout[p].status = "PAID" => PayoutPosting(p) \in ledger
  /\ \A t \in ledger : t.reference \in Rows /\ payout[t.reference].status = "PAID"
  /\ \A s, t \in ledger : s.reference = t.reference => s = t

\* Two officers who move one payout from the same status do not both succeed: a
\* payout only takes edges of the machine, and so PAID is final.
MachineIsFollowed ==
  [][\A p \in Rows :
       payout'[p].status # payout[p].status
         => payout'[p].status \in allowedTransitions[payout[p].status]]_vars

\* All the payouts of a guide that have not failed stay within what it earned.
WithinEarnings == \A g \in Guide : Amounts(PayoutsOf(g, Standing)) <= Earned(g, done)

\* As long as batches and retries are orderly, no interleaving of batches of one
\* date, failures, retries and moves queues or pays a guide more than it earned,
\* although every batch inserts amounts it read before: the index and the
\* balance's exclusion of what is in flight see to it.
OrderlyStaysWithin == strayed \/ WithinEarnings

\* A guide has one payout of each date that has not failed, though failed ones
\* are queued again and can be reinstated.
OncePerDate ==
  \A p, q \in Rows :
    payout[p].guide = payout[q].guide /\ payout[p].date = payout[q].date
        /\ {payout[p].status, payout[q].status} \subseteq Standing
      => p = q
=============================================================================
