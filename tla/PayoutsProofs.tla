---------------------------- MODULE PayoutsProofs ----------------------------
(***************************************************************************)
(* Theorems of Payouts, for every choice of its constants.                  *)
(***************************************************************************)
EXTENDS Payouts, FiniteSetTheorems, TLAPS

\* A move in progress is of a row, along an edge of the machine from the status
\* it read, though the row may have moved on.
MovesAreLegal ==
  \A r \in Req : Moving(r) => /\ req[r].payout \in Rows
                              /\ req[r].to \in allowedTransitions[req[r].from]

\* The parts of PaidIsPosted.
PaidHasPosting == \A p \in Rows : payout[p].status = "PAID" => PayoutPosting(p) \in ledger
PostingIsPaid == \A t \in ledger : t.reference \in Rows /\ payout[t.reference].status = "PAID"
OnePosting == \A s, t \in ledger : s.reference = t.reference => s = t

IInv == TypeOK /\ MovesAreLegal /\ PaidIsPosted /\ OncePerDate

\* The payouts of a guide that have not failed, but those of the date d.
Undated(g, d) == {p \in PayoutsOf(g, Standing) : payout[p].date # d}

\* What a batch read as owed fits what was earned, beside the payouts of other
\* dates: only batches of its own date may have come between.
BatchesFit ==
  \A r \in Req, g \in Guide : Batching(r) /\ req[r].amount[g] > 0 =>
    Amounts(Undated(g, req[r].date)) + req[r].amount[g] <= Earned(g, done)

\* An orderly history leaves an orderly state in which everything fits.
EarningsInv == Orderly /\ BatchesFit /\ WithinEarnings

-----------------------------------------------------------------------------
\* Sums, counted unit by unit: a sum over a finite set is a number, that of no
\* more elements is no more, and one more element adds its own.
LEMMA UnitsFinite ==
  ASSUME NEW n, NEW S, IsFiniteSet(S), \A x \in S : n[x] \in Nat
  PROVE  IsFiniteSet(Units(n, S))
<1> DEFINE Unit(x) == {x} \X (1 .. n[x])
           T == {Unit(x) : x \in S}
<1>1. IsFiniteSet(T)
  <2> DEFINE f == [x \in S |-> Unit(x)]
  <2>1. f \in Surjection(S, T)
    BY DEF Surjection
  <2> HIDE DEF f, T
  <2> QED BY <2>1, FS_Surjection
<1>2. \A x \in S : IsFiniteSet(Unit(x))
  <2> SUFFICES ASSUME NEW x \in S PROVE IsFiniteSet(Unit(x))
    OBVIOUS
  <2>1. n[x] \in Int
    OBVIOUS
  <2>2. IsFiniteSet(1 .. n[x])
    BY <2>1, FS_Interval
  <2>3. IsFiniteSet({x})
    BY FS_Singleton
  <2> QED BY <2>2, <2>3, FS_Product
<1>3. IsFiniteSet(UNION T)
  <2>1. \A u \in T : IsFiniteSet(u)
    BY <1>2
  <2> HIDE DEF T
  <2> QED BY <1>1, <2>1, FS_UNION
<1> QED BY <1>3 DEF Units

LEMMA SumType ==
  ASSUME NEW n, NEW S, IsFiniteSet(S), \A x \in S : n[x] \in Nat
  PROVE  Sum(n, S) \in Nat
  BY UnitsFinite, FS_CardinalityType DEF Sum

LEMMA SumMonotonic ==
  ASSUME NEW n, NEW S, IsFiniteSet(S), \A x \in S : n[x] \in Nat,
         NEW m, NEW T \in SUBSET S, \A x \in T : m[x] = n[x]
  PROVE  Sum(m, T) <= Sum(n, S)
<1>1. Units(m, T) \subseteq Units(n, S)
  BY DEF Units
<1> QED BY <1>1, UnitsFinite, FS_Subset DEF Sum

LEMMA SumAdds ==
  ASSUME NEW n, NEW m, NEW S, NEW y, IsFiniteSet(S), \A x \in S : n[x] \in Nat,
         y \notin S, m[y] \in Nat, \A x \in S : m[x] = n[x]
  PROVE  Sum(m, S \cup {y}) = Sum(n, S) + m[y]
<1> DEFINE new == {y} \X (1 .. m[y])
<1>1. Units(m, S \cup {y}) = Units(n, S) \cup new
  BY DEF Units
<1>2. Units(n, S) \cap new = {}
  BY DEF Units
<1>3. IsFiniteSet(new) /\ Cardinality(new) = m[y]
  <2>1. IsFiniteSet({y}) /\ Cardinality({y}) = 1
    BY FS_Singleton
  <2>2. IsFiniteSet(1 .. m[y]) /\ Cardinality(1 .. m[y]) = m[y]
    <3>1. m[y] \in Int /\ 1 \in Int
      OBVIOUS
    <3>2. /\ IsFiniteSet(1 .. m[y])
          /\ Cardinality(1 .. m[y]) = IF 1 > m[y] THEN 0 ELSE m[y] - 1 + 1
      BY <3>1, FS_Interval
    <3> QED BY <3>1, <3>2
  <2>3. IsFiniteSet(new) /\ Cardinality(new) = Cardinality({y}) * Cardinality(1 .. m[y])
    BY <2>1, <2>2, FS_Product
  <2> QED BY <2>1, <2>2, <2>3
<1> HIDE DEF new
<1>4. IsFiniteSet(Units(n, S)) /\ Cardinality(Units(n, S)) \in Nat
  BY UnitsFinite, FS_CardinalityType
<1>5. Cardinality(Units(n, S) \cup new)
        = Cardinality(Units(n, S)) + Cardinality(new) - Cardinality(Units(n, S) \cap new)
  BY <1>3, <1>4, FS_Union
<1>6. Cardinality(Units(n, S) \cap new) = 0
  BY <1>2, FS_EmptySet
<1>7. Cardinality(Units(n, S) \cup new) = Cardinality(Units(n, S)) + m[y]
  BY <1>3, <1>4, <1>5, <1>6
<1> QED BY <1>1, <1>7 DEF Sum

-----------------------------------------------------------------------------
LEMMA RowFacts ==
  ASSUME TypeOK
  PROVE  /\ \A p \in Rows : p \in Payout /\ payout[p] \in Row
         /\ \A r \in Req : Moving(r) => req[r] \in Move
         /\ \A r \in Req : Batching(r) => req[r] \in Batch
  BY DEF TypeOK, Rows, Moving, Batching, Batch, Move

\* The machine's edges stay within the statuses; PAID has none, and is reached
\* from PROCESSING alone.
LEMMA Edges ==
  /\ allowedTransitions \in [PayoutStatus -> SUBSET PayoutStatus]
  /\ allowedTransitions["PAID"] = {}
  /\ "PAID" \in allowedTransitions["PROCESSING"]
  BY DEF allowedTransitions, PayoutStatus

LEMMA PostingType ==
  ASSUME TypeOK, NEW p \in Rows
  PROVE  PayoutPosting(p) \in Entry /\ PayoutPosting(p).reference = p
<1>1. p \in Payout /\ payout[p].amount \in Int
  BY RowFacts, Requests DEF Row, Amount
<1> QED BY <1>1 DEF PayoutPosting, Entry, Entries, Moved

\* What the rows go through, seen from outside: some are queued, on dates the
\* index admits ...
Queued(p, d) ==
  /\ p \notin Rows /\ payout'[p] \in Row
  /\ payout'[p].status = "QUEUED" /\ payout'[p].date = d
  /\ IndexAdmits(payout'[p].guide, d)

\* ... or one takes an edge of the machine, and the rest of it stays.
TakesEdge(p, to) ==
  /\ p \in Rows /\ payout'[p] \in Row
  /\ to \in allowedTransitions[payout[p].status]
  /\ payout'[p].status = to
  /\ payout'[p].guide = payout[p].guide /\ payout'[p].amount = payout[p].amount
  /\ payout'[p].date = payout[p].date
  /\ \A q \in Payout : q # p => payout'[q] = payout[q]

-----------------------------------------------------------------------------
LEMMA InsertFacts ==
  ASSUME IInv, NEW r \in Req, InsertBatch(r)
  PROVE  /\ \A p \in Payout : payout'[p] = payout[p] \/ Queued(p, req[r].date)
         /\ \A p, q \in Payout :
              payout'[p] # payout[p] /\ payout'[q] # payout[q]
                  /\ payout'[p].guide = payout'[q].guide
                => p = q
         /\ \A p \in Payout : payout'[p] # payout[p] =>
              /\ payout'[p].amount = req[r].amount[payout'[p].guide]
              /\ req[r].amount[payout'[p].guide] > 0
         /\ payout' \in [Payout -> Row \cup {None}]
         /\ ledger' = ledger
<1> USE DEF IInv
<1> DEFINE d == req[r].date
           owed == {g \in Guide : req[r].amount[g] > 0 /\ IndexAdmits(g, d)}
           New(g) == [guide |-> g, amount |-> req[r].amount[g], date |-> d,
                      status |-> "QUEUED"]
<1>1. req[r] \in Batch /\ req[r].amount \in [Guide -> Amount] /\ d \in Date
  BY RowFacts DEF InsertBatch, Batch
<1>2. PICK row \in Injection(owed, Payout \ Rows) :
        payout' = [p \in Payout |-> IF \E g \in owed : row[g] = p
                                    THEN New(CHOOSE h \in owed : row[h] = p)
                                    ELSE payout[p]]
  BY Zenon DEF InsertBatch
<1>3. /\ row \in [owed -> Payout \ Rows]
      /\ \A g, h \in owed : row[g] = row[h] => g = h
  BY <1>2 DEF Injection, IsInjective
<1>4. \A p \in Payout : (\E g \in owed : row[g] = p) =>
        \E g \in owed : row[g] = p /\ payout'[p] = New(g)
  <2> HIDE DEF New, owed
  <2> SUFFICES ASSUME NEW p \in Payout, NEW g \in owed, row[g] = p
               PROVE  \E h \in owed : row[h] = p /\ payout'[p] = New(h)
    OBVIOUS
  <2>1. (CHOOSE h \in owed : row[h] = p) \in owed /\ row[CHOOSE h \in owed : row[h] = p] = p
    OBVIOUS
  <2>2. payout'[p] = New(CHOOSE h \in owed : row[h] = p)
    BY <1>2
  <2> QED BY <2>1, <2>2
<1>5. \A g \in owed : New(g) \in Row
  <2> SUFFICES ASSUME NEW g \in owed PROVE New(g) \in Row
    OBVIOUS
  <2>1. req[r].amount[g] \in Amount \ {0}
    BY <1>1, Requests DEF Amount
  <2> QED BY <1>1, <2>1 DEF Row, PayoutStatus
<1>6. \A p \in Payout : ~(\E g \in owed : row[g] = p) => payout'[p] = payout[p]
  <2> HIDE DEF New, owed
  <2> QED BY <1>2
<1>7. \A p \in Payout : payout'[p] = payout[p] \/ Queued(p, d)
  <2> SUFFICES ASSUME NEW p \in Payout, payout'[p] # payout[p] PROVE Queued(p, d)
    OBVIOUS
  <2>1. PICK g \in owed : row[g] = p /\ payout'[p] = New(g)
    BY <1>4, <1>6
  <2>2. p \notin Rows
    BY <1>3, <2>1
  <2> QED BY <1>5, <2>1, <2>2 DEF Queued
<1>8. ASSUME NEW p \in Payout, NEW q \in Payout, payout'[p] # payout[p],
             payout'[q] # payout[q], payout'[p].guide = payout'[q].guide
      PROVE  p = q
  <2>1. PICK g \in owed : row[g] = p /\ payout'[p] = New(g)
    BY <1>4, <1>6, <1>8
  <2>2. PICK h \in owed : row[h] = q /\ payout'[q] = New(h)
    BY <1>4, <1>6, <1>8
  <2> QED BY <1>8, <2>1, <2>2
<1>9. payout' \in [Payout -> Row \cup {None}]
  <2>1. \A p \in Payout : payout'[p] \in Row \cup {None}
    BY <1>7 DEF Queued, TypeOK
  <2> HIDE DEF New, owed
  <2>2. payout' = [p \in Payout |-> payout'[p]]
    BY <1>2
  <2> QED BY <2>1, <2>2
<1>10. ledger' = ledger
  BY DEF InsertBatch
<1>11. \A p \in Payout : payout'[p] # payout[p] =>
         /\ payout'[p].amount = req[r].amount[payout'[p].guide]
         /\ req[r].amount[payout'[p].guide] > 0
  <2> SUFFICES ASSUME NEW p \in Payout, payout'[p] # payout[p]
               PROVE  /\ payout'[p].amount = req[r].amount[payout'[p].guide]
                      /\ req[r].amount[payout'[p].guide] > 0
    OBVIOUS
  <2>1. PICK g \in owed : payout'[p] = New(g)
    BY <1>4, <1>6
  <2> QED BY <2>1
<1> QED BY <1>7, <1>8, <1>9, <1>10, <1>11

LEMMA SetStatusFacts ==
  ASSUME IInv, NEW r \in Req, SetStatus(r)
  PROVE  /\ TakesEdge(req[r].payout, req[r].to) /\ req[r].to # "PAID"
         /\ payout[req[r].payout].status # "PAID"
         /\ Reinstated(r)
         /\ payout' \in [Payout -> Row \cup {None}]
<1> USE DEF IInv
<1> DEFINE p == req[r].payout
<1>1. req[r] \in Move /\ p \in Rows /\ p \in Payout /\ payout[p] \in Row
  BY RowFacts DEF SetStatus, MovesAreLegal
<1>2. req[r].to \in allowedTransitions[payout[p].status] /\ req[r].to \in PayoutStatus
  BY <1>1 DEF SetStatus, MovesAreLegal, Unmoved, Move
<1>3. payout'[p] = [payout[p] EXCEPT !.status = req[r].to]
  BY <1>1 DEF SetStatus, TypeOK
<1>5. /\ payout'[p] \in Row /\ payout'[p].status = req[r].to
      /\ payout'[p].guide = payout[p].guide /\ payout'[p].amount = payout[p].amount
      /\ payout'[p].date = payout[p].date
  BY <1>1, <1>2, <1>3 DEF Row
<1>6. \A q \in Payout : q # p => payout'[q] = payout[q]
  BY DEF SetStatus, TypeOK
<1>7. payout' \in [Payout -> Row \cup {None}]
  <2>1. payout' = [q \in Payout |-> payout'[q]]
    BY DEF SetStatus, TypeOK
  <2>2. \A q \in Payout : payout'[q] \in Row \cup {None}
    BY <1>5, <1>6 DEF TypeOK
  <2> QED BY <2>1, <2>2
<1> QED BY <1>1, <1>2, <1>5, <1>6, <1>7, Edges DEF TakesEdge, SetStatus

LEMMA MarkPaidFacts ==
  ASSUME IInv, NEW r \in Req, MarkPaid(r)
  PROVE  /\ TakesEdge(req[r].payout, "PAID")
         /\ payout[req[r].payout].status = "PROCESSING"
         /\ ~Posted(ledger, req[r].payout)
         /\ ledger' = ledger \cup {PayoutPosting(req[r].payout)}
         /\ payout' \in [Payout -> Row \cup {None}]
<1> USE DEF IInv
<1> DEFINE p == req[r].payout
<1>1. req[r] \in Move /\ p \in Rows /\ p \in Payout /\ payout[p] \in Row
  BY RowFacts DEF MarkPaid, MovesAreLegal
<1>2. payout[p].status = "PROCESSING" /\ payout' = [payout EXCEPT ![p].status = "PAID"]
  BY DEF MarkPaid
<1>3. payout'[p] = [payout[p] EXCEPT !.status = "PAID"]
  BY <1>1, <1>2 DEF TypeOK
<1>4. /\ payout'[p] \in Row /\ payout'[p].status = "PAID"
      /\ payout'[p].guide = payout[p].guide /\ payout'[p].amount = payout[p].amount
      /\ payout'[p].date = payout[p].date
  BY <1>1, <1>3 DEF Row, PayoutStatus
<1>5. \A q \in Payout : q # p => payout'[q] = payout[q]
  BY <1>2 DEF TypeOK
<1>6. payout' \in [Payout -> Row \cup {None}]
  <2>1. payout' = [q \in Payout |-> payout'[q]]
    BY <1>2 DEF TypeOK
  <2>2. \A q \in Payout : payout'[q] \in Row \cup {None}
    BY <1>4, <1>5 DEF TypeOK
  <2> QED BY <2>1, <2>2
<1>7. ~Posted(ledger, p) /\ ledger' = ledger \cup {PayoutPosting(p)}
  BY DEF MarkPaid, Post, PayoutPosting
<1> QED BY <1>1, <1>2, <1>4, <1>5, <1>6, <1>7, Edges DEF TakesEdge

\* Every other step leaves rows and ledger alone.
LEMMA QuietFacts ==
  ASSUME [Next]_vars
  PROVE  \/ \E r \in Req : InsertBatch(r) \/ SetStatus(r) \/ MarkPaid(r)
         \/ payout' = payout /\ ledger' = ledger
  BY DEF Next, Serve, StartBatch, LoadPayout, RefuseMove, Abandon, CompleteTour, Clear,
         PutAccount, VerifyAccount, Export, vars

\* No step takes a row away or gives it another guide, amount or date; it moves
\* along an edge if at all.
LEMMA RowsStay ==
  ASSUME IInv, [Next]_vars
  PROVE  /\ Rows \subseteq Rows'
         /\ payout' \in [Payout -> Row \cup {None}]
         /\ \A p \in Rows : /\ payout'[p].guide = payout[p].guide
                            /\ payout'[p].amount = payout[p].amount
                            /\ payout'[p].date = payout[p].date
                            /\ payout'[p].status # payout[p].status =>
                                 payout'[p].status \in allowedTransitions[payout[p].status]
<1> USE DEF IInv
<1> DEFINE Goal == /\ payout' \in [Payout -> Row \cup {None}]
                   /\ \A p \in Rows :
                        /\ payout'[p] \in Row
                        /\ payout'[p].guide = payout[p].guide
                        /\ payout'[p].amount = payout[p].amount
                        /\ payout'[p].date = payout[p].date
                        /\ payout'[p].status # payout[p].status =>
                             payout'[p].status \in allowedTransitions[payout[p].status]
<1>1. ASSUME NEW r \in Req, InsertBatch(r) PROVE Goal
  BY <1>1, InsertFacts, RowFacts DEF Queued
<1>2. ASSUME NEW r \in Req, SetStatus(r) PROVE Goal
  BY <1>2, SetStatusFacts, RowFacts DEF TakesEdge
<1>3. ASSUME NEW r \in Req, MarkPaid(r) PROVE Goal
  BY <1>3, MarkPaidFacts, RowFacts DEF TakesEdge
<1>4. ASSUME payout' = payout PROVE Goal
  BY <1>4, RowFacts DEF TypeOK
<1>5. Goal
  BY <1>1, <1>2, <1>3, <1>4, QuietFacts
<1>6. Rows \subseteq Rows'
  BY <1>5, RowFacts, NoneIsFresh DEF Rows
<1> QED BY <1>5, <1>6

-----------------------------------------------------------------------------
LEMMA Initially == Init => IInv
  BY DEF Init, IInv, TypeOK, MovesAreLegal, PaidIsPosted, OncePerDate, Rows, Moving

LEMMA TypeStep == IInv /\ [Next]_vars => TypeOK'
<1> SUFFICES ASSUME IInv, [Next]_vars PROVE TypeOK'
  OBVIOUS
<1> USE DEF IInv
<1>p. payout' \in [Payout -> Row \cup {None}]
  BY RowsStay
<1>e. ASSUME NEW r \in Req, End(r) PROVE req' \in [Req -> Batch \cup Move \cup {None}]
  BY <1>e DEF End, TypeOK
<1>s. [Next]_vars => strayed' \in BOOLEAN
  BY DEF Next, TypeOK, vars
<1>1. ASSUME NEW t \in Tour, CompleteTour(t) PROVE TypeOK'
  BY <1>s, <1>1 DEF CompleteTour, TypeOK, accounts
<1>2. ASSUME NEW t \in Tour, Clear(t) PROVE TypeOK'
  BY <1>s, <1>2 DEF Clear, TypeOK, accounts
<1>3. ASSUME NEW r \in Req, NEW d \in Date, StartBatch(r, d) PROVE TypeOK'
  <2>1. PICK amount \in [Guide -> Amount] :
          req' = [req EXCEPT ![r] = [kind |-> "batch", date |-> d, amount |-> amount]]
    BY <1>3 DEF StartBatch
  <2>2. [kind |-> "batch", date |-> d, amount |-> amount] \in Batch
    BY DEF Batch
  <2>3. req' \in [Req -> Batch \cup Move \cup {None}]
    BY <2>1, <2>2 DEF TypeOK
  <2> QED BY <1>s, <1>3, <2>3 DEF StartBatch, TypeOK, accounts, earnings
<1>4. ASSUME NEW r \in Req, InsertBatch(r) PROVE TypeOK'
  BY <1>s, <1>p, <1>4, <1>e DEF InsertBatch, TypeOK, accounts, earnings
<1>5. ASSUME NEW r \in Req, NEW p \in Payout, NEW to \in PayoutStatus, LoadPayout(r, p, to)
      PROVE  TypeOK'
  <2>1. req' = [req EXCEPT ![r] =
          [kind |-> "move", payout |-> p, from |-> payout[p].status, to |-> to]]
    BY <1>5 DEF LoadPayout
  <2>2. payout[p].status \in PayoutStatus
    BY <1>5, RowFacts DEF LoadPayout, Row
  <2>3. [kind |-> "move", payout |-> p, from |-> payout[p].status, to |-> to] \in Move
    BY <2>2 DEF Move
  <2>4. req' \in [Req -> Batch \cup Move \cup {None}]
    BY <2>1, <2>3 DEF TypeOK
  <2> QED BY <1>s, <1>5, <2>4 DEF LoadPayout, TypeOK, accounts, earnings
<1>6. ASSUME NEW r \in Req, SetStatus(r) PROVE TypeOK'
  BY <1>s, <1>p, <1>6, <1>e DEF SetStatus, TypeOK, accounts, earnings
<1>7. ASSUME NEW r \in Req, MarkPaid(r) PROVE TypeOK'
  <2>1. PayoutPosting(req[r].payout) \in Entry
    BY <1>7, MarkPaidFacts, PostingType DEF TakesEdge
  <2>2. ledger' \subseteq Entry
    BY <1>7, <2>1, MarkPaidFacts DEF TypeOK
  <2> QED BY <1>s, <1>p, <1>7, <1>e, <2>2 DEF MarkPaid, TypeOK, accounts, earnings
<1>8. ASSUME NEW r \in Req, RefuseMove(r) \/ Abandon(r) PROVE TypeOK'
  BY <1>s, <1>8, <1>e DEF RefuseMove, Abandon, TypeOK, accounts, earnings
<1>9. ASSUME NEW g \in Guide, NEW a \in Dest, PutAccount(g, a) PROVE TypeOK'
  BY <1>s, <1>9 DEF PutAccount, TypeOK, earnings
<1>10. ASSUME NEW a \in Dest, VerifyAccount(a) PROVE TypeOK'
  <2>1. dest[a] \in [guide : Guide, verified : BOOLEAN]
    BY <1>10 DEF VerifyAccount, TypeOK
  <2>2. [dest[a] EXCEPT !.verified = TRUE] \in [guide : Guide, verified : BOOLEAN]
    BY <2>1
  <2>3. dest' = [dest EXCEPT ![a] = [@ EXCEPT !.verified = TRUE]]
    BY <1>10 DEF VerifyAccount
  <2> QED BY <1>s, <1>10, <2>2, <2>3 DEF VerifyAccount, TypeOK, earnings
<1>11. ASSUME NEW d \in Date, Export(d) PROVE TypeOK'
  <2>1. \A p \in Rows : latest[payout[p].guide] # None =>
          <<p, latest[payout[p].guide]>> \in Payout \X Dest
    BY RowFacts DEF TypeOK, Row
  <2>2. sent' \subseteq Payout \X Dest
    BY <1>11, <2>1 DEF Export, TypeOK
  <2> QED BY <1>s, <1>11, <2>2 DEF Export, TypeOK, earnings
<1>12. CASE UNCHANGED vars
  BY <1>12 DEF TypeOK, vars
<1> QED
  BY <1>1, <1>2, <1>3, <1>4, <1>5, <1>6, <1>7, <1>8, <1>9, <1>10, <1>11, <1>12
     DEF Next, Serve

\* A request begins with a read, and no other changes meanwhile.
LEMMA ReqChanges ==
  ASSUME TypeOK, [Next]_vars, NEW r \in Req, req'[r] # req[r]
  PROVE  /\ \/ req'[r] = None
            \/ \E p \in Payout, to \in PayoutStatus : LoadPayout(r, p, to)
            \/ \E d \in Date : StartBatch(r, d)
         /\ \A q \in Req : q # r => req'[q] = req[q]
<1>1. PICK q \in Req : Serve(q)
  BY DEF Next, CompleteTour, Clear, PutAccount, VerifyAccount, Export, vars
<1>2. ASSUME End(q)
      PROVE  req'[q] = None /\ \A s \in Req : s # q => req'[s] = req[s]
  BY <1>2 DEF End, TypeOK
<1>3. ASSUME NEW d \in Date, StartBatch(q, d)
      PROVE  \A s \in Req : s # q => req'[s] = req[s]
  BY <1>3 DEF StartBatch, TypeOK
<1>4. ASSUME NEW p \in Payout, NEW to \in PayoutStatus, LoadPayout(q, p, to)
      PROVE  \A s \in Req : s # q => req'[s] = req[s]
  BY <1>4 DEF LoadPayout, TypeOK
<1>5. q = r /\ \A s \in Req : s # q => req'[s] = req[s]
  BY <1>1, <1>2, <1>3, <1>4
     DEF Serve, InsertBatch, SetStatus, MarkPaid, RefuseMove, Abandon
<1> QED
  BY <1>1, <1>2, <1>5 DEF Serve, InsertBatch, SetStatus, MarkPaid, RefuseMove, Abandon

\* A move loaded stays legal: its row stays, whatever becomes of the status.
LEMMA MovesStep == IInv /\ [Next]_vars => MovesAreLegal'
<1> SUFFICES ASSUME IInv, [Next]_vars, NEW r \in Req, Moving(r)'
             PROVE  /\ req'[r].payout \in Rows'
                    /\ req'[r].to \in allowedTransitions[req'[r].from]
  BY DEF MovesAreLegal
<1> USE DEF IInv
<1>1. CASE req'[r] = req[r]
  BY <1>1, RowsStay DEF MovesAreLegal, Moving
<1>2. CASE req'[r] # req[r]
  <2>1. PICK p \in Payout, to \in PayoutStatus : LoadPayout(r, p, to)
    BY <1>2, ReqChanges DEF Moving, StartBatch, TypeOK
  <2>2. /\ req'[r].payout = p /\ req'[r].to = to /\ req'[r].from = payout[p].status
    BY <2>1 DEF LoadPayout, TypeOK
  <2> QED BY <2>1, <2>2, RowsStay DEF LoadPayout
<1> QED BY <1>1, <1>2

LEMMA PaidStep == IInv /\ [Next]_vars => PaidIsPosted'
<1> SUFFICES ASSUME IInv, [Next]_vars PROVE PaidIsPosted'
  OBVIOUS
<1> USE DEF IInv
<1>0. PaidHasPosting /\ PostingIsPaid /\ OnePosting
  BY DEF PaidIsPosted, PaidHasPosting, PostingIsPaid, OnePosting
<1>p. \A p \in Rows : PayoutPosting(p)' = PayoutPosting(p)
  BY RowsStay DEF PayoutPosting
<1>1. ASSUME ledger' = ledger,
             \A p \in Payout : payout'[p].status = "PAID" /\ p \in Rows' =>
               p \in Rows /\ payout[p].status = "PAID",
             \A p \in Rows : payout[p].status = "PAID" => payout'[p].status = "PAID"
      PROVE  PaidIsPosted'
  <2>1. PaidHasPosting'
    BY <1>0, <1>1, <1>p DEF PaidHasPosting, Rows
  <2>2. PostingIsPaid' /\ OnePosting'
    BY <1>0, <1>1, RowsStay DEF PostingIsPaid, OnePosting
  <2> QED BY <2>1, <2>2 DEF PaidIsPosted, PaidHasPosting, PostingIsPaid, OnePosting
<1>2. ASSUME NEW r \in Req, InsertBatch(r) PROVE PaidIsPosted'
  <2>1. \A p \in Payout : payout'[p] = payout[p] \/ (p \notin Rows /\ payout'[p].status = "QUEUED")
    BY <1>2, InsertFacts DEF Queued
  <2>2. ledger' = ledger
    BY <1>2, InsertFacts
  <2> QED BY <1>1, <2>1, <2>2, RowFacts DEF Rows
<1>3. ASSUME NEW r \in Req, SetStatus(r) PROVE PaidIsPosted'
  <2>1. /\ TakesEdge(req[r].payout, req[r].to) /\ req[r].to # "PAID"
        /\ payout[req[r].payout].status # "PAID"
    BY <1>3, SetStatusFacts
  <2>2. ledger' = ledger
    BY <1>3 DEF SetStatus
  <2> QED BY <1>1, <2>1, <2>2, RowFacts DEF Rows, TakesEdge
<1>4. ASSUME NEW r \in Req, MarkPaid(r) PROVE PaidIsPosted'
  <2> DEFINE p == req[r].payout
  <2>1. /\ TakesEdge(p, "PAID") /\ p \in Rows /\ p \in Payout
        /\ ~Posted(ledger, p) /\ ledger' = ledger \cup {PayoutPosting(p)}
    BY <1>4, MarkPaidFacts, RowFacts DEF TakesEdge
  <2>2. PayoutPosting(p).reference = p
    BY <2>1, PostingType
  <2>3. Rows' = Rows
    BY <2>1, RowsStay DEF TakesEdge, Rows
  <2> HIDE DEF p
  <2>4. PaidHasPosting'
    <3> SUFFICES ASSUME NEW q \in Rows, payout'[q].status = "PAID"
                 PROVE  PayoutPosting(q)' \in ledger'
      BY <2>3 DEF PaidHasPosting
    <3>1. CASE q = p
      BY <2>1, <1>p, <3>1
    <3>2. CASE q # p
      BY <1>0, <2>1, <1>p, <3>2, RowFacts DEF PaidHasPosting, TakesEdge
    <3> QED BY <3>1, <3>2
  <2>5. PostingIsPaid'
    BY <1>0, <2>1, <2>2, <2>3, RowFacts DEF PostingIsPaid, TakesEdge
  <2>6. OnePosting'
    BY <1>0, <2>1, <2>2 DEF OnePosting, Posted
  <2> QED BY <2>4, <2>5, <2>6 DEF PaidIsPosted, PaidHasPosting, PostingIsPaid, OnePosting
<1>5. CASE payout' = payout /\ ledger' = ledger
  BY <1>1, <1>5 DEF Rows
<1> QED BY <1>2, <1>3, <1>4, <1>5, QuietFacts

LEMMA OnceStep == IInv /\ [Next]_vars => OncePerDate'
<1> SUFFICES ASSUME IInv, [Next]_vars, NEW p \in Rows', NEW q \in Rows', p # q,
                    payout'[p].guide = payout'[q].guide, payout'[p].date = payout'[q].date,
                    payout'[p].status \in Standing, payout'[q].status \in Standing
             PROVE  FALSE
  BY DEF OncePerDate
<1> USE DEF IInv
<1>0. p \in Payout /\ q \in Payout
  BY DEF Rows
\* The index holds what a row comes to share with one that stood already.
<1>1. ASSUME NEW x \in Payout, NEW y \in Rows, x # y, payout'[x].guide = payout[y].guide,
             payout'[x].date = payout[y].date, payout[y].status \in Standing,
             IndexAdmits(payout'[x].guide, payout'[x].date)
      PROVE  FALSE
  BY <1>1 DEF IndexAdmits, PayoutsOf
<1>2. ASSUME NEW r \in Req, InsertBatch(r) PROVE FALSE
  <2>1. \A x \in Payout : payout'[x] = payout[x] \/ Queued(x, req[r].date)
    BY <1>2, InsertFacts
  <2>2. CASE payout'[p] = payout[p] /\ payout'[q] = payout[q]
    BY <1>0, <2>2 DEF OncePerDate, Rows
  <2>3. CASE payout'[p] # payout[p] /\ payout'[q] # payout[q]
    BY <1>0, <1>2, <2>3, InsertFacts
  <2>4. CASE payout'[p] # payout[p] /\ payout'[q] = payout[q]
    BY <1>0, <1>1, <2>1, <2>4 DEF Queued, Rows
  <2>5. CASE payout'[p] = payout[p] /\ payout'[q] # payout[q]
    BY <1>0, <1>1, <2>1, <2>5 DEF Queued, Rows
  <2> QED BY <2>2, <2>3, <2>4, <2>5
\* A row that moves stood before, or is reinstated on a free date.
<1>3. ASSUME NEW x \in Payout, NEW to, TakesEdge(x, to),
             payout[x].status = "FAILED" => IndexAdmits(payout[x].guide, payout[x].date)
      PROVE  FALSE
  <2>1. Rows' = Rows
    BY <1>3, RowFacts, NoneIsFresh DEF TakesEdge, Rows
  <2>2. x \in Rows /\ payout[x].status \in PayoutStatus
    BY <1>3, RowFacts DEF TakesEdge, Row
  <2>3. \A y \in Rows : payout'[y].guide = payout[y].guide /\ payout'[y].date = payout[y].date
    BY RowsStay
  <2>4. \A y \in Rows : y # x => payout'[y] = payout[y]
    BY <1>3, RowFacts DEF TakesEdge
  <2>5. CASE payout[x].status # "FAILED"
    <3>1. payout[p].status \in Standing /\ payout[q].status \in Standing
      BY <2>1, <2>2, <2>4, <2>5 DEF Standing
    <3> QED BY <2>1, <2>3, <3>1 DEF OncePerDate
  <2>6. CASE payout[x].status = "FAILED"
    <3>1. IndexAdmits(payout'[x].guide, payout'[x].date)
      BY <1>3, <2>2, <2>3, <2>6
    <3>2. CASE p = x
      BY <1>0, <1>1, <2>1, <2>3, <2>4, <3>1, <3>2
    <3>3. CASE q = x
      BY <1>0, <1>1, <2>1, <2>3, <2>4, <3>1, <3>3
    <3>4. CASE p # x /\ q # x
      BY <2>1, <2>4, <3>4 DEF OncePerDate
    <3> QED BY <3>2, <3>3, <3>4
  <2> QED BY <2>5, <2>6
<1>4. ASSUME NEW r \in Req, SetStatus(r) PROVE FALSE
  <2>1. TakesEdge(req[r].payout, req[r].to) /\ Reinstated(r) /\ req[r].payout \in Payout
    BY <1>4, SetStatusFacts, RowFacts DEF TakesEdge
  <2> QED BY <1>3, <2>1 DEF Reinstated
<1>5. ASSUME NEW r \in Req, MarkPaid(r) PROVE FALSE
  <2>1. /\ TakesEdge(req[r].payout, "PAID") /\ req[r].payout \in Payout
        /\ payout[req[r].payout].status = "PROCESSING"
    BY <1>5, MarkPaidFacts, RowFacts DEF TakesEdge
  <2> QED BY <1>3, <2>1
<1>6. CASE payout' = payout
  BY <1>6 DEF OncePerDate, Rows
<1> QED BY <1>2, <1>4, <1>5, <1>6, QuietFacts

LEMMA Inductive == Spec => []IInv
  BY Initially, TypeStep, MovesStep, PaidStep, OnceStep, PTL DEF Spec, IInv

-----------------------------------------------------------------------------
LEMMA EarnedGrows ==
  ASSUME NEW g \in Guide, NEW T \in SUBSET Tour, NEW S \in SUBSET T
  PROVE  Earned(g, S) \in Nat /\ Earned(g, T) \in Nat /\ Earned(g, S) <= Earned(g, T)
<1> DEFINE Of(X) == {t \in X : GuideOf[t] = g}
<1>1. Of(T) \subseteq Tour /\ Of(S) \subseteq Of(T)
  OBVIOUS
<1>2. IsFiniteSet(Of(T)) /\ IsFiniteSet(Of(S))
  BY <1>1, Countable, FS_Subset
<1>3. \A t \in Tour : Share[t] \in Nat
  BY Earnings
<1> HIDE DEF Of
<1>4. Sum(Share, Of(S)) \in Nat /\ Sum(Share, Of(T)) \in Nat
  BY <1>1, <1>2, <1>3, SumType
<1>5. Sum(Share, Of(S)) <= Sum(Share, Of(T))
  BY <1>1, <1>2, <1>3, SumMonotonic
<1> QED BY <1>4, <1>5 DEF Earned, Of

LEMMA RowsCount ==
  ASSUME TypeOK, NEW S \in SUBSET Rows
  PROVE  IsFiniteSet(S) /\ \A p \in S : payout[p].amount \in Nat
<1>1. S \subseteq Payout
  BY DEF Rows
<1>2. IsFiniteSet(S)
  BY <1>1, Countable, FS_Subset
<1>3. \A p \in S : payout[p].amount \in Amount
  BY RowFacts DEF Row
<1> QED BY <1>2, <1>3, Requests DEF Amount

LEMMA AmountsType ==
  ASSUME TypeOK, NEW S \in SUBSET Rows, NEW T \in SUBSET S
  PROVE  Amounts(S) \in Nat /\ Amounts(T) \in Nat /\ Amounts(T) <= Amounts(S)
<1> DEFINE n == [p \in S |-> payout[p].amount]
           m == [p \in T |-> payout[p].amount]
<1>1. IsFiniteSet(S) /\ \A x \in S : n[x] \in Nat
  BY RowsCount
<1>2. IsFiniteSet(T) /\ \A x \in T : m[x] \in Nat
  BY RowsCount
<1>3. \A x \in T : m[x] = n[x]
  OBVIOUS
<1> HIDE DEF n, m
<1>4. Sum(n, S) \in Nat /\ Sum(m, T) \in Nat /\ Sum(m, T) <= Sum(n, S)
  BY <1>1, <1>2, <1>3, SumType, SumMonotonic
<1> QED BY <1>4 DEF Amounts, n, m

\* Rows keep their amounts, so that those of before sum to no more afterwards.
LEMMA AmountsStay ==
  ASSUME IInv, [Next]_vars, NEW S \in SUBSET Rows, NEW T \in SUBSET S
  PROVE  /\ Sum([p \in T |-> payout'[p].amount], T) \in Nat
         /\ Sum([p \in T |-> payout'[p].amount], T) <= Amounts(S)
<1> DEFINE n == [p \in S |-> payout[p].amount]
           m == [p \in T |-> payout'[p].amount]
<1>1. IsFiniteSet(S) /\ \A x \in S : n[x] \in Nat
  BY RowsCount DEF IInv
<1>2. IsFiniteSet(T)
  BY <1>1, FS_Subset
<1>3. \A x \in T : m[x] = n[x]
  BY RowsStay
<1> HIDE DEF n, m
<1>4. Sum(m, T) \in Nat /\ Sum(m, T) <= Sum(n, S)
  BY <1>1, <1>2, <1>3, SumType, SumMonotonic
<1> QED BY <1>4 DEF Amounts, n, m

LEMMA AmountsAdd ==
  ASSUME IInv, [Next]_vars, NEW S \in SUBSET Rows, NEW p, p \notin S,
         payout'[p].amount \in Nat, NEW T \in SUBSET (S \cup {p})
  PROVE  /\ Sum([q \in T |-> payout'[q].amount], T) \in Nat
         /\ Sum([q \in T |-> payout'[q].amount], T) <= Amounts(S) + payout'[p].amount
<1> DEFINE n == [q \in S |-> payout[q].amount]
           m == [q \in S \cup {p} |-> payout'[q].amount]
           l == [q \in T |-> payout'[q].amount]
<1>1. IsFiniteSet(S) /\ \A x \in S : n[x] \in Nat
  BY RowsCount DEF IInv
<1>2. \A x \in S : m[x] = n[x]
  BY RowsStay
<1>3. m[p] = payout'[p].amount
  OBVIOUS
<1>4. m[p] \in Nat
  OBVIOUS
<1>5. \A x \in T : l[x] = m[x]
  OBVIOUS
<1> HIDE DEF n, m, l
<1>6. Sum(m, S \cup {p}) = Sum(n, S) + m[p]
  BY <1>1, <1>2, <1>4, SumAdds
<1>7. IsFiniteSet(S \cup {p}) /\ \A x \in S \cup {p} : m[x] \in Nat
  BY <1>1, <1>2, <1>4, FS_AddElement
<1>8. IsFiniteSet(T) /\ \A x \in T : l[x] \in Nat
  BY <1>5, <1>7, FS_Subset
<1>9. Sum(l, T) <= Sum(m, S \cup {p}) /\ Sum(l, T) \in Nat
  BY <1>5, <1>7, <1>8, SumMonotonic, SumType
<1>10. Sum(n, S) \in Nat /\ Amounts(S) = Sum(n, S)
  BY <1>1, SumType DEF Amounts, n
<1> QED BY <1>3, <1>6, <1>7, <1>9, <1>10, SumType DEF l

\* A payout that has not failed stood before, a batch has just queued it, or it
\* failed and is retried.
LEMMA StandStep ==
  ASSUME IInv, [Next]_vars, NEW g \in Guide, NEW p \in PayoutsOf(g, Standing)'
  PROVE  \/ p \in PayoutsOf(g, Standing)
         \/ \E r \in Req : InsertBatch(r) /\ Queued(p, req[r].date) /\ payout'[p] # payout[p]
         \/ \E r \in Req : /\ SetStatus(r) /\ Retrying(r) /\ p = req[r].payout
                           /\ p \in Rows /\ payout[p].status = "FAILED"
                           /\ \A q \in Payout : q # p => payout'[q] = payout[q]
<1> USE DEF IInv
<1>0. p \in Payout /\ p \in Rows' /\ payout'[p].guide = g /\ payout'[p].status \in Standing
  BY DEF PayoutsOf, Rows
<1>1. ASSUME payout'[p] = payout[p] PROVE p \in PayoutsOf(g, Standing)
  BY <1>0, <1>1 DEF PayoutsOf, Rows
<1>2. ASSUME NEW r \in Req, InsertBatch(r)
      PROVE  payout'[p] = payout[p] \/ Queued(p, req[r].date)
  BY <1>0, <1>2, InsertFacts
<1>3. ASSUME NEW r \in Req, SetStatus(r), payout'[p] # payout[p]
      PROVE  \/ p \in PayoutsOf(g, Standing)
             \/ /\ Retrying(r) /\ p = req[r].payout /\ p \in Rows
                /\ payout[p].status = "FAILED"
                /\ \A q \in Payout : q # p => payout'[q] = payout[q]
  <2>1. /\ p = req[r].payout /\ p \in Rows /\ payout[p] \in Row
        /\ payout'[p].guide = payout[p].guide
        /\ \A q \in Payout : q # p => payout'[q] = payout[q]
    BY <1>0, <1>3, SetStatusFacts, RowFacts DEF TakesEdge
  <2>2. CASE payout[p].status = "FAILED"
    BY <1>3, <2>1, <2>2 DEF Retrying, SetStatus, Unmoved
  <2>3. CASE payout[p].status # "FAILED"
    BY <1>0, <2>1, <2>3 DEF PayoutsOf, Standing, Row
  <2> QED BY <2>1, <2>2, <2>3
<1>4. ASSUME NEW r \in Req, MarkPaid(r), payout'[p] # payout[p]
      PROVE  p \in PayoutsOf(g, Standing)
  <2>1. /\ p = req[r].payout /\ p \in Rows /\ payout'[p].guide = payout[p].guide
        /\ payout[p].status = "PROCESSING"
    BY <1>0, <1>4, MarkPaidFacts DEF TakesEdge
  <2> QED BY <1>0, <2>1 DEF PayoutsOf, Standing, PayoutStatus
<1> QED BY <1>1, <1>2, <1>3, <1>4, QuietFacts

\* A retry that is covered leaves its guide within what it earned.
LEMMA CoveredFits ==
  ASSUME IInv, Orderly, NEW r \in Req, Retrying(r), NEW g \in Guide,
         payout[req[r].payout].guide = g
  PROVE  Amounts(PayoutsOf(g, Standing)) + payout[req[r].payout].amount <= Earned(g, done)
<1> USE DEF IInv
<1> DEFINE D == PayoutsOf(g, Standing)
           a == payout[req[r].payout].amount
<1>1. a \in Nat /\ a > 0
  BY RowFacts, Requests DEF Retrying, MovesAreLegal, Row, Amount
<1>2. a <= Due(g)
  BY DEF Orderly
<1>3. Amounts(D) \in Nat
  <2>1. D \subseteq Rows
    BY DEF PayoutsOf
  <2> QED BY <2>1, AmountsType
<1>4. /\ Earned(g, cleared) \in Nat /\ Earned(g, done) \in Nat
      /\ Earned(g, cleared) <= Earned(g, done)
  BY EarnedGrows DEF TypeOK
<1>5. Standing = deductedStatuses
  BY DEF Standing, deductedStatuses
<1>6. Due(g) = Earned(g, cleared) - Amounts(D)
  BY <1>1, <1>2, <1>5 DEF Due
<1> HIDE DEF D, a
<1>7. Amounts(D) + a <= Earned(g, done)
  BY <1>1, <1>2, <1>3, <1>4, <1>6
<1> QED BY <1>7 DEF D, a

LEMMA FitStep == IInv /\ EarningsInv /\ [Next]_vars => BatchesFit'
<1> SUFFICES ASSUME IInv, EarningsInv, [Next]_vars, NEW r \in Req, NEW g \in Guide,
                    Batching(r)', req'[r].amount[g] > 0
             PROVE  Amounts(Undated(g, req[r].date))' + req'[r].amount[g] <= Earned(g, done)'
  BY DEF BatchesFit
<1> USE DEF IInv, EarningsInv
<1>0. done \subseteq Tour /\ done' \subseteq Tour /\ done \subseteq done'
  <2>1. TypeOK'
    BY TypeStep
  <2>2. done \subseteq done'
    BY DEF Next, Serve, StartBatch, LoadPayout, InsertBatch, SetStatus, MarkPaid, RefuseMove,
           Abandon, CompleteTour, Clear, PutAccount, VerifyAccount, Export, vars, earnings
  <2> QED BY <2>1, <2>2 DEF TypeOK
<1>g. Earned(g, done) \in Nat /\ Earned(g, done') \in Nat /\ Earned(g, done) <= Earned(g, done')
  BY <1>0, EarnedGrows
\* A batch that read before: what stands of other dates has only become less.
<1>1. CASE req'[r] = req[r]
  <2> DEFINE d == req[r].date
             S == Undated(g, d)
             T == Undated(g, d)'
  <2>1. Batching(r) /\ req[r].amount[g] > 0 /\ req[r].amount[g] \in Nat
    <3>1. Batching(r) /\ req[r].amount[g] > 0
      BY <1>1 DEF Batching
    <3>2. req[r].amount[g] \in Amount
      BY <3>1, RowFacts DEF Batch
    <3> QED BY <3>1, <3>2, Requests DEF Amount
  <2>2. T \subseteq S
    <3> SUFFICES ASSUME NEW p \in T PROVE p \in S
      OBVIOUS
    <3>1. p \in PayoutsOf(g, Standing)' /\ payout'[p].date # d
      BY <1>1 DEF Undated
    <3>2. ASSUME NEW q \in Req, InsertBatch(q), Queued(p, req[q].date) PROVE FALSE
      BY <2>1, <3>1, <3>2 DEF Queued, InsertBatch, Orderly
    <3>r. \A q \in Req : ~Retrying(q)
      BY <2>1 DEF Orderly
    <3>3. p \in PayoutsOf(g, Standing)
      BY <3>1, <3>2, <3>r, StandStep
    <3>4. p \in Rows
      BY <3>3 DEF PayoutsOf
    <3> QED BY <3>1, <3>3, <3>4, RowsStay DEF Undated
  <2>3. S \subseteq Rows
    BY DEF Undated, PayoutsOf
  <2>4. Amounts(Undated(g, req[r].date))' = Sum([p \in T |-> payout'[p].amount], T)
    BY <1>1 DEF Amounts
  <2>5. Amounts(S) + req[r].amount[g] <= Earned(g, done) /\ Amounts(S) \in Nat
    BY <2>1, <2>3, AmountsType DEF BatchesFit
  <2> HIDE DEF S, T
  <2>6. /\ Sum([p \in T |-> payout'[p].amount], T) \in Nat
        /\ Sum([p \in T |-> payout'[p].amount], T) <= Amounts(S)
    BY <2>2, <2>3, AmountsStay
  <2>7. Earned(g, done)' = Earned(g, done')
    BY DEF Earned
  <2> QED BY <1>1, <1>g, <2>1, <2>4, <2>5, <2>6, <2>7
\* A batch that reads now: what it is owed is what was earned beside all that stands.
<1>2. CASE req'[r] # req[r]
  <2>1. PICK d \in Date : StartBatch(r, d)
    BY <1>2, ReqChanges DEF Batching, LoadPayout, TypeOK
  <2>2. /\ req'[r].date = d /\ req'[r].amount[g] = Due(g)
        /\ payout' = payout /\ done' = done
    BY <2>1 DEF StartBatch, TypeOK, earnings
  <2> DEFINE D == PayoutsOf(g, deductedStatuses)
             S == Undated(g, d)
  <2>3. Due(g) = Earned(g, cleared) - Amounts(D)
    BY <2>2 DEF Due
  <2>4. S \subseteq D /\ D \subseteq Rows
    BY DEF Undated, PayoutsOf, Standing, deductedStatuses
  <2>5. Earned(g, cleared) \in Nat /\ Earned(g, cleared) <= Earned(g, done)
    BY <1>0, EarnedGrows DEF TypeOK
  <2>6. Amounts(Undated(g, req[r].date))' = Amounts(S)
    BY <2>2 DEF Amounts, Undated, PayoutsOf, Rows
  <2> HIDE DEF S, D
  <2>7. Amounts(S) \in Nat /\ Amounts(D) \in Nat /\ Amounts(S) <= Amounts(D)
    BY <2>4, AmountsType
  <2>8. Earned(g, done)' = Earned(g, done)
    BY <2>2 DEF Earned
  <2> QED BY <1>g, <2>2, <2>3, <2>5, <2>6, <2>7, <2>8
<1> QED BY <1>1, <1>2

LEMMA WithinStep == IInv /\ EarningsInv /\ [Next]_vars => WithinEarnings'
<1> SUFFICES ASSUME IInv, EarningsInv, [Next]_vars, NEW g \in Guide
             PROVE  Amounts(PayoutsOf(g, Standing))' <= Earned(g, done)'
  BY DEF WithinEarnings
<1> USE DEF IInv, EarningsInv
<1> DEFINE S == PayoutsOf(g, Standing)
           T == PayoutsOf(g, Standing)'
<1>0. S \subseteq Rows /\ Amounts(S) \in Nat /\ Amounts(S) <= Earned(g, done)
  <2>1. S \subseteq Rows
    BY DEF PayoutsOf
  <2> QED BY <2>1, AmountsType DEF WithinEarnings
<1>1. Amounts(PayoutsOf(g, Standing))' = Sum([p \in T |-> payout'[p].amount], T)
  BY DEF Amounts
<1>2. ASSUME T \subseteq S PROVE Amounts(PayoutsOf(g, Standing))' <= Earned(g, done)'
  <2>1. done \subseteq done' /\ done' \subseteq Tour
    <3>1. TypeOK'
      BY TypeStep
    <3>2. done \subseteq done'
      BY DEF Next, Serve, StartBatch, LoadPayout, InsertBatch, SetStatus, MarkPaid,
             RefuseMove, Abandon, CompleteTour, Clear, PutAccount, VerifyAccount, Export,
             vars, earnings
    <3> QED BY <3>1, <3>2 DEF TypeOK
  <2>2. /\ Earned(g, done) \in Nat /\ Earned(g, done') \in Nat
        /\ Earned(g, done) <= Earned(g, done')
    BY <2>1, EarnedGrows
  <2>3. Earned(g, done)' = Earned(g, done')
    BY DEF Earned
  <2> HIDE DEF S, T
  <2>4. /\ Sum([p \in T |-> payout'[p].amount], T) \in Nat
        /\ Sum([p \in T |-> payout'[p].amount], T) <= Amounts(S)
    BY <1>0, <1>2, AmountsStay
  <2> QED BY <1>0, <1>1, <2>2, <2>3, <2>4
\* The batch found its date free, so that what it counted is all that is clean.
<1>3. ASSUME NEW p \in T, p \notin S, NEW r \in Req, InsertBatch(r),
             Queued(p, req[r].date), payout'[p] # payout[p]
      PROVE  Amounts(PayoutsOf(g, Standing))' <= Earned(g, done)'
  <2>1. InsertBatch(r) /\ Queued(p, req[r].date) /\ payout'[p] # payout[p]
    BY <1>3
  <2>2. p \in Payout /\ payout'[p].guide = g
    BY DEF PayoutsOf, Rows
  <2>3. /\ payout'[p].amount = req[r].amount[g] /\ req[r].amount[g] > 0
    BY <2>1, <2>2, InsertFacts
  <2>4. S = Undated(g, req[r].date)
    BY <2>1, <2>2 DEF Queued, IndexAdmits, Undated
  <2>5. Amounts(S) + req[r].amount[g] <= Earned(g, done)
    BY <2>1, <2>3, <2>4 DEF BatchesFit, InsertBatch
  <2>6. T \subseteq S \cup {p}
    <3> SUFFICES ASSUME NEW q \in T, q \notin S PROVE q = p
      OBVIOUS
    <3>1. q \in Payout /\ payout'[q].guide = g
      BY DEF PayoutsOf, Rows
    <3>2. payout'[q] # payout[q]
      BY <3>1 DEF PayoutsOf, Rows
    <3> QED BY <2>1, <2>2, <3>1, <3>2, InsertFacts
  <2>7. payout'[p].amount \in Nat /\ p \notin Rows
    BY <2>1, Requests DEF Queued, Row, Amount
  <2>8. done' = done
    BY <2>1 DEF InsertBatch, earnings
  <2>9. T \in SUBSET (S \cup {p}) /\ S \in SUBSET Rows
    BY <1>0, <2>6
  <2>10. Earned(g, done)' = Earned(g, done) /\ Earned(g, done) \in Nat
    BY <2>8, EarnedGrows DEF Earned, TypeOK
  <2> HIDE DEF S, T
  <2>11. /\ Sum([q \in T |-> payout'[q].amount], T) \in Nat
         /\ Sum([q \in T |-> payout'[q].amount], T) <= Amounts(S) + payout'[p].amount
    BY <1>3, <2>7, <2>9, AmountsAdd
  <2> QED BY <1>0, <1>1, <2>3, <2>5, <2>7, <2>10, <2>11
\* The retry is covered, and nothing else moves with it.
<1>4. ASSUME NEW p \in T, p \notin S, NEW r \in Req, SetStatus(r), Retrying(r),
             p = req[r].payout, p \in Rows, payout[p].status = "FAILED",
             \A q \in Payout : q # p => payout'[q] = payout[q]
      PROVE  Amounts(PayoutsOf(g, Standing))' <= Earned(g, done)'
  <2>1. p \in Payout /\ payout'[p].guide = g /\ payout[p].guide = g
          /\ payout'[p].amount = payout[p].amount
    BY <1>4, RowsStay DEF PayoutsOf, Rows
  <2>2. Amounts(S) + payout[p].amount <= Earned(g, done)
    BY <1>4, <2>1, CoveredFits
  <2>3. payout[p].amount \in Nat
    BY <1>4, RowFacts, Requests DEF Row, Amount
  <2>4. T \subseteq S \cup {p}
    BY <1>4 DEF PayoutsOf, Rows
  <2>5. done' = done
    BY <1>4 DEF SetStatus, earnings
  <2>6. Earned(g, done)' = Earned(g, done) /\ Earned(g, done) \in Nat
    BY <2>5, EarnedGrows DEF Earned, TypeOK
  <2>7. T \in SUBSET (S \cup {p}) /\ S \in SUBSET Rows /\ payout'[p].amount \in Nat
    BY <1>0, <2>1, <2>3, <2>4
  <2> HIDE DEF S, T
  <2>8. /\ Sum([q \in T |-> payout'[q].amount], T) \in Nat
        /\ Sum([q \in T |-> payout'[q].amount], T) <= Amounts(S) + payout'[p].amount
    BY <1>4, <2>7, AmountsAdd
  <2> QED BY <1>0, <1>1, <2>1, <2>2, <2>3, <2>6, <2>8
<1> QED BY <1>2, <1>3, <1>4, StandStep

LEMMA EarningsInitially == Init => EarningsInv
<1> SUFFICES ASSUME Init PROVE EarningsInv
  OBVIOUS
<1>1. Rows = {} /\ \A r \in Req : ~Moving(r) /\ ~Batching(r)
  BY DEF Init, Rows, Moving, Batching
<1>2. ASSUME NEW g \in Guide PROVE Amounts(PayoutsOf(g, Standing)) <= Earned(g, done)
  <2>1. PayoutsOf(g, Standing) = {}
    BY <1>1 DEF PayoutsOf
  <2>2. Units([p \in {} |-> payout[p].amount], {}) = {}
    BY DEF Units
  <2>3. Amounts({}) = 0
    BY <2>2, FS_EmptySet DEF Amounts, Sum
  <2>4. Earned(g, done) \in Nat
    BY EarnedGrows DEF Init
  <2> QED BY <2>1, <2>3, <2>4
<1>3. ~\E r \in Req : Retrying(r)
  BY <1>1 DEF Retrying
<1> QED BY <1>1, <1>2, <1>3
        DEF EarningsInv, Orderly, BatchesFit, WithinEarnings

\* The history becomes disorderly by a state that is.
LEMMA StraysOnce ==
  ASSUME [Next]_vars
  PROVE  /\ strayed => strayed'
         /\ ~strayed' => Orderly' \/ UNCHANGED vars
<1>1. CASE Next
  <2>1. strayed' = (strayed \/ ~Orderly')
    BY <1>1 DEF Next
  <2> QED BY <2>1, Zenon
<1>2. CASE UNCHANGED vars
  BY <1>2 DEF vars
<1> QED BY <1>1, <1>2

LEMMA EarningsStep ==
  IInv /\ (strayed \/ EarningsInv) /\ [Next]_vars => (strayed \/ EarningsInv)'
<1> SUFFICES ASSUME IInv, EarningsInv, [Next]_vars, ~strayed' PROVE EarningsInv'
  BY StraysOnce
<1>1. BatchesFit' /\ WithinEarnings'
  BY FitStep, WithinStep
<1>2. CASE Orderly'
  BY <1>1, <1>2 DEF EarningsInv
<1>3. CASE UNCHANGED vars
  <2>1. Orderly'
    BY <1>3 DEF EarningsInv, Orderly, Batching, Retrying, Moving, Unmoved, Due, Amounts, PayoutsOf,
       Rows, Earned, vars
  <2> QED BY <1>1, <2>1 DEF EarningsInv
<1> QED BY <1>2, <1>3, StraysOnce

-----------------------------------------------------------------------------
\* Every reachable state is well typed: batches, moves and rows hold what the
\* code stores, whatever the interleaving.
THEOREM TypeCorrect == Spec => []TypeOK
  BY Inductive, PTL DEF IInv

\* PAID and the posting of a payout come together, for any number of officers
\* moving payouts at the same time.
THEOREM PaidPosted == Spec => []PaidIsPosted
  BY Inductive, PTL DEF IInv

\* The index keeps a guide's payouts of a date apart, through concurrent batches,
\* failures and retries.
THEOREM OneOfADate == Spec => []OncePerDate
  BY Inductive, PTL DEF IInv

\* As long as batches under way are of one date and failed payouts are retried
\* only when the balance covers them, what has been queued for a guide or paid to
\* it stays within what it earned, though every batch inserts amounts it read
\* before others inserted theirs.
THEOREM StaysWithinEarnings == Spec => []OrderlyStaysWithin
<1>1. Init => strayed \/ EarningsInv
  BY EarningsInitially
<1>2. (strayed \/ EarningsInv) => OrderlyStaysWithin
  BY DEF EarningsInv, OrderlyStaysWithin
<1> QED BY <1>1, <1>2, EarningsStep, Inductive, PTL DEF Spec

\* A payout only takes edges of the machine, though each move judged a status it
\* read before.
THEOREM FollowsMachine == Spec => MachineIsFollowed
<1>1. IInv /\ [Next]_vars =>
        [\A p \in Rows : payout'[p].status # payout[p].status
           => payout'[p].status \in allowedTransitions[payout[p].status]]_vars
  BY RowsStay
<1> QED BY <1>1, Inductive, PTL DEF Spec, MachineIsFollowed
=============================================================================
