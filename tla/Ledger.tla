-------------------------------- MODULE Ledger --------------------------------
(***************************************************************************)
(* The double-entry ledger of ledger/ledger.go: what a posting is, when Post *)
(* accepts one, and what Reversal posts.  The entries of a posting are one   *)
(* signed amount per account, credits positive as in Balance; an account the *)
(* posting has no entry for carries 0, since Validate admits no zero entry.  *)
(***************************************************************************)
EXTENDS Integers

\* The platform accounts some code posts to (no code posts to gateway_fees).
Account == {"tourist_clearing", "platform_revenue", "tourism_levy_payable",
            "guide_payable_pending", "guide_payable_eligible"}

Entries == [Account -> Int]

Total(e) == e["tourist_clearing"] + e["platform_revenue"] + e["tourism_levy_payable"]
              + e["guide_payable_pending"] + e["guide_payable_eligible"]

\* Validate: something is posted, and debits equal credits.
Validate(e) == Total(e) = 0 /\ \E a \in Account : e[a] # 0

\* reversedEntries: every direction flipped.
Reversed(e) == [a \in Account |-> -e[a]]

\* amount leaves one account for another: debit from, credit to.
Moved(from, to, amount) ==
  [a \in Account |-> IF a = from THEN -amount ELSE IF a = to THEN amount ELSE 0]

\* A posting of a ledger is found by its reference, UNIQUE in the database.
Posted(ledger, reference) == \E t \in ledger : t.reference = reference
Posting(ledger, reference) == CHOOSE t \in ledger : t.reference = reference

\* Post: the entries are valid and the reference is new.
Post(before, after, t) ==
  /\ Validate(t.entries)
  /\ ~Posted(before, t.reference)
  /\ after = before \cup {t}
=============================================================================
