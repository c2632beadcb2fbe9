------------------------- MODULE CertificationProofs -------------------------
(***************************************************************************)
(* Theorems of Certification, for every choice of its constants.            *)
(***************************************************************************)
EXTENDS Certification, TLAPS

\* A transition in progress stands on a case in the status it read, along an edge
\* of the machine, and holds the case alone.
LockInv ==
  /\ \A o \in Officer : moving[o] # None =>
       /\ moving[o].case \in Opened
       /\ cases[moving[o].case].status = moving[o].from
       /\ CanTransition(moving[o].from, moving[o].to)
  /\ \A o, p \in Officer :
       moving[o] # None /\ moving[p] # None /\ moving[o].case = moving[p].case => o = p

\* Whoever applies or has a case has a profile.
ProfileInv ==
  /\ \A a \in Applicant : applying[a] # None => profiles[applying[a].guide] # None
  /\ \A c \in Opened : profiles[cases[c].guide] # None

IInv == TypeOK /\ LockInv /\ ProfileInv

-----------------------------------------------------------------------------
\* What the two kinds of rows hold.
LEMMA Rows ==
  ASSUME TypeOK
  PROVE  /\ \A c \in Opened : c \in Case /\ cases[c] \in CaseRow
         /\ \A a \in Applicant : applying[a] # None => applying[a] \in Application
         /\ \A o \in Officer : moving[o] # None => moving[o] \in Move
  BY DEF TypeOK, Opened

\* The edges stay within the statuses, and none leaves a rejected case.
LEMMA Edges ==
  ASSUME NEW from, NEW to, CanTransition(from, to)
  PROVE  from \in Status /\ to \in Status /\ from # "REJECTED" /\ from # to
  BY DEF CanTransition, Transitions, MainLine, Rejections, Exceptions, Returns, Status

\* A commit seen from outside: its case takes the edge, the other cases stay.
LEMMA CommitFacts ==
  ASSUME IInv, NEW o \in Officer, Commit(o)
  PROVE  /\ moving[o] \in Move /\ moving[o].case \in Opened
         /\ Opened' = Opened
         /\ \A c \in Opened : cases'[c].guide = cases[c].guide
                              /\ cases'[c].opened = cases[c].opened
         /\ cases[moving[o].case].status = moving[o].from
         /\ cases'[moving[o].case].status = moving[o].to
         /\ CanTransition(moving[o].from, moving[o].to)
         /\ \A c \in Opened : c # moving[o].case => cases'[c] = cases[c]
<1> USE DEF IInv
<1> DEFINE m == moving[o]
<1>1. m # None /\ m \in Move /\ m.case \in Opened /\ m.case \in Case
  BY Rows DEF Commit, LockInv, Opened
<1>2. cases[m.case] \in CaseRow
  BY <1>1, Rows
<1>3. cases' = [cases EXCEPT ![m.case] = [@ EXCEPT !.status = m.to]]
  BY DEF Commit
<1>4. cases'[m.case] = [cases[m.case] EXCEPT !.status = m.to]
  BY <1>1, <1>3 DEF TypeOK
<1>5. cases'[m.case] \in CaseRow
  BY <1>1, <1>2, <1>4 DEF CaseRow, Move
<1>6. \A c \in Case : c # m.case => cases'[c] = cases[c]
  BY <1>3 DEF TypeOK
<1>7. Opened' = Opened
  BY <1>1, <1>5, <1>6, NoneIsFresh DEF Opened
<1>8. /\ cases'[m.case].status = m.to
      /\ cases'[m.case].guide = cases[m.case].guide
      /\ cases'[m.case].opened = cases[m.case].opened
  BY <1>2, <1>4 DEF CaseRow
<1> QED BY <1>1, <1>6, <1>7, <1>8 DEF LockInv, Opened

\* An insertion seen from outside: nothing, or one more case in APPLIED.
LEMMA InsertFacts ==
  ASSUME IInv, NEW a \in Applicant, InsertCase(a)
  PROVE  \/ cases' = cases /\ events' = events
         \/ \E c \in Case \ Opened :
              /\ Opened' = Opened \cup {c}
              /\ cases'[c].status = "APPLIED" /\ cases'[c].guide = applying[a].guide
              /\ cases'[c].opened = applying[a].opened
              /\ IndexAdmits(applying[a].guide)
              /\ \A d \in Opened : cases'[d] = cases[d]
              /\ events' = [events EXCEPT ![c] = <<[from |-> None, to |-> "APPLIED"]>>]
<1> USE DEF IInv
<1> SUFFICES ASSUME ~(cases' = cases /\ events' = events)
             PROVE  \E c \in Case \ Opened :
              /\ Opened' = Opened \cup {c}
              /\ cases'[c].status = "APPLIED" /\ cases'[c].guide = applying[a].guide
              /\ cases'[c].opened = applying[a].opened
              /\ IndexAdmits(applying[a].guide)
              /\ \A d \in Opened : cases'[d] = cases[d]
              /\ events' = [events EXCEPT ![c] = <<[from |-> None, to |-> "APPLIED"]>>]
  OBVIOUS
<1>1. applying[a] \in Application
  BY Rows DEF InsertCase
<1>2. PICK c \in Case \ Opened :
        /\ IndexAdmits(applying[a].guide)
        /\ cases' = [cases EXCEPT ![c] = [guide |-> applying[a].guide, status |-> "APPLIED",
                                          opened |-> applying[a].opened]]
        /\ events' = [events EXCEPT ![c] = <<[from |-> None, to |-> "APPLIED"]>>]
  BY DEF InsertCase
<1>3. cases'[c] = [guide |-> applying[a].guide, status |-> "APPLIED",
                   opened |-> applying[a].opened]
  BY <1>2 DEF TypeOK
<1>4. cases'[c] \in CaseRow
  BY <1>1, <1>3 DEF CaseRow, Application, Status
<1>5. \A d \in Case : d # c => cases'[d] = cases[d]
  BY <1>2 DEF TypeOK
<1>6. Opened' = Opened \cup {c}
  BY <1>4, <1>5, NoneIsFresh DEF Opened
<1>7. /\ cases'[c].status = "APPLIED" /\ cases'[c].guide = applying[a].guide
      /\ cases'[c].opened = applying[a].opened
      /\ \A d \in Opened : cases'[d] = cases[d]
  BY <1>2, <1>3, <1>5 DEF Opened
<1> QED BY <1>2, <1>6, <1>7

-----------------------------------------------------------------------------
LEMMA Initially == Init => IInv
  BY DEF Init, IInv, TypeOK, LockInv, ProfileInv, Opened

LEMMA TypeStep == IInv /\ [Next]_vars => TypeOK'
<1> SUFFICES ASSUME IInv, [Next]_vars PROVE TypeOK'
  OBVIOUS
<1> USE DEF IInv
<1>1. ASSUME NEW a \in Applicant, NEW g \in Guide, Apply(a, g) PROVE TypeOK'
  BY <1>1 DEF Apply, TypeOK, Application
<1>2. ASSUME NEW a \in Applicant, ReadCase(a) PROVE TypeOK'
  <2>1. applying[a] \in Application
    BY <1>2, Rows DEF ReadCase
  <2>2. [applying[a] EXCEPT !.at = "begin"] \in Application
    BY <2>1 DEF Application
  <2>3. applying' = [applying EXCEPT ![a] = [@ EXCEPT !.at = "begin"]]
          \/ applying' = [applying EXCEPT ![a] = None]
    BY <1>2 DEF ReadCase
  <2>4. applying' \in [Applicant -> Application \cup {None}]
    BY <2>2, <2>3 DEF TypeOK
  <2> QED BY <1>2, <2>4 DEF ReadCase, TypeOK, account
<1>3. ASSUME NEW a \in Applicant, BeginOpen(a) PROVE TypeOK'
  <2>1. applying[a] \in Application
    BY <1>3, Rows DEF BeginOpen
  <2>2. PICK n \in 1..MaxOpened :
          applying' = [applying EXCEPT ![a] = [guide |-> @.guide, at |-> "insert", opened |-> n]]
    BY <1>3 DEF BeginOpen
  <2>3. [guide |-> applying[a].guide, at |-> "insert", opened |-> n] \in Application
    BY <2>1, Bounds DEF Application
  <2>4. applying' \in [Applicant -> Application \cup {None}]
    BY <2>2, <2>3 DEF TypeOK
  <2> QED BY <1>3, <2>4 DEF BeginOpen, TypeOK, account
<1>4. ASSUME NEW a \in Applicant, InsertCase(a) PROVE TypeOK'
  <2>1. applying[a] \in Application
    BY <1>4, Rows DEF InsertCase
  <2>2. [guide |-> applying[a].guide, status |-> "APPLIED", opened |-> applying[a].opened]
          \in CaseRow
    BY <2>1 DEF CaseRow, Application, Status
  <2>3. <<[from |-> None, to |-> "APPLIED"]>> \in Seq(Event)
    BY DEF Event, Status
  <2>4. cases' \in [Case -> CaseRow \cup {None}] /\ events' \in [Case -> Seq(Event)]
    <3>1. CASE UNCHANGED <<cases, events>>
      BY <3>1 DEF TypeOK
    <3>2. ASSUME NEW c \in Case \ Opened,
                 cases' = [cases EXCEPT ![c] = [guide |-> applying[a].guide, status |-> "APPLIED",
                                                opened |-> applying[a].opened]],
                 events' = [events EXCEPT ![c] = <<[from |-> None, to |-> "APPLIED"]>>]
          PROVE  cases' \in [Case -> CaseRow \cup {None}] /\ events' \in [Case -> Seq(Event)]
      BY <2>2, <2>3, <3>2 DEF TypeOK
    <3> QED BY <1>4, <3>1, <3>2 DEF InsertCase
  <2> QED BY <1>4, <2>4 DEF InsertCase, TypeOK, account
<1>5. ASSUME NEW g \in Guide, NEW d \in Group, RegisterDocument(g, d) \/ Expire(g, d)
      PROVE  TypeOK'
  <2>1. UNCHANGED <<account, cases, events, applying, moving>>
    BY <1>5 DEF RegisterDocument, Expire
  <2>2. documents' \in [Guide -> SUBSET Group]
    <3>1. documents[g] \cup {d} \in SUBSET Group /\ documents[g] \ {d} \in SUBSET Group
      BY DEF TypeOK
    <3>2. \E docs \in SUBSET Group : documents' = [documents EXCEPT ![g] = docs]
      BY <1>5, <3>1 DEF RegisterDocument, Expire
    <3> QED BY <3>2 DEF TypeOK
  <2> QED BY <2>1, <2>2 DEF TypeOK, account
<1>6. ASSUME NEW g \in Guide, Erase(g) PROVE TypeOK'
  BY <1>6, SMTT(20) DEF Erase, TypeOK
<1>7. ASSUME NEW o \in Officer, NEW c \in Case, NEW to \in Status, LockCase(o, c, to)
      PROVE  TypeOK'
  <2>1. cases[c] \in CaseRow
    BY <1>7 DEF LockCase, TypeOK
  <2>2. [case |-> c, from |-> cases[c].status, to |-> to, at |-> "locked"] \in Move
    BY <2>1 DEF Move, CaseRow
  <2> QED BY <1>7, <2>2 DEF LockCase, TypeOK, account
<1>8. ASSUME NEW o \in Officer, CheckEvidence(o) PROVE TypeOK'
  <2>1. moving[o] \in Move
    BY <1>8, Rows DEF CheckEvidence
  <2>2. [moving[o] EXCEPT !.at = "checked"] \in Move
    BY <2>1 DEF Move
  <2> QED BY <1>8, <2>2 DEF CheckEvidence, TypeOK, account
<1>9. ASSUME NEW o \in Officer, Commit(o) PROVE TypeOK'
  <2>1. moving[o] \in Move /\ moving[o].case \in Case /\ cases[moving[o].case] \in CaseRow
    BY <1>9, CommitFacts, Rows DEF Opened
  <2>2. [cases[moving[o].case] EXCEPT !.status = moving[o].to] \in CaseRow
    BY <2>1 DEF CaseRow, Move
  <2>3. cases' \in [Case -> CaseRow \cup {None}]
    BY <1>9, <2>2 DEF Commit, TypeOK
  <2>4. [from |-> moving[o].from, to |-> moving[o].to] \in Event
    BY <2>1 DEF Move, Event
  <2>5. Append(events[moving[o].case], [from |-> moving[o].from, to |-> moving[o].to])
          \in Seq(Event)
    BY <2>1, <2>4 DEF TypeOK
  <2>6. events' \in [Case -> Seq(Event)]
    BY <1>9, <2>5 DEF Commit, TypeOK
  <2>7. ProfileStatus(moving[o].to) \in {"certified", "suspended", None}
    BY DEF ProfileStatus
  <2>8. profiles' \in [Guide -> {"pending", "certified", "suspended", None}]
    BY <1>9, <2>7 DEF Commit, TypeOK
  <2>9. cases[moving[o].case].guide \in Guide
    BY <2>1 DEF CaseRow
  <2>10. guides' \subseteq Guide
    BY <1>9, <2>9 DEF Commit, TypeOK
  <2>11. moving' \in [Officer -> Move \cup {None}]
    BY <1>9 DEF Commit, TypeOK
  <2> QED BY <1>9, <2>3, <2>6, <2>8, <2>10, <2>11 DEF Commit, TypeOK
<1>10. ASSUME Abandon PROVE TypeOK'
  BY <1>10 DEF Abandon, TypeOK, account
<1>11. ASSUME UNCHANGED vars PROVE TypeOK'
  BY <1>11 DEF vars, account, TypeOK
<1> QED BY <1>1, <1>2, <1>3, <1>4, <1>5, <1>6, <1>7, <1>8, <1>9, <1>10, <1>11 DEF Next

\* The steps that leave the cases and the transitions alone.
LEMMA LockFrame ==
  ASSUME LockInv, UNCHANGED <<cases, moving>>
  PROVE  LockInv'
  BY DEF LockInv, Opened

LEMMA LockStep == IInv /\ [Next]_vars => LockInv'
<1> SUFFICES ASSUME IInv, [Next]_vars PROVE LockInv'
  OBVIOUS
<1> USE DEF IInv
<1>1. ASSUME UNCHANGED <<cases, moving>> PROVE LockInv'
  BY <1>1, LockFrame
<1>2. ASSUME NEW a \in Applicant, InsertCase(a) PROVE LockInv'
  <2>1. CASE cases' = cases
    BY <1>2, <2>1, LockFrame DEF InsertCase
  <2>2. CASE cases' # cases
    <3>1. \A d \in Opened : d \in Opened' /\ cases'[d] = cases[d]
      BY <1>2, <2>2, InsertFacts
    <3> QED BY <1>2, <3>1 DEF InsertCase, LockInv
  <2> QED BY <2>1, <2>2
<1>3. ASSUME NEW o \in Officer, NEW c \in Case, NEW to \in Status, LockCase(o, c, to)
      PROVE  LockInv'
  <2>1. moving'[o] = [case |-> c, from |-> cases[c].status, to |-> to, at |-> "locked"]
    BY <1>3 DEF LockCase, TypeOK
  <2>2. \A p \in Officer : p # o => moving'[p] = moving[p]
    BY <1>3 DEF LockCase, TypeOK
  <2>3. c \in Opened /\ CanTransition(cases[c].status, to) /\ Opened' = Opened /\ cases' = cases
    BY <1>3 DEF LockCase, Opened
  <2>4. \A p \in Officer : moving[p] # None => moving[p].case # c
    BY <1>3 DEF LockCase, RowIsFree
  <2> QED BY <2>1, <2>2, <2>3, <2>4 DEF LockInv
<1>4. ASSUME NEW o \in Officer, CheckEvidence(o) PROVE LockInv'
  <2>1. moving[o] \in Move /\ moving[o] # None
    BY <1>4, Rows DEF CheckEvidence
  <2>2. moving'[o] = [moving[o] EXCEPT !.at = "checked"] \/ moving'[o] = None
    BY <1>4 DEF CheckEvidence, TypeOK
  <2>3. moving'[o] # None => /\ moving'[o].case = moving[o].case
                            /\ moving'[o].from = moving[o].from /\ moving'[o].to = moving[o].to
    BY <2>1, <2>2 DEF Move
  <2>4. \A p \in Officer : p # o => moving'[p] = moving[p]
    BY <1>4 DEF CheckEvidence, TypeOK
  <2>5. Opened' = Opened /\ cases' = cases
    BY <1>4 DEF CheckEvidence, Opened
  <2> QED BY <2>1, <2>3, <2>4, <2>5 DEF LockInv
<1>5. ASSUME NEW o \in Officer, Commit(o) PROVE LockInv'
  <2>1. moving'[o] = None /\ \A p \in Officer : p # o => moving'[p] = moving[p]
    BY <1>5 DEF Commit, TypeOK
  <2>2. moving[o] # None
    BY <1>5 DEF Commit
  <2>3. \A p \in Officer : moving'[p] # None =>
          p # o /\ moving'[p] = moving[p] /\ moving[p].case # moving[o].case
    BY <2>1, <2>2 DEF LockInv
  <2>4. /\ Opened' = Opened
        /\ \A c \in Opened : c # moving[o].case => cases'[c] = cases[c]
    BY <1>5, CommitFacts
  <2> QED BY <2>3, <2>4 DEF LockInv
<1>6. ASSUME Abandon PROVE LockInv'
  <2>1. Opened' = Opened /\ cases' = cases
    BY <1>6 DEF Abandon, Opened
  <2>2. \A p \in Officer : moving'[p] = moving[p] \/ moving'[p] = None
    BY <1>6 DEF Abandon, TypeOK
  <2> QED BY <2>1, <2>2 DEF LockInv
<1> QED BY <1>1, <1>2, <1>3, <1>4, <1>5, <1>6 DEF Next, vars, Apply, ReadCase, BeginOpen,
     RegisterDocument, Expire, Erase

LEMMA ProfileStep == IInv /\ [Next]_vars => ProfileInv'
<1> SUFFICES ASSUME IInv, [Next]_vars PROVE ProfileInv'
  OBVIOUS
<1> USE DEF IInv
<1>1. ASSUME UNCHANGED <<profiles, cases, applying>> PROVE ProfileInv'
  BY <1>1 DEF ProfileInv, Opened
<1>2. ASSUME NEW a \in Applicant, NEW g \in Guide, Apply(a, g) PROVE ProfileInv'
  <2>1. \A h \in Guide : profiles[h] # None => profiles'[h] # None
    BY <1>2 DEF Apply, TypeOK
  <2>2. profiles'[g] # None
    BY <1>2, NoneIsFresh DEF Apply, TypeOK
  <2>3. \A b \in Applicant : b # a => applying'[b] = applying[b]
    BY <1>2 DEF Apply, TypeOK
  <2>4. applying'[a].guide = g
    BY <1>2 DEF Apply, TypeOK
  <2>5. Opened' = Opened /\ cases' = cases
    BY <1>2 DEF Apply, Opened
  <2>6. /\ \A b \in Applicant : applying[b] # None => applying[b].guide \in Guide
        /\ \A c \in Opened : cases[c].guide \in Guide
    BY Rows DEF Application, CaseRow
  <2> QED BY <2>1, <2>2, <2>3, <2>4, <2>5, <2>6 DEF ProfileInv
<1>3. ASSUME NEW a \in Applicant, ReadCase(a) \/ BeginOpen(a) PROVE ProfileInv'
  <2>1. applying[a] \in Application /\ applying[a] # None
    BY <1>3, Rows DEF ReadCase, BeginOpen
  <2>2. applying'[a] # None => applying'[a].guide = applying[a].guide
    BY <1>3, <2>1 DEF ReadCase, BeginOpen, TypeOK, Application
  <2>3. \A b \in Applicant : b # a => applying'[b] = applying[b]
    BY <1>3 DEF ReadCase, BeginOpen, TypeOK
  <2>4. Opened' = Opened /\ cases' = cases /\ profiles' = profiles
    BY <1>3 DEF ReadCase, BeginOpen, Opened, account
  <2> QED BY <2>1, <2>2, <2>3, <2>4 DEF ProfileInv
<1>4. ASSUME NEW a \in Applicant, InsertCase(a) PROVE ProfileInv'
  <2>1. /\ applying[a] # None /\ applying'[a] = None /\ profiles' = profiles
        /\ \A b \in Applicant : b # a => applying'[b] = applying[b]
    BY <1>4 DEF InsertCase, TypeOK, account
  <2>2. \A c \in Opened' : profiles[cases'[c].guide] # None
    <3>1. CASE cases' = cases
      BY <3>1 DEF ProfileInv, Opened
    <3>2. CASE cases' # cases
      <4>1. PICK c \in Case \ Opened :
              /\ Opened' = Opened \cup {c} /\ cases'[c].guide = applying[a].guide
              /\ \A d \in Opened : cases'[d] = cases[d]
        BY <1>4, <3>2, InsertFacts
      <4> QED BY <2>1, <4>1 DEF ProfileInv
    <3> QED BY <3>1, <3>2
  <2> QED BY <2>1, <2>2 DEF ProfileInv
<1>5. ASSUME NEW o \in Officer, Commit(o) PROVE ProfileInv'
  <2>1. Opened' = Opened /\ \A c \in Opened : cases'[c].guide = cases[c].guide
    BY <1>5, CommitFacts
  <2>2. ProfileStatus(moving[o].to) = None \/ ProfileStatus(moving[o].to) \in {"certified", "suspended"}
    BY DEF ProfileStatus
  <2>3. \A g \in Guide : profiles[g] # None => profiles'[g] # None
    BY <1>5, <2>2, NoneIsFresh DEF Commit, TypeOK
  <2>4. /\ \A b \in Applicant : applying[b] # None => applying[b].guide \in Guide
        /\ \A c \in Opened : cases[c].guide \in Guide
    BY Rows DEF Application, CaseRow
  <2>5. applying' = applying
    BY <1>5 DEF Commit
  <2> QED BY <2>1, <2>3, <2>4, <2>5 DEF ProfileInv
<1>6. ASSUME Abandon PROVE ProfileInv'
  <2>1. Opened' = Opened /\ cases' = cases /\ profiles' = profiles
    BY <1>6 DEF Abandon, Opened, account
  <2>2. \A a \in Applicant : applying'[a] = applying[a] \/ applying'[a] = None
    BY <1>6 DEF Abandon, TypeOK
  <2> QED BY <2>1, <2>2 DEF ProfileInv
<1> QED BY <1>1, <1>2, <1>3, <1>4, <1>5, <1>6 DEF Next, vars, account, RegisterDocument,
     Expire, Erase, LockCase, CheckEvidence

\* Types, locks and profiles hold in every reachable state.
THEOREM Coherence == Spec => []IInv
<1>1. IInv /\ [Next]_vars => IInv'
  BY TypeStep, LockStep, ProfileStep DEF IInv
<1> QED BY <1>1, Initially, PTL DEF Spec

\* The type invariant, of any number of guides, cases, applications and officers.
THEOREM TypeCorrect == Spec => []TypeOK
<1>1. IInv => TypeOK
  BY DEF IInv
<1> QED BY <1>1, Coherence, PTL

-----------------------------------------------------------------------------
\* One event more, from where the history stands along an edge, is a path again.
LEMMA PathExtends ==
  ASSUME NEW e \in Seq(Event), Len(e) > 0, NEW f \in Status, NEW t \in Status,
         e[1] = [from |-> None, to |-> "APPLIED"],
         \A i \in 2..Len(e) : e[i].from = e[i - 1].to /\ CanTransition(e[i].from, e[i].to),
         e[Len(e)].to = f, CanTransition(f, t),
         NEW h, h = Append(e, [from |-> f, to |-> t])
  PROVE  /\ Len(h) > 0
         /\ h[1] = [from |-> None, to |-> "APPLIED"]
         /\ \A i \in 2..Len(h) : h[i].from = h[i - 1].to /\ CanTransition(h[i].from, h[i].to)
         /\ h[Len(h)].to = t
<1>1. Len(h) = Len(e) + 1 /\ Len(e) \in Nat
  OBVIOUS
<1>2. \A i \in 1..Len(e) : h[i] = e[i]
  OBVIOUS
<1>3. h[Len(e) + 1] = [from |-> f, to |-> t]
  OBVIOUS
<1>4. ASSUME NEW i \in 2..Len(h)
      PROVE  h[i].from = h[i - 1].to /\ CanTransition(h[i].from, h[i].to)
  <2>1. CASE i \in 2..Len(e)
    <3>1. i - 1 \in 1..Len(e) /\ i \in 1..Len(e)
      BY <2>1, <1>1
    <3> QED BY <2>1, <3>1, <1>2
  <2>2. CASE i = Len(e) + 1
    <3>1. h[i].from = f /\ h[i].to = t
      BY <2>2, <1>3
    <3>2. h[i - 1] = e[Len(e)]
      BY <2>2, <1>1, <1>2
    <3> QED BY <3>1, <3>2
  <2> QED BY <2>1, <2>2, <1>1
<1> QED BY <1>1, <1>2, <1>3, <1>4

LEMMA HistoryStep == IInv /\ HistoryIsPath /\ [Next]_vars => HistoryIsPath'
<1> SUFFICES ASSUME IInv, HistoryIsPath, [Next]_vars PROVE HistoryIsPath'
  OBVIOUS
<1> USE DEF IInv
<1>1. ASSUME UNCHANGED <<cases, events>> PROVE HistoryIsPath'
  BY <1>1 DEF HistoryIsPath, Opened
<1>2. ASSUME NEW a \in Applicant, InsertCase(a) PROVE HistoryIsPath'
  <2>1. CASE cases' = cases /\ events' = events
    BY <1>1, <2>1
  <2>2. CASE ~(cases' = cases /\ events' = events)
    <3>1. PICK c \in Case \ Opened :
            /\ Opened' = Opened \cup {c}
            /\ cases'[c].status = "APPLIED"
            /\ \A d \in Opened : cases'[d] = cases[d]
            /\ events' = [events EXCEPT ![c] = <<[from |-> None, to |-> "APPLIED"]>>]
      BY <1>2, <2>2, InsertFacts
    <3>2. events'[c] = <<[from |-> None, to |-> "APPLIED"]>>
      BY <3>1 DEF TypeOK
    <3>3. \A d \in Opened : events'[d] = events[d]
      BY <3>1 DEF TypeOK, Opened
    <3>4. Len(events'[c]) = 1 /\ events'[c][1] = [from |-> None, to |-> "APPLIED"]
      BY <3>2
    <3>5. 2..1 = {}
      OBVIOUS
    <3> QED BY <3>1, <3>3, <3>4, <3>5 DEF HistoryIsPath
  <2> QED BY <2>1, <2>2
<1>3. ASSUME NEW o \in Officer, Commit(o) PROVE HistoryIsPath'
  <2>1. /\ moving[o] \in Move /\ moving[o].case \in Opened /\ Opened' = Opened
        /\ cases[moving[o].case].status = moving[o].from
        /\ cases'[moving[o].case].status = moving[o].to
        /\ CanTransition(moving[o].from, moving[o].to)
        /\ \A c \in Opened : c # moving[o].case => cases'[c] = cases[c]
    BY <1>3, CommitFacts
  <2>2. PICK d \in Opened : d = moving[o].case
    BY <2>1
  <2>3. PICK f \in Status, t \in Status : f = moving[o].from /\ t = moving[o].to
    BY <2>1 DEF Move
  <2>4. d \in Case /\ events[d] \in Seq(Event)
    BY <2>2 DEF TypeOK, Opened
  <2>5. events'[d] = Append(events[d], [from |-> f, to |-> t])
    BY <1>3, <2>2, <2>3, <2>4 DEF Commit, TypeOK
  <2>6. \A c \in Opened : c # d => events'[c] = events[c]
    BY <1>3, <2>2 DEF Commit, TypeOK, Opened
  <2>7. /\ Len(events[d]) > 0
        /\ events[d][1] = [from |-> None, to |-> "APPLIED"]
        /\ \A i \in 2..Len(events[d]) :
             /\ events[d][i].from = events[d][i - 1].to
             /\ CanTransition(events[d][i].from, events[d][i].to)
        /\ events[d][Len(events[d])].to = f
    BY <2>1, <2>2, <2>3 DEF HistoryIsPath
  <2>8. CanTransition(f, t)
    BY <2>1, <2>3
  <2>9. /\ Len(events'[d]) > 0
        /\ events'[d][1] = [from |-> None, to |-> "APPLIED"]
        /\ \A i \in 2..Len(events'[d]) :
             /\ events'[d][i].from = events'[d][i - 1].to
             /\ CanTransition(events'[d][i].from, events'[d][i].to)
        /\ events'[d][Len(events'[d])].to = t
    BY <2>4, <2>5, <2>7, <2>8, PathExtends, SMTT(20)
  <2>10. cases'[d].status = t
    BY <2>1, <2>2, <2>3
  <2> QED BY <2>1, <2>2, <2>6, <2>9, <2>10, SMTT(20) DEF HistoryIsPath
<1> QED BY <1>1, <1>2, <1>3 DEF Next, vars, Apply, ReadCase, BeginOpen, RegisterDocument,
     Expire, Erase, LockCase, CheckEvidence, Abandon

\* The history of every case is a path of the machine that ends where the case
\* stands, whatever officers do at once.
THEOREM HistorySafe == Spec => []HistoryIsPath
<1>1. Init => HistoryIsPath
  BY DEF Init, HistoryIsPath, Opened
<1> QED BY <1>1, Coherence, HistoryStep, PTL DEF Spec

-----------------------------------------------------------------------------
LEMMA OneOpenStep == IInv /\ OneOpenCase /\ [Next]_vars => OneOpenCase'
<1> SUFFICES ASSUME IInv, OneOpenCase, [Next]_vars PROVE OneOpenCase'
  OBVIOUS
<1> USE DEF IInv
<1>1. ASSUME UNCHANGED cases PROVE OneOpenCase'
  BY <1>1 DEF OneOpenCase, Opened
<1>2. ASSUME NEW a \in Applicant, InsertCase(a) PROVE OneOpenCase'
  <2>1. CASE cases' = cases
    BY <1>1, <2>1
  <2>2. CASE cases' # cases
    <3>1. PICK c \in Case \ Opened :
            /\ Opened' = Opened \cup {c}
            /\ cases'[c].guide = applying[a].guide
            /\ IndexAdmits(applying[a].guide)
            /\ \A d \in Opened : cases'[d] = cases[d]
      BY <1>2, <2>2, InsertFacts
    <3>2. \A d \in Opened : cases[d].guide = applying[a].guide => cases[d].status = "REJECTED"
      BY <3>1 DEF IndexAdmits, CasesOf
    <3> QED BY <3>1, <3>2 DEF OneOpenCase
  <2> QED BY <2>1, <2>2
<1>3. ASSUME NEW o \in Officer, Commit(o) PROVE OneOpenCase'
  <2>1. /\ moving[o].case \in Opened /\ Opened' = Opened
        /\ \A c \in Opened : cases'[c].guide = cases[c].guide
        /\ cases[moving[o].case].status = moving[o].from
        /\ CanTransition(moving[o].from, moving[o].to)
        /\ \A c \in Opened : c # moving[o].case => cases'[c] = cases[c]
    BY <1>3, CommitFacts
  <2>2. cases[moving[o].case].status # "REJECTED"
    BY <2>1, Edges
  <2> QED BY <2>1, <2>2 DEF OneOpenCase
<1> QED BY <1>1, <1>2, <1>3 DEF Next, vars, Apply, ReadCase, BeginOpen, RegisterDocument,
     Expire, Erase, LockCase, CheckEvidence, Abandon

\* A guide has at most one case that is not rejected, whoever applies at once.
THEOREM OneOpenSafe == Spec => []OneOpenCase
<1>1. Init => OneOpenCase
  BY DEF Init, OneOpenCase, Opened
<1> QED BY <1>1, Coherence, OneOpenStep, PTL DEF Spec

-----------------------------------------------------------------------------
LEMMA SuspendedStep ==
  IInv /\ OneOpenCase /\ SuspendedTogether /\ [Next]_vars => SuspendedTogether'
<1> SUFFICES ASSUME IInv, OneOpenCase, SuspendedTogether, [Next]_vars
             PROVE  SuspendedTogether'
  OBVIOUS
<1> USE DEF IInv
<1>1. ASSUME UNCHANGED <<profiles, cases>> PROVE SuspendedTogether'
  BY <1>1 DEF SuspendedTogether, CasesOf, Opened
<1>2. ASSUME NEW a \in Applicant, NEW g \in Guide, Apply(a, g) PROVE SuspendedTogether'
  <2>1. \A h \in Guide : profiles'[h] = "suspended" <=> profiles[h] = "suspended"
    BY <1>2, NoneIsFresh DEF Apply, TypeOK
  <2>2. cases' = cases
    BY <1>2 DEF Apply
  <2> QED BY <2>1, <2>2 DEF SuspendedTogether, CasesOf, Opened
<1>3. ASSUME NEW a \in Applicant, InsertCase(a) PROVE SuspendedTogether'
  <2>1. profiles' = profiles
    BY <1>3 DEF InsertCase, account
  <2>2. CASE cases' = cases
    BY <1>1, <2>1, <2>2
  <2>3. CASE cases' # cases
    <3>1. PICK c \in Case \ Opened :
            /\ Opened' = Opened \cup {c} /\ cases'[c].status = "APPLIED"
            /\ \A d \in Opened : cases'[d] = cases[d]
      BY <1>3, <2>3, InsertFacts
    <3> QED BY <2>1, <3>1 DEF SuspendedTogether, CasesOf
  <2> QED BY <2>2, <2>3
<1>4. ASSUME NEW o \in Officer, Commit(o) PROVE SuspendedTogether'
  <2>1. /\ moving[o] \in Move /\ moving[o].case \in Opened /\ Opened' = Opened
        /\ \A c \in Opened : cases'[c].guide = cases[c].guide
        /\ cases[moving[o].case].status = moving[o].from
        /\ cases'[moving[o].case].status = moving[o].to
        /\ CanTransition(moving[o].from, moving[o].to)
        /\ \A c \in Opened : c # moving[o].case => cases'[c] = cases[c]
    BY <1>4, CommitFacts
  <2>2. PICK d \in Opened : d = moving[o].case
    BY <2>1
  <2>3. PICK g \in Guide : g = cases[d].guide
    BY Rows DEF CaseRow
  <2>4. profiles' = [profiles EXCEPT ![g] =
                       IF ProfileStatus(moving[o].to) = None THEN @ ELSE ProfileStatus(moving[o].to)]
    BY <1>4, <2>2, <2>3 DEF Commit
  <2>5. \A h \in Guide : h # g => profiles'[h] = profiles[h]
    BY <2>4 DEF TypeOK
  <2>6. \A c \in Opened : c # d /\ cases[c].guide = g => cases[c].status = "REJECTED"
    BY <2>1, <2>2, <2>3, Edges DEF OneOpenCase
  <2>7. profiles'[g] = "suspended" <=> cases'[d].status = "SUSPENDED"
    <3>1. CASE moving[o].to = "SUSPENDED"
      BY <3>1, <2>1, <2>2, <2>4, NoneIsFresh DEF TypeOK, ProfileStatus
    <3>2. CASE moving[o].to = "ACTIVE"
      BY <3>2, <2>1, <2>2, <2>4, NoneIsFresh DEF TypeOK, ProfileStatus
    <3>3. CASE moving[o].to \notin {"SUSPENDED", "ACTIVE"}
      <4>1. profiles'[g] = profiles[g]
        BY <3>3, <2>4 DEF TypeOK, ProfileStatus
      <4>2. moving[o].from # "SUSPENDED"
        BY <3>3, <2>1 DEF CanTransition, Transitions, MainLine, Rejections, Exceptions, Returns
      <4>3. \A c \in Opened : cases[c].guide = g => cases[c].status # "SUSPENDED"
        BY <4>2, <2>1, <2>2, <2>6
      <4> QED BY <3>3, <4>1, <4>3, <2>1, <2>2 DEF SuspendedTogether, CasesOf
    <3> QED BY <3>1, <3>2, <3>3
  <2>8. \A c \in Opened : c # d /\ cases'[c].guide = g => cases'[c].status = "REJECTED"
    BY <2>1, <2>2, <2>6
  <2>9. cases'[d].guide = g
    BY <2>1, <2>2, <2>3
  <2>10. (profiles[g] = "suspended" <=> \E c \in CasesOf(g) : cases[c].status = "SUSPENDED")'
    BY <2>1, <2>7, <2>8, <2>9 DEF CasesOf
  <2>11. ASSUME NEW h \in Guide, h # g
         PROVE  (profiles[h] = "suspended" <=> \E c \in CasesOf(h) : cases[c].status = "SUSPENDED")'
    <3>1. \A c \in Opened : cases[c].guide = h => cases'[c] = cases[c]
      BY <2>1, <2>2, <2>3, <2>11
    <3>2. \A c \in Opened : cases'[c].guide = h => cases'[c] = cases[c]
      BY <2>1, <3>1
    <3> QED BY <2>1, <2>5, <2>11, <3>1, <3>2 DEF SuspendedTogether, CasesOf
  <2> QED BY <2>10, <2>11 DEF SuspendedTogether
<1> QED BY <1>1, <1>2, <1>3, <1>4 DEF Next, vars, account, ReadCase, BeginOpen,
     RegisterDocument, Expire, Erase, LockCase, CheckEvidence, Abandon

\* The profile is suspended exactly while a case of the guide is.
THEOREM SuspendedSafe == Spec => []SuspendedTogether
<1>1. Init => SuspendedTogether
  BY NoneIsFresh DEF Init, SuspendedTogether, CasesOf, Opened
<1> QED BY <1>1, Coherence, OneOpenSafe, SuspendedStep, PTL DEF Spec

-----------------------------------------------------------------------------
\* The two gates agree in every state in which those with a case have a profile.
THEOREM GatesSafe == Spec => []GatesAgree
<1>1. IInv => GatesAgree
  BY NoneIsFresh DEF IInv, ProfileInv, GatesAgree, PubliclyVisible, Searchable, IsCurrent, CasesOf
<1> QED BY <1>1, Coherence, PTL

-----------------------------------------------------------------------------
\* The statuses that lie behind a stage.
After(s) ==
  CASE s = "IDENTITY_VERIFIED" -> Status \ {"APPLIED", "IDENTITY_PENDING", "REJECTED"}
    [] s = "BACKGROUND_VERIFIED" ->
         Status \ {"APPLIED", "IDENTITY_PENDING", "IDENTITY_VERIFIED",
                   "BACKGROUND_CHECK_PENDING", "REJECTED"}
    [] s = "TRAINING" ->
         {"TRAINING", "EXAM_PENDING", "CERTIFIED", "INSURANCE_ACTIVE", "ACTIVE",
          "SUSPENDED", "EXPIRED", "REQUIRES_RETRAINING"}
    [] s = "CERTIFIED" ->
         {"CERTIFIED", "INSURANCE_ACTIVE", "ACTIVE", "SUSPENDED", "EXPIRED",
          "REQUIRES_RETRAINING"}

Stage == {"IDENTITY_VERIFIED", "BACKGROUND_VERIFIED", "TRAINING", "CERTIFIED"}

\* The case went through INSURANCE_ACTIVE, or around it.
InsuredOrAround(c) == "INSURANCE_ACTIVE" \in Passed(c) \/ WithdrawnAt(c, "CERTIFIED")
Onward == {"INSURANCE_ACTIVE", "ACTIVE", "SUSPENDED", "EXPIRED", "REQUIRES_RETRAINING"}

\* A case behind a stage went through it, one past CERTIFIED went through the
\* insurance stage or around it, and an ACTIVE one made its guide a guide.
StageInv ==
  /\ \A c \in Opened : cases[c].status \in Onward => InsuredOrAround(c)
  /\ \A c \in Opened : \A s \in Stage : cases[c].status \in After(s) => s \in Passed(c)
  /\ \A c \in Opened : cases[c].status = "ACTIVE" => cases[c].guide \in guides

\* No two transactions that open a case begin at the same moment.
OpenedInv ==
  /\ \A c, d \in Opened : cases[c].opened = cases[d].opened => c = d
  /\ \A c \in Opened : \A a \in Applicant :
       applying[a] # None /\ applying[a].at = "insert" => cases[c].opened # applying[a].opened
  /\ \A a, b \in Applicant :
       /\ applying[a] # None /\ applying[a].at = "insert"
       /\ applying[b] # None /\ applying[b].at = "insert"
       /\ applying[a].opened = applying[b].opened
       => a = b

\* A stage is entered only at the stage.
LEMMA AfterEdges ==
  ASSUME NEW f, NEW t, CanTransition(f, t), NEW s \in Stage, t \in After(s)
  PROVE  t = s \/ f \in After(s)
<1> USE DEF CanTransition, Transitions, MainLine, Rejections, Exceptions, Returns, After, Status
<1>1. CASE s = "IDENTITY_VERIFIED"
  BY <1>1
<1>2. CASE s = "BACKGROUND_VERIFIED"
  BY <1>2
<1>3. CASE s = "TRAINING"
  BY <1>3
<1>4. CASE s = "CERTIFIED"
  BY <1>4
<1> QED BY <1>1, <1>2, <1>3, <1>4 DEF Stage

LEMMA StageStep == IInv /\ StageInv /\ [Next]_vars => StageInv'
<1> SUFFICES ASSUME IInv, StageInv, [Next]_vars PROVE StageInv'
  OBVIOUS
<1> USE DEF IInv
<1>1. ASSUME UNCHANGED <<cases, events, guides>> PROVE StageInv'
  BY <1>1 DEF StageInv, Opened, Passed, InsuredOrAround, WithdrawnAt
<1>2. ASSUME NEW a \in Applicant, InsertCase(a) PROVE StageInv'
  <2>1. CASE cases' = cases /\ events' = events
    BY <1>1, <1>2, <2>1 DEF InsertCase, account
  <2>2. CASE ~(cases' = cases /\ events' = events)
    <3>1. PICK c \in Case \ Opened :
            /\ Opened' = Opened \cup {c} /\ cases'[c].status = "APPLIED"
            /\ \A d \in Opened : cases'[d] = cases[d]
            /\ events' = [events EXCEPT ![c] = <<[from |-> None, to |-> "APPLIED"]>>]
      BY <1>2, <2>2, InsertFacts
    <3>2. \A d \in Opened : events'[d] = events[d]
      BY <3>1 DEF TypeOK, Opened
    <3>3. guides' = guides
      BY <1>2 DEF InsertCase, account
    <3>4. \A s \in Stage : "APPLIED" \notin After(s)
      BY DEF After, Stage, Status
    <3>5. \A d \in Opened : InsuredOrAround(d)' <=> InsuredOrAround(d)
      BY <3>2 DEF InsuredOrAround, WithdrawnAt, Passed
    <3>6. "APPLIED" \notin Onward
      BY DEF Onward
    <3> QED BY <3>1, <3>2, <3>3, <3>4, <3>5, <3>6 DEF StageInv, Passed
  <2> QED BY <2>1, <2>2
<1>3. ASSUME NEW o \in Officer, Commit(o) PROVE StageInv'
  <2>1. /\ moving[o] \in Move /\ moving[o].case \in Opened /\ Opened' = Opened
        /\ \A c \in Opened : cases'[c].guide = cases[c].guide
        /\ cases[moving[o].case].status = moving[o].from
        /\ cases'[moving[o].case].status = moving[o].to
        /\ CanTransition(moving[o].from, moving[o].to)
        /\ \A c \in Opened : c # moving[o].case => cases'[c] = cases[c]
    BY <1>3, CommitFacts
  <2>2. PICK d \in Opened, f \in Status, t \in Status :
          d = moving[o].case /\ f = moving[o].from /\ t = moving[o].to
    BY <2>1 DEF Move
  <2>3. PICK e \in Seq(Event) : e = events[d]
    BY DEF TypeOK, Opened
  <2>4. events'[d] = Append(e, [from |-> f, to |-> t])
    BY <1>3, <2>2, <2>3 DEF Commit, TypeOK, Opened
  <2>5. \A c \in Opened : c # d => events'[c] = events[c]
    BY <1>3, <2>2 DEF Commit, TypeOK, Opened
  <2>6. Passed(d)' = Passed(d) \cup {t}
    <3>1. DOMAIN e = 1..Len(e) /\ DOMAIN Append(e, [from |-> f, to |-> t]) = 1..(Len(e) + 1)
      OBVIOUS
    <3>2. \A i \in 1..Len(e) : Append(e, [from |-> f, to |-> t])[i] = e[i]
      OBVIOUS
    <3>3. Append(e, [from |-> f, to |-> t])[Len(e) + 1].to = t
      OBVIOUS
    <3>4. Len(e) \in Nat
      OBVIOUS
    <3>5. \A x : x \in Passed(d) <=> \E i \in 1..Len(e) : x = e[i].to
      BY <2>3, <3>1 DEF Passed
    <3>6. \A x : x \in Passed(d)' <=>
            \E i \in 1..(Len(e) + 1) : x = Append(e, [from |-> f, to |-> t])[i].to
      BY <2>4, <3>1 DEF Passed
    <3> QED BY <3>2, <3>3, <3>4, <3>5, <3>6
  <2>7. \A c \in Opened : c # d => Passed(c)' = Passed(c)
    BY <2>5 DEF Passed
  <2>8. \A s \in Stage : t \in After(s) => s \in Passed(d)'
    BY <2>1, <2>2, <2>6, AfterEdges DEF StageInv
  <2>9. guides \subseteq guides' /\ (t = "ACTIVE" => cases[d].guide \in guides')
    BY <1>3, <2>2 DEF Commit
  <2>10. cases'[d].status = t
    BY <2>1, <2>2
  <2>11. WithdrawnAt(d, "CERTIFIED") \/ (f = "CERTIFIED" /\ t \in {"SUSPENDED", "EXPIRED"})
           => WithdrawnAt(d, "CERTIFIED")'
    <3>1. DOMAIN e = 1..Len(e) /\ DOMAIN Append(e, [from |-> f, to |-> t]) = 1..(Len(e) + 1)
      OBVIOUS
    <3>2. \A i \in 1..Len(e) : Append(e, [from |-> f, to |-> t])[i] = e[i]
      OBVIOUS
    <3>3. /\ Append(e, [from |-> f, to |-> t])[Len(e) + 1].from = f
          /\ Append(e, [from |-> f, to |-> t])[Len(e) + 1].to = t
      OBVIOUS
    <3>4. Len(e) \in Nat
      OBVIOUS
    <3> QED BY <2>3, <2>4, <3>1, <3>2, <3>3, <3>4 DEF WithdrawnAt
  <2>12. t \in Onward => InsuredOrAround(d)'
    <3>1. t \in Onward => \/ t = "INSURANCE_ACTIVE" \/ f \in Onward
                          \/ f = "CERTIFIED" /\ t \in {"SUSPENDED", "EXPIRED"}
      BY <2>1, <2>2 DEF Onward, CanTransition, Transitions, MainLine, Rejections, Exceptions,
         Returns
    <3>2. f \in Onward => InsuredOrAround(d)
      BY <2>1, <2>2 DEF StageInv
    <3> QED BY <2>6, <2>11, <3>1, <3>2 DEF InsuredOrAround
  <2>13. \A c \in Opened : c # d => (InsuredOrAround(c)' <=> InsuredOrAround(c))
    BY <2>5, <2>7 DEF InsuredOrAround, WithdrawnAt
  <2> QED BY <2>1, <2>2, <2>7, <2>8, <2>9, <2>10, <2>12, <2>13 DEF StageInv
<1> QED BY <1>1, <1>2, <1>3 DEF Next, vars, account, Apply, ReadCase, BeginOpen,
     RegisterDocument, Expire, Erase, LockCase, CheckEvidence, Abandon

LEMMA OpenedStep == IInv /\ OpenedInv /\ [Next]_vars => OpenedInv'
<1> SUFFICES ASSUME IInv, OpenedInv, [Next]_vars PROVE OpenedInv'
  OBVIOUS
<1> USE DEF IInv
<1>1. ASSUME Opened' = Opened, \A c \in Opened : cases'[c].opened = cases[c].opened,
             \A a \in Applicant : \/ applying'[a] = applying[a]
                                  \/ applying'[a] = None
                                  \/ applying'[a].at # "insert"
      PROVE  OpenedInv'
  BY <1>1 DEF OpenedInv
<1>2. ASSUME NEW a \in Applicant, NEW g \in Guide, Apply(a, g) PROVE OpenedInv'
  BY <1>2, <1>1 DEF Apply, TypeOK, Opened
<1>3. ASSUME NEW a \in Applicant, ReadCase(a) PROVE OpenedInv'
  <2>1. applying[a] \in Application
    BY <1>3, Rows DEF ReadCase
  <2>2. applying'[a] = None \/ applying'[a].at # "insert"
    BY <1>3, <2>1 DEF ReadCase, TypeOK, Application
  <2>3. \A b \in Applicant : b # a => applying'[b] = applying[b]
    BY <1>3 DEF ReadCase, TypeOK
  <2> QED BY <1>3, <1>1, <2>2, <2>3 DEF ReadCase, Opened
<1>4. ASSUME NEW a \in Applicant, BeginOpen(a) PROVE OpenedInv'
  <2>1. PICK n \in 1..MaxOpened :
          /\ IsNow(n)
          /\ applying' = [applying EXCEPT ![a] = [guide |-> @.guide, at |-> "insert", opened |-> n]]
    BY <1>4 DEF BeginOpen
  <2>2. applying'[a].opened = n
    BY <2>1 DEF TypeOK
  <2>3. \A b \in Applicant : b # a => applying'[b] = applying[b]
    BY <2>1 DEF TypeOK
  <2>4. \A c \in Opened : cases[c].opened # n
    BY <2>1, Bounds, Rows DEF IsNow, CaseRow
  <2>5. \A b \in Applicant : applying[b] # None => applying[b].opened # n
    BY <2>1, Bounds, Rows DEF IsNow, Application
  <2>6. Opened' = Opened /\ cases' = cases
    BY <1>4 DEF BeginOpen, Opened
  <2> QED BY <2>2, <2>3, <2>4, <2>5, <2>6 DEF OpenedInv
<1>5. ASSUME NEW a \in Applicant, InsertCase(a) PROVE OpenedInv'
  <2>1. /\ applying[a] # None /\ applying[a].at = "insert" /\ applying'[a] = None
        /\ \A b \in Applicant : b # a => applying'[b] = applying[b]
    BY <1>5 DEF InsertCase, TypeOK
  <2>2. CASE cases' = cases
    BY <1>1, <2>1, <2>2 DEF Opened
  <2>3. CASE cases' # cases
    <3>1. PICK c \in Case \ Opened :
            /\ Opened' = Opened \cup {c} /\ cases'[c].opened = applying[a].opened
            /\ \A d \in Opened : cases'[d] = cases[d]
      BY <1>5, <2>3, InsertFacts
    <3> QED BY <2>1, <3>1 DEF OpenedInv
  <2> QED BY <2>2, <2>3
<1>6. ASSUME NEW o \in Officer, Commit(o) PROVE OpenedInv'
  BY <1>6, <1>1, CommitFacts DEF Commit
<1>7. ASSUME Abandon PROVE OpenedInv'
  BY <1>7, <1>1 DEF Abandon, TypeOK, Opened
<1>8. ASSUME UNCHANGED <<cases, applying>> PROVE OpenedInv'
  BY <1>8, <1>1 DEF Opened
<1> QED BY <1>2, <1>3, <1>4, <1>5, <1>6, <1>7, <1>8 DEF Next, vars, RegisterDocument,
     Expire, Erase, LockCase, CheckEvidence

\* A guide the public sees holds the role and was identified, cleared, trained and
\* certified on the case that shows it; around the insurance stage there is one
\* way, a suspension or expiry at CERTIFIED.
THEOREM VisibleSafe == Spec => []VisibleIsVetted
<1>1. Init => StageInv /\ OpenedInv
  BY DEF Init, StageInv, OpenedInv, Opened
<1>2. IInv /\ OpenedInv /\ StageInv => VisibleIsVetted
  <2> SUFFICES ASSUME IInv, OpenedInv, StageInv, NEW g \in Guide, NEW c \in CasesOf(g),
                      PubliclyVisible(g), IsCurrent(c)
               PROVE  /\ g \in guides
                      /\ Stage \subseteq Passed(c)
                      /\ InsuredOrAround(c)
    BY DEF VisibleIsVetted, Stage, InsuredOrAround
  <2>1. PICK d \in CasesOf(g) : IsCurrent(d) /\ cases[d].status = "ACTIVE"
    BY DEF PubliclyVisible
  <2>2. c = d
    BY <2>1, Rows DEF IsCurrent, CasesOf, OpenedInv, CaseRow, IInv
  <2>3. \A s \in Stage : "ACTIVE" \in After(s)
    BY DEF Stage, After, Status
  <2> QED BY <2>1, <2>2, <2>3 DEF StageInv, CasesOf, Onward
<1> QED BY <1>1, <1>2, Coherence, StageStep, OpenedStep, PTL DEF Spec
=============================================================================
