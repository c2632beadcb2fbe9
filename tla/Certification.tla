---------------------------- MODULE Certification ----------------------------
(***************************************************************************)
(* How a guide comes to be trusted: the application (guides/handler.go), the *)
(* certification pipeline (certification/statemachine.go, repository.go), its *)
(* evidence documents, and the gate that shows a guide to the public         *)
(* (guides/visibility.go, and its copy in the SQL of guides/search.go).      *)
(*                                                                         *)
(* An application is four statements and a transaction; a transition is one  *)
(* transaction that locks its case, checks, reads the documents and writes.  *)
(* Documents expire, and an account is erased, at any moment in between.     *)
(***************************************************************************)
EXTENDS Naturals, Sequences

CONSTANTS
  Guide,
  Case,       \* bound: rows of certification_cases
  Applicant,  \* applications served at the same time
  Officer,    \* transitions served at the same time
  Group,      \* bound: the groups of MandatoryDocGroups followed, the rest being held
  None,
  MaxEvents,  \* bound: events of one case
  MaxOpened   \* bound: transactions that open a case

\* Any type of a group stands for it.
MandatoryDocGroups == {"identity", "background_check", "certification", "insurance"}

ASSUME SomeGroups == Group \subseteq MandatoryDocGroups

ASSUME Bounds == MaxEvents \in Nat /\ MaxOpened \in Nat

VARIABLES
  users,      \* users.status of each guide
  profiles,   \* guide_profiles.status, None without a profile
  guides,     \* those who hold the role guide
  documents,  \* of each guide: the groups with a usable document
  cases,      \* rows of certification_cases
  events,     \* of each case: its certification_events, oldest first
  applying,   \* the applications being served
  moving      \* the transitions being served

account == <<users, profiles, guides>>
vars == <<account, documents, cases, events, applying, moving>>

Status == {"APPLIED", "IDENTITY_PENDING", "IDENTITY_VERIFIED",
           "BACKGROUND_CHECK_PENDING", "BACKGROUND_VERIFIED", "TRAINING",
           "EXAM_PENDING", "CERTIFIED", "INSURANCE_ACTIVE", "ACTIVE", "REJECTED",
           "SUSPENDED", "EXPIRED", "REQUIRES_RETRAINING"}

MainLine == {<<"APPLIED", "IDENTITY_PENDING">>,
             <<"IDENTITY_PENDING", "IDENTITY_VERIFIED">>,
             <<"IDENTITY_VERIFIED", "BACKGROUND_CHECK_PENDING">>,
             <<"BACKGROUND_CHECK_PENDING", "BACKGROUND_VERIFIED">>,
             <<"BACKGROUND_VERIFIED", "TRAINING">>,
             <<"TRAINING", "EXAM_PENDING">>,
             <<"EXAM_PENDING", "CERTIFIED">>,
             <<"CERTIFIED", "INSURANCE_ACTIVE">>,
             <<"INSURANCE_ACTIVE", "ACTIVE">>}

Rejections == {"APPLIED", "IDENTITY_PENDING", "IDENTITY_VERIFIED",
               "BACKGROUND_CHECK_PENDING", "BACKGROUND_VERIFIED", "TRAINING",
               "EXAM_PENDING"} \X {"REJECTED"}

\* Mutant: a guide in training may be suspended, and so reactivated.
Exceptions_FromTraining ==
  {"TRAINING", "CERTIFIED", "INSURANCE_ACTIVE", "ACTIVE"} \X {"SUSPENDED", "EXPIRED"}

Exceptions == {"CERTIFIED", "INSURANCE_ACTIVE", "ACTIVE"} \X {"SUSPENDED", "EXPIRED"}

Returns == {<<"SUSPENDED", "ACTIVE">>, <<"EXPIRED", "ACTIVE">>,
            <<"ACTIVE", "REQUIRES_RETRAINING">>, <<"REQUIRES_RETRAINING", "TRAINING">>}

Transitions == MainLine \cup Rejections \cup Exceptions \cup Returns

CanTransition(from, to) == <<from, to>> \in Transitions

\* The group a status demands as evidence; most demand nothing.
EvidenceDocuments(s) ==
  CASE s = "IDENTITY_VERIFIED"   -> {"identity"}
    [] s = "BACKGROUND_VERIFIED" -> {"background_check"}
    [] s = "CERTIFIED"           -> {"certification"}
    [] s = "INSURANCE_ACTIVE"    -> {"insurance"}
    [] OTHER                     -> {}

EvidenceSatisfied(s, docs) == EvidenceDocuments(s) \cap Group \subseteq docs

CaseRow == [guide : Guide, status : Status, opened : Nat]

\* from is what the transaction read, None for the opening event.
Event == [from : Status \cup {None}, to : Status]

Application == [guide : Guide, at : {"read", "begin", "insert"}, opened : Nat]

\* A transition holds the row lock of its case from here to its commit.
Move == [case : Case, from : Status, to : Status, at : {"locked", "checked"}]

ASSUME NoneIsFresh ==
  None \notin CaseRow \cup Application \cup Move \cup Status
             \cup {"pending", "certified", "suspended"}

Opened == {c \in Case : cases[c] # None}
CasesOf(g) == {c \in Opened : cases[c].guide = g}

\* opened_at is the start of the inserting transaction: later than that of every
\* case and of every transaction there is.
IsNow(n) ==
  /\ \A c \in Opened : cases[c].opened < n
  /\ \A a \in Applicant : applying[a] # None => applying[a].opened < n

\* ORDER BY opened_at DESC LIMIT 1.
IsCurrent(c) ==
  c \in Opened /\ \A d \in CasesOf(cases[c].guide) : cases[d].opened <= cases[c].opened

TypeOK ==
  /\ users \in [Guide -> {"active", "deleted"}]
  /\ profiles \in [Guide -> {"pending", "certified", "suspended", None}]
  /\ guides \subseteq Guide
  /\ documents \in [Guide -> SUBSET Group]
  /\ cases \in [Case -> CaseRow \cup {None}]
  /\ events \in [Case -> Seq(Event)]
  /\ applying \in [Applicant -> Application \cup {None}]
  /\ moving \in [Officer -> Move \cup {None}]

Init ==
  /\ users = [g \in Guide |-> "active"]
  /\ profiles = [g \in Guide |-> None]
  /\ guides = {}
  /\ documents = [g \in Guide |-> {}]
  /\ cases = [c \in Case |-> None]
  /\ events = [c \in Case |-> <<>>]
  /\ applying = [a \in Applicant |-> None]
  /\ moving = [o \in Officer |-> None]

-----------------------------------------------------------------------------
(* The application *)

\* The profile shell; an existing profile is returned unchanged.
Apply(a, g) ==
  /\ applying[a] = None /\ users[g] = "active"
  /\ profiles' = [profiles EXCEPT ![g] = IF @ = None THEN "pending" ELSE @]
  /\ applying' = [applying EXCEPT ![a] = [guide |-> g, at |-> "read", opened |-> 0]]
  /\ UNCHANGED <<users, guides, documents, cases, events, moving>>

\* OpenCase looks for a case first, whatever its status, and returns it.
HasNoCase(a) == CasesOf(applying[a].guide) = {}

ReadCase(a) ==
  /\ applying[a] # None /\ applying[a].at = "read"
  /\ applying' = [applying EXCEPT ![a] = IF HasNoCase(a) THEN [@ EXCEPT !.at = "begin"] ELSE None]
  /\ UNCHANGED <<account, documents, cases, events, moving>>

BeginOpen(a) ==
  /\ applying[a] # None /\ applying[a].at = "begin"
  /\ \E n \in 1..MaxOpened :
       /\ IsNow(n)
       /\ applying' = [applying EXCEPT ![a] = [guide |-> @.guide, at |-> "insert", opened |-> n]]
  /\ UNCHANGED <<account, documents, cases, events, moving>>

\* Mutant: the partial unique index is missing.
IndexAdmits_Absent(g) == TRUE

\* idx_certification_cases_open: one case per guide that is not rejected.
IndexAdmits(g) == \A c \in CasesOf(g) : cases[c].status = "REJECTED"

\* Case and opening event, or ON CONFLICT DO NOTHING and the case that won.
InsertCase(a) ==
  /\ applying[a] # None /\ applying[a].at = "insert"
  /\ applying' = [applying EXCEPT ![a] = None]
  /\ \/ /\ IndexAdmits(applying[a].guide)
        /\ \E c \in Case \ Opened :
             /\ cases' = [cases EXCEPT ![c] = [guide |-> applying[a].guide, status |-> "APPLIED",
                                               opened |-> applying[a].opened]]
             /\ events' = [events EXCEPT ![c] = <<[from |-> None, to |-> "APPLIED"]>>]
     \/ ~IndexAdmits(applying[a].guide) /\ UNCHANGED <<cases, events>>
  /\ UNCHANGED <<account, documents, moving>>

-----------------------------------------------------------------------------
(* The documents and the account *)

\* Nothing but having a profile is asked: the upload itself is never looked at,
\* and no code reviews it.
RegisterDocument(g, d) ==
  /\ profiles[g] # None
  /\ documents' = [documents EXCEPT ![g] = @ \cup {d}]
  /\ UNCHANGED <<account, cases, events, applying, moving>>

Expire(g, d) ==
  /\ d \in documents[g]
  /\ documents' = [documents EXCEPT ![g] = @ \ {d}]
  /\ UNCHANGED <<account, cases, events, applying, moving>>

\* privacy.Anonymize; its blockers are bookings and payouts, outside this module.
Erase(g) ==
  /\ users[g] = "active"
  /\ users' = [users EXCEPT ![g] = "deleted"]
  /\ documents' = [documents EXCEPT ![g] = {}]
  /\ UNCHANGED <<profiles, guides, cases, events, applying, moving>>

-----------------------------------------------------------------------------
(* The transitions *)

RowIsFree(c) == \A o \in Officer : moving[o] # None => moving[o].case # c

\* Lock and legality; the refusals change nothing.
LockCase(o, c, to) ==
  /\ moving[o] = None /\ cases[c] # None /\ RowIsFree(c)
  /\ CanTransition(cases[c].status, to)
  /\ Len(events[c]) < MaxEvents
  /\ moving' = [moving EXCEPT ![o] =
                  [case |-> c, from |-> cases[c].status, to |-> to, at |-> "locked"]]
  /\ UNCHANGED <<account, documents, cases, events, applying>>

CheckEvidence(o) ==
  /\ moving[o] # None /\ moving[o].at = "locked"
  /\ moving' = [moving EXCEPT ![o] =
       IF EvidenceSatisfied(moving[o].to, documents[cases[moving[o].case].guide])
       THEN [@ EXCEPT !.at = "checked"] ELSE None]
  /\ UNCHANGED <<account, documents, cases, events, applying>>

\* Mutant: reactivation leaves the profile suspended.
ProfileStatus_KeepSuspended(to) ==
  CASE to = "INSURANCE_ACTIVE" -> "certified" [] to = "SUSPENDED" -> "suspended" [] OTHER -> None

\* What a transition writes to guide_profiles.status, None where it writes nothing.
ProfileStatus(to) ==
  CASE to = "ACTIVE" -> "certified" [] to = "SUSPENDED" -> "suspended" [] OTHER -> None

Commit(o) ==
  /\ moving[o] # None /\ moving[o].at = "checked"
  /\ LET m == moving[o]
         g == cases[m.case].guide
     IN /\ cases' = [cases EXCEPT ![m.case] = [@ EXCEPT !.status = m.to]]
        /\ events' = [events EXCEPT ![m.case] = Append(@, [from |-> m.from, to |-> m.to])]
        /\ profiles' = [profiles EXCEPT ![g] =
                          IF ProfileStatus(m.to) = None THEN @ ELSE ProfileStatus(m.to)]
        /\ guides' = IF m.to = "ACTIVE" THEN guides \cup {g} ELSE guides
  /\ moving' = [moving EXCEPT ![o] = None]
  /\ UNCHANGED <<users, documents, applying>>

\* A connection is lost or the process dies: its transaction never happened.
Abandon ==
  \/ \E a \in Applicant : /\ applying[a] # None
                          /\ applying' = [applying EXCEPT ![a] = None]
                          /\ UNCHANGED <<account, documents, cases, events, moving>>
  \/ \E o \in Officer : /\ moving[o] # None
                        /\ moving' = [moving EXCEPT ![o] = None]
                        /\ UNCHANGED <<account, documents, cases, events, applying>>

Next ==
  \/ \E a \in Applicant : ReadCase(a) \/ BeginOpen(a) \/ InsertCase(a)
  \/ \E a \in Applicant, g \in Guide : Apply(a, g)
  \/ \E g \in Guide, d \in Group : RegisterDocument(g, d) \/ Expire(g, d)
  \/ \E g \in Guide : Erase(g)
  \/ \E o \in Officer, c \in Case, to \in Status : LockCase(o, c, to)
  \/ \E o \in Officer : CheckEvidence(o) \/ Commit(o)
  \/ Abandon

Spec == Init /\ [][Next]_vars

-----------------------------------------------------------------------------
(* The gates *)

\* PubliclyVisible, over what GetPublicView and DocumentsValid load.
PubliclyVisible(g) ==
  /\ \E c \in CasesOf(g) : IsCurrent(c) /\ cases[c].status = "ACTIVE"
  /\ users[g] = "active"
  /\ profiles[g] # "suspended"
  /\ documents[g] = Group

\* The same gate in the SQL of search and dispatch: any ACTIVE case.
Searchable(g) ==
  /\ \E c \in CasesOf(g) : cases[c].status = "ACTIVE"
  /\ users[g] = "active"
  /\ profiles[g] \notin {"suspended", None}
  /\ documents[g] = Group

-----------------------------------------------------------------------------
(* The properties *)

\* Two officers moving one case at the same time still leave a history that is a
\* path of the state machine, each event starting where the one before it ended,
\* and a case that stands where its history ends (repository.go, Transition).
HistoryIsPath ==
  \A c \in Opened :
    /\ Len(events[c]) > 0
    /\ events[c][1] = [from |-> None, to |-> "APPLIED"]
    /\ \A i \in 2..Len(events[c]) :
         /\ events[c][i].from = events[c][i - 1].to
         /\ CanTransition(events[c][i].from, events[c][i].to)
    /\ cases[c].status = events[c][Len(events[c])].to

\* Whatever applications are sent at once, a guide has at most one case that is
\* not rejected (repository.go, OpenCase).
OneOpenCase ==
  \A c, d \in Opened :
    c # d /\ cases[c].guide = cases[d].guide =>
      "REJECTED" \in {cases[c].status, cases[d].status}

\* What the case has been through.
Passed(c) == {events[c][i].to : i \in DOMAIN events[c]}

\* The case was suspended, or expired, while it stood at a stage.
WithdrawnAt(c, s) ==
  \E i \in DOMAIN events[c] : events[c][i].from = s /\ events[c][i].to \in {"SUSPENDED", "EXPIRED"}

\* A guide the public sees is a guide by role and was identified, cleared, trained
\* and certified on the very case that makes it visible, whatever chain of
\* suspensions, expiries, retrainings and new cases led there.  The stage after,
\* INSURANCE_ACTIVE, can be gone around, but in one way only: the case was
\* suspended or expired at CERTIFIED and reactivated from there (visibility.go;
\* statemachine.go, transitions).
VisibleIsVetted ==
  \A g \in Guide : \A c \in CasesOf(g) :
    PubliclyVisible(g) /\ IsCurrent(c) =>
      /\ g \in guides
      /\ {"IDENTITY_VERIFIED", "BACKGROUND_VERIFIED", "TRAINING", "CERTIFIED"}
            \subseteq Passed(c)
      /\ "INSURANCE_ACTIVE" \in Passed(c) \/ WithdrawnAt(c, "CERTIFIED")

\* The guide's profile is suspended exactly while a case of its is, so that a
\* suspension hides it and a reactivation shows it again (repository.go,
\* Transition).
SuspendedTogether ==
  \A g \in Guide :
    profiles[g] = "suspended" <=> \E c \in CasesOf(g) : cases[c].status = "SUSPENDED"

\* Search and dispatch admit a guide exactly when its public page does, but for a
\* case whose transaction began before that of a case since rejected, which the
\* page takes for the current one ("mirrors PubliclyVisible", search.go).
GatesAgree ==
  \A g \in Guide :
    PubliclyVisible(g) <=>
      /\ Searchable(g)
      /\ \E c \in CasesOf(g) : /\ cases[c].status = "ACTIVE"
                              /\ \A d \in CasesOf(g) : cases[d].opened <= cases[c].opened
=============================================================================
