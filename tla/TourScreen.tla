----------------------------- MODULE TourScreen -----------------------------
(***************************************************************************)
(* A guide drives a tour: the tour's screen in the two guide clients and   *)
(* the sharing of the guide's position that hangs on it.  The phone keeps  *)
(* a key on disk that authorises a background task to post positions; the  *)
(* screen sets and clears it.  The web page posts while it is open.  The   *)
(* booking moves under both, and the server takes positions by its status. *)
(***************************************************************************)
EXTENDS JobFeed, BookingStates

CONSTANTS NoView

VARIABLES
  status,     \* the booking's status
  view,       \* the status on the screen, or NoView
  tourPage,   \* the load state of the tour's screen
  read,       \* its read of the booking
  step,       \* the transition under way
  key,        \* pgh_active_booking_id names this booking
  asking,     \* enableLocation waits for the permissions; or, once, it was late
  running,    \* positions are collected (phone), may be (browser)
  fix,        \* a position on its way to the server
  position,   \* the server has a position of the guide
  killed      \* the phone app was killed while it had the key

tourVars == <<status, view, tourPage, read, step, key, asking, running, fix, position, killed>>
deskVars == <<view, tourPage, read, step>>
shareVars == <<key, asking, running, fix, position, killed>>

TourStatuses ==
  {"CONFIRMED", "GUIDE_ASSIGNED", "GUIDE_EN_ROUTE", "GUIDE_ARRIVED", "IN_PROGRESS", "COMPLETED",
   "CANCELLED"}

ASSUME NoViewIsFresh == NoView \notin Statuses \cup TourStatuses

\* tourStatus: a status that the phone does not know is taken for an assignment.
PhoneShows(s) == IF s \in TourStatuses THEN s ELSE "GUIDE_ASSIGNED"
Shows(s) == IF guide.onPhone THEN PhoneShows(s) ELSE s

\* isLocationWindow, isLiveTourStatus, tracking.Active.
InWindow(s) == s \in {"GUIDE_EN_ROUTE", "GUIDE_ARRIVED", "IN_PROGRESS"}

\* nextTourAction and nextTransition: from the status shown, to the next.
OnTheWay == {<<"CONFIRMED", "GUIDE_EN_ROUTE">>, <<"GUIDE_EN_ROUTE", "GUIDE_ARRIVED">>,
             <<"GUIDE_ARRIVED", "IN_PROGRESS">>, <<"IN_PROGRESS", "COMPLETED">>}
PhoneSteps == OnTheWay \cup {<<"GUIDE_ASSIGNED", "GUIDE_EN_ROUTE">>}

\* The one button, by what the screen shows; the phone's is busy while it
\* waits for a permission.
PhoneButton == IF tourPage = "ready" /\ asking # "here" THEN PhoneSteps ELSE {}
BrowserButton == IF tourPage = "ready" THEN OnTheWay ELSE {}
Offers(to) == <<view, to>> \in (IF guide.onPhone THEN PhoneButton ELSE BrowserButton)

\* The answers after which the screen reads the booking again.
Rereads == IF guide.onPhone THEN {"ok"} ELSE {"ok", "conflict"}

NoRead == [pc |-> "idle", seen |-> NoView]
NoStep == [pc |-> "idle", to |-> NoView, result |-> "lost"]

TourTypeOK ==
  /\ status \in Statuses
  /\ view \in Statuses \cup {"GUIDE_ASSIGNED", NoView}
  /\ tourPage \in {"closed", "loading", "ready", "error"}
  /\ read \in [pc : {"idle", "sent", "served"}, seen : Statuses \cup {NoView}]
  /\ step \in [pc : {"idle", "sent", "answered", "reading"}, to : Statuses \cup {NoView},
               result : Results]
  /\ key \in BOOLEAN /\ asking \in {"no", "here", "left", "late"} /\ running \in BOOLEAN
  /\ fix \in {"none", "sent", "taken"} /\ position \in BOOLEAN /\ killed \in BOOLEAN

TourInit ==
  /\ status = "CONFIRMED"
  /\ view = NoView /\ tourPage = "closed" /\ read = NoRead /\ step = NoStep
  /\ key = FALSE /\ asking = "no" /\ running \in BOOLEAN
  /\ fix = "none" /\ position = FALSE /\ killed = FALSE
-----------------------------------------------------------------------------
(* -------------------------------- the tour ------------------------------ *)

OnTour == screen = "tour"

\* Operations, the tourist, or the guide on another device.
Elsewhere ==
  /\ OnTour
  /\ \E s \in transitions[status] : status' = s
  /\ UNCHANGED <<deskVars, shareVars>>

TourOpened ==
  /\ OnTour /\ tourPage = "closed"
  /\ tourPage' = "loading" /\ read' = [pc |-> "sent", seen |-> NoView]
  /\ UNCHANGED <<status, view, step, shareVars>>

\* The phone reads the guide's tours: this one may have gone to another guide.
TourServed ==
  /\ read.pc = "sent"
  /\ \E seen \in {status} \cup (IF guide.onPhone THEN {NoView} ELSE {}) :
       read' = [pc |-> "served", seen |-> seen]
  /\ UNCHANGED <<status, view, tourPage, step, shareVars>>

EndStep == step' = IF step.pc = "reading" THEN NoStep ELSE step

\* The phone's effect: the key is bound or released by what is shown.
TourLoaded ==
  /\ read.pc = "served" /\ read.seen # NoView
  /\ view' = Shows(read.seen) /\ tourPage' = "ready" /\ read' = NoRead
  /\ key' = (guide.onPhone /\ InWindow(view'))
  /\ EndStep
  /\ UNCHANGED <<status, asking, running, fix, position, killed>>

\* "This tour is not assigned to you": the effect returns early.
TourGone ==
  /\ read.pc = "served" /\ read.seen = NoView
  /\ view' = NoView /\ tourPage' = "error" /\ read' = NoRead
  /\ EndStep
  /\ UNCHANGED <<status, shareVars>>

TourLoadFails ==
  /\ read.pc # "idle" /\ losses < MaxLosses
  /\ tourPage' = "error" /\ read' = NoRead
  /\ EndStep
  /\ UNCHANGED <<status, view, shareVars>>

TourRetry ==
  /\ tourPage = "error" /\ read.pc = "idle"
  /\ read' = [pc |-> "sent", seen |-> NoView]
  /\ UNCHANGED <<status, view, tourPage, step, shareVars>>

PressStep(to) ==
  /\ step.pc = "idle" /\ Offers(to)
  /\ step' = [pc |-> "sent", to |-> to, result |-> "lost"]
  /\ UNCHANGED <<status, view, tourPage, read, shareVars>>

\* The booking service judges the edge.
ServerSteps ==
  /\ step.pc = "sent"
  /\ IF CanTransition(status, step.to)
     THEN status' = step.to /\ step' = [step EXCEPT !.pc = "answered", !.result = "ok"]
     ELSE UNCHANGED status /\ step' = [step EXCEPT !.pc = "answered", !.result = "conflict"]
  /\ UNCHANGED <<view, tourPage, read, shareVars>>

StepLost ==
  /\ step.pc \in {"sent", "answered"} /\ losses < MaxLosses
  /\ step' = [step EXCEPT !.pc = "answered", !.result = "lost"]
  /\ UNCHANGED <<status, view, tourPage, read, shareVars>>

\* Mutant: the page reads again when the step was taken.
StepSettles_NotRefused ==
  /\ step.pc = "answered"
  /\ IF step.result = "ok"
     THEN read' = [pc |-> "sent", seen |-> NoView] /\ step' = [step EXCEPT !.pc = "reading"]
     ELSE step' = NoStep /\ UNCHANGED read
  /\ key' = (key /\ ~(step.result = "ok" /\ step.to = "COMPLETED"))
  /\ UNCHANGED <<status, view, tourPage, asking, running, fix, position, killed>>

\* The phone clears its key when it has completed the tour.
StepSettles ==
  /\ step.pc = "answered"
  /\ IF step.result \in Rereads
     THEN read' = [pc |-> "sent", seen |-> NoView] /\ step' = [step EXCEPT !.pc = "reading"]
     ELSE step' = NoStep /\ UNCHANGED read
  /\ key' = (key /\ ~(step.result = "ok" /\ step.to = "COMPLETED"))
  /\ UNCHANGED <<status, view, tourPage, asking, running, fix, position, killed>>

\* Mutant: leaving the screen forgets nothing.
CloseTour_KeyStays ==
  /\ OnTour /\ tourPage # "closed"
  /\ view' = NoView /\ tourPage' = "closed" /\ read' = NoRead /\ step' = NoStep
  /\ asking' = IF asking = "here" THEN "left" ELSE asking
  /\ UNCHANGED <<status, key, running, fix, position, killed>>

\* The screen is left and its state with it.  A transition on its way may
\* still arrive: one of Elsewhere's.
CloseTour ==
  /\ OnTour /\ tourPage # "closed"
  /\ view' = NoView /\ tourPage' = "closed" /\ read' = NoRead /\ step' = NoStep
  /\ key' = FALSE
  /\ asking' = IF asking = "here" THEN "left" ELSE asking
  /\ UNCHANGED <<status, running, fix, position, killed>>
-----------------------------------------------------------------------------
(* --------------------------- sharing a position ------------------------- *)

\* "Turn on location sharing": permissions and the start of the updates.
EnableLocation ==
  /\ guide.onPhone /\ tourPage = "ready" /\ InWindow(view) /\ ~running
  /\ asking \in {"no", "late"} /\ step.pc = "idle"
  /\ asking' = "here"
  /\ UNCHANGED <<status, deskVars, key, running, fix, position, killed>>

\* The answer comes to whoever asked, the screen left or not.
LocationAnswered ==
  /\ asking \in {"here", "left"}
  /\ asking' = IF asking = "left" THEN "late" ELSE "no"
  /\ \/ running' = TRUE /\ key' = TRUE
     \/ UNCHANGED <<running, key>>
  /\ UNCHANGED <<status, deskVars, fix, position, killed>>

Collects ==
  IF guide.onPhone THEN key /\ running
  ELSE OnTour /\ view # NoView /\ InWindow(view) /\ running

\* The background task, or the browser's watch: a fix is posted, never queued.
PostFix ==
  /\ Collects /\ fix = "none"
  /\ fix' = "sent"
  /\ UNCHANGED <<status, deskVars, key, asking, running, position, killed>>

\* Mutant: the booking is looked up, its status is not.
IngestReads_AnyStatus ==
  /\ fix = "sent"
  /\ fix' = "taken"
  /\ UNCHANGED <<status, deskVars, key, asking, running, position, killed>>

\* Service.Ingest judges the status it reads ...
IngestReads ==
  /\ fix = "sent"
  /\ fix' = IF InWindow(status) THEN "taken" ELSE "none"
  /\ UNCHANGED <<status, deskVars, key, asking, running, position, killed>>

\* ... and then writes the position, for 60 seconds.
IngestWrites ==
  /\ fix = "taken"
  /\ fix' = "none" /\ position' = TRUE
  /\ UNCHANGED <<status, deskVars, key, asking, running, killed>>

PositionExpires ==
  /\ position
  /\ position' = FALSE
  /\ UNCHANGED <<status, deskVars, key, asking, running, fix, killed>>

\* The system kills the phone app: the key is on disk, the task goes on.
Killed ==
  /\ guide.onPhone /\ OnTour /\ tourPage # "closed" /\ ~killed
  /\ killed' = TRUE
  /\ view' = NoView /\ tourPage' = "closed" /\ read' = NoRead /\ step' = NoStep
  /\ asking' = IF asking = "late" THEN "late" ELSE "no"
  /\ UNCHANGED <<status, key, running, fix, position>>

\* The switch on the screen about location, which is not over a tour's.
Switch ==
  /\ guide.onPhone /\ OnTour /\ tourPage = "closed"
  /\ running' = ~running
  /\ key' = (key /\ ~running)
  /\ UNCHANGED <<status, deskVars, asking, fix, position, killed>>

DeskNext ==
  \/ Elsewhere \/ TourOpened \/ TourServed \/ TourLoaded \/ TourGone \/ TourRetry
  \/ \E to \in Statuses : PressStep(to)
  \/ ServerSteps \/ StepSettles \/ CloseTour

LossyNext == TourLoadFails \/ StepLost

ShareNext ==
  \/ EnableLocation \/ LocationAnswered
  \/ PostFix \/ IngestReads \/ IngestWrites \/ PositionExpires
  \/ Killed \/ Switch

TourNext ==
  \/ (DeskNext \/ ShareNext) /\ UNCHANGED losses
  \/ LossyNext /\ losses' = losses + 1
=============================================================================
