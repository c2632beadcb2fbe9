------------------------------ MODULE GuideApp ------------------------------
(***************************************************************************)
(* The guide's two clients from the dashboard to the end of a tour: the    *)
(* job feed and the tour's screen, one after the other.                    *)
(***************************************************************************)
EXTENDS TourScreen

vars == <<jobVars, tourVars>>

Init == JobsInit /\ TourInit

\* An accepted job leads to its tour: the phone goes there, the page shows a
\* link.  Bound: the jobs are closed; under the tour of a phone they would go
\* on listening, which no state of the tour depends on.
OpenTour ==
  /\ screen = "jobs"
  /\ IF guide.onPhone THEN act.pc = "going"
     ELSE act.pc = "idle" /\ \E o \in Offer : offers[o] = "mine"
  /\ screen' = "tour"
  /\ page' = "loading" /\ list' = {} /\ load' = [l \in Load |-> NoLoad] /\ act' = NoAct
  /\ sock' = SockOff /\ conn' = ConnOff
  /\ UNCHANGED <<serverVars, presence, tourVars>>

OnJobsScreen == JobsNext /\ UNCHANGED tourVars

OnTourScreen ==
  /\ screen = "tour"
  /\ TourNext
  /\ UNCHANGED <<guide, screen, offers, page, list, load, act, sock, conn, presence>>

Next == OnJobsScreen \/ OpenTour \/ OnTourScreen

\* The server answers what reaches it, what it holds for a time runs out, and
\* the client takes the answers that have come.  Guides press when they like.
Fairness ==
  /\ WF_vars(\E l \in Load : (Serve(l) \/ Loaded(l)) /\ UNCHANGED tourVars)
  /\ WF_vars(\E l \in Load : Poll(l) /\ UNCHANGED tourVars)
  /\ WF_vars((ServerSteps \/ StepSettles \/ TourServed \/ TourLoaded \/ TourGone) /\ UNCHANGED jobVars)
  /\ WF_vars((IngestReads \/ IngestWrites) /\ UNCHANGED jobVars)
  /\ WF_vars(PositionExpires /\ UNCHANGED jobVars)

Spec == Init /\ [][Next]_vars /\ Fairness
-----------------------------------------------------------------------------
(* ------------------------------ properties ----------------------------- *)

TypeOK == JobsTypeOK /\ TourTypeOK

\* "Whenever the socket is not live we fall back to polling": an offer that
\* stays open while the list listens without a socket, for as long as that
\* lasts and also after the last attempt to connect, comes to the list for good.
PollingCatchesUp ==
  \A o \in Offer :
    <>[](OnJobs /\ offers[o] = "open" /\ sock.pc \in {"connecting", "waiting", "gaveUp"})
      => <>[](o \in list)

\* "Leaving the screen must not leave collection authorised": the key is there
\* only under a screen that shows the tour live, or that has lost it to another
\* guide while it was.  The app does not manage it when it is killed, nor when
\* the permission comes after the screen is left.
KeyFollowsScreen ==
  /\ guide.onPhone /\ ~killed /\ asking \in {"no", "here"} /\ key
       => \/ tourPage # "closed" /\ view # NoView /\ InWindow(view)
          \/ tourPage = "error" /\ view = NoView
  /\ guide.onPhone /\ tourPage = "ready" /\ InWindow(view) /\ step.pc = "idle" => key

\* "The page has been refreshed": a step that the server refused, because the
\* tour had moved, is not what the web page offers when the button is back.
RefusedIsCorrected ==
  [][~guide.onPhone /\ step.pc \in {"answered", "reading"} /\ step.result = "conflict"
       /\ step'.pc = "idle" /\ tourPage' = "ready"
     => <<view', step.to>> \notin OnTheWay]_vars

\* A tour that is over soon has no position: whatever the phone goes on
\* posting, and whatever was being written when it ended.
PositionFades == <>(OnTour /\ status \in ClosedStatuses) => <>[](~position)

=============================================================================
