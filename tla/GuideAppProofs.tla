--------------------------- MODULE GuideAppProofs ----------------------------
(***************************************************************************)
(* Theorems of GuideApp, for any number of offers, reads and losses.        *)
(***************************************************************************)
EXTENDS GuideApp, FiniteSetTheorems, TLAPS

\* Only a hook that has given up has failed more often than it may.
SockInv == sock.pc # "gaveUp" => sock.attempts <= MaxAttempts

\* A step is taken from a page that is up to date and reads nothing, and what
\* follows it reads; a page that is closed has neither.
DeskInv ==
  /\ step.pc \in {"sent", "answered"} => read.pc = "idle" /\ tourPage = "ready"
  /\ step.pc = "reading" => read.pc # "idle"
  /\ step.pc = "idle" /\ tourPage = "ready" => read.pc = "idle"
  /\ tourPage = "closed" => read.pc = "idle" /\ step.pc = "idle"

\* The phone waits for a permission on a page that shows the tour live.
AskInv ==
  asking = "here" =>
    guide.onPhone /\ tourPage = "ready" /\ step.pc = "idle" /\ InWindow(view)

\* KeyFollowsScreen, its second part also while a step is under way.
KeyInv ==
  /\ guide.onPhone /\ ~killed /\ asking \in {"no", "here"} /\ key
       => \/ tourPage # "closed" /\ view # NoView /\ InWindow(view)
          \/ tourPage = "error" /\ view = NoView
  /\ guide.onPhone /\ tourPage = "ready" /\ InWindow(view) /\ step.pc # "reading" => key

\* How far a tour has come.  No edge leads back.
Rank(s) ==
  CASE s = "CONFIRMED" -> 0
    [] s = "GUIDE_EN_ROUTE" -> 1
    [] s = "GUIDE_ARRIVED" -> 2
    [] s = "IN_PROGRESS" -> 3
    [] OTHER -> 4

Begun == ActiveStatuses \cup ClosedStatuses

\* What the browser shows or has read, the tour had reached; what it asks for is
\* the next step from there, and what was refused is behind.
RankInv ==
  /\ status \in Begun
  /\ ~guide.onPhone =>
       /\ view # NoView => view \in Begun /\ Rank(view) <= Rank(status)
       /\ read.pc = "served" => read.seen \in Begun /\ Rank(read.seen) <= Rank(status)
       /\ step.pc = "sent" =>
            \E v \in Begun : <<v, step.to>> \in OnTheWay /\ Rank(v) <= Rank(status)
       /\ step.pc \in {"answered", "reading"} /\ step.result = "conflict" =>
            /\ Rank(step.to) <= Rank(status)
            /\ read.pc = "served" => Rank(step.to) <= Rank(read.seen)

IInv == JobsTypeOK /\ TourTypeOK /\ SockInv /\ DeskInv /\ AskInv /\ KeyInv /\ RankInv

-----------------------------------------------------------------------------
(* ------------------------------- the feed ------------------------------- *)

LoadType == [pc : {"idle", "sent", "served"}, seen : SUBSET Offer]
ActType == [pc : {"idle", "sent", "answered", "reading", "going"}, kind : {"accept", "decline"},
            offer : Offer \cup {None}, result : Results, load : Load \cup {None}]
SockType == [pc : {"off", "connecting", "open", "waiting", "gaveUp"}, attempts : 0 .. MaxAttempts + 1]
ConnType == [pc : {"none", "snapped", "joined"}, frames : 0 .. MaxFrames]
PresenceType == [online : BOOLEAN, asked : {"none", "on", "off", "wasOn", "wasOff"},
                 beat : BOOLEAN, marked : BOOLEAN]

LEMMA Resting ==
  /\ NoLoad \in LoadType /\ [pc |-> "sent", seen |-> {}] \in LoadType
  /\ NoAct \in ActType
  /\ SockOff \in SockType /\ SockUp \in SockType /\ ConnOff \in ConnType
  /\ NoPresence \in PresenceType
<1>1. 0 \in 0 .. MaxAttempts + 1 /\ 0 \in 0 .. MaxFrames
  BY JobFeedAssumption
<1>2. SockOff \in SockType /\ SockUp \in SockType /\ ConnOff \in ConnType
  BY <1>1 DEF SockOff, SockUp, ConnOff, SockType, ConnType
<1>3. NoAct \in ActType
  BY DEF NoAct, ActType, Results
<1>4. NoLoad \in LoadType /\ [pc |-> "sent", seen |-> {}] \in LoadType
  BY DEF NoLoad, LoadType
<1> QED BY <1>2, <1>3, <1>4 DEF NoPresence, PresenceType

LEMMA Began ==
  ASSUME load \in [Load -> LoadType], NEW l \in Load
  PROVE  Begin(l) \in [Load -> LoadType] /\ [load EXCEPT ![l] = NoLoad] \in [Load -> LoadType]
  BY Resting DEF Begin

LEMMA Broadcasts ==
  ASSUME conn \in ConnType, Broadcast \/ UNCHANGED conn
  PROVE  conn' \in ConnType
<1>1. CASE conn.pc = "joined" /\ conn.frames < MaxFrames /\ Broadcast
  <2>1. conn.frames + 1 \in 0 .. MaxFrames
    BY <1>1, JobFeedAssumption DEF ConnType
  <2>2. conn' = [conn EXCEPT !.frames = conn.frames + 1]
    BY <1>1 DEF Broadcast
  <2> QED BY <2>1, <2>2 DEF ConnType
<1>2. CASE ~(conn.pc = "joined" /\ conn.frames < MaxFrames) \/ UNCHANGED conn
  BY <1>2 DEF Broadcast
<1> QED BY <1>1, <1>2

LEMMA Listens ==
  ASSUME sock \in SockType, conn \in ConnType, SockInv, NEW state, Listen(state)
  PROVE  sock' \in SockType /\ conn' \in ConnType /\ SockInv'
<1>1. \/ sock' = SockUp /\ conn' = ConnOff
      \/ sock' = SockOff /\ conn' = ConnOff
      \/ sock' = sock /\ conn' = conn
  BY DEF Listen
<1>2. sock' = SockUp \/ sock' = SockOff => SockInv'
  BY JobFeedAssumption DEF SockUp, SockOff, SockInv
<1> QED BY <1>1, <1>2, Resting DEF SockInv

LEMMA Finishes ==
  ASSUME act \in ActType, NEW l \in Load, Finish(l)
  PROVE  act' \in ActType
<1>1. [act EXCEPT !.pc = "going", !.load = None] \in ActType
  BY DEF ActType
<1> QED BY <1>1, Resting DEF Finish

LEMMA Reconnects ==
  ASSUME sock \in SockType, SockInv, sock.pc # "gaveUp", Reconnect
  PROVE  sock' \in SockType /\ SockInv'
<1> DEFINE n == sock.attempts + 1
<1>1. n \in 0 .. MaxAttempts + 1
  BY JobFeedAssumption DEF SockType, SockInv
<1>2. n > MaxAttempts \/ n <= MaxAttempts
  BY <1>1, JobFeedAssumption
<1>3. CASE n > MaxAttempts
  BY <1>1, <1>3 DEF Reconnect, SockType, SockInv
<1>4. CASE ~(n > MaxAttempts)
  BY <1>1, <1>2, <1>4 DEF Reconnect, SockType, SockInv
<1> QED BY <1>3, <1>4

JobsInv == JobsTypeOK /\ SockInv

LEMMA JobsTyped ==
  JobsTypeOK <=>
    /\ guide \in {GuidePhone, GuideBrowser}
    /\ screen \in {"home", "jobs", "tour"}
    /\ offers \in [Offer -> {"none", "open", "mine", "gone"}]
    /\ page \in {"loading", "ready", "error"}
    /\ list \subseteq Offer
    /\ load \in [Load -> LoadType] /\ act \in ActType
    /\ sock \in SockType /\ conn \in ConnType
    /\ presence \in PresenceType
    /\ losses \in 0 .. MaxLosses
  BY DEF JobsTypeOK, LoadType, ActType, SockType, ConnType, PresenceType

LEMMA JobsTypedNext ==
  ASSUME guide' \in {GuidePhone, GuideBrowser},
         screen' \in {"home", "jobs", "tour"},
         offers' \in [Offer -> {"none", "open", "mine", "gone"}],
         page' \in {"loading", "ready", "error"},
         list' \subseteq Offer,
         load' \in [Load -> LoadType], act' \in ActType,
         sock' \in SockType, conn' \in ConnType,
         presence' \in PresenceType,
         losses' \in 0 .. MaxLosses
  PROVE  JobsTypeOK'
  BY DEF JobsTypeOK, LoadType, ActType, SockType, ConnType, PresenceType

LEMMA JobsInitially == JobsInit => JobsInv
<1> SUFFICES ASSUME JobsInit PROVE JobsInv
  OBVIOUS
<1>1. screen \in {"home", "jobs", "tour"} /\ load \in [Load -> LoadType]
  BY Resting DEF JobsInit
<1>2. losses \in 0 .. MaxLosses /\ offers \in [Offer -> {"none", "open", "mine", "gone"}]
  BY JobFeedAssumption DEF JobsInit
<1>3. SockInv
  BY JobFeedAssumption DEF JobsInit, SockInv, SockOff
<1> QED BY <1>1, <1>2, <1>3, Resting, JobsTyped DEF JobsInit, JobsInv

LEMMA OneMoreLoss ==
  ASSUME losses \in 0 .. MaxLosses, losses < MaxLosses, losses' = losses + 1
  PROVE  losses' \in 0 .. MaxLosses
  BY JobFeedAssumption

\* The steps of the dashboard change what is known of the guide's presence.
LEMMA PresenceStep ==
  ASSUME JobsInv, PresenceNext
  PROVE  JobsInv'
<1> USE DEF JobsInv
<1>1. UNCHANGED <<guide, offers, feedVars, screen>>
  BY DEF PresenceNext, SetOnline, SetMarker, OnlineAnswered, OnlineLost, Heartbeat,
         HeartbeatArrives, MarkerExpires, serverVars
<1>2. losses' \in 0 .. MaxLosses
  BY OneMoreLoss, JobsTyped
     DEF PresenceNext, SetOnline, SetMarker, OnlineAnswered, OnlineLost, Heartbeat,
         HeartbeatArrives, MarkerExpires, serverVars
<1>3. presence' \in PresenceType
  <2>0. presence \in PresenceType
    BY JobsTyped
  <2>1. ASSUME NEW on \in BOOLEAN, SetOnline(on) PROVE presence' \in PresenceType
    BY <2>0, <2>1 DEF SetOnline, PresenceType
  <2>2. CASE SetMarker \/ OnlineAnswered
    <3>1. (presence.asked = "on") \in BOOLEAN /\ (presence.asked = "wasOn") \in BOOLEAN
      OBVIOUS
    <3> QED BY <2>0, <2>2, <3>1 DEF SetMarker, OnlineAnswered, PresenceType
  <2>3. CASE OnlineLost \/ Heartbeat \/ MarkerExpires
    BY <2>0, <2>3 DEF OnlineLost, Heartbeat, MarkerExpires, PresenceType
  <2>4. CASE HeartbeatArrives
    <3>1. PICK arrived \in BOOLEAN :
            presence' = [presence EXCEPT !.beat = FALSE, !.marked = presence.marked \/ arrived]
      BY <2>4 DEF HeartbeatArrives
    <3>2. (presence.marked \/ arrived) \in BOOLEAN
      OBVIOUS
    <3> QED BY <2>0, <3>1, <3>2 DEF PresenceType
  <2> QED BY <2>1, <2>2, <2>3, <2>4 DEF PresenceNext
<1> QED BY <1>1, <1>2, <1>3, JobsTyped, JobsTypedNext DEF feedVars, SockInv

LEMMA FeedStep ==
  ASSUME JobsInv, FeedNext
  PROVE  JobsInv'
<1> USE JobsTyped, JobsTypedNext DEF JobsInv
<1>f. \A l \in Free : l \in Load
  BY DEF Free
<1>1. ASSUME NEW o \in Offer, OfferMade(o) \/ OfferGoes(o) PROVE JobsInv'
  <2>1. offers' \in [Offer -> {"none", "open", "mine", "gone"}]
    BY <1>1 DEF OfferMade, OfferGoes
  <2>2. conn' \in ConnType
    BY <1>1, Broadcasts DEF OfferMade, OfferGoes
  <2> QED BY <1>1, <2>1, <2>2 DEF OfferMade, OfferGoes, SockInv
<1>2. ASSUME NEW l \in Load, Serve(l) PROVE JobsInv'
  <2>1. [pc |-> "served", seen |-> OpenOffers] \in LoadType
    BY DEF LoadType, OpenOffers
  <2> QED BY <1>2, <2>1 DEF Serve, serverVars, SockInv
<1>3. ASSUME NEW l \in Load, Loaded(l) PROVE JobsInv'
  <2>1. list' \subseteq Offer
    BY <1>3 DEF Loaded, LoadType
  <2> QED BY <1>3, <2>1, Began, Listens, Finishes DEF Loaded, serverVars
<1>4. ASSUME NEW l \in Load, LoadFails(l) PROVE JobsInv'
  BY <1>4, Began, Listens, Finishes, OneMoreLoss DEF LoadFails
<1>5. ASSUME NEW l \in Load, Retry(l) \/ Poll(l) PROVE JobsInv'
  BY <1>5, Began DEF Retry, Poll, serverVars, SockInv
<1>6. ASSUME NEW l \in Load, Frame(l) PROVE JobsInv'
  <2>1. conn.frames - 1 \in 0 .. MaxFrames
    BY <1>6, JobFeedAssumption DEF Frame, ConnType
  <2>2. conn' \in ConnType
    BY <1>6, <2>1 DEF Frame, ConnType
  <2> QED BY <1>6, <2>2, Began DEF Frame, serverVars, SockInv
<1>7. CASE Snapshot
  <2>1. IsFiniteSet(OpenOffers)
    BY OffersAreCounted, FS_Subset DEF OpenOffers
  <2>2. Cardinality(OpenOffers) \in 0 .. MaxFrames
    BY <1>7, <2>1, FS_CardinalityType, JobFeedAssumption DEF Snapshot
  <2>3. conn' \in ConnType
    BY <1>7, <2>2 DEF Snapshot, ConnType
  <2> QED BY <1>7, <2>3 DEF Snapshot, serverVars, SockInv
<1>8. CASE Join
  <2>1. sock' \in SockType /\ SockInv'
    BY <1>8, JobFeedAssumption DEF Join, SockType, SockInv
  <2>2. conn' \in ConnType
    BY <1>8 DEF Join, ConnType
  <2> QED BY <1>8, <2>1, <2>2 DEF Join, serverVars
<1>9. CASE Drop
  <2>1. sock' \in SockType /\ SockInv'
    BY <1>9, Reconnects DEF Drop
  <2> QED BY <1>9, <2>1, Resting DEF Drop, serverVars
<1>10. CASE Connect
  <2>1. sock' \in SockType /\ SockInv'
    BY <1>10 DEF Connect, SockType, SockInv
  <2> QED BY <1>10, <2>1 DEF Connect, serverVars
<1>11. ASSUME NEW o \in Offer, NEW kind \in {"accept", "decline"}, Press(o, kind) PROVE JobsInv'
  <2>1. act' \in ActType
    BY <1>11, Resting DEF Press, ActType
  <2> QED BY <1>11, <2>1 DEF Press, serverVars, SockInv
<1>12. CASE ServerActs
  <2>1. offers' \in [Offer -> {"none", "open", "mine", "gone"}]
    BY <1>12 DEF ServerActs
  <2>2. conn' \in ConnType
    BY <1>12, Broadcasts DEF ServerActs
  <2>3. act' \in ActType
    BY <1>12 DEF ServerActs, ActType, Results
  <2> QED BY <1>12, <2>1, <2>2, <2>3 DEF ServerActs, SockInv
<1>13. CASE ActLost
  <2>1. act' \in ActType
    BY <1>13 DEF ActLost, ActType, Results
  <2> QED BY <1>13, <2>1, OneMoreLoss DEF ActLost, SockInv
<1>14. CASE Settle
  <2>1. ASSUME NEW l \in Free, act' = [act EXCEPT !.pc = "reading", !.load = l]
        PROVE  act' \in ActType
    BY <1>f, <2>1 DEF ActType
  <2>2. /\ act' = NoAct \/ \E l \in Free : act' = [act EXCEPT !.pc = "reading", !.load = l]
        /\ list' = list \/ list' = list \ {act.offer}
    BY <1>14 DEF Settle
  <2>3. load' = load \/ \E l \in Free : load' = Begin(l)
    BY <1>14 DEF Settle
  <2>4. load' \in [Load -> LoadType]
    BY <1>f, <2>3, Began
  <2>5. act' \in ActType
    BY <2>1, <2>2, Resting
  <2>6. list' \subseteq Offer
    BY <2>2
  <2> QED BY <1>14, <2>4, <2>5, <2>6 DEF Settle, serverVars, SockInv
<1> QED
  BY <1>1, <1>2, <1>3, <1>4, <1>5, <1>6, <1>7, <1>8, <1>9, <1>10, <1>11, <1>12, <1>13, <1>14
     DEF FeedNext

LEMMA OpenJobsStep ==
  ASSUME JobsInv, OpenJobs
  PROVE  JobsInv'
<1> USE JobsTyped, JobsTypedNext DEF JobsInv
<1>1. load' \in [Load -> LoadType]
  BY Resting DEF OpenJobs
<1>2. sock' \in SockType /\ SockInv'
  BY Resting, JobFeedAssumption DEF OpenJobs, SockUp, SockOff, SockInv
<1> QED BY <1>1, <1>2, Resting DEF OpenJobs, serverVars

LEMMA OpenTourStep ==
  ASSUME JobsInv, OpenTour
  PROVE  JobsInv'
<1> USE JobsTyped, JobsTypedNext DEF JobsInv
<1>1. load' \in [Load -> LoadType]
  BY Resting DEF OpenTour
<1>2. sock' \in SockType /\ SockInv'
  BY Resting, JobFeedAssumption DEF OpenTour, SockOff, SockInv
<1> QED BY <1>1, <1>2, Resting DEF OpenTour, serverVars

-----------------------------------------------------------------------------
(* ------------------------------- the tour ------------------------------- *)

\* An edge from a tour that has begun leads on, and no two of the stages on the
\* way to its end are alike.
LEMMA Onwards ==
  /\ \A s \in Begun : Rank(s) \in 0 .. 4
  /\ \A s \in Begun : \A to : CanTransition(s, to) => to \in Begun /\ Rank(s) <= Rank(to)
  /\ \A v, to : <<v, to>> \in OnTheWay =>
       /\ v \in Begun /\ to \in Begun
       /\ Rank(to) = Rank(v) + 1 /\ CanTransition(v, to)
       /\ \A s \in Begun : Rank(s) = Rank(v) => s = v
  /\ "CONFIRMED" \in Begun /\ Begun \subseteq Statuses
<1> USE DEF Begun, ActiveStatuses, ClosedStatuses, CancelledStatuses
<1>1. \A s \in Begun : Rank(s) \in 0 .. 4
  BY DEF Rank
<1>2. ASSUME NEW s \in Begun, NEW to, CanTransition(s, to)
      PROVE  to \in Begun /\ Rank(s) <= Rank(to)
  <2> USE DEF CanTransition, transitions, Statuses, UnpaidStatuses
  <2>1. CASE s = "CONFIRMED"
    BY <1>2, <2>1 DEF Rank
  <2>2. CASE s = "GUIDE_EN_ROUTE"
    BY <1>2, <2>2 DEF Rank
  <2>3. CASE s = "GUIDE_ARRIVED"
    BY <1>2, <2>3 DEF Rank
  <2>4. CASE s = "IN_PROGRESS"
    BY <1>2, <2>4 DEF Rank
  <2>5. CASE s \in ClosedStatuses
    <3>1. to \in {"REFUND_PENDING", "REFUNDED"}
      BY <1>2, <2>5
    <3> QED BY <2>5, <3>1 DEF Rank
  <2> QED BY <2>1, <2>2, <2>3, <2>4, <2>5
<1>3. ASSUME NEW v, NEW to, <<v, to>> \in OnTheWay
      PROVE  /\ v \in Begun /\ to \in Begun
             /\ Rank(to) = Rank(v) + 1 /\ CanTransition(v, to)
             /\ \A s \in Begun : Rank(s) = Rank(v) => s = v
  <2>0. \A s : /\ Rank(s) = 0 => s = "CONFIRMED"
               /\ Rank(s) = 1 => s = "GUIDE_EN_ROUTE"
               /\ Rank(s) = 2 => s = "GUIDE_ARRIVED"
               /\ Rank(s) = 3 => s = "IN_PROGRESS"
    BY DEF Rank
  <2>r. /\ Rank("CONFIRMED") = 0 /\ Rank("GUIDE_EN_ROUTE") = 1 /\ Rank("GUIDE_ARRIVED") = 2
        /\ Rank("IN_PROGRESS") = 3 /\ Rank("COMPLETED") = 4
    BY DEF Rank
  <2> USE DEF CanTransition, transitions, Statuses, UnpaidStatuses
  <2>1. CASE v = "CONFIRMED" /\ to = "GUIDE_EN_ROUTE"
    BY <2>0, <2>r, <2>1
  <2>2. CASE v = "GUIDE_EN_ROUTE" /\ to = "GUIDE_ARRIVED"
    BY <2>0, <2>r, <2>2
  <2>3. CASE v = "GUIDE_ARRIVED" /\ to = "IN_PROGRESS"
    BY <2>0, <2>r, <2>3
  <2>4. CASE v = "IN_PROGRESS" /\ to = "COMPLETED"
    BY <2>0, <2>r, <2>4
  <2> QED BY <1>3, <2>1, <2>2, <2>3, <2>4 DEF OnTheWay
<1> QED BY <1>1, <1>2, <1>3 DEF Statuses

LEMMA Edges ==
  ASSUME NEW s \in Statuses, NEW to, CanTransition(s, to)
  PROVE  to \in Statuses
<1> USE DEF CanTransition, transitions, Statuses, UnpaidStatuses, ActiveStatuses,
            ClosedStatuses, CancelledStatuses
<1>1. CASE s \in UnpaidStatuses
  BY <1>1
<1>2. CASE s \in ActiveStatuses
  BY <1>2
<1>3. CASE s \in ClosedStatuses
  BY <1>3
<1> QED BY <1>1, <1>2, <1>3

\* The client's parts of the tour, and what its steps leave alone.
TourInv == TourTypeOK /\ DeskInv /\ AskInv /\ KeyInv /\ RankInv

ReadType == [pc : {"idle", "sent", "served"}, seen : Statuses \cup {NoView}]
StepType == [pc : {"idle", "sent", "answered", "reading"}, to : Statuses \cup {NoView},
             result : Results]
Shown == Statuses \cup {"GUIDE_ASSIGNED", NoView}

LEMMA Idle ==
  /\ NoRead \in ReadType /\ NoStep \in StepType /\ NoRead.pc = "idle" /\ NoStep.pc = "idle"
  /\ [pc |-> "sent", seen |-> NoView] \in ReadType
  BY DEF NoRead, NoStep, ReadType, StepType, Results

LEMMA ShowsTyped ==
  ASSUME NEW s \in Statuses \cup {NoView}
  PROVE  Shows(s) \in Shown /\ (~guide.onPhone => Shows(s) = s)
  BY DEF Shows, PhoneShows, Shown

LEMMA LiveIsShown == \A v : InWindow(v) => v # NoView
  BY NoViewIsFresh DEF InWindow, Statuses, ActiveStatuses

LEMMA TourTyped ==
  TourTypeOK <=>
    /\ status \in Statuses /\ view \in Shown
    /\ tourPage \in {"closed", "loading", "ready", "error"}
    /\ read \in ReadType /\ step \in StepType
    /\ key \in BOOLEAN /\ asking \in {"no", "here", "left", "late"} /\ running \in BOOLEAN
    /\ fix \in {"none", "sent", "taken"} /\ position \in BOOLEAN /\ killed \in BOOLEAN
  BY DEF TourTypeOK, Shown, ReadType, StepType

LEMMA TourTypedNext ==
  ASSUME status' \in Statuses, view' \in Shown,
         tourPage' \in {"closed", "loading", "ready", "error"},
         read' \in ReadType, step' \in StepType,
         key' \in BOOLEAN, asking' \in {"no", "here", "left", "late"}, running' \in BOOLEAN,
         fix' \in {"none", "sent", "taken"}, position' \in BOOLEAN, killed' \in BOOLEAN
  PROVE  TourTypeOK'
  BY DEF TourTypeOK, Shown, ReadType, StepType

LEMMA TourInitially == TourInit => TourInv
<1> SUFFICES ASSUME TourInit PROVE TourInv
  OBVIOUS
<1>1. status \in Begun /\ status \in Statuses
  BY Onwards DEF TourInit
<1>2. TourTypeOK
  BY <1>1, Idle, TourTyped DEF TourInit, Shown
<1>3. DeskInv /\ AskInv /\ KeyInv
  BY Idle DEF TourInit, DeskInv, AskInv, KeyInv
<1>4. RankInv
  BY <1>1, Idle DEF TourInit, RankInv
<1> QED BY <1>2, <1>3, <1>4 DEF TourInv

\* Where only positions, losses or the feed move, the screen's part holds on.
LEMMA TourRests ==
  ASSUME TourInv, UNCHANGED <<guide, status, deskVars, key, asking, killed>>
  PROVE  DeskInv' /\ AskInv' /\ KeyInv' /\ RankInv'
<1>1. DeskInv' /\ AskInv' /\ KeyInv'
  BY DEF TourInv, DeskInv, AskInv, KeyInv, deskVars
<1>2. RankInv'
  BY DEF TourInv, RankInv, deskVars
<1> QED BY <1>1, <1>2

LEMMA DeskStep ==
  ASSUME TourInv, guide' = guide, DeskNext
  PROVE  TourInv'
<1> USE TourTyped, TourTypedNext DEF TourInv
<1>1. CASE Elsewhere
  <2>1. CanTransition(status, status') /\ UNCHANGED <<deskVars, shareVars>>
    BY <1>1 DEF Elsewhere, CanTransition
  <2>2. status' \in Begun /\ Rank(status) <= Rank(status')
        /\ Rank(status) \in 0 .. 4 /\ Rank(status') \in 0 .. 4
    BY <2>1, Onwards DEF RankInv
  <2>3. TourTypeOK'
    BY <2>1, <2>2, Onwards DEF deskVars, shareVars
  <2>4. DeskInv' /\ AskInv' /\ KeyInv'
    BY <2>1 DEF DeskInv, AskInv, KeyInv, deskVars, shareVars
  <2>5. \A n \in 0 .. 4 : n <= Rank(status) => n <= Rank(status')
    BY <2>2
  <2>6. RankInv'
    <3> SUFFICES ASSUME ~guide.onPhone
                 PROVE  RankInv'
      BY <2>1, <2>2 DEF RankInv
    <3>1. view # NoView => view \in Begun /\ Rank(view) <= Rank(status')
      BY <2>5, Onwards DEF RankInv
    <3>2. read.pc = "served" => read.seen \in Begun /\ Rank(read.seen) <= Rank(status')
      BY <2>5, Onwards DEF RankInv
    <3>3. step.pc = "sent" =>
            \E v \in Begun : <<v, step.to>> \in OnTheWay /\ Rank(v) <= Rank(status')
      BY <2>5, Onwards DEF RankInv
    <3>4. step.pc \in {"answered", "reading"} /\ step.result = "conflict" =>
            /\ Rank(step.to) <= Rank(status')
            /\ read.pc = "served" => Rank(step.to) <= Rank(read.seen)
      <4>1. Rank(step.to) \in 0 .. 4
        BY DEF Rank
      <4> QED BY <4>1, <2>5 DEF RankInv
    <3> QED BY <2>1, <2>2, <3>1, <3>2, <3>3, <3>4 DEF RankInv, deskVars
  <2> QED BY <2>3, <2>4, <2>6
<1>2. CASE TourOpened \/ TourRetry
  <2>1. /\ read' = [pc |-> "sent", seen |-> NoView] /\ read'.pc = "sent"
        /\ UNCHANGED <<status, view, step, shareVars>>
        /\ \/ tourPage = "closed" /\ tourPage' = "loading"
           \/ tourPage = "error" /\ tourPage' = "error" /\ read.pc = "idle"
    BY <1>2 DEF TourOpened, TourRetry
  <2>2. TourTypeOK'
    BY <2>1, Idle DEF shareVars
  <2>3. step.pc = "idle"
    BY <2>1 DEF DeskInv, StepType
  <2>4. DeskInv' /\ AskInv' /\ KeyInv'
    BY <2>1, <2>3 DEF DeskInv, AskInv, KeyInv, shareVars
  <2>5. RankInv'
    BY <2>1, <2>3 DEF RankInv
  <2> QED BY <2>2, <2>4, <2>5
<1>3. CASE TourServed
  <2>1. PICK seen \in {status} \cup (IF guide.onPhone THEN {NoView} ELSE {}) :
             read' = [pc |-> "served", seen |-> seen]
    BY <1>3 DEF TourServed
  <2>0. /\ read.pc = "sent" /\ read'.pc = "served" /\ read' \in ReadType
        /\ ~guide.onPhone => read'.seen = status
        /\ UNCHANGED <<status, view, tourPage, step, shareVars>>
    BY <1>3, <2>1 DEF TourServed, ReadType
  <2>2. TourTypeOK'
    BY <2>0 DEF shareVars
  <2>3. DeskInv' /\ AskInv' /\ KeyInv'
    BY <2>0 DEF DeskInv, AskInv, KeyInv, shareVars
  <2>4. RankInv'
    <3>1. status \in Begun => Rank(status) <= Rank(status)
      BY Onwards
    <3> QED BY <2>0, <3>1 DEF RankInv
  <2> QED BY <2>2, <2>3, <2>4
<1>4. CASE TourLoaded
  <2>1. /\ read.pc = "served" /\ view' = Shows(read.seen) /\ tourPage' = "ready"
        /\ read' = NoRead /\ read'.pc = "idle" /\ key' = (guide.onPhone /\ InWindow(view'))
        /\ step' = IF step.pc = "reading" THEN NoStep ELSE step
        /\ UNCHANGED <<status, asking, running, fix, position, killed>>
    BY <1>4, Idle DEF TourLoaded, EndStep
  <2>2. step'.pc = "idle" /\ step' \in StepType
    BY <2>1, Idle DEF DeskInv, StepType
  <2>3. view' \in Shown /\ (~guide.onPhone => view' = read.seen)
    BY <2>1, ShowsTyped DEF ReadType
  <2>4. TourTypeOK'
    BY <2>1, <2>2, <2>3, Idle
  <2>5. DeskInv'
    BY <2>1, <2>2 DEF DeskInv
  <2>6. AskInv'
    BY <2>1 DEF AskInv, DeskInv
  <2>7. KeyInv'
    BY Zenon, <2>1, LiveIsShown DEF KeyInv
  <2>8. RankInv'
    BY <2>1, <2>2, <2>3 DEF RankInv
  <2> QED BY <2>4, <2>5, <2>6, <2>7, <2>8
<1>9. CASE TourGone
  <2>1. /\ read.pc = "served" /\ read.seen = NoView /\ view' = NoView /\ tourPage' = "error"
        /\ read' = NoRead /\ read'.pc = "idle"
        /\ step' = IF step.pc = "reading" THEN NoStep ELSE step
        /\ UNCHANGED <<status, shareVars>>
    BY <1>9, Idle DEF TourGone, EndStep
  <2>2. step'.pc = "idle" /\ step' \in StepType
    BY <2>1, Idle DEF DeskInv, StepType
  <2>3. TourTypeOK'
    BY <2>1, <2>2, Idle DEF shareVars, Shown
  <2>4. DeskInv' /\ AskInv'
    BY <2>1, <2>2 DEF DeskInv, AskInv, shareVars
  <2>5. KeyInv'
    BY <2>1 DEF KeyInv, shareVars
  <2>6. RankInv'
    BY <2>1, <2>2 DEF RankInv
  <2> QED BY <2>3, <2>4, <2>5, <2>6
<1>5. ASSUME NEW to \in Statuses, PressStep(to) PROVE TourInv'
  <2>1. /\ step.pc = "idle" /\ Offers(to) /\ tourPage = "ready"
        /\ step' = [pc |-> "sent", to |-> to, result |-> "lost"]
        /\ step'.pc = "sent" /\ step'.to = to
        /\ UNCHANGED <<status, view, tourPage, read, shareVars>>
    BY <1>5 DEF PressStep, Offers, PhoneButton, BrowserButton
  <2>2. TourTypeOK'
    BY <2>1 DEF shareVars, StepType, Results
  <2>3. DeskInv'
    BY <2>1 DEF DeskInv
  <2>4. AskInv'
    BY <2>1 DEF AskInv, Offers, PhoneButton, shareVars
  <2>5. KeyInv'
    BY <2>1 DEF KeyInv, shareVars
  <2>6. ~guide.onPhone => <<view, to>> \in OnTheWay
    BY <2>1 DEF Offers, BrowserButton
  <2>7. RankInv'
    BY <2>1, <2>3, <2>6, NoViewIsFresh, Onwards DEF RankInv, DeskInv
  <2> QED BY <2>2, <2>3, <2>4, <2>5, <2>7
<1>6. CASE ServerSteps
  <2>1. /\ step.pc = "sent" /\ step'.pc = "answered" /\ step'.to = step.to
        /\ step'.result \in {"ok", "conflict"} /\ step' \in StepType
        /\ UNCHANGED <<view, tourPage, read, shareVars>>
    BY <1>6 DEF ServerSteps, StepType, Results
  <2>2. \/ CanTransition(status, step.to) /\ status' = step.to /\ step'.result = "ok"
        \/ ~CanTransition(status, step.to) /\ status' = status
    BY <1>6 DEF ServerSteps, StepType
  <2>3. status' \in Begun /\ Rank(status) <= Rank(status')
    BY <2>2, Onwards DEF RankInv
  <2>4. TourTypeOK'
    BY <2>1, <2>3, Onwards DEF shareVars
  <2>5. DeskInv' /\ AskInv' /\ KeyInv'
    BY <2>1 DEF DeskInv, AskInv, KeyInv, shareVars
  <2>6. RankInv'
    <3> SUFFICES ASSUME ~guide.onPhone
                 PROVE  RankInv'
      BY <2>3 DEF RankInv
    <3>1. read.pc = "idle"
      BY <2>1 DEF DeskInv
    <3>2. view # NoView => view \in Begun /\ Rank(view) <= Rank(status')
      <4>1. view # NoView => view \in Begun /\ Rank(view) <= Rank(status)
        BY DEF RankInv
      <4>2. Rank(status) \in 0 .. 4 /\ Rank(status') \in 0 .. 4
        BY <2>3, Onwards DEF RankInv
      <4> QED BY <2>3, <4>1, <4>2, Onwards
    <3>3. ASSUME step'.result = "conflict" PROVE Rank(step.to) <= Rank(status)
      <4>1. PICK v \in Begun : <<v, step.to>> \in OnTheWay /\ Rank(v) <= Rank(status)
        BY <2>1 DEF RankInv
      <4>2. ~CanTransition(status, step.to) /\ status \in Begun
        BY <2>2, <3>3 DEF RankInv
      <4>3. status # v /\ Rank(step.to) = Rank(v) + 1
        BY <4>1, <4>2, Onwards
      <4>4. Rank(status) # Rank(v)
        BY <4>1, <4>2, <4>3, Onwards
      <4> QED BY <4>1, <4>2, <4>3, <4>4, Onwards
    <3> QED BY <2>1, <2>2, <2>3, <3>1, <3>2, <3>3 DEF RankInv
  <2> QED BY <2>4, <2>5, <2>6
<1>7. CASE StepSettles
  <2>1. /\ step.pc = "answered" /\ read.pc = "idle" /\ tourPage = "ready"
        /\ UNCHANGED <<status, view, tourPage, asking, running, fix, position, killed>>
    BY <1>7 DEF StepSettles, DeskInv
  <2>2. CASE step.result \in Rereads
    <3>1. /\ read' = [pc |-> "sent", seen |-> NoView] /\ read'.pc = "sent"
          /\ step' = [step EXCEPT !.pc = "reading"]
          /\ step'.pc = "reading" /\ step'.to = step.to /\ step'.result = step.result
      BY <1>7, <2>2 DEF StepSettles, StepType
    <3>2. (key' => key) /\ key' \in BOOLEAN
      BY <1>7 DEF StepSettles
    <3>3. TourTypeOK'
      BY <2>1, <3>1, <3>2, Idle DEF StepType
    <3>4. DeskInv' /\ AskInv' /\ KeyInv'
      BY <2>1, <3>1, <3>2 DEF DeskInv, AskInv, KeyInv
    <3>5. RankInv'
      BY <2>1, <3>1 DEF RankInv
    <3> QED BY <3>3, <3>4, <3>5
  <2>3. CASE step.result \notin Rereads
    <3>1. step' = NoStep /\ step'.pc = "idle" /\ read' = read
      BY <1>7, <2>3, Idle DEF StepSettles
    <3>2. step.result # "ok"
      BY <2>3 DEF Rereads
    <3>3. key' = key
      BY <1>7, <3>2 DEF StepSettles
    <3>4. TourTypeOK'
      BY <2>1, <3>1, <3>3, Idle
    <3>5. DeskInv' /\ AskInv' /\ KeyInv'
      BY <2>1, <3>1, <3>3 DEF DeskInv, AskInv, KeyInv
    <3>6. RankInv'
      BY <2>1, <3>1 DEF RankInv
    <3> QED BY <3>4, <3>5, <3>6
  <2> QED BY <2>2, <2>3
<1>8. CASE CloseTour
  <2>1. /\ view' = NoView /\ tourPage' = "closed" /\ read' = NoRead /\ step' = NoStep
        /\ read'.pc = "idle" /\ step'.pc = "idle" /\ key' = FALSE /\ asking' # "here"
        /\ asking' \in {asking, "left"}
        /\ UNCHANGED <<status, running, fix, position, killed>>
    BY <1>8, Idle DEF CloseTour
  <2>2. TourTypeOK'
    BY <2>1, Idle DEF Shown
  <2>3. DeskInv' /\ AskInv' /\ KeyInv'
    BY <2>1 DEF DeskInv, AskInv, KeyInv
  <2>4. RankInv'
    BY <2>1 DEF RankInv
  <2> QED BY <2>2, <2>3, <2>4
<1> QED BY <1>1, <1>2, <1>3, <1>4, <1>5, <1>6, <1>7, <1>8, <1>9 DEF DeskNext

LEMMA LossyStep ==
  ASSUME TourInv, guide' = guide, LossyNext
  PROVE  TourInv'
<1> USE TourTyped, TourTypedNext DEF TourInv
<1>1. CASE TourLoadFails
  <2>1. /\ read.pc # "idle" /\ tourPage' = "error" /\ read' = NoRead /\ read'.pc = "idle"
        /\ step' = IF step.pc = "reading" THEN NoStep ELSE step
        /\ UNCHANGED <<status, view, shareVars>>
    BY <1>1, Idle DEF TourLoadFails, EndStep
  <2>2. step'.pc = "idle" /\ step' \in StepType
    BY <2>1, Idle DEF DeskInv, StepType
  <2>3. TourTypeOK'
    BY <2>1, <2>2, Idle DEF shareVars
  <2>4. DeskInv' /\ AskInv' /\ KeyInv'
    BY <2>1, <2>2 DEF DeskInv, AskInv, KeyInv, shareVars
  <2>5. RankInv'
    BY <2>1, <2>2 DEF RankInv
  <2> QED BY <2>3, <2>4, <2>5
<1>2. CASE StepLost
  <2>1. /\ step.pc \in {"sent", "answered"} /\ step'.pc = "answered"
        /\ step'.result = "lost" /\ step' \in StepType
        /\ UNCHANGED <<status, view, tourPage, read, shareVars>>
    BY <1>2 DEF StepLost, StepType, Results
  <2>2. TourTypeOK'
    BY <2>1 DEF shareVars
  <2>3. DeskInv' /\ AskInv' /\ KeyInv'
    BY <2>1 DEF DeskInv, AskInv, KeyInv, shareVars
  <2>4. RankInv'
    BY <2>1 DEF RankInv
  <2> QED BY <2>2, <2>3, <2>4
<1> QED BY <1>1, <1>2 DEF LossyNext

LEMMA ShareStep ==
  ASSUME TourInv, guide' = guide, ShareNext
  PROVE  TourInv'
<1> USE TourTyped, TourTypedNext DEF TourInv
<1>1. CASE EnableLocation
  <2>1. /\ guide.onPhone /\ tourPage = "ready" /\ InWindow(view) /\ step.pc = "idle"
        /\ asking' = "here"
        /\ UNCHANGED <<status, deskVars, key, running, fix, position, killed>>
    BY <1>1 DEF EnableLocation
  <2>2. TourTypeOK'
    BY <2>1 DEF deskVars
  <2>3. DeskInv' /\ AskInv' /\ KeyInv'
    BY <2>1, LiveIsShown DEF DeskInv, AskInv, KeyInv, deskVars
  <2>4. RankInv'
    BY <2>1 DEF RankInv, deskVars
  <2> QED BY <2>2, <2>3, <2>4
<1>2. CASE LocationAnswered
  <2>1. /\ asking \in {"here", "left"} /\ asking' = IF asking = "left" THEN "late" ELSE "no"
        /\ (running' = TRUE /\ key' = TRUE) \/ UNCHANGED <<running, key>>
        /\ UNCHANGED <<status, deskVars, fix, position, killed>>
    BY <1>2 DEF LocationAnswered
  <2>2. TourTypeOK'
    BY <2>1 DEF deskVars
  <2>3. DeskInv' /\ AskInv' /\ KeyInv'
    BY <2>1, LiveIsShown DEF DeskInv, AskInv, KeyInv, deskVars
  <2>4. RankInv'
    BY <2>1 DEF RankInv, deskVars
  <2> QED BY <2>2, <2>3, <2>4
<1>3. CASE PostFix \/ IngestReads \/ IngestWrites \/ PositionExpires
  <2>1. /\ UNCHANGED <<status, deskVars, key, asking, killed>> /\ running' = running
        /\ fix' \in {"none", "sent", "taken"} /\ position' \in BOOLEAN
    BY <1>3 DEF PostFix, IngestReads, IngestWrites, PositionExpires
  <2>2. TourTypeOK'
    BY <2>1 DEF deskVars
  <2> QED BY <2>1, <2>2, TourRests
<1>4. CASE Killed
  <2>1. /\ view' = NoView /\ tourPage' = "closed" /\ read' = NoRead /\ step' = NoStep
        /\ read'.pc = "idle" /\ step'.pc = "idle" /\ killed' = TRUE
        /\ asking' \in {"late", "no"}
        /\ UNCHANGED <<status, key, running, fix, position>>
    BY <1>4, Idle DEF Killed
  <2>2. TourTypeOK'
    BY <2>1, Idle DEF Shown
  <2>3. DeskInv' /\ AskInv' /\ KeyInv'
    BY <2>1 DEF DeskInv, AskInv, KeyInv
  <2>4. RankInv'
    BY <2>1 DEF RankInv
  <2> QED BY <2>2, <2>3, <2>4
<1>5. CASE Switch
  <2>1. /\ tourPage = "closed" /\ running' = ~running /\ key' = (key /\ ~running)
        /\ UNCHANGED <<status, deskVars, asking, fix, position, killed>>
    BY <1>5 DEF Switch
  <2>2. TourTypeOK'
    BY <2>1 DEF deskVars
  <2>3. DeskInv' /\ AskInv' /\ KeyInv'
    BY <2>1 DEF DeskInv, AskInv, KeyInv, deskVars
  <2>4. RankInv'
    BY <2>1 DEF RankInv, deskVars
  <2> QED BY <2>2, <2>3, <2>4
<1> QED BY <1>1, <1>2, <1>3, <1>4, <1>5 DEF ShareNext

-----------------------------------------------------------------------------
LEMMA Initially == Init => IInv
  BY JobsInitially, TourInitially DEF Init, JobsInv, TourInv, IInv

LEMMA GuideStays ==
  ASSUME JobsNext \/ OpenTour
  PROVE  guide' = guide
  BY DEF JobsNext, PresenceNext, FeedNext, SetOnline, SetMarker, OnlineAnswered, OnlineLost,
         Heartbeat, HeartbeatArrives, MarkerExpires, OfferMade, OfferGoes, ServerActs, Serve,
         Loaded, LoadFails, Retry, Snapshot, Join, Drop, Connect, Frame, Poll, Press, ActLost,
         Settle, OpenJobs, OpenTour, serverVars

LEMMA Steps == IInv /\ [Next]_vars => IInv'
<1> SUFFICES ASSUME IInv, [Next]_vars PROVE IInv'
  OBVIOUS
<1>0. JobsInv /\ TourInv
  BY DEF IInv, JobsInv, TourInv
<1>1. CASE OnJobsScreen \/ OpenTour
  <2>1. JobsInv'
    BY <1>0, <1>1, PresenceStep, FeedStep, OpenJobsStep, OpenTourStep DEF OnJobsScreen, JobsNext
  <2>2. guide' = guide /\ UNCHANGED tourVars
    BY <1>1, GuideStays DEF OnJobsScreen, OpenTour
  <2>3. TourTypeOK'
    BY <1>0, <2>2 DEF TourInv, TourTypeOK, tourVars
  <2>4. DeskInv' /\ AskInv' /\ KeyInv' /\ RankInv'
    BY <1>0, <2>2, TourRests DEF tourVars, deskVars
  <2> QED BY <2>1, <2>3, <2>4 DEF IInv, JobsInv
<1>2. CASE OnTourScreen
  <2>1. TourInv'
    BY <1>0, <1>2, DeskStep, LossyStep, ShareStep DEF OnTourScreen, TourNext
  <2>2. losses' \in 0 .. MaxLosses
    <3>1. losses \in 0 .. MaxLosses
      BY DEF IInv, JobsTypeOK
    <3>2. losses' = losses \/ (losses < MaxLosses /\ losses' = losses + 1)
      BY <1>2 DEF OnTourScreen, TourNext, LossyNext, TourLoadFails, StepLost
    <3> QED BY <3>1, <3>2, OneMoreLoss
  <2>3. JobsTypeOK' /\ SockInv'
    BY <1>0, <1>2, <2>2 DEF JobsInv, JobsTypeOK, SockInv, OnTourScreen
  <2> QED BY <2>1, <2>3 DEF IInv, TourInv
<1>3. CASE UNCHANGED vars
  <2>1. JobsTypeOK' /\ SockInv'
    BY <1>0, <1>3 DEF JobsInv, JobsTypeOK, SockInv, vars, jobVars
  <2>2. guide' = guide /\ UNCHANGED tourVars
    BY <1>3 DEF vars, jobVars
  <2>3. TourTypeOK'
    BY <1>0, <2>2 DEF TourInv, TourTypeOK, tourVars
  <2>4. DeskInv' /\ AskInv' /\ KeyInv' /\ RankInv'
    BY <1>0, <2>2, TourRests DEF tourVars, deskVars
  <2> QED BY <2>1, <2>3, <2>4 DEF IInv
<1> QED BY <1>1, <1>2, <1>3 DEF Next

LEMMA Inductive == Spec => []IInv
  BY Initially, Steps, PTL DEF Spec

-----------------------------------------------------------------------------
\* Every reachable state of the two clients is well typed: the attempts to connect
\* and the frames on their way stay within their limits, for any of either.
THEOREM TypeCorrect == Spec => []TypeOK
  BY Inductive, PTL DEF IInv, TypeOK

\* The phone's key is there exactly under a screen that shows the tour live, as
\* long as the app was not killed and no permission came late; for any number of
\* reads, steps and losses.
THEOREM KeyIsTheScreens == Spec => []KeyFollowsScreen
<1>1. IInv => KeyFollowsScreen
  BY DEF IInv, KeyInv, KeyFollowsScreen
<1> QED BY <1>1, Inductive, PTL

\* A refused step is not on the button that follows: the tour had moved past the
\* stage it is taken from, no edge leads back, and the page has read it since.
THEOREM RefusedStaysBehind == Spec => RefusedIsCorrected
<1>1. ASSUME IInv, [Next]_vars, ~guide.onPhone, step.pc \in {"answered", "reading"},
             step.result = "conflict", step'.pc = "idle", tourPage' = "ready"
      PROVE  <<view', step.to>> \notin OnTheWay
  <2>1. TourLoaded
    <3>7. ~TourGone
      BY <1>1 DEF TourGone
    <3>1. step' # step
      BY <1>1
    <3>2. OnTourScreen
      BY <1>1, <3>1 DEF Next, OnJobsScreen, OpenTour, tourVars, vars
    <3>3. ~StepSettles
      BY <1>1, Idle DEF StepSettles, Rereads, IInv, TourTypeOK, DeskInv
    <3>4. ~CloseTour /\ ~Killed /\ ~TourLoadFails
      BY <1>1 DEF CloseTour, Killed, TourLoadFails
    <3>5. ~ServerSteps /\ ~StepLost /\ ~(\E to \in Statuses : PressStep(to))
      BY <1>1 DEF ServerSteps, StepLost, PressStep, IInv, TourTypeOK
    <3>6. TourNext
      BY <3>2 DEF OnTourScreen
    <3> QED
      BY <3>1, <3>3, <3>4, <3>5, <3>6, <3>7
         DEF TourNext, DeskNext, LossyNext, ShareNext, Elsewhere, TourOpened, TourServed,
             TourRetry, EnableLocation, LocationAnswered, PostFix, IngestReads, IngestWrites,
             PositionExpires, Switch, deskVars
  <2>2. read.pc = "served" /\ view' = read.seen
    BY <1>1, <2>1 DEF TourLoaded, Shows
  <2>3. view' \in Begun /\ Rank(step.to) <= Rank(view')
    BY <1>1, <2>2 DEF IInv, RankInv
  <2> QED BY <2>3, Onwards
<1>2. IInv /\ [Next]_vars =>
        [~guide.onPhone /\ step.pc \in {"answered", "reading"} /\ step.result = "conflict"
             /\ step'.pc = "idle" /\ tourPage' = "ready"
           => <<view', step.to>> \notin OnTheWay]_vars
  BY <1>1
<1> QED BY <1>2, Inductive, PTL DEF Spec, RefusedIsCorrected
=============================================================================
