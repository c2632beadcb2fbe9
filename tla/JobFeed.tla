------------------------------ MODULE JobFeed ------------------------------
(***************************************************************************)
(* How a guide comes by job offers in the two guide clients.  The list is  *)
(* read over REST; a socket says when to read it again, and a timer does   *)
(* while the socket is down (useWebSocket).  The phone app listens while   *)
(* its guide is online, which the server remembers for 300 seconds and the *)
(* app renews every 90 (presence); the web page listens while it is ready. *)
(***************************************************************************)
EXTENDS Naturals, FiniteSets

CONSTANTS
  Offer,        \* this guide's offers
  Load,         \* reads of the list that may be under way at once (bound)
  MaxAttempts,  \* maxReconnectAttempts
  MaxFrames,    \* bound: frames on their way
  MaxLosses,    \* bound: requests whose answer is lost
  None

ASSUME JobFeedAssumption == MaxAttempts \in Nat /\ MaxFrames \in Nat /\ MaxLosses \in Nat
ASSUME OffersAreCounted == IsFiniteSet(Offer)

VARIABLES
  guide,     \* the client: GuidePhone or GuideBrowser
  screen,    \* where the guide is: "home", "jobs" or "tour"
  offers,    \* the server's view of each offer
  page,      \* the load state of the list
  list,      \* the offers it shows
  load,      \* reads under way
  act,       \* the accept or decline under way
  sock,      \* the client's side of the socket, and its failures in a row
  conn,      \* the server's side, and the frames it has sent
  presence,  \* going online: what the app believes, what the server does
  losses

jobVars == <<guide, screen, offers, page, list, load, act, sock, conn, presence, losses>>
feedVars == <<page, list, load, act, sock, conn>>
serverVars == <<guide, offers, losses>>

(* ------------------------------ two clients ---------------------------- *)

Results == {"ok", "conflict", "refused", "lost"}

\* What follows the answer to an accept or a decline: read the list while the
\* row stays busy ("hold") or after ("load"), drop the row, or leave it.
\* A phone that has accepted goes on to the tour.
PhoneAccept == [r \in Results |-> "hold"]
PhoneDecline == [r \in Results |-> "load"]
BrowserAccept == [r \in Results |-> IF r = "ok" THEN "drop" ELSE "hold"]
BrowserDecline == [r \in Results |-> IF r \in {"ok", "conflict"} THEN "drop" ELSE "keep"]

\* The phone listens while its guide is online and keeps the list through a
\* failed read; the page goes to an error state, and listens when ready.
GuidePhone ==
  [onPhone |-> TRUE, follow |-> [accept |-> PhoneAccept, decline |-> PhoneDecline]]
GuideBrowser ==
  [onPhone |-> FALSE, follow |-> [accept |-> BrowserAccept, decline |-> BrowserDecline]]

NoLoad == [pc |-> "idle", seen |-> {}]
NoAct == [pc |-> "idle", kind |-> "accept", offer |-> None, result |-> "lost", load |-> None]
SockOff == [pc |-> "off", attempts |-> 0]
SockUp == [pc |-> "connecting", attempts |-> 0]
ConnOff == [pc |-> "none", frames |-> 0]
NoPresence == [online |-> FALSE, asked |-> "none", beat |-> FALSE, marked |-> FALSE]

JobsTypeOK ==
  /\ guide \in {GuidePhone, GuideBrowser}
  /\ screen \in {"home", "jobs", "tour"}
  /\ offers \in [Offer -> {"none", "open", "mine", "gone"}]
  /\ page \in {"loading", "ready", "error"}
  /\ list \subseteq Offer
  /\ load \in [Load -> [pc : {"idle", "sent", "served"}, seen : SUBSET Offer]]
  /\ act \in [pc : {"idle", "sent", "answered", "reading", "going"}, kind : {"accept", "decline"},
              offer : Offer \cup {None}, result : Results, load : Load \cup {None}]
  /\ sock \in [pc : {"off", "connecting", "open", "waiting", "gaveUp"}, attempts : 0 .. MaxAttempts + 1]
  /\ conn \in [pc : {"none", "snapped", "joined"}, frames : 0 .. MaxFrames]
  /\ presence \in [online : BOOLEAN, asked : {"none", "on", "off", "wasOn", "wasOff"},
                   beat : BOOLEAN, marked : BOOLEAN]
  /\ losses \in 0 .. MaxLosses

\* A phone starts on its dashboard, a browser on the jobs page.
JobsInit ==
  /\ guide \in {GuidePhone, GuideBrowser}
  /\ offers = [o \in Offer |-> "none"]
  /\ page = "loading" /\ list = {} /\ act = NoAct
  /\ presence = NoPresence
  /\ sock = SockOff /\ conn = ConnOff
  /\ losses = 0
  /\ IF guide.onPhone
     THEN screen = "home" /\ load = [l \in Load |-> NoLoad]
     ELSE screen = "jobs" /\ \E l \in Load : load = [k \in Load |->
                               IF k = l THEN [pc |-> "sent", seen |-> {}] ELSE NoLoad]
-----------------------------------------------------------------------------
(* ------------------------------- presence ------------------------------ *)
\* Its steps are taken on the dashboard: the feed and they do not meet.

OnHome == guide.onPhone /\ screen = "home"

\* The switch; it is busy until the answer is there.
SetOnline(on) ==
  /\ OnHome /\ presence.asked = "none" /\ on # presence.online
  /\ presence' = [presence EXCEPT !.asked = IF on THEN "on" ELSE "off"]
  /\ UNCHANGED <<serverVars, feedVars, screen>>

\* The server's marker is set or removed.
SetMarker ==
  /\ OnHome /\ presence.asked \in {"on", "off"}
  /\ presence' = [presence EXCEPT !.marked = (presence.asked = "on"),
                                  !.asked = IF presence.asked = "on" THEN "wasOn" ELSE "wasOff"]
  /\ UNCHANGED <<serverVars, feedVars, screen>>

OnlineAnswered ==
  /\ OnHome /\ presence.asked \in {"wasOn", "wasOff"}
  /\ presence' = [presence EXCEPT !.online = (presence.asked = "wasOn"), !.asked = "none"]
  /\ UNCHANGED <<serverVars, feedVars, screen>>

\* The request or its answer is lost: the switch stays where it was.
OnlineLost ==
  /\ OnHome /\ presence.asked # "none" /\ losses < MaxLosses
  /\ losses' = losses + 1
  /\ presence' = [presence EXCEPT !.asked = "none"]
  /\ UNCHANGED <<guide, offers, feedVars, screen>>

\* Every 90 seconds, and when the app comes to the foreground.
Heartbeat ==
  /\ OnHome /\ presence.online /\ ~presence.beat
  /\ presence' = [presence EXCEPT !.beat = TRUE]
  /\ UNCHANGED <<serverVars, feedVars, screen>>

\* It arrives, whatever has overtaken it; or not, which nobody is told.
HeartbeatArrives ==
  /\ OnHome /\ presence.beat
  /\ \E arrived \in BOOLEAN :
       presence' = [presence EXCEPT !.beat = FALSE, !.marked = @ \/ arrived]
  /\ UNCHANGED <<serverVars, feedVars, screen>>

\* 300 seconds without one.
MarkerExpires ==
  /\ OnHome /\ presence.marked
  /\ presence' = [presence EXCEPT !.marked = FALSE]
  /\ UNCHANGED <<serverVars, feedVars, screen>>
-----------------------------------------------------------------------------
(* ----------------------- offers, at the server ------------------------- *)

OnJobs == screen = "jobs"
OpenOffers == {o \in Offer : offers[o] = "open"}

\* A frame goes to the connections that are registered when it is sent.  Of
\* more than MaxFrames on their way the last tells as much as all of them.
Broadcast ==
  conn' = IF conn.pc = "joined" /\ conn.frames < MaxFrames
          THEN [conn EXCEPT !.frames = @ + 1] ELSE conn

OfferMade(o) ==
  /\ OnJobs /\ offers[o] = "none"
  /\ offers' = [offers EXCEPT ![o] = "open"]
  /\ Broadcast
  /\ UNCHANGED <<guide, screen, page, list, load, act, sock, presence, losses>>

\* Another guide accepts it, or it expires; a read that finds it expired
\* tells nobody.
OfferGoes(o) ==
  /\ OnJobs /\ offers[o] = "open"
  /\ offers' = [offers EXCEPT ![o] = "gone"]
  /\ Broadcast \/ UNCHANGED conn
  /\ UNCHANGED <<guide, screen, page, list, load, act, sock, presence, losses>>

\* Accept assigns the booking and tells the winner too; Decline tells nobody.
\* An open offer is refused when the guide's calendar is taken.
ServerActs ==
  LET o == act.offer IN
  /\ act.pc = "sent"
  /\ \/ /\ offers[o] = "open"
        /\ act' = [act EXCEPT !.pc = "answered", !.result = "ok"]
        /\ IF act.kind = "accept"
           THEN offers' = [offers EXCEPT ![o] = "mine"] /\ Broadcast
           ELSE offers' = [offers EXCEPT ![o] = "gone"] /\ UNCHANGED conn
     \/ /\ offers[o] # "open" \/ act.kind = "accept"
        /\ \E r \in {"conflict", "refused"} : act' = [act EXCEPT !.pc = "answered", !.result = r]
        /\ UNCHANGED <<offers, conn>>
  /\ UNCHANGED <<guide, screen, page, list, load, sock, presence, losses>>
-----------------------------------------------------------------------------
(* ------------------------- the list, over REST ------------------------- *)

\* `load' with one more read begun.
Begin(l) == [load EXCEPT ![l] = [pc |-> "sent", seen |-> {}]]
Free == {l \in Load : load[l].pc = "idle"}

Serve(l) ==
  /\ load[l].pc = "sent"
  /\ load' = [load EXCEPT ![l] = [pc |-> "served", seen |-> OpenOffers]]
  /\ UNCHANGED <<serverVars, screen, page, list, act, sock, conn, presence>>

\* The hook's `enabled': its effect starts or stops when that changes.
Listen(state) ==
  LET on == IF guide.onPhone THEN presence.online ELSE state = "ready" IN
  CASE on /\ sock.pc = "off" -> sock' = SockUp /\ conn' = ConnOff
    [] ~on                   -> sock' = SockOff /\ conn' = ConnOff
    [] OTHER                 -> UNCHANGED <<sock, conn>>

\* The accept or decline that was waiting for this read is over.  A phone
\* that has accepted goes on to the tour's screen.
Finish(l) ==
  act' = CASE act.pc # "reading" \/ act.load # l -> act
           [] guide.onPhone /\ act.result = "ok" -> [act EXCEPT !.pc = "going", !.load = None]
           [] OTHER                               -> NoAct

Loaded(l) ==
  /\ OnJobs /\ load[l].pc = "served"
  /\ list' = load[l].seen /\ page' = "ready"
  /\ load' = [load EXCEPT ![l] = NoLoad]
  /\ Listen("ready") /\ Finish(l)
  /\ UNCHANGED <<serverVars, screen, presence>>

\* A phone that has a list keeps it; otherwise a failure and a Retry are shown.
LoadFails(l) ==
  /\ OnJobs /\ load[l].pc # "idle" /\ losses < MaxLosses
  /\ losses' = losses + 1
  /\ load' = [load EXCEPT ![l] = NoLoad]
  /\ page' = IF guide.onPhone /\ list # {} THEN "ready" ELSE "error"
  /\ Listen(page') /\ Finish(l)
  /\ UNCHANGED <<guide, offers, screen, list, presence>>

Retry(l) ==
  /\ OnJobs /\ page = "error" /\ l \in Free
  /\ load' = Begin(l)
  /\ UNCHANGED <<serverVars, screen, page, list, act, sock, conn, presence>>
-----------------------------------------------------------------------------
(* ------------------------------ the socket ----------------------------- *)

\* Mutant: the attempts are counted, not limited.
Reconnect_ForEver == sock' = [pc |-> "waiting", attempts |-> sock.attempts + 1]

\* scheduleReconnect: one more failure in a row, and in the end no more tries.
Reconnect ==
  sock' = [pc |-> IF sock.attempts + 1 > MaxAttempts THEN "gaveUp" ELSE "waiting",
           attempts |-> sock.attempts + 1]

\* The server answers the upgrade: it reads the open offers ...
Snapshot ==
  /\ OnJobs /\ sock.pc = "connecting" /\ conn.pc = "none"
  /\ Cardinality(OpenOffers) <= MaxFrames
  /\ conn' = [pc |-> "snapped", frames |-> Cardinality(OpenOffers)]
  /\ UNCHANGED <<serverVars, screen, page, list, load, act, sock, presence>>

\* ... and then registers the connection and writes one frame for each.
Join ==
  /\ OnJobs /\ conn.pc = "snapped"
  /\ conn' = [conn EXCEPT !.pc = "joined"]
  /\ sock' = [pc |-> "open", attempts |-> 0]
  /\ UNCHANGED <<serverVars, screen, page, list, load, act, presence>>

\* Closed, refused, or there is no token to open it with.
Drop ==
  /\ OnJobs /\ sock.pc \in {"connecting", "open"}
  /\ Reconnect
  /\ conn' = ConnOff
  /\ UNCHANGED <<serverVars, screen, page, list, load, act, presence>>

Connect ==
  /\ OnJobs /\ sock.pc = "waiting"
  /\ sock' = [sock EXCEPT !.pc = "connecting"]
  /\ UNCHANGED <<serverVars, screen, page, list, load, act, conn, presence>>

\* Any frame: read the list again.
Frame(l) ==
  /\ OnJobs /\ sock.pc = "open" /\ conn.frames > 0 /\ l \in Free
  /\ conn' = [conn EXCEPT !.frames = @ - 1]
  /\ load' = Begin(l)
  /\ UNCHANGED <<serverVars, screen, page, list, act, sock, presence>>

\* Mutant: the timer is the reconnect's, and ends with it.
Poll_StopsWithSocket(l) ==
  /\ OnJobs /\ sock.pc \in {"connecting", "waiting"} /\ l \in Free
  /\ load' = Begin(l)
  /\ UNCHANGED <<serverVars, screen, page, list, act, sock, conn, presence>>

\* The timer, whenever the socket is not open.
Poll(l) ==
  /\ OnJobs /\ sock.pc \in {"connecting", "waiting", "gaveUp"} /\ l \in Free
  /\ load' = Begin(l)
  /\ UNCHANGED <<serverVars, screen, page, list, act, sock, conn, presence>>
-----------------------------------------------------------------------------
(* --------------------------- accept, decline --------------------------- *)

\* The rows with buttons: a phone shows none offline, the page none but ready.
PhoneRows == IF presence.online THEN list ELSE {}
BrowserRows == IF page = "ready" THEN list ELSE {}

\* Bound: one row at a time.
Press(o, kind) ==
  /\ OnJobs /\ act.pc = "idle"
  /\ o \in (IF guide.onPhone THEN PhoneRows ELSE BrowserRows)
  /\ act' = [NoAct EXCEPT !.pc = "sent", !.kind = kind, !.offer = o]
  /\ UNCHANGED <<serverVars, screen, page, list, load, sock, conn, presence>>

\* The answer is lost, before or after the server has acted.
ActLost ==
  /\ \/ act.pc = "sent"
     \/ act.pc = "answered"
  /\ losses < MaxLosses
  /\ losses' = losses + 1
  /\ act' = [act EXCEPT !.pc = "answered", !.result = "lost"]
  /\ UNCHANGED <<guide, screen, offers, page, list, load, sock, conn, presence>>

Settle ==
  /\ act.pc = "answered"
  /\ LET next == guide.follow[act.kind][act.result] IN
     \/ /\ next = "hold"
        /\ \E l \in Free : load' = Begin(l) /\ act' = [act EXCEPT !.pc = "reading", !.load = l]
        /\ UNCHANGED list
     \/ /\ next = "load"
        /\ \E l \in Free : load' = Begin(l)
        /\ act' = NoAct
        /\ UNCHANGED list
     \/ /\ next \in {"drop", "keep"}
        /\ list' = IF next = "drop" THEN list \ {act.offer} ELSE list
        /\ act' = NoAct
        /\ UNCHANGED load
  /\ UNCHANGED <<serverVars, screen, page, sock, conn, presence>>

\* From the dashboard to the jobs, whose screen has nothing to show when the
\* guide is offline.  Bound: nothing of the switch is under way.
OpenJobs ==
  /\ OnHome /\ presence.asked = "none" /\ ~presence.beat
  /\ screen' = "jobs"
  /\ \E l \in Load : load' = [k \in Load |-> IF k = l THEN [pc |-> "sent", seen |-> {}] ELSE NoLoad]
  /\ page' = "loading" /\ list' = {} /\ act' = NoAct
  /\ sock' = IF presence.online THEN SockUp ELSE SockOff
  /\ conn' = ConnOff
  /\ UNCHANGED <<serverVars, presence>>

PresenceNext ==
  \/ \E on \in BOOLEAN : SetOnline(on)
  \/ SetMarker \/ OnlineAnswered \/ OnlineLost
  \/ Heartbeat \/ HeartbeatArrives \/ MarkerExpires

FeedNext ==
  \/ \E o \in Offer : OfferMade(o) \/ OfferGoes(o)
  \/ \E l \in Load : Serve(l) \/ Loaded(l) \/ LoadFails(l) \/ Retry(l) \/ Frame(l) \/ Poll(l)
  \/ Snapshot \/ Join \/ Drop \/ Connect
  \/ \E o \in Offer, kind \in {"accept", "decline"} : Press(o, kind)
  \/ ServerActs \/ ActLost \/ Settle

JobsNext == PresenceNext \/ FeedNext \/ OpenJobs
=============================================================================
