------------------------------- MODULE Pages -------------------------------
(***************************************************************************)
(* What the pages do, of whatever parts: reads and actions of one page that*)
(* overlap, fail and are answered in any order, while the server's rows    *)
(* change under other hands.                                               *)
(***************************************************************************)
EXTENDS Clients, TouristPages, GuidePages, AdminPages

CONSTANTS
  Row,         \* what a page lists, or shows one of
  Filter,      \* filters of a list, or whose page it is
  MaxReads,    \* bound: reads under way at once
  MaxActs,     \* bound: actions under way at once
  MaxPresses,  \* bound: buttons pressed and filters chosen
  MaxOthers    \* bound: version a row is taken to by others

ASSUME PagesBounds == MaxReads \in Nat /\ MaxActs \in Nat /\ MaxPresses \in Nat /\ MaxOthers \in Nat
ASSUME SomethingToShow == Row # {} /\ Filter # {}

VARIABLES
  page,     \* the page that is open
  server,   \* per row: its version, and whether it is open
  filter,
  state,    \* the load state; "done" when a notice has taken the page's place
  shown,    \* what is rendered, and for which filter
  reads,    \* reads under way
  acts,     \* actions under way
  busyRow,  \* the row whose buttons are disabled
  own,      \* per row: the version of this visit's last success
  presses

pageVars == <<page, server, filter, state, shown, reads, acts, busyRow, own, presses>>

Read == 1..MaxReads
Slot == 1..MaxActs

Joined(t, g, a) ==
  [p \in DOMAIN t \cup DOMAIN g \cup DOMAIN a |->
     IF p \in DOMAIN t THEN t[p] ELSE IF p \in DOMAIN g THEN g[p] ELSE a[p]]

Work == Joined(TouristWork, GuideWork, AdminWork)
Rendered == Joined(TouristShows, GuideShows, AdminShows)
Reading == Work[page].reads
Acting == Work[page].acts
Showing == Rendered[page]

Home == CHOOSE f \in Filter : TRUE
TheRow == CHOOSE r \in Row : TRUE

\* Abstraction: rows are told apart where each has a button that is disabled on
\* its own; elsewhere one stands for them all.
Rows ==
  IF \E a \in DOMAIN Acting : Showing.buttons[a].flag = "row" THEN Row
  ELSE {TheRow}

Versions == 0..(2 * MaxPresses + MaxOthers)
Seen == [Row -> [ver : Versions, open : BOOLEAN]]
Unread == [r \in Row |-> [ver |-> 0, open |-> TRUE]]

NoRead == [pc |-> "idle", of |-> Home, live |-> FALSE, seen |-> Unread]
NoPageAct ==
  [pc |-> "idle", name |-> "none", row |-> None, sent |-> 0, result |-> "lost", got |-> 0,
   read |-> None, based |-> FALSE]

PagesTypeOK ==
  /\ page \in DOMAIN Work
  /\ server \in Seen
  /\ filter \in Filter
  /\ state \in {"loading", "ready", "error", "done"}
  /\ shown = NoView \/ shown \in [of : Filter, rows : Seen]
  /\ reads \in [Read -> [pc : {"idle", "sent", "served"}, of : Filter, live : BOOLEAN, seen : Seen]]
  /\ \A s \in Slot :
       acts[s] \in [pc : {"idle", "sent", "answered", "reading"}, name : DOMAIN Acting \cup {"none"},
                    row : Row \cup {None}, sent : 0..2, got : Versions, read : Read \cup {None},
                    result : {"ok", "conflict", "malformed", "refused", "lost"}, based : BOOLEAN]
  /\ busyRow \in Row \cup {None} /\ own \in [Row -> Versions] /\ presses \in 0..MaxPresses

\* A page that is opened, with its first read if it has one.
Opening(p) ==
  /\ filter' = Home /\ shown' = NoView /\ busyRow' = None
  /\ acts' = [s \in Slot |-> NoPageAct] /\ own' = [r \in Row |-> 0]
  /\ LET opens == "open" \in Work[p].reads.asks
     IN /\ state' = IF opens THEN "loading" ELSE "ready"
        /\ reads' = [l \in Read |-> IF opens /\ l = 1
                                    THEN [NoRead EXCEPT !.pc = "sent", !.live = TRUE] ELSE NoRead]

PagesInit ==
  /\ page \in DOMAIN Work
  /\ server = Unread /\ filter = Home /\ shown = NoView /\ busyRow = None
  /\ acts = [s \in Slot |-> NoPageAct] /\ own = [r \in Row |-> 0] /\ presses = 0
  /\ LET opens == "open" \in Reading.asks
     IN /\ state = IF opens THEN "loading" ELSE "ready"
        /\ reads = [l \in Read |-> IF opens /\ l = 1
                                   THEN [NoRead EXCEPT !.pc = "sent", !.live = TRUE] ELSE NoRead]

\* Left and opened again; what it had sent goes on at the server.
\* Bound: not while it loads, nor while an action is under way.
Revisit ==
  /\ state # "loading" /\ \A s \in Slot : acts[s].pc = "idle"
  /\ Opening(page)
  /\ UNCHANGED <<page, server, presses, losses>>

\* Other people, and other devices of the same.
\* Bound: they change one of the rows.
Others ==
  LET r == TheRow IN
  /\ server[r].ver < MaxOthers
  /\ \E stays \in BOOLEAN :
       server' = [server EXCEPT ![r] = [ver |-> @.ver + 1, open |-> @.open /\ stays]]
  /\ UNCHANGED <<page, filter, state, shown, reads, acts, busyRow, own, presses, losses>>
-----------------------------------------------------------------------------
(* -------------------------------- reading ------------------------------- *)

\* Where the next read goes, if there is room for one.
Free == {l \in Read : reads[l].pc = "idle" /\ \A k \in 1..(l - 1) : reads[k].pc # "idle"}

\* Mutant: nothing cancels an earlier read.
ReadSuperseded_Never(l) == reads[l]

\* The cleanup of an effect sets a flag that its answer looks at.
ReadSuperseded(l) == IF Reading.order = "last" THEN [reads[l] EXCEPT !.live = FALSE] ELSE reads[l]

\* `reads' with one more begun.
Begun(l, f) ==
  [k \in Read |-> IF k = l THEN [pc |-> "sent", of |-> f, live |-> TRUE, seen |-> Unread]
                           ELSE ReadSuperseded(k)]

Clearing == state' = IF Reading.clears THEN "loading" ELSE state

SetFilter(f, l) ==
  /\ "filter" \in Reading.asks /\ state # "done" /\ f # filter /\ l \in Free
  /\ presses < MaxPresses /\ presses' = presses + 1
  /\ filter' = f /\ reads' = Begun(l, f) /\ Clearing
  /\ UNCHANGED <<page, server, shown, acts, busyRow, own, losses>>

RetryRead(l) ==
  /\ state = "error" /\ Showing.retry /\ l \in Free
  /\ presses < MaxPresses /\ presses' = presses + 1
  /\ reads' = Begun(l, filter) /\ Clearing
  /\ UNCHANGED <<page, server, filter, shown, acts, busyRow, own, losses>>

\* A frame, or the timer while the socket is not open.
News(l) ==
  /\ Reading.asks \cap {"frame", "timer"} # {} /\ l \in Free
  /\ reads' = Begun(l, filter) /\ Clearing
  /\ UNCHANGED <<page, server, filter, shown, acts, busyRow, own, presses, losses>>

\* Abstraction: frames come in order and without delay.
DataFrame ==
  /\ "data" \in Reading.asks
  /\ shown' = [of |-> filter, rows |-> server]
  /\ UNCHANGED <<page, server, filter, state, reads, acts, busyRow, own, presses, losses>>

ReadServed(l) ==
  /\ reads[l].pc = "sent"
  /\ reads' = [reads EXCEPT ![l].pc = "served", ![l].seen = server]
  /\ UNCHANGED <<page, server, filter, state, shown, acts, busyRow, own, presses, losses>>

\* The action that waited for this read is over.
Waiting(l) == {s \in Slot : acts[s].pc = "reading" /\ acts[s].read = l}
Over(l) ==
  /\ reads' = [reads EXCEPT ![l] = NoRead]
  /\ acts' = [s \in Slot |-> IF s \in Waiting(l) THEN NoPageAct ELSE acts[s]]
  /\ busyRow' = IF Waiting(l) = {} THEN busyRow ELSE None

ReadAnswered(l) ==
  /\ reads[l].pc = "served"
  /\ IF reads[l].live
     THEN shown' = [of |-> reads[l].of, rows |-> reads[l].seen] /\ state' = "ready"
     ELSE UNCHANGED <<shown, state>>
  /\ Over(l)
  /\ UNCHANGED <<page, server, filter, own, presses, losses>>

\* Mutant: only the message is set.
Failed_OnlyMessage == state

Failed ==
  CASE Reading.fails = "error"   -> "error"
    [] Reading.fails = "keeps"   -> IF shown = NoView THEN "error" ELSE "ready"
    [] OTHER                     -> "ready"

ReadFails(l) ==
  /\ reads[l].pc # "idle" /\ losses < MaxLosses /\ losses' = losses + 1
  /\ IF reads[l].live
     THEN state' = Failed /\ shown' = IF Reading.fails = "empties" THEN NoView ELSE shown
     ELSE UNCHANGED <<shown, state>>
  /\ Over(l)
  /\ UNCHANGED <<page, server, filter, own, presses>>
-----------------------------------------------------------------------------
(* --------------------------------- acting ------------------------------- *)

\* The button is rendered.
Offered(a, r) ==
  /\ state \in Showing.shownIn /\ r \in Rows
  /\ LET on == Showing.buttons[a].on IN
     \/ on = "form"
     \/ shown # NoView /\ (on = "open" => shown.rows[r].open)

\* The button is enabled.
Enabled(a, r) ==
  LET flag == Showing.buttons[a].flag IN
  CASE flag = "never" -> TRUE
    [] flag = "row"   -> busyRow # r
    [] OTHER          -> \A s \in Slot : acts[s].pc # "idle" => Showing.buttons[acts[s].name].flag # flag

Press(s, a, r) ==
  /\ acts[s].pc = "idle" /\ (\A t \in 1..(s - 1) : acts[t].pc # "idle") /\ presses < MaxPresses /\ presses' = presses + 1
  /\ Offered(a, r) /\ Enabled(a, r)
  /\ acts' = [acts EXCEPT ![s] =
       [NoPageAct EXCEPT !.pc = "sent", !.name = a, !.row = r, !.based = (shown # NoView)]]
  /\ busyRow' = IF Showing.buttons[a].flag = "row" THEN r ELSE busyRow
  /\ UNCHANGED <<page, server, filter, state, shown, reads, own, losses>>

Answer(s, result) == acts' = [acts EXCEPT ![s].pc = "answered", ![s].result = result]

\* One request of the action is served; the answer to the last ends it.
ActServed(s) ==
  LET a == acts[s]
      request == Acting[a.name].requests[a.sent + 1]
      moved == [server EXCEPT ![a.row] =
                  [ver |-> @.ver + 1, open |-> @.open /\ request.effect # "move"]]
  IN /\ a.pc = "sent"
     /\ \/ ~request.fits /\ Answer(s, "malformed") /\ UNCHANGED server
        \/ request.fits /\ Answer(s, "refused") /\ UNCHANGED server
        \/ /\ request.fits /\ request.effect = "move" /\ ~server[a.row].open
           /\ Answer(s, "conflict") /\ UNCHANGED server
        \/ /\ request.fits /\ (request.effect = "move" => server[a.row].open)
           /\ server' = IF request.effect = "none" THEN server ELSE moved
           /\ acts' = [acts EXCEPT ![s] =
                [a EXCEPT !.sent = @ + 1, !.result = "ok",
                          !.got = IF request.effect = "none" THEN @ ELSE server'[a.row].ver,
                          !.pc = IF a.sent + 1 = Len(Acting[a.name].requests) THEN "answered" ELSE "sent"]]
  /\ UNCHANGED <<page, filter, state, shown, reads, busyRow, own, presses, losses>>

ActLost(s) ==
  /\ acts[s].pc = "sent" \/ (acts[s].pc = "answered" /\ acts[s].result # "lost")
  /\ losses < MaxLosses /\ losses' = losses + 1
  /\ Answer(s, "lost")
  /\ UNCHANGED <<page, server, filter, state, shown, reads, busyRow, own, presses>>

Follows(a) ==
  CASE a.result = "ok"       -> Acting[a.name].ok
    [] a.result = "conflict" -> Acting[a.name].conflict
    [] OTHER                 -> Acting[a.name].failed

\* finally: the flag is reset, and with it that of whatever row has it.
Ended(s) ==
  /\ acts' = [acts EXCEPT ![s] = NoPageAct]
  /\ busyRow' = IF Showing.buttons[acts[s].name].flag = "row" THEN None ELSE busyRow

Settle(s) ==
  LET a == acts[s] IN
  /\ a.pc = "answered"
  /\ own' = IF a.result = "ok" /\ a.got > own[a.row] THEN [own EXCEPT ![a.row] = a.got] ELSE own
  /\ \/ /\ Follows(a) = "reload"
        /\ \E l \in Free : /\ reads' = Begun(l, filter)
                           /\ acts' = [acts EXCEPT ![s] =
                                [NoPageAct EXCEPT !.pc = "reading", !.name = a.name, !.row = a.row,
                                                  !.read = l, !.based = a.based]]
        /\ Clearing /\ UNCHANGED <<shown, busyRow>>
     \/ /\ Follows(a) = "refresh"
        /\ \E l \in Free : reads' = Begun(l, filter)
        /\ Ended(s) /\ Clearing /\ UNCHANGED shown
     \/ /\ Follows(a) = "local"
        /\ shown' = IF shown = NoView THEN shown ELSE [shown EXCEPT !.rows[a.row].ver = a.got]
        /\ Ended(s) /\ UNCHANGED <<reads, state>>
     \/ /\ Follows(a) = "stays"
        /\ Ended(s) /\ UNCHANGED <<reads, state, shown>>
     \/ /\ Follows(a) = "done"
        /\ state' = "done" /\ shown' = NoView /\ busyRow' = None
        /\ acts' = [t \in Slot |-> NoPageAct] /\ reads' = [l \in Read |-> NoRead]
  /\ UNCHANGED <<page, server, filter, presses, losses>>

PagesNext ==
  \/ Revisit \/ Others \/ DataFrame
  \/ \E l \in Read : \/ \E f \in Filter : SetFilter(f, l)
                     \/ RetryRead(l) \/ News(l) \/ ReadServed(l) \/ ReadAnswered(l) \/ ReadFails(l)
  \/ \E s \in Slot : \/ \E a \in DOMAIN Acting, r \in Row : Press(s, a, r)
                     \/ ActServed(s) \/ ActLost(s) \/ Settle(s)
-----------------------------------------------------------------------------
(* ------------------------------- properties ----------------------------- *)

\* Pages that read when they are opened and after their own actions only, with
\* one flag for all their buttons and none of them there while they load.
OneReadAtATime ==
  /\ Reading.asks \subseteq {"open"} /\ "loading" \notin Showing.shownIn
  /\ Showing.retry => Reading.clears
  /\ \A a, b \in DOMAIN Acting :
       Showing.buttons[a].flag = Showing.buttons[b].flag /\ Showing.buttons[a].flag \notin {"row", "never"}

\* On such a page what one has done is what one sees: the certification case,
\* the legal documents, the content and the profiles, also when the answer to
\* a first attempt was lost or others have changed the row meanwhile.
OwnActionShown ==
  OneReadAtATime /\ state = "ready" /\ shown # NoView /\ (\A s \in Slot : acts[s].pc = "idle")
    => \A r \in Rows : shown.rows[r].ver >= own[r]

\* Where an effect cancels the read before it, what is shown belongs to the
\* guide whose page it is, in whatever order the answers come.  The phone's
\* reviews stay where those of the next guide cannot be read.
ShownFitsFilter ==
  /\ Reading.order = "last" /\ state = "ready" /\ shown # NoView
  /\ \A l \in Read : ~reads[l].live
  /\ Reading.fails = "silently" => losses = 0
  => shown.of = filter

\* What is written back was read on this visit: a profile or a setting is not
\* replaced by an empty form.  The content editor of admin-web does that.
NoBlindSave ==
  \A s \in Slot :
    /\ acts[s].pc # "idle" /\ page # "content"
    /\ \E i \in DOMAIN Acting[acts[s].name].requests :
         Acting[acts[s].name].requests[i].effect = "save"
    => acts[s].based

\* "Loading" ends, with an answer or an error, whatever else was asked for
\* meanwhile and failed or not.
LoadingEnds == state = "loading" ~> state # "loading"
=============================================================================
