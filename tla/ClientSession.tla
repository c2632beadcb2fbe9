--------------------------- MODULE ClientSession ---------------------------
(***************************************************************************)
(* How the clients keep a session with the API.  A client sends calls with *)
(* an access token that runs out; on a 401 it rotates the session once,    *)
(* whatever the number of calls that ask for it, and sends the call again. *)
(* The server makes a rotation of three statements, without a transaction. *)
(* The phone apps (packages/api-client) hold both tokens in SecureStore;   *)
(* the web apps leave them to the browser's cookie jar, which every tab    *)
(* shares while each tab has its own `refreshPromise'.                     *)
(***************************************************************************)
EXTENDS Naturals, FiniteSets

CONSTANTS
  Tab,        \* the contexts of a web client; a phone app uses one of them
  Call,       \* API calls, each made once
  Req,        \* rotation requests that the server may be working on at once
  Sid,        \* refresh_sessions rows
  App,        \* the clients to check, records of AppRecord
  MaxStops,   \* bound: how often the phone app is killed and started again
  None

ASSUME NoneIsNone == None \notin Sid \cup Tab

(* -------------------------- the five clients --------------------------- *)

\* What sets the clients apart: where the tokens are, and what the login
\* page does with an MFA challenge: is there a field for the code, and a
\* button that returns to the password form?
AppRecord == [store : {"secure", "cookies"}, codeForm : BOOLEAN, wayBack : BOOLEAN]

ASSUME ClientsAssumption ==
  App \subseteq AppRecord /\ Sid # {} /\ Tab # {} /\ IsFiniteSet(Tab) /\ MaxStops \in Nat

Native(codeForm, wayBack) ==
  [store |-> "secure", codeForm |-> codeForm, wayBack |-> wayBack]
Web(codeForm, wayBack) ==
  [store |-> "cookies", codeForm |-> codeForm, wayBack |-> wayBack]

GuideMobileLogin == [codeForm |-> TRUE, wayBack |-> FALSE]
TouristMobileLogin == [codeForm |-> TRUE, wayBack |-> FALSE]
GuideWebLogin == [codeForm |-> TRUE, wayBack |-> TRUE]
AdminWebLogin == [codeForm |-> TRUE, wayBack |-> TRUE]
TouristWebLogin == [codeForm |-> FALSE, wayBack |-> FALSE]

\* The adapters: SecureStore with a client of packages/api-client, or the
\* app's own copy of lib/api.ts.
GuideMobile == Native(GuideMobileLogin.codeForm, GuideMobileLogin.wayBack)
TouristMobile == Native(TouristMobileLogin.codeForm, TouristMobileLogin.wayBack)
GuideWeb == Web(GuideWebLogin.codeForm, GuideWebLogin.wayBack)
AdminWeb == Web(AdminWebLogin.codeForm, AdminWebLogin.wayBack)
TouristWeb == Web(TouristWebLogin.codeForm, TouristWebLogin.wayBack)

VARIABLES
  app,       \* the client this behaviour is about
  tabs,      \* its contexts
  session,   \* the server's rows: state, the row rotated to, the sign-in
  expired,   \* rows whose access token has run out
  jar,       \* the stored tokens, each named by the row it belongs to
  promise,   \* per context: the refresh that calls of it are waiting for
  rot,       \* the rotation requests at the server
  call,      \* the API calls; `left': what each has to delete, should it expire the session
  login,     \* the login form, whether the server knows its challenge, what is left to save
  out,       \* the phone app's sign-out, and what it has left to delete
  ui,        \* SessionStatus, without its start
  reuse,     \* the server has taken a rotation for a reuse
  stops,     \* how often the app was killed
  drops      \* a rotation's answer was lost

vars == <<app, tabs, session, expired, jar, promise, rot, call, login, out, ui,
          reuse, stops, drops>>

OnPhone == app.store = "secure"

\* Mutant: signing out writes empty strings, which pass for tokens.
NoTokens_Empty == [access |-> "", refresh |-> ""]
NoTokens == [access |-> None, refresh |-> None]
Keys == {"access", "refresh"}
NoPromise == [pc |-> "none", req |-> None, fresh |-> None, left |-> {}]
LoginForm == [pc |-> "form", known |-> FALSE, fresh |-> None, left |-> Keys]
NoSignOut == [pc |-> "idle", token |-> None, left |-> Keys]
NoRot == [pc |-> "idle", token |-> None, fresh |-> None, by |-> None]
FreeRow == [state |-> "free", to |-> None, root |-> None]

TypeOK ==
  /\ app \in App /\ tabs \subseteq Tab
  /\ session \in [Sid -> [state : {"free", "live", "revoked"},
                          to : Sid \cup {None}, root : Sid \cup {None}]]
  /\ expired \subseteq Sid
  /\ jar \in [access : Sid \cup {None}, refresh : Sid \cup {None}]
  /\ promise \in [Tab -> [pc : {"none", "starting", "waiting", "saving"},
                          req : Req \cup {None}, fresh : Sid \cup {None},
                          left : SUBSET Keys]]
  /\ rot \in [Req -> [pc : {"idle", "sent", "read", "created", "granted", "refused"},
                      token : Sid \cup {None}, fresh : Sid \cup {None},
                      by : Tab \cup {None}]]
  /\ call \in [Call -> [pc : {"new", "sent", "waiting", "retry", "resent",
                              "expiring", "ok", "failed"},
                        token : Sid \cup {None}, by : Tab \cup {None}, left : SUBSET Keys]]
  /\ login \in [pc : {"form", "challenge", "saving"},
                known : BOOLEAN, fresh : Sid \cup {None}, left : SUBSET Keys]
  /\ out \in [pc : {"idle", "asked", "clearing"}, token : Sid \cup {None}, left : SUBSET Keys]
  /\ ui \in {"authenticated", "unauthenticated"}
  /\ reuse \in BOOLEAN /\ drops \in BOOLEAN
  /\ stops \in 0 .. MaxStops

\* Somebody has signed in before.  A phone app is one context, a web client
\* one tab or more.
Init ==
  /\ app \in App
  /\ tabs \in IF OnPhone THEN {{CHOOSE t \in Tab : TRUE}} ELSE {{CHOOSE t \in Tab : TRUE}, Tab}
  /\ LET s == CHOOSE x \in Sid : TRUE IN
       /\ session = [x \in Sid |-> IF x = s THEN [state |-> "live", to |-> None, root |-> s]
                                            ELSE FreeRow]
       /\ jar = [access |-> s, refresh |-> s]
  /\ expired = {}
  /\ promise = [t \in Tab |-> NoPromise]
  /\ rot = [r \in Req |-> NoRot]
  /\ call = [c \in Call |-> [pc |-> "new", token |-> None, by |-> None, left |-> Keys]]
  /\ login = LoginForm
  /\ out = NoSignOut
  /\ ui = "authenticated"
  /\ reuse = FALSE /\ drops = FALSE /\ stops = 0
-----------------------------------------------------------------------------
(* -------------------------- the server's rows -------------------------- *)

\* The rows reached from s by rotated_to, s included.
ChainFrom(table, s) ==
  LET Step(S) == S \cup {table[x].to : x \in {y \in S : table[y].to # None}}
      reach[n \in 0 .. Cardinality(Sid)] == IF n = 0 THEN {s} ELSE Step(reach[n - 1])
  IN  reach[Cardinality(Sid)]

\* The row of the next INSERT, if the bound Sid has one left.
FreeSid == LET free == {s \in Sid : session[s].state = "free"}
           IN  IF free = {} THEN {} ELSE {CHOOSE s \in free : TRUE}

RevokeChain(table, s) ==
  [x \in Sid |-> IF x \in ChainFrom(table, s) /\ table[x].state = "live"
                 THEN [table[x] EXCEPT !.state = "revoked"] ELSE table[x]]

\* A signed access token is good until it runs out, whatever became of its row.
Accepts(s) == s # None /\ s \notin expired

\* An access token's 15 minutes are over.  Assumed: not while the
\* rotation that issued it is on its way, nor while a phone writes tokens.
AccessExpires(s) ==
  /\ session[s].state # "free" /\ s \notin expired
  /\ \A r \in Req : rot[r].fresh # s
  /\ \A t \in Tab : promise[t].pc # "saving"
  /\ expired' = expired \cup {s}
  /\ UNCHANGED <<app, tabs, session, jar, promise, rot, call, login, out, ui, reuse, stops, drops>>

\* Service.Refresh reads the row of the presented token and judges it.
ServerReads(r) ==
  LET row == session[rot[r].token] IN
  /\ rot[r].pc = "sent"
  /\ \/ /\ row.state = "live"
        /\ rot' = [rot EXCEPT ![r].pc = "read"]
        /\ UNCHANGED <<session, reuse>>
     \/ /\ row.state = "revoked" /\ row.to # None
        /\ session' = RevokeChain(session, rot[r].token)
        /\ reuse' = TRUE
        /\ rot' = [rot EXCEPT ![r].pc = "refused"]
     \/ /\ row.state = "revoked" /\ row.to = None
        /\ rot' = [rot EXCEPT ![r].pc = "refused"]
        /\ UNCHANGED <<session, reuse>>
  /\ UNCHANGED <<app, tabs, expired, jar, promise, call, login, out, ui, stops, drops>>

\* ... inserts the replacement ...
ServerCreates(r) ==
  /\ rot[r].pc = "read"
  /\ \E s \in FreeSid :
       /\ session' = [session EXCEPT ![s] = [state |-> "live", to |-> None,
                                             root |-> session[rot[r].token].root]]
       /\ rot' = [rot EXCEPT ![r].pc = "created", ![r].fresh = s]
  /\ UNCHANGED <<app, tabs, expired, jar, promise, call, login, out, ui, reuse, stops, drops>>

\* ... and points the old row at it, when nobody has revoked it meanwhile.
ServerMarks(r) ==
  LET old == rot[r].token IN
  /\ rot[r].pc = "created"
  /\ session' = IF session[old].state = "live"
                THEN [session EXCEPT ![old].state = "revoked", ![old].to = rot[r].fresh]
                ELSE session
  /\ rot' = [rot EXCEPT ![r].pc = "granted"]
  /\ UNCHANGED <<app, tabs, expired, jar, promise, call, login, out, ui, reuse, stops, drops>>
-----------------------------------------------------------------------------
(* ------------------------- calls of the client ------------------------- *)

\* getTokens gives both tokens or none; a cookie travels on its own.
AccessInJar ==
  IF OnPhone /\ (jar.access = None \/ jar.refresh = None) THEN None ELSE jar.access

Send(c, t) ==
  /\ call[c].pc = "new"
  /\ call' = [call EXCEPT ![c] = [pc |-> "sent", token |-> AccessInJar, by |-> t, left |-> Keys]]
  /\ UNCHANGED <<app, tabs, session, expired, jar, promise, rot, login, out, ui, reuse, stops, drops>>

Answer(c) ==
  LET t == call[c].by IN
  /\ \/ /\ call[c].pc \in {"sent", "resent"} /\ Accepts(call[c].token)
        /\ call' = [call EXCEPT ![c].pc = "ok"]
        /\ UNCHANGED promise
     \/ /\ call[c].pc = "resent" /\ ~Accepts(call[c].token)
        /\ call' = [call EXCEPT ![c].pc = "failed"]
        /\ UNCHANGED promise
     \/ \* 401: start a refresh, or join the one that is under way
        /\ call[c].pc = "sent" /\ ~Accepts(call[c].token)
        /\ call' = [call EXCEPT ![c].pc = "waiting"]
        /\ promise' = IF promise[t].pc = "none"
                      THEN [promise EXCEPT ![t].pc = "starting"] ELSE promise
  /\ UNCHANGED <<app, tabs, session, expired, jar, rot, login, out, ui, reuse, stops, drops>>

\* fetch rejects: there is no network.
LoseCall(c) ==
  /\ call[c].pc \in {"sent", "resent"}
  /\ call' = [call EXCEPT ![c].pc = "failed"]
  /\ UNCHANGED <<app, tabs, session, expired, jar, promise, rot, login, out, ui, reuse, stops, drops>>

Resend(c) ==
  /\ call[c].pc = "retry"
  /\ call' = [call EXCEPT ![c].pc = "resent", ![c].token = AccessInJar]
  /\ UNCHANGED <<app, tabs, session, expired, jar, promise, rot, login, out, ui, reuse, stops, drops>>
-----------------------------------------------------------------------------
(* ------------------------------ rotation ------------------------------- *)

WaitingIn(t) == {c \in Call : call[c].pc = "waiting" /\ call[c].by = t}

\* Mutant: one of the waiting calls is told.
Wake_First(t, pc) ==
  /\ promise' = [promise EXCEPT ![t] = NoPromise]
  /\ call' = [c \in Call |-> IF c \in WaitingIn(t) /\ c = CHOOSE d \in WaitingIn(t) : TRUE
                             THEN [call[c] EXCEPT !.pc = pc] ELSE call[c]]

\* The promise is settled: its calls go on, and the next 401 starts another.
Wake(t, pc) ==
  /\ promise' = [promise EXCEPT ![t] = NoPromise]
  /\ call' = [c \in Call |-> IF c \in WaitingIn(t) THEN [call[c] EXCEPT !.pc = pc] ELSE call[c]]

\* Refreshed.
Succeed(t) == Wake(t, "retry") /\ UNCHANGED ui

\* Not refreshed: the calls fail, on a phone after each has expired the
\* session.  `store' is the browser's jar as the answer leaves it.
Fail(t, store) ==
  /\ Wake(t, IF OnPhone THEN "expiring" ELSE "failed")
  /\ jar' = IF OnPhone THEN jar ELSE store
  /\ UNCHANGED ui

\* expireSession: two deletes, each done when it is done, with the promise
\* settled; then the app is told.
Expire(c, k) ==
  /\ call[c].pc = "expiring" /\ k \in call[c].left
  /\ jar' = [jar EXCEPT ![k] = None]
  /\ IF call[c].left = {k}
     THEN /\ call' = [call EXCEPT ![c].pc = "failed", ![c].left = Keys]
          /\ ui' = "unauthenticated"
     ELSE /\ call' = [call EXCEPT ![c].left = @ \ {k}]
          /\ UNCHANGED ui
  /\ UNCHANGED <<app, tabs, session, expired, promise, rot, login, out, reuse, stops, drops>>

\* Mutant: the refresh under way is not remembered, so the next 401 starts another.
AskRefresh_NotShared(t, r) ==
  /\ promise[t].pc = "starting"
  /\ LET token == IF OnPhone /\ AccessInJar = None THEN None ELSE jar.refresh IN
     \/ /\ token = None
        /\ Fail(t, jar)
        /\ UNCHANGED rot
     \/ /\ token # None
        /\ rot[r].pc = "idle"
        /\ rot' = [rot EXCEPT ![r] = [pc |-> "sent", token |-> token, fresh |-> None, by |-> t]]
        /\ UNCHANGED <<call, jar, ui, promise>>
  /\ UNCHANGED <<app, tabs, session, expired, login, out, reuse, stops, drops>>

\* The refresh token is read and sent.  A phone app without tokens does not ask.
AskRefresh(t, r) ==
  /\ promise[t].pc = "starting"
  /\ LET token == IF OnPhone /\ AccessInJar = None THEN None ELSE jar.refresh IN
     \/ /\ token = None
        /\ Fail(t, jar)
        /\ UNCHANGED rot
     \/ /\ token # None
        /\ rot[r].pc = "idle"
        /\ rot' = [rot EXCEPT ![r] = [pc |-> "sent", token |-> token, fresh |-> None, by |-> t]]
        /\ promise' = [promise EXCEPT ![t].pc = "waiting", ![t].req = r]
        /\ UNCHANGED <<call, jar, ui>>
  /\ UNCHANGED <<app, tabs, session, expired, login, out, reuse, stops, drops>>

\* Mutant: the phone does not wait for its tokens to be written.
Deliver_NotAwaited(r) ==
  LET t == rot[r].by IN
  /\ rot[r].pc = "granted" /\ t # None /\ OnPhone
  /\ rot' = [rot EXCEPT ![r] = NoRot]
  /\ promise' = [promise EXCEPT ![t].pc = "saving", ![t].fresh = rot[r].fresh,
                                ![t].left = Keys]
  /\ call' = [c \in Call |-> IF c \in WaitingIn(t) THEN [call[c] EXCEPT !.pc = "retry"] ELSE call[c]]
  /\ UNCHANGED <<app, tabs, session, expired, jar, login, out, ui, reuse, stops, drops>>

\* The answer arrives.  The phone app has the pair to save; the browser has
\* taken the cookies, or dropped them with a refusal.
Deliver(r) ==
  LET t == rot[r].by IN
  /\ rot[r].pc \in {"granted", "refused"} /\ t # None
  /\ rot' = [rot EXCEPT ![r] = NoRot]
  /\ \/ /\ rot[r].pc = "granted" /\ OnPhone
        /\ promise' = [promise EXCEPT ![t].pc = "saving", ![t].fresh = rot[r].fresh,
                                      ![t].left = Keys]
        /\ UNCHANGED <<call, jar, ui>>
     \/ /\ rot[r].pc = "granted" /\ ~OnPhone
        /\ jar' = [access |-> rot[r].fresh, refresh |-> rot[r].fresh]
        /\ Succeed(t)
     \/ /\ rot[r].pc = "refused"
        /\ Fail(t, NoTokens)
  /\ UNCHANGED <<app, tabs, session, expired, login, out, reuse, stops, drops>>

\* setTokens is two writes; when both are done the refresh is.
Save(t, k) ==
  /\ promise[t].pc = "saving" /\ k \in promise[t].left
  /\ jar' = [jar EXCEPT ![k] = promise[t].fresh]
  /\ IF promise[t].left = {k} THEN Succeed(t)
     ELSE /\ promise' = [promise EXCEPT ![t].left = @ \ {k}]
          /\ UNCHANGED <<call, ui>>
  /\ UNCHANGED <<app, tabs, session, expired, rot, login, out, reuse, stops, drops>>

\* The connection breaks: the client takes it for a refusal, the server,
\* if the request has reached it, goes on.
LoseRefresh(r) ==
  LET t == rot[r].by IN
  /\ rot[r].pc # "idle" /\ t # None
  /\ rot' = IF rot[r].pc \in {"read", "created"} THEN [rot EXCEPT ![r].by = None]
                                                 ELSE [rot EXCEPT ![r] = NoRot]
  /\ Fail(t, jar)
  /\ drops' = TRUE
  /\ UNCHANGED <<app, tabs, session, expired, login, out, reuse, stops>>

\* A request that nobody waits for: answered in vain, or cancelled on the way.
Discard(r) ==
  /\ rot[r].pc # "idle" /\ rot[r].by = None
  /\ rot' = [rot EXCEPT ![r] = NoRot]
  /\ UNCHANGED <<app, tabs, session, expired, jar, promise, call, login, out, ui, reuse, stops, drops>>
-----------------------------------------------------------------------------
(* --------------------------- login, sign-out --------------------------- *)

\* A new row, and its tokens: saved by the phone, set by the browser.
IssueSession(s) ==
  /\ session' = [session EXCEPT ![s] = [state |-> "live", to |-> None, root |-> s]]
  /\ IF OnPhone
     THEN /\ login' = [pc |-> "saving", known |-> FALSE, fresh |-> s, left |-> Keys]
          /\ UNCHANGED <<jar, ui>>
     ELSE /\ login' = LoginForm
          /\ jar' = [access |-> s, refresh |-> s]
          /\ ui' = "authenticated"

\* The password is sent and answered; a refusal changes nothing.  A phone
\* shows its login screen to a signed-out user only (RouteGate).
SubmitLogin ==
  /\ login.pc = "form" /\ (OnPhone => ui = "unauthenticated")
  /\ \/ \E s \in FreeSid : IssueSession(s)
     \/ /\ login' = [login EXCEPT !.pc = "challenge", !.known = TRUE]
        /\ UNCHANGED <<session, jar, ui>>
  /\ UNCHANGED <<app, tabs, expired, promise, rot, call, out, reuse, stops, drops>>

\* The challenge is taken out of Redis before the code is looked at: when the
\* code is wrong, the challenge on the screen is one the server has forgotten.
SubmitCode ==
  /\ login.pc = "challenge" /\ app.codeForm
  /\ \/ login.known /\ \E s \in FreeSid : IssueSession(s)
     \/ /\ login' = [login EXCEPT !.known = FALSE]
        /\ UNCHANGED <<session, jar, ui>>
  /\ UNCHANGED <<app, tabs, expired, promise, rot, call, out, reuse, stops, drops>>

\* "Use another account".
BackToForm ==
  /\ login.pc = "challenge" /\ app.wayBack
  /\ login' = [login EXCEPT !.pc = "form", !.known = FALSE]
  /\ UNCHANGED <<app, tabs, session, expired, jar, promise, rot, call, out, ui, reuse, stops, drops>>

\* persistLogin: two writes as well.
SaveLogin(k) ==
  /\ login.pc = "saving" /\ k \in login.left
  /\ jar' = [jar EXCEPT ![k] = login.fresh]
  /\ IF login.left = {k} THEN login' = LoginForm /\ ui' = "authenticated"
                         ELSE login' = [login EXCEPT !.left = @ \ {k}] /\ UNCHANGED ui
  /\ UNCHANGED <<app, tabs, session, expired, promise, rot, call, out, reuse, stops, drops>>

\* Only the phone apps sign out.  Without tokens there is nothing to revoke.
SignOut ==
  /\ OnPhone /\ ui = "authenticated" /\ out.pc = "idle"
  /\ out' = [pc |-> "asked", token |-> IF AccessInJar = None THEN None ELSE jar.refresh,
             left |-> Keys]
  /\ UNCHANGED <<app, tabs, session, expired, jar, promise, rot, call, login, ui, reuse, stops, drops>>

\* The server revokes the chain, or is not reached ...
EndSession ==
  /\ out.pc = "asked"
  /\ session' \in {session, IF out.token = None THEN session ELSE RevokeChain(session, out.token)}
  /\ out' = [out EXCEPT !.pc = "clearing"]
  /\ UNCHANGED <<app, tabs, expired, jar, promise, rot, call, login, ui, reuse, stops, drops>>

\* ... the tokens go either way, one and then the other.
ClearTokens(k) ==
  /\ out.pc = "clearing" /\ k \in out.left
  /\ jar' = [jar EXCEPT ![k] = None]
  /\ IF out.left = {k} THEN out' = NoSignOut /\ ui' = "unauthenticated"
                       ELSE out' = [out EXCEPT !.left = @ \ {k}] /\ UNCHANGED ui
  /\ UNCHANGED <<app, tabs, session, expired, promise, rot, call, login, reuse, stops, drops>>

\* The system kills the phone app: what is in memory is gone, requests the
\* server has may go on.  The next start looks for a refresh token.
Restart ==
  /\ OnPhone /\ stops < MaxStops
  /\ stops' = stops + 1
  /\ promise' = [t \in Tab |-> NoPromise]
  /\ rot' = [r \in Req |-> IF rot[r].pc = "idle" THEN NoRot ELSE [rot[r] EXCEPT !.by = None]]
  /\ call' = [c \in Call |-> IF call[c].pc \in {"new", "ok"} THEN call[c]
                             ELSE [call[c] EXCEPT !.pc = "failed", !.left = Keys]]
  /\ login' = LoginForm
  /\ out' = NoSignOut
  /\ ui' = IF AccessInJar # None THEN "authenticated" ELSE "unauthenticated"
  /\ UNCHANGED <<app, tabs, session, expired, jar, reuse, drops>>

CallNext(c) ==
  \/ \E t \in tabs : Send(c, t)
  \/ Answer(c) \/ LoseCall(c) \/ Resend(c)

RotationNext(r) ==
  \/ \E t \in tabs : AskRefresh(t, r)
  \/ ServerReads(r) \/ ServerCreates(r) \/ ServerMarks(r)
  \/ Deliver(r) \/ LoseRefresh(r) \/ Discard(r)

Next ==
  \/ \E s \in Sid : AccessExpires(s)
  \/ \E c \in Call : CallNext(c)
  \/ \E r \in Req : RotationNext(r)
  \/ \E t \in tabs, k \in Keys : Save(t, k)
  \/ \E c \in Call, k \in Keys : Expire(c, k)
  \/ SubmitLogin \/ SubmitCode \/ BackToForm
  \/ SignOut \/ EndSession
  \/ \E k \in Keys : SaveLogin(k) \/ ClearTokens(k)
  \/ Restart

Spec == Init /\ [][Next]_vars
-----------------------------------------------------------------------------
(* ------------------------------ properties ----------------------------- *)

\* Rows of one sign-in that can still be rotated.
LiveOf(root) == {s \in Sid : session[s].state = "live" /\ session[s].root = root}

\* "Deduped across concurrent calls": as long as a client has one context,
\* loses no answer and is not killed, no rotation of it is ever taken for a
\* reuse, so nobody is signed out by it, whatever is written and deleted at the
\* same time; and while no request is cut off half-way a sign-in has one row
\* that is alive, but for the moment the server takes to mark the old one.
OneRotationAtATime ==
  /\ stops = 0 /\ ~drops /\ Cardinality(tabs) = 1 => ~reuse
  /\ stops = 0 /\ ~drops /\ Cardinality(tabs) = 1 =>
       \A root \in Sid :
         Cardinality(LiveOf(root) \ {rot[r].token : r \in {q \in Req : rot[q].pc = "created"}}) <= 1

SignedInOnce == \A r, s \in Sid : session[r].root # None /\ session[s].root # None
                                   => session[r].root = session[s].root

\* ADR 0009: both tokens are replaced before any further call.  A call that
\* was refused is never sent again with the token it was refused with, unless
\* the user has signed in a second time in between.
RetryHasNewToken ==
  [][\A c \in Call : call[c].pc = "retry" /\ call'[c].pc = "resent"
                       /\ call[c].token # None /\ SignedInOnce
                     => call'[c].token # call[c].token]_vars

\* No call hangs on a refresh, whoever started it and however it ends: a call
\* waits for a promise that is open, and an open promise that has asked waits
\* for a request that is still going to be answered or to fail.
NoneForgotten ==
  /\ \A c \in Call : call[c].pc = "waiting" => promise[call[c].by].pc # "none"
  /\ \A t \in Tab : promise[t].pc = "waiting" =>
       /\ rot[promise[t].req].pc # "idle"
       /\ rot[promise[t].req].by = t
=============================================================================
