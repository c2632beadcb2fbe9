------------------------- MODULE ClientSessionProofs -------------------------
(***************************************************************************)
(* Theorems of ClientSession, for every choice of its constants.            *)
(***************************************************************************)
EXTENDS ClientSession, FiniteSetTheorems, TLAPS

Used == {s \in Sid : session[s].state # "free"}

\* What a rotation presents is a token.
RotTokens == \A r \in Req : rot[r].pc # "idle" => rot[r].token # None

\* A rotation that somebody waits for is the one its promise has asked for; it
\* has a row from the INSERT to its answer.
RotInv ==
  \A r \in Req :
    /\ rot[r].pc = "idle" => rot[r] = NoRot
    /\ rot[r].fresh # None <=> rot[r].pc \in {"created", "granted"}
    /\ rot[r].by # None => promise[rot[r].by].pc = "waiting" /\ promise[rot[r].by].req = r

\* A promise that has asked has its rotation; one that is saving has its tokens.
PromiseInv ==
  \A t \in Tab :
    /\ promise[t].pc = "waiting" => promise[t].req \in Req /\ rot[promise[t].req].by = t
    /\ promise[t].pc = "saving" <=> promise[t].fresh # None
    /\ promise[t].pc = "none" => promise[t] = NoPromise
    /\ promise[t].pc # "none" => t \in tabs

CallInv ==
  \A c \in Call :
    /\ call[c].pc # "new" => call[c].by \in tabs
    /\ call[c].pc = "waiting" => promise[call[c].by].pc # "none"

\* A phone app is one context.
TabInv == OnPhone => \E t \in Tab : tabs = {t}

WaitInv == RotInv /\ PromiseInv /\ CallInv /\ TabInv

\* A row that is not used is blank; the rows of a sign-in name it.
TableInv ==
  /\ Used # {} /\ expired \subseteq Used
  /\ \A s \in Sid : session[s].state = "free" => session[s] = FreeRow
  /\ \A s \in Used : session[s].root \in Used

\* Whoever names a row names one that is used.
NameInv ==
  /\ jar.access \in Used \cup {None} /\ jar.refresh \in Used \cup {None}
  /\ \A r \in Req : rot[r].token \in Used \cup {None} /\ rot[r].fresh \in Used \cup {None}
  /\ \A t \in Tab : promise[t].fresh \in Used \cup {None}
  /\ login.fresh \in Used \cup {None} /\ (login.pc = "saving" <=> login.fresh # None)

RowInv == TableInv /\ NameInv

\* What was refused has run out; what is fresh has not.
RefusedInv ==
  /\ \A c \in Call : call[c].pc \in {"waiting", "retry"} /\ call[c].token # None
                     => call[c].token \in expired
  /\ \A r \in Req : rot[r].fresh \notin expired
  /\ \A t \in Tab : promise[t].pc = "saving" => promise[t].fresh \notin expired /\ OnPhone

\* Until a second sign-in, the phone's access token is the fresh one when it has
\* been written, and no call is about to be sent with the token that was refused.
FreshInv ==
  /\ login.pc = "saving" => ~SignedInOnce
  /\ SignedInOnce =>
       /\ \A t \in Tab : promise[t].pc = "saving" /\ "access" \notin promise[t].left
                         => jar.access \in {promise[t].fresh, None}
       /\ \A c \in Call : call[c].pc = "retry" /\ call[c].token # None
                          => jar.access # call[c].token

\* No row is on its way in two places, nor presented or stored already.
DistinctInv ==
  /\ \A r \in Req : rot[r].fresh # None =>
       /\ rot[r].fresh \notin {login.fresh, jar.refresh}
       /\ \A t \in Tab : rot[r].fresh # promise[t].fresh
       /\ \A q \in Req : rot[r].fresh # rot[q].token /\ (rot[r].fresh = rot[q].fresh => r = q)
  /\ login.fresh # None =>
       /\ "refresh" \in login.left => login.fresh # jar.refresh
       /\ \A t \in Tab : login.fresh # promise[t].fresh

IInv == TypeOK /\ RotTokens /\ WaitInv /\ RowInv

-----------------------------------------------------------------------------
(* ------------------------- the parts of TypeOK ------------------------- *)

SessionRow == [state : {"free", "live", "revoked"}, to : Sid \cup {None}, root : Sid \cup {None}]
PromiseRecord ==
  [pc : {"none", "starting", "waiting", "saving"}, req : Req \cup {None},
   fresh : Sid \cup {None}, left : SUBSET Keys]
RotRecord ==
  [pc : {"idle", "sent", "read", "created", "granted", "refused"},
   token : Sid \cup {None}, fresh : Sid \cup {None}, by : Tab \cup {None}]
CallRecord ==
  [pc : {"new", "sent", "waiting", "retry", "resent", "expiring", "ok", "failed"},
   token : Sid \cup {None}, by : Tab \cup {None}, left : SUBSET Keys]

SessionOK == session \in [Sid -> SessionRow]
JarOK == jar \in [access : Sid \cup {None}, refresh : Sid \cup {None}]
PromiseOK == promise \in [Tab -> PromiseRecord]
RotOK == rot \in [Req -> RotRecord]
CallOK == call \in [Call -> CallRecord]
FormsOK ==
  /\ login \in [pc : {"form", "challenge", "saving"}, known : BOOLEAN, fresh : Sid \cup {None},
                left : SUBSET Keys]
  /\ out \in [pc : {"idle", "asked", "clearing"}, token : Sid \cup {None}, left : SUBSET Keys]
RestOK ==
  /\ app \in App /\ tabs \subseteq Tab /\ expired \subseteq Sid
  /\ ui \in {"authenticated", "unauthenticated"}
  /\ reuse \in BOOLEAN /\ drops \in BOOLEAN
  /\ stops \in 0 .. MaxStops

LEMMA TypeParts ==
  /\ TypeOK <=> /\ SessionOK /\ JarOK /\ PromiseOK /\ RotOK /\ CallOK
                /\ FormsOK /\ RestOK
  /\ TypeOK' <=> /\ SessionOK' /\ JarOK' /\ PromiseOK' /\ RotOK' /\ CallOK'
                 /\ FormsOK' /\ RestOK'
BY DEF TypeOK, SessionOK, JarOK, PromiseOK, RotOK, CallOK, FormsOK, RestOK,
       SessionRow, PromiseRecord, RotRecord, CallRecord

\* A refresh that has its tokens, and a rotation that comes one step further.
Granted(t, s) ==
  /\ PromiseOK'
  /\ promise'[t].pc = "saving" /\ promise'[t].req = promise[t].req
  /\ promise'[t].fresh = s /\ promise'[t].left = Keys
  /\ \A u \in Tab \ {t} : promise'[u] = promise[u]

LEMMA GrantedFacts ==
  ASSUME PromiseOK, NEW t \in Tab, NEW s \in Sid \cup {None},
         promise' = [promise EXCEPT ![t].pc = "saving", ![t].fresh = s,
                                    ![t].left = Keys]
  PROVE  Granted(t, s)
<1> DEFINE new == [promise[t] EXCEPT !.pc = "saving", !.fresh = s, !.left = Keys]
<1>1. promise[t] \in PromiseRecord
  BY DEF PromiseOK
<1>2. /\ new \in PromiseRecord
      /\ new.pc = "saving" /\ new.req = promise[t].req /\ new.fresh = s
      /\ new.left = Keys
  BY <1>1 DEF PromiseRecord
<1>3. promise' = [promise EXCEPT ![t] = new]
  BY DEF PromiseOK
<1> HIDE DEF new
<1>4. promise'[t] = new /\ \A u \in Tab \ {t} : promise'[u] = promise[u]
  BY <1>3 DEF PromiseOK
<1>5. PromiseOK'
  BY <1>2, <1>3 DEF PromiseOK
<1> QED BY <1>2, <1>4, <1>5 DEF Granted

LEMMA LoginMoves ==
  ASSUME FormsOK, out' = out
  PROVE  /\ login' = LoginForm => FormsOK'
         /\ \A k \in Keys : login' = [login EXCEPT !.left = @ \ {k}] => FormsOK'
<1> DEFINE Form == [pc : {"form", "challenge", "saving"}, known : BOOLEAN,
                    fresh : Sid \cup {None}, left : SUBSET Keys]
<1>1. login \in Form /\ (login' \in Form => FormsOK')
  BY DEF FormsOK
<1>2. LoginForm \in Form
  BY DEF LoginForm
<1>3. \A k \in Keys : [login EXCEPT !.left = @ \ {k}] \in Form
  BY <1>1
<1> QED BY <1>1, <1>2, <1>3

LEMMA RotationMoves ==
  ASSUME RotOK, NEW r \in Req
  PROVE  /\ \A pc \in {"read", "refused", "granted"} :
              rot' = [rot EXCEPT ![r].pc = pc] => RotOK'
         /\ \A s \in Sid : rot' = [rot EXCEPT ![r].pc = "created", ![r].fresh = s] => RotOK'
<1>1. rot[r] \in RotRecord
  BY DEF RotOK
<1>2. \A pc \in {"read", "refused", "granted"} : [rot[r] EXCEPT !.pc = pc] \in RotRecord
  BY <1>1 DEF RotRecord
<1>3. \A s \in Sid : [rot[r] EXCEPT !.pc = "created", !.fresh = s] \in RotRecord
  BY <1>1 DEF RotRecord
<1>4. \A v \in RotRecord : rot' = [rot EXCEPT ![r] = v] => RotOK'
  BY DEF RotOK
<1>5. \A pc \in {"read", "refused", "granted"} : rot' = [rot EXCEPT ![r].pc = pc] => RotOK'
  BY <1>2, <1>4
<1>6. ASSUME NEW s \in Sid, rot' = [rot EXCEPT ![r].pc = "created", ![r].fresh = s]
      PROVE  RotOK'
  <2>1. rot' = [rot EXCEPT ![r] = [rot[r] EXCEPT !.pc = "created", !.fresh = s]]
    BY <1>6 DEF RotOK
  <2> QED BY <1>3, <1>4, <2>1
<1> QED BY <1>5, <1>6

-----------------------------------------------------------------------------
(* ------------------------------- operators ----------------------------- *)

\* Revoking a chain changes the state of live rows, and nothing else.
LEMMA RevokeFacts ==
  ASSUME TypeOK, NEW s
  PROVE  LET table == RevokeChain(session, s) IN
         /\ table \in [Sid -> SessionRow]
         /\ \A x \in Sid : \/ table[x] = session[x]
                           \/ /\ session[x].state = "live" /\ table[x].state = "revoked"
                              /\ table[x].to = session[x].to /\ table[x].root = session[x].root
<1> DEFINE chain == ChainFrom(session, s)
           table == RevokeChain(session, s)
<1>1. table = [x \in Sid |-> IF x \in chain /\ session[x].state = "live"
                             THEN [session[x] EXCEPT !.state = "revoked"] ELSE session[x]]
  BY DEF RevokeChain
<1>2. session \in [Sid -> SessionRow]
  BY DEF TypeOK, SessionRow
<1> HIDE DEF chain
<1>3. ASSUME NEW x \in Sid
      PROVE  /\ table[x] \in SessionRow
             /\ \/ table[x] = session[x]
                \/ /\ session[x].state = "live" /\ table[x].state = "revoked"
                   /\ table[x].to = session[x].to /\ table[x].root = session[x].root
  <2> HIDE DEF table
  <2> QED BY <1>1, <1>2 DEF SessionRow
<1>4. table \in [Sid -> SessionRow]
  <2> HIDE DEF table
  <2> QED BY <1>1, <1>3
<1> QED BY <1>3, <1>4

LEMMA FreeFacts ==
  ASSUME TypeOK, NEW s \in FreeSid
  PROVE  s \in Sid /\ session[s].state = "free" /\ s \notin Used
BY DEF FreeSid, Used

\* How a call goes on when its promise is settled.
Woken == {"retry", "failed", "expiring"}

\* What settling a promise does to its calls.
LEMMA WakeFacts ==
  ASSUME TypeOK, NEW t \in Tab, NEW pc \in Woken, Wake(t, pc)
  PROVE  /\ promise' = [promise EXCEPT ![t] = NoPromise]
         /\ CallOK'
         /\ \A c \in Call : /\ call'[c].token = call[c].token /\ call'[c].by = call[c].by
                            /\ IF call[c].pc = "waiting" /\ call[c].by = t
                               THEN call'[c].pc = pc ELSE call'[c].pc = call[c].pc
<1>1. \A c \in Call : call[c] \in CallRecord
  BY TypeParts DEF CallOK
<1>2. call' = [c \in Call |-> IF c \in WaitingIn(t) THEN [call[c] EXCEPT !.pc = pc] ELSE call[c]]
  BY DEF Wake
<1>3. \A c \in Call : c \in WaitingIn(t) <=> call[c].pc = "waiting" /\ call[c].by = t
  BY DEF WaitingIn
<1>4. \A c \in Call : call'[c] \in CallRecord
  BY <1>1, <1>2 DEF CallRecord, Woken
<1> QED BY <1>1, <1>2, <1>3, <1>4 DEF Wake, CallOK, CallRecord

LEMMA FailFacts ==
  ASSUME NEW t \in Tab, NEW store, Fail(t, store)
  PROVE  /\ Wake(t, "failed") \/ Wake(t, "expiring")
         /\ jar' = jar \/ (~OnPhone /\ jar' = store)
         /\ ui' = ui
BY DEF Fail

\* A token of a phone is deleted, by a call that failed or by a sign-out, or
\* written by a sign-in.
Deleted(k) == jar' = [jar EXCEPT ![k] = None]

LEMMA KeyFacts ==
  ASSUME JarOK, NEW k \in Keys
  PROVE  /\ Deleted(k) => /\ jar'.access \in {jar.access, None}
                          /\ jar'.refresh \in {jar.refresh, None}
                          /\ JarOK'
         /\ SaveLogin(k) => /\ k = "refresh" => jar'.refresh = login.fresh
                            /\ k = "access" => jar'.refresh = jar.refresh
                            /\ jar'.access \in {jar.access, login.fresh}
BY DEF Deleted, JarOK, SaveLogin, Keys

-----------------------------------------------------------------------------
(* ---------------------------- type correctness -------------------------- *)

LEMMA InitType == Init => TypeOK /\ RotTokens
<1> SUFFICES ASSUME Init PROVE TypeOK /\ RotTokens
  OBVIOUS
<1>1. (CHOOSE t \in Tab : TRUE) \in Tab /\ (CHOOSE s \in Sid : TRUE) \in Sid
  BY ClientsAssumption
<1>2. SessionOK /\ JarOK
  BY <1>1 DEF Init, FreeRow, SessionOK, SessionRow, JarOK
<1>3. PromiseOK
  BY DEF Init, NoPromise, PromiseOK, PromiseRecord
<1>4. RotOK
  BY DEF Init, NoRot, RotOK, RotRecord
<1>5. CallOK
  BY DEF Init, CallOK, CallRecord
<1>6. FormsOK
  BY DEF Init, FormsOK, LoginForm, NoSignOut
<1>7. RestOK
  <2>1. tabs \subseteq Tab
    <3> DEFINE t == CHOOSE x \in Tab : TRUE
    <3>1. tabs \in {{t}, Tab} /\ t \in Tab
      BY <1>1 DEF Init
    <3> QED BY <3>1
  <2>2. 0 \in 0 .. MaxStops /\ FALSE \in BOOLEAN
    BY ClientsAssumption
  <2> QED BY <2>1, <2>2, Zenon DEF Init, RestOK
<1>8. RotTokens
  BY DEF Init, NoRot, RotTokens
<1> QED BY <1>2, <1>3, <1>4, <1>5, <1>6, <1>7, <1>8, TypeParts

LEMMA NextType == TypeOK /\ RotTokens /\ [Next]_vars => TypeOK'
<1> SUFFICES ASSUME TypeOK, RotTokens, [Next]_vars PROVE TypeOK'
  OBVIOUS
<1> USE TypeParts
<1>1. CASE UNCHANGED vars
  BY <1>1 DEF SessionOK, JarOK, PromiseOK, RotOK, CallOK, FormsOK, RestOK, vars
<1>2. ASSUME NEW s \in Sid, AccessExpires(s) PROVE TypeOK'
  BY <1>2 DEF AccessExpires, SessionOK, JarOK, PromiseOK, RotOK, CallOK, FormsOK, RestOK
<1>3. ASSUME NEW c \in Call, CallNext(c) PROVE TypeOK'
  <2>1. AccessInJar \in Sid \cup {None}
    BY DEF AccessInJar, JarOK
  <2>2. CallOK'
    <3>1. CASE \E t \in tabs : Send(c, t)
      BY <2>1, <3>1 DEF Send, CallOK, CallRecord, RestOK
    <3>2. CASE Answer(c)
      BY <3>2 DEF Answer, CallOK, CallRecord
    <3>3. CASE LoseCall(c)
      BY <3>3 DEF LoseCall, CallOK, CallRecord
    <3>4. CASE Resend(c)
      <4>1. [call[c] EXCEPT !.pc = "resent", !.token = AccessInJar] \in CallRecord
        BY <2>1 DEF CallOK, CallRecord
      <4>2. call' = [call EXCEPT ![c] = [call[c] EXCEPT !.pc = "resent", !.token = AccessInJar]]
        BY <3>4 DEF Resend, CallOK
      <4> QED BY <4>1, <4>2 DEF CallOK
    <3> QED BY <1>3, <3>1, <3>2, <3>3, <3>4 DEF CallNext
  <2>3. PromiseOK'
    <3>1. CASE promise' = promise
      BY <3>1 DEF PromiseOK
    <3>2. CASE promise' = [promise EXCEPT ![call[c].by].pc = "starting"]
      <4>1. \A t \in Tab : promise[t] \in PromiseRecord
                            /\ [promise[t] EXCEPT !.pc = "starting"] \in PromiseRecord
        BY DEF PromiseOK, PromiseRecord
      <4> QED BY <3>2, <4>1 DEF PromiseOK
    <3> QED BY <1>3, <3>1, <3>2 DEF CallNext, Send, Answer, LoseCall, Resend
  <2> QED BY <1>3, <2>2, <2>3 DEF CallNext, Send, Answer, LoseCall, Resend,
          SessionOK, JarOK, RotOK, FormsOK, RestOK
<1>4. ASSUME NEW t \in Tab, promise' = [promise EXCEPT ![t] = NoPromise] PROVE PromiseOK'
  BY <1>4 DEF PromiseOK, PromiseRecord, NoPromise
<1>5. ASSUME NEW t \in Tab, NEW store, Fail(t, store),
             store \in [access : Sid \cup {None}, refresh : Sid \cup {None}]
      PROVE  PromiseOK' /\ CallOK' /\ JarOK' /\ ui' \in {"authenticated", "unauthenticated"}
  BY <1>4, <1>5, FailFacts, WakeFacts DEF JarOK, NoTokens, RestOK, Woken
<1>6. ASSUME NEW r \in Req, rot' = [rot EXCEPT ![r] = NoRot] PROVE RotOK'
  BY <1>6 DEF RotOK, RotRecord, NoRot
<1>7. ASSUME NEW r \in Req, RotationNext(r) PROVE TypeOK'
  <2>1. ASSUME NEW t \in tabs, AskRefresh(t, r) PROVE TypeOK'
    <3>1. t \in Tab
      BY DEF RestOK
    <3>2. CASE Fail(t, jar) /\ UNCHANGED rot
      BY <1>5, <2>1, <3>1, <3>2 DEF AskRefresh, SessionOK, JarOK, RotOK, FormsOK, RestOK
    <3>3. CASE ~(Fail(t, jar) /\ UNCHANGED rot)
      <4> DEFINE token == IF OnPhone /\ AccessInJar = None THEN None ELSE jar.refresh
      <4>1. token \in Sid \cup {None}
        BY DEF JarOK
      <4>2. /\ rot' = [rot EXCEPT ![r] = [pc |-> "sent", token |-> token, fresh |-> None, by |-> t]]
            /\ promise' = [promise EXCEPT ![t].pc = "waiting", ![t].req = r]
            /\ UNCHANGED <<call, jar, ui>>
        BY <2>1, <3>3 DEF AskRefresh
      <4> HIDE DEF token
      <4>3. RotOK'
        BY <3>1, <4>1, <4>2 DEF RotOK, RotRecord
      <4>4. PromiseOK'
        <5>1. promise[t] \in PromiseRecord
          BY <3>1 DEF PromiseOK
        <5>2. [promise[t] EXCEPT !.pc = "waiting", !.req = r] \in PromiseRecord
          BY <5>1 DEF PromiseRecord
        <5> QED BY <4>2, <5>2 DEF PromiseOK
      <4> QED BY <2>1, <4>2, <4>3, <4>4 DEF AskRefresh, SessionOK, JarOK, CallOK, FormsOK, RestOK
    <3> QED BY <3>2, <3>3
  <2>2. CASE ServerReads(r)
    <3>1. SessionOK'
      BY <2>2, RevokeFacts DEF ServerReads, SessionOK
    <3>2. RotOK'
      <4>1. \E pc \in {"read", "refused"} : rot' = [rot EXCEPT ![r].pc = pc]
        BY <2>2 DEF ServerReads
      <4> QED BY <4>1, RotationMoves
    <3>3. /\ UNCHANGED <<app, tabs, expired, jar, promise, call, login, out, ui, stops, drops>>
          /\ reuse' \in BOOLEAN
      BY <2>2 DEF ServerReads, RestOK
    <3> QED BY <3>1, <3>2, <3>3 DEF JarOK, PromiseOK, CallOK, FormsOK, RestOK
  <2>3. CASE ServerCreates(r)
    <3>1. PICK s \in FreeSid :
            /\ session' = [session EXCEPT ![s] = [state |-> "live", to |-> None,
                                                  root |-> session[rot[r].token].root]]
            /\ rot' = [rot EXCEPT ![r].pc = "created", ![r].fresh = s]
      BY <2>3 DEF ServerCreates
    <3>2. SessionOK'
      <4>1. rot[r].token \in Sid \cup {None}
        BY DEF RotOK, RotRecord
      <4>2. session[rot[r].token].root \in Sid \cup {None}
        <5>1. rot[r].token \in Sid
          BY <2>3, <4>1 DEF ServerCreates, RotTokens
        <5> QED BY <5>1 DEF SessionOK, SessionRow
      <4> QED BY <3>1, <4>2, FreeFacts DEF SessionOK, SessionRow
    <3>3. RotOK'
      BY <3>1, FreeFacts, RotationMoves
    <3> QED BY <2>3, <3>2, <3>3 DEF ServerCreates, JarOK, PromiseOK, CallOK, FormsOK, RestOK
  <2>4. CASE ServerMarks(r)
    <3>1. SessionOK'
      <4> DEFINE old == rot[r].token
      <4>1. rot[r].pc = "created"
        BY <2>4 DEF ServerMarks
      <4>2. rot[r] \in RotRecord
        BY DEF RotOK
      <4>3. old \in Sid
        BY <4>1, <4>2 DEF RotRecord, RotTokens
      <4>4. rot[r].fresh \in Sid \cup {None} /\ session[old] \in SessionRow
        BY <4>2, <4>3 DEF RotRecord, SessionOK
      <4>5. [session[old] EXCEPT !.state = "revoked", !.to = rot[r].fresh] \in SessionRow
        BY <4>4 DEF SessionRow
      <4>6. \/ session' = session
            \/ session' = [session EXCEPT ![old].state = "revoked", ![old].to = rot[r].fresh]
        BY <2>4 DEF ServerMarks
      <4> QED BY <4>5, <4>6, <4>3 DEF SessionOK
    <3>2. RotOK'
      BY <2>4, RotationMoves DEF ServerMarks
    <3> QED BY <2>4, <3>1, <3>2 DEF ServerMarks, JarOK, PromiseOK, CallOK, FormsOK, RestOK
  <2>5. CASE Deliver(r)
    <3>1. rot[r].by \in Tab /\ rot[r].fresh \in Sid \cup {None} /\ RotOK'
      BY <1>6, <2>5 DEF Deliver, RotOK, RotRecord
    <3>2. CASE Fail(rot[r].by, NoTokens)
      BY <1>5, <2>5, <3>1, <3>2 DEF Deliver, NoTokens, SessionOK, FormsOK, RestOK
    <3>3. CASE Succeed(rot[r].by) /\ jar' = [access |-> rot[r].fresh, refresh |-> rot[r].fresh]
      <4>1. PromiseOK' /\ CallOK' /\ ui' = ui
        BY <1>4, <3>1, <3>3, WakeFacts DEF Succeed, Woken
      <4>2. JarOK'
        BY <3>1, <3>3 DEF JarOK
      <4> QED BY <2>5, <3>1, <4>1, <4>2 DEF Deliver, SessionOK, FormsOK, RestOK
    <3>4. CASE /\ promise' = [promise EXCEPT ![rot[r].by].pc = "saving",
                   ![rot[r].by].fresh = rot[r].fresh, ![rot[r].by].left = Keys]
               /\ UNCHANGED <<call, jar, ui>>
      <4>1. PromiseOK'
        BY <3>1, <3>4, GrantedFacts DEF Granted
      <4> QED BY <2>5, <3>1, <3>4, <4>1 DEF Deliver, JarOK, CallOK, SessionOK, FormsOK, RestOK
    <3> QED BY <2>5, <3>2, <3>3, <3>4 DEF Deliver
  <2>6. CASE LoseRefresh(r)
    <3>1. rot[r].by \in Tab
      BY <2>6 DEF LoseRefresh, RotOK, RotRecord
    <3>2. RotOK'
      BY <1>6, <2>6 DEF LoseRefresh, RotOK, RotRecord
    <3> QED BY <1>5, <2>6, <3>1, <3>2 DEF LoseRefresh, JarOK, SessionOK, FormsOK, RestOK
  <2>7. CASE Discard(r)
    <3>1. RotOK'
      BY <1>6, <2>7 DEF Discard
    <3> QED BY <2>7, <3>1 DEF Discard, SessionOK, JarOK, PromiseOK, CallOK, FormsOK, RestOK
  <2> QED BY <1>7, <2>1, <2>2, <2>3, <2>4, <2>5, <2>6, <2>7 DEF RotationNext
<1>8. ASSUME NEW t \in tabs, NEW k \in Keys, Save(t, k) PROVE TypeOK'
  <2>1. t \in Tab /\ promise[t].fresh \in Sid \cup {None}
    BY DEF RestOK, PromiseOK, PromiseRecord
  <2>2. JarOK'
    BY <1>8, <2>1 DEF Save, JarOK
  <2>3. CASE Succeed(t)
    BY <1>4, <1>8, <2>1, <2>2, <2>3, WakeFacts
       DEF Save, Succeed, SessionOK, RotOK, FormsOK, RestOK, Woken
  <2>4. CASE promise' = [promise EXCEPT ![t].left = @ \ {k}] /\ UNCHANGED <<call, ui>>
    <3>1. PromiseOK'
      <4>1. promise[t] \in PromiseRecord
        BY <2>1 DEF PromiseOK
      <4>2. [promise[t] EXCEPT !.left = @ \ {k}] \in PromiseRecord
        BY <4>1 DEF PromiseRecord
      <4> QED BY <2>1, <2>4, <4>2 DEF PromiseOK
    <3> QED BY <1>8, <2>2, <2>4, <3>1 DEF Save, SessionOK, RotOK, CallOK, FormsOK, RestOK
  <2> QED BY <1>8, <2>3, <2>4 DEF Save
<1>9. ASSUME NEW s \in FreeSid, IssueSession(s),
             UNCHANGED <<app, tabs, expired, promise, rot, call, out, reuse, stops, drops>>
      PROVE  TypeOK'
  <2>1. SessionOK'
    BY <1>9, FreeFacts DEF IssueSession, SessionOK, SessionRow
  <2>2. JarOK'
    BY <1>9, FreeFacts DEF IssueSession, JarOK
  <2>3. FormsOK'
    <3>1. s \in Sid /\ out' = out
      BY <1>9, FreeFacts
    <3>2. CASE login' = [pc |-> "saving", known |-> FALSE, fresh |-> s, left |-> Keys]
      BY <3>1, <3>2 DEF FormsOK
    <3>3. CASE login' = LoginForm
      BY <3>1, <3>3 DEF FormsOK, LoginForm
    <3> QED BY <1>9, <3>2, <3>3 DEF IssueSession
  <2>4. ui' \in {"authenticated", "unauthenticated"}
    BY <1>9 DEF IssueSession, RestOK
  <2> QED BY <1>9, <2>1, <2>2, <2>3, <2>4 DEF PromiseOK, RotOK, CallOK, RestOK
<1>10. CASE SubmitLogin \/ SubmitCode
  <2>1. CASE /\ \E s \in FreeSid : IssueSession(s)
             /\ UNCHANGED <<app, tabs, expired, promise, rot, call, out, reuse, stops, drops>>
    BY <1>9, <2>1
  <2>2. CASE UNCHANGED <<session, jar, ui>>
    <3>1. FormsOK'
      <4>1. CASE SubmitLogin
        <5>1. login' = [login EXCEPT !.pc = "challenge", !.known = TRUE] /\ out' = out
          BY <2>2, <4>1, FreeFacts DEF SubmitLogin, IssueSession, Used, SessionOK
        <5> QED BY <5>1 DEF FormsOK
      <4>2. CASE SubmitCode
        <5>1. login' = [login EXCEPT !.known = FALSE] /\ out' = out
          BY <2>2, <4>2, FreeFacts DEF SubmitCode, IssueSession, Used, SessionOK
        <5> QED BY <5>1 DEF FormsOK
      <4> QED BY <1>10, <4>1, <4>2
    <3> QED BY <1>10, <2>2, <3>1
            DEF SubmitLogin, SubmitCode, SessionOK, JarOK, PromiseOK, RotOK, CallOK, RestOK
  <2> QED BY <1>10, <2>1, <2>2 DEF SubmitLogin, SubmitCode
<1>11. CASE BackToForm
  BY <1>11 DEF BackToForm, SessionOK, JarOK, PromiseOK, RotOK, CallOK, FormsOK, RestOK
<1>12. ASSUME NEW k \in Keys, SaveLogin(k) PROVE TypeOK'
  <2>1. JarOK' /\ ui' \in {"authenticated", "unauthenticated"}
    BY <1>12 DEF SaveLogin, JarOK, FormsOK, RestOK
  <2>2. FormsOK'
    <3>1. login' = LoginForm \/ login' = [login EXCEPT !.left = @ \ {k}]
      BY <1>12 DEF SaveLogin
    <3>2. out' = out
      BY <1>12 DEF SaveLogin
    <3> QED BY <3>1, <3>2, LoginMoves
  <2> QED BY <1>12, <2>1, <2>2 DEF SaveLogin, SessionOK, PromiseOK, RotOK, CallOK, RestOK
<1>13. CASE SignOut
  BY <1>13 DEF SignOut, SessionOK, JarOK, PromiseOK, RotOK, CallOK, FormsOK, RestOK
<1>14. CASE EndSession
  <2>1. SessionOK'
    BY <1>14, RevokeFacts DEF EndSession, SessionOK
  <2> QED BY <1>14, <2>1 DEF EndSession, JarOK, PromiseOK, RotOK, CallOK, FormsOK, RestOK
<1>16. ASSUME NEW k \in Keys, ClearTokens(k) PROVE TypeOK'
  <2>1. JarOK'
    BY <1>16, KeyFacts DEF ClearTokens, Deleted
  <2>2. FormsOK'
    <3>1. out' = NoSignOut \/ out' = [out EXCEPT !.left = @ \ {k}]
      BY <1>16 DEF ClearTokens
    <3> QED BY <1>16, <3>1 DEF ClearTokens, NoSignOut, FormsOK
  <2> QED BY <1>16, <2>1, <2>2 DEF ClearTokens, SessionOK, PromiseOK, RotOK, CallOK, RestOK
<1>17. ASSUME NEW c \in Call, NEW k \in Keys, Expire(c, k) PROVE TypeOK'
  <2>1. JarOK'
    BY <1>17, KeyFacts DEF Expire, Deleted
  <2>2. CallOK'
    <3>1. call[c] \in CallRecord
      BY DEF CallOK
    <3>2. /\ [call[c] EXCEPT !.pc = "failed", !.left = Keys] \in CallRecord
          /\ [call[c] EXCEPT !.left = @ \ {k}] \in CallRecord
      BY <3>1 DEF CallRecord
    <3>3. \/ call' = [call EXCEPT ![c] = [call[c] EXCEPT !.pc = "failed", !.left = Keys]]
          \/ call' = [call EXCEPT ![c] = [call[c] EXCEPT !.left = @ \ {k}]]
      BY <1>17 DEF Expire, CallOK
    <3> QED BY <3>2, <3>3 DEF CallOK
  <2> QED BY <1>17, <2>1, <2>2 DEF Expire, SessionOK, PromiseOK, RotOK, FormsOK, RestOK
<1>15. CASE Restart
  <2>1. PromiseOK'
    BY <1>15 DEF Restart, PromiseOK, PromiseRecord, NoPromise
  <2>2. RotOK'
    BY <1>15 DEF Restart, RotOK, RotRecord, NoRot
  <2>3. CallOK'
    <3>1. \A c \in Call : /\ call[c] \in CallRecord
                          /\ [call[c] EXCEPT !.pc = "failed", !.left = Keys] \in CallRecord
      BY DEF CallOK, CallRecord
    <3> QED BY <1>15, <3>1 DEF Restart, CallOK
  <2>4. FormsOK'
    BY <1>15 DEF Restart, FormsOK, LoginForm, NoSignOut
  <2>5. RestOK'
    <3>1. stops + 1 \in 0 .. MaxStops
      <4>1. stops < MaxStops /\ stops \in 0 .. MaxStops
        BY <1>15 DEF Restart, RestOK
      <4> QED BY <4>1, ClientsAssumption
    <3>2. ui' \in {"authenticated", "unauthenticated"}
      BY <1>15 DEF Restart
    <3> QED BY <1>15, <3>1, <3>2 DEF Restart, RestOK
  <2> QED BY <1>15, <2>1, <2>2, <2>3, <2>4, <2>5 DEF Restart, SessionOK, JarOK
<1> QED BY <1>1, <1>2, <1>3, <1>7, <1>8, <1>10, <1>11, <1>12, <1>13, <1>14, <1>15, <1>16, <1>17
        DEF Next

LEMMA NextTokens == TypeOK /\ RotTokens /\ [Next]_vars => RotTokens'
<1> SUFFICES ASSUME TypeOK, RotTokens, [Next]_vars PROVE RotTokens'
  OBVIOUS
<1>1. RotOK
  BY TypeParts
<1>2. CASE rot' = rot
  BY <1>2 DEF RotTokens
<1>3. ASSUME NEW r \in Req, RotationNext(r) PROVE RotTokens'
  <2>1. ASSUME NEW t \in tabs, AskRefresh(t, r) PROVE RotTokens'
    BY <1>1, <1>2, <2>1 DEF AskRefresh, RotTokens, RotOK
  <2>2. CASE ServerReads(r)
    BY <1>1, <2>2 DEF ServerReads, RotTokens, RotOK, RotRecord
  <2>3. CASE ServerCreates(r)
    BY <1>1, <2>3 DEF ServerCreates, RotTokens, RotOK, RotRecord
  <2>4. CASE ServerMarks(r)
    BY <1>1, <2>4 DEF ServerMarks, RotTokens, RotOK, RotRecord
  <2>5. CASE rot' = [rot EXCEPT ![r] = NoRot]
    BY <1>1, <2>5 DEF RotTokens, RotOK, NoRot
  <2>6. CASE LoseRefresh(r)
    BY <1>1, <2>5, <2>6 DEF LoseRefresh, RotTokens, RotOK, RotRecord
  <2> QED BY <1>3, <2>1, <2>2, <2>3, <2>4, <2>5, <2>6 DEF RotationNext, Deliver, Discard
<1>4. CASE Restart
  BY <1>1, <1>4 DEF Restart, RotTokens, RotOK, RotRecord, NoRot
<1> QED BY <1>2, <1>3, <1>4 DEF Next, vars, AccessExpires, CallNext, Send, Answer, LoseCall,
        Resend, Save, SubmitLogin, SubmitCode, BackToForm, SaveLogin, SignOut, EndSession, ClearTokens, Expire

\* Every reachable state is well typed, whatever the clients do.
THEOREM TypeCorrect == Spec => []TypeOK
<1> QED BY InitType, NextType, NextTokens, PTL DEF Spec
-----------------------------------------------------------------------------
(* ------------------------ calls, promises, rotations -------------------- *)

LEMMA InitWait == Init => WaitInv
<1> SUFFICES ASSUME Init PROVE WaitInv
  OBVIOUS
<1> DEFINE t == CHOOSE x \in Tab : TRUE
<1>1. t \in Tab /\ (OnPhone => tabs = {t})
  BY ClientsAssumption DEF Init
<1>2. RotInv /\ PromiseInv /\ CallInv
  BY NoneIsNone DEF Init, RotInv, PromiseInv, CallInv, NoRot, NoPromise
<1> QED BY <1>1, <1>2 DEF WaitInv, TabInv

LEMMA NextWait ==
  ASSUME TypeOK, RotTokens, WaitInv, [Next]_vars
  PROVE  WaitInv'
<1> USE NoneIsNone
<1>1. /\ RotOK /\ PromiseOK /\ CallOK /\ tabs \subseteq Tab
      /\ RotOK' /\ PromiseOK' /\ CallOK'
  BY TypeParts, NextType DEF RestOK
<1>2. app' = app /\ tabs' = tabs
  BY DEF Next, vars, AccessExpires, CallNext, Send, Answer, LoseCall, Resend, RotationNext,
     AskRefresh, ServerReads, ServerCreates, ServerMarks, Deliver, LoseRefresh, Discard, Save,
     SubmitLogin, SubmitCode, BackToForm, SaveLogin, SignOut, EndSession, ClearTokens, Expire, Restart
<1>3. TabInv'
  BY <1>2 DEF WaitInv, TabInv, OnPhone
<1>4. CASE UNCHANGED <<rot, promise, call>>
  BY <1>2, <1>3, <1>4 DEF WaitInv, RotInv, PromiseInv, CallInv
\* The promise of a context is settled, and with it the rotation it waited for.
<1>5. ASSUME NEW t \in tabs, NEW pc \in Woken, Wake(t, pc),
             \A r \in Req : rot'[r].by # t,
             \A r \in Req : \/ rot'[r] = rot[r]
                            \/ rot'[r] = NoRot
                            \/ rot'[r] = [rot[r] EXCEPT !.by = None],
             \A r \in Req : rot[r].by \notin {t, None} => rot'[r] = rot[r]
      PROVE  WaitInv'
  <2>1. t \in Tab /\ promise' = [promise EXCEPT ![t] = NoPromise]
    BY <1>1, <1>5, WakeFacts
  <2>2. RotInv'
    <3> SUFFICES ASSUME NEW r \in Req
                 PROVE  /\ rot'[r].pc = "idle" => rot'[r] = NoRot
                        /\ rot'[r].fresh # None <=> rot'[r].pc \in {"created", "granted"}
                        /\ rot'[r].by # None => /\ promise'[rot'[r].by].pc = "waiting"
                                                /\ promise'[rot'[r].by].req = r
      BY DEF RotInv
    <3>1. CASE rot'[r] = rot[r]
      BY <1>1, <1>5, <2>1, <3>1 DEF WaitInv, RotInv, RotOK, RotRecord, PromiseOK
    <3>2. CASE rot'[r] = NoRot
      BY <3>2 DEF NoRot
    <3>3. CASE rot'[r] = [rot[r] EXCEPT !.by = None]
      BY <1>1, <3>3 DEF WaitInv, RotInv, RotOK, RotRecord, NoRot
    <3> QED BY <1>5, <3>1, <3>2, <3>3
  <2>3. PromiseInv'
    <3> SUFFICES ASSUME NEW u \in Tab
                 PROVE  /\ promise'[u].pc = "waiting" => /\ promise'[u].req \in Req
                                                         /\ rot'[promise'[u].req].by = u
                        /\ promise'[u].pc = "saving" <=> promise'[u].fresh # None
                        /\ promise'[u].pc = "none" => promise'[u] = NoPromise
                        /\ promise'[u].pc # "none" => u \in tabs
      BY <1>2 DEF PromiseInv
    <3>1. CASE u = t
      BY <1>1, <2>1, <3>1 DEF PromiseOK, NoPromise
    <3>2. CASE u # t
      BY <1>1, <1>5, <2>1, <3>2 DEF WaitInv, PromiseInv, PromiseOK
    <3> QED BY <3>1, <3>2
  <2>4. CallInv'
    BY <1>1, <1>2, <1>5, <2>1, WakeFacts
       DEF WaitInv, CallInv, CallOK, CallRecord, PromiseOK, Woken
  <2> QED BY <1>3, <2>2, <2>3, <2>4 DEF WaitInv
<1>6. ASSUME NEW c \in Call, CallNext(c) PROVE WaitInv'
  <2>1. rot' = rot
    BY <1>6 DEF CallNext, Send, Answer, LoseCall, Resend
  <2>2. CASE promise' = promise
    <3>1. CallInv'
      <4>1. /\ \A d \in Call \ {c} : call'[d] = call[d]
            /\ call'[c].by \in tabs
            /\ call'[c].pc = "waiting" => promise[call'[c].by].pc # "none"
        <5>1. CASE Answer(c)
          <6>1. call[c].by \in tabs /\ call'[c].by = call[c].by
            BY <1>1, <5>1 DEF Answer, WaitInv, CallInv, CallOK, CallRecord
          <6>2. CASE call[c].pc = "sent" /\ ~Accepts(call[c].token)
            BY <1>1, <2>2, <5>1, <6>1, <6>2 DEF Answer, PromiseOK, PromiseRecord, CallOK
          <6>3. CASE ~(call[c].pc = "sent" /\ ~Accepts(call[c].token))
            BY <1>1, <5>1, <6>1, <6>3 DEF Answer, CallOK, CallRecord
          <6> QED BY <6>2, <6>3
        <5>2. CASE LoseCall(c) \/ Resend(c)
          BY <1>1, <5>2 DEF LoseCall, Resend, WaitInv, CallInv, CallOK, CallRecord
        <5>3. CASE \E t \in tabs : Send(c, t)
          BY <1>1, <5>3 DEF Send, CallOK
        <5> QED BY <1>6, <5>1, <5>2, <5>3 DEF CallNext
      <4> QED BY <1>2, <2>2, <4>1 DEF WaitInv, CallInv
    <3> QED BY <1>2, <1>3, <2>1, <2>2, <3>1 DEF WaitInv, RotInv, PromiseInv
  <2>3. CASE promise' # promise
    <3> DEFINE t == call[c].by
    <3>1. /\ t \in tabs /\ promise[t].pc = "none"
          /\ promise' = [promise EXCEPT ![t].pc = "starting"]
          /\ call' = [call EXCEPT ![c].pc = "waiting"]
      BY <1>6, <2>3 DEF CallNext, Send, Answer, LoseCall, Resend, WaitInv, CallInv
    <3>2. RotInv'
      BY <1>1, <2>1, <3>1 DEF WaitInv, RotInv, PromiseOK, RotOK, RotRecord
    <3>3. PromiseInv'
      BY <1>1, <1>2, <2>1, <3>1 DEF WaitInv, PromiseInv, PromiseOK, PromiseRecord, NoPromise
    <3>4. CallInv'
      BY <1>1, <1>2, <3>1 DEF WaitInv, CallInv, PromiseOK, PromiseRecord, CallOK, CallRecord
    <3> QED BY <1>3, <3>2, <3>3, <3>4 DEF WaitInv
  <2> QED BY <2>2, <2>3
<1>7. ASSUME NEW r \in Req, NEW t \in tabs, AskRefresh(t, r) PROVE WaitInv'
  <2>1. CASE Fail(t, jar) /\ UNCHANGED rot
    <3>1. promise[t].pc = "starting" /\ t \in Tab
      BY <1>1, <1>7 DEF AskRefresh
    <3>2. \A q \in Req : rot[q].by # t
      BY <1>1, <3>1 DEF WaitInv, RotInv
    <3> QED BY <1>5, <2>1, <3>1, <3>2, FailFacts DEF Woken
  <2>2. CASE ~(Fail(t, jar) /\ UNCHANGED rot)
    <3> DEFINE token == IF OnPhone /\ AccessInJar = None THEN None ELSE jar.refresh
    <3>1. /\ promise[t].pc = "starting" /\ rot[r].pc = "idle" /\ t \in Tab
          /\ rot' = [rot EXCEPT ![r] = [pc |-> "sent", token |-> token, fresh |-> None, by |-> t]]
          /\ promise' = [promise EXCEPT ![t].pc = "waiting", ![t].req = r]
          /\ call' = call
      BY <1>1, <1>7, <2>2 DEF AskRefresh
    <3> HIDE DEF token
    <3>2. RotInv'
      BY <1>1, <3>1 DEF WaitInv, RotInv, RotOK, RotRecord, PromiseOK, PromiseRecord
    <3>3. PromiseInv'
      BY <1>1, <1>2, <3>1 DEF WaitInv, PromiseInv, RotInv, RotOK, PromiseOK, PromiseRecord, NoRot
    <3>4. CallInv'
      BY <1>1, <1>2, <3>1 DEF WaitInv, CallInv, PromiseOK, PromiseRecord
    <3> QED BY <1>3, <3>2, <3>3, <3>4 DEF WaitInv
  <2> QED BY <2>1, <2>2
\* The server's work on a rotation.
<1>8. ASSUME NEW r \in Req, ServerReads(r) \/ ServerCreates(r) \/ ServerMarks(r) PROVE WaitInv'
  <2>1. /\ rot[r].pc # "idle" /\ rot'[r].pc # "idle" /\ rot'[r].by = rot[r].by
        /\ rot'[r].fresh # None <=> rot'[r].pc \in {"created", "granted"}
        /\ \A q \in Req \ {r} : rot'[q] = rot[q]
    <3>1. CASE ServerReads(r)
      BY <1>1, <3>1 DEF ServerReads, WaitInv, RotInv, RotOK, RotRecord
    <3>2. CASE ServerCreates(r)
      BY <1>1, <3>2, FreeFacts DEF ServerCreates, RotOK, RotRecord
    <3>3. CASE ServerMarks(r)
      BY <1>1, <3>3 DEF ServerMarks, WaitInv, RotInv, RotOK, RotRecord
    <3> QED BY <1>8, <3>1, <3>2, <3>3
  <2>2. UNCHANGED <<promise, call>>
    BY <1>8 DEF ServerReads, ServerCreates, ServerMarks
  <2> QED BY <1>2, <1>3, <2>1, <2>2 DEF WaitInv, RotInv, PromiseInv, CallInv
<1>9. ASSUME NEW r \in Req, Deliver(r) PROVE WaitInv'
  <2> DEFINE t == rot[r].by
  <2>1. /\ t \in tabs /\ t \in Tab /\ rot[r].pc # "idle"
        /\ promise[t].pc = "waiting" /\ promise[t].req = r
        /\ rot' = [rot EXCEPT ![r] = NoRot]
    BY <1>1, <1>9 DEF Deliver, WaitInv, RotInv, PromiseInv, RotOK, RotRecord
  <2>2. \A q \in Req \ {r} : rot[q].by # t
    BY <2>1 DEF WaitInv, RotInv
  <2>3. CASE Succeed(t) \/ Fail(t, NoTokens)
    <3>1. \E pc \in Woken : Wake(t, pc)
      BY <2>1, <2>3, FailFacts DEF Succeed, Woken
    <3>2. \A q \in Req : rot'[q].by # t /\ (rot'[q] = rot[q] \/ rot'[q] = NoRot)
                         /\ (rot[q].by # t => rot'[q] = rot[q])
      BY <1>1, <2>1, <2>2 DEF RotOK, NoRot
    <3> QED BY <1>5, <2>1, <3>1, <3>2
  <2>4. CASE /\ rot[r].pc = "granted" /\ UNCHANGED call
             /\ promise' = [promise EXCEPT ![t].pc = "saving", ![t].fresh = rot[r].fresh,
                                           ![t].left = Keys]
    <3>0. Granted(t, rot[r].fresh) /\ rot[r].pc = "granted" /\ call' = call
      BY <1>1, <2>1, <2>4, GrantedFacts DEF RotOK, RotRecord
    <3>1. RotInv'
      BY <1>1, <2>1, <2>2, <3>0 DEF WaitInv, RotInv, RotOK, RotRecord, Granted, NoRot
    <3>2. PromiseInv'
      <4>1. t \in tabs' /\ rot[r].fresh # None
        BY <1>1, <1>2, <2>1, <3>0 DEF WaitInv, RotInv
      <4>2. ASSUME NEW u \in Tab \ {t}, promise'[u].pc = "waiting"
            PROVE  promise'[u].req \in Req /\ rot'[promise'[u].req].by = u
        BY <1>1, <2>1, <2>2, <3>0, <4>2 DEF WaitInv, PromiseInv, RotOK, Granted
      <4> QED BY <1>2, <2>1, <3>0, <4>1, <4>2 DEF WaitInv, PromiseInv, Granted
    <3>3. CallInv'
      BY <1>1, <1>2, <2>1, <3>0 DEF WaitInv, CallInv, Granted
    <3> QED BY <1>3, <3>1, <3>2, <3>3 DEF WaitInv
  <2> QED BY <1>9, <2>3, <2>4 DEF Deliver
<1>10. ASSUME NEW r \in Req, LoseRefresh(r) PROVE WaitInv'
  <2> DEFINE t == rot[r].by
  <2>0. t \in tabs /\ t \in Tab /\ Fail(t, jar)
    BY <1>1, <1>10 DEF LoseRefresh, WaitInv, RotInv, PromiseInv, RotOK, RotRecord
  <2>1. t \in tabs /\ t \in Tab /\ \E pc \in Woken : Wake(t, pc)
    BY <2>0, FailFacts DEF Woken
  <2>2. \A q \in Req \ {r} : rot[q].by # t
    BY <2>1 DEF WaitInv, RotInv
  <2>3. /\ \A q \in Req \ {r} : rot'[q] = rot[q]
        /\ rot'[r] \in {NoRot, [rot[r] EXCEPT !.by = None]}
    BY <1>1, <1>10 DEF LoseRefresh, RotOK, RotRecord
  <2>4. rot'[r].by = None
    BY <1>1, <2>3 DEF NoRot, RotOK, RotRecord
  <2> QED BY <1>5, <2>1, <2>2, <2>3, <2>4
<1>11. ASSUME NEW r \in Req, Discard(r) PROVE WaitInv'
  <2>1. /\ rot[r].by = None /\ rot' = [rot EXCEPT ![r] = NoRot]
        /\ UNCHANGED <<promise, call>>
    BY <1>11 DEF Discard
  <2> QED BY <1>1, <1>2, <1>3, <2>1 DEF WaitInv, RotInv, PromiseInv, CallInv, RotOK, NoRot
<1>12. ASSUME NEW t \in tabs, NEW k \in Keys, Save(t, k) PROVE WaitInv'
  <2>1. /\ promise[t].pc = "saving" /\ rot' = rot /\ t \in Tab
        /\ \A r \in Req : rot[r].by # t
    BY <1>1, <1>12 DEF Save, WaitInv, RotInv
  <2>2. CASE Succeed(t)
    BY <1>5, <2>1, <2>2 DEF Succeed, Woken
  <2>3. CASE promise' = [promise EXCEPT ![t].left = @ \ {k}] /\ UNCHANGED call
    <3>1. \A u \in Tab : /\ promise'[u].pc = promise[u].pc /\ promise'[u].req = promise[u].req
                         /\ promise'[u].fresh = promise[u].fresh
                         /\ promise[u].pc = "none" => promise'[u] = promise[u]
      BY <1>1, <2>1, <2>3 DEF PromiseOK, PromiseRecord
    <3>2. RotInv'
      BY <1>1, <2>1, <3>1 DEF WaitInv, RotInv, RotOK, RotRecord
    <3>3. PromiseInv'
      BY <1>2, <2>1, <3>1 DEF WaitInv, PromiseInv
    <3>4. CallInv'
      BY <1>1, <1>2, <2>3, <3>1 DEF WaitInv, CallInv
    <3> QED BY <1>3, <3>2, <3>3, <3>4 DEF WaitInv
  <2> QED BY <1>12, <2>2, <2>3 DEF Save
<1>13. CASE Restart
  <2>1. /\ promise' = [t \in Tab |-> NoPromise]
        /\ rot' = [r \in Req |-> IF rot[r].pc = "idle" THEN NoRot ELSE [rot[r] EXCEPT !.by = None]]
        /\ call' = [c \in Call |-> IF call[c].pc \in {"new", "ok"} THEN call[c]
                                   ELSE [call[c] EXCEPT !.pc = "failed", !.left = Keys]]
    BY <1>13 DEF Restart
  <2>2. RotInv'
    <3>1. \A r \in Req : /\ rot'[r].by = None /\ rot'[r].fresh = rot[r].fresh
                         /\ rot'[r].pc = rot[r].pc
                         /\ rot[r].pc = "idle" => rot'[r] = NoRot
      <4> SUFFICES ASSUME NEW r \in Req
                   PROVE  /\ rot'[r].by = None /\ rot'[r].fresh = rot[r].fresh
                          /\ rot'[r].pc = rot[r].pc
                          /\ rot[r].pc = "idle" => rot'[r] = NoRot
        OBVIOUS
      <4>1. rot[r] \in RotRecord /\ (rot[r].pc = "idle" => rot[r] = NoRot)
        BY <1>1 DEF RotOK, WaitInv, RotInv
      <4>2. CASE rot[r].pc = "idle"
        BY <2>1, <4>1, <4>2 DEF NoRot
      <4>3. CASE rot[r].pc # "idle"
        <5>1. rot'[r] = [rot[r] EXCEPT !.by = None]
          BY <2>1, <4>3
        <5> QED BY <4>1, <4>3, <5>1 DEF RotRecord
      <4> QED BY <4>2, <4>3
    <3> QED BY <3>1 DEF WaitInv, RotInv
  <2>3. PromiseInv'
    BY <2>1 DEF PromiseInv, NoPromise
  <2>4. CallInv'
    <3>1. \A c \in Call : /\ call'[c].by = call[c].by /\ call'[c].pc # "waiting"
                          /\ call[c].pc = "new" => call'[c].pc = "new"
      <4> SUFFICES ASSUME NEW c \in Call
                   PROVE  /\ call'[c].by = call[c].by /\ call'[c].pc # "waiting"
                          /\ call[c].pc = "new" => call'[c].pc = "new"
        OBVIOUS
      <4>1. call[c] \in CallRecord
        BY <1>1 DEF CallOK
      <4>2. CASE call[c].pc \in {"new", "ok"}
        BY <2>1, <4>2
      <4>3. CASE call[c].pc \notin {"new", "ok"}
        <5>1. call'[c] = [call[c] EXCEPT !.pc = "failed", !.left = Keys]
          BY <2>1, <4>3
        <5> QED BY <4>1, <4>3, <5>1 DEF CallRecord
      <4> QED BY <4>2, <4>3
    <3> QED BY <1>2, <3>1 DEF WaitInv, CallInv
  <2> QED BY <1>3, <2>2, <2>3, <2>4 DEF WaitInv
<1>15. ASSUME NEW c \in Call, NEW k \in Keys, Expire(c, k) PROVE WaitInv'
  <2>1. UNCHANGED <<rot, promise>>
    BY <1>15 DEF Expire
  <2>2. \A d \in Call : /\ call'[d].by = call[d].by
                        /\ call'[d] = call[d] \/ (d = c /\ call'[d].pc # "waiting")
    BY <1>1, <1>15 DEF Expire, CallOK, CallRecord
  <2>3. call[c].pc # "new"
    BY <1>15 DEF Expire
  <2>4. CallInv'
    <3> SUFFICES ASSUME NEW d \in Call
                 PROVE  /\ call'[d].pc # "new" => call'[d].by \in tabs
                        /\ call'[d].pc = "waiting" => promise[call'[d].by].pc # "none"
      BY <1>2, <2>1 DEF CallInv
    <3>1. CASE call'[d] = call[d]
      BY <3>1 DEF WaitInv, CallInv
    <3>2. CASE d = c /\ call'[d].pc # "waiting"
      BY <2>2, <2>3, <3>2 DEF WaitInv, CallInv
    <3> QED BY <2>2, <3>1, <3>2
  <2>5. RotInv' /\ PromiseInv'
    BY <1>2, <2>1 DEF WaitInv, RotInv, PromiseInv
  <2> QED BY <1>3, <2>4, <2>5 DEF WaitInv
<1>14. CASE ~UNCHANGED <<rot, promise, call>>
  BY <1>6, <1>7, <1>8, <1>9, <1>10, <1>11, <1>12, <1>13, <1>14, <1>15
     DEF Next, vars, AccessExpires, RotationNext, SubmitLogin, SubmitCode, BackToForm, SaveLogin,
         SignOut, EndSession, ClearTokens
<1> QED BY <1>4, <1>14

\* No call is left waiting for a refresh that nobody makes or that was settled:
\* refreshSession and expireSession of the API client, whatever is lost, in any
\* number of tabs and calls.
THEOREM NobodyForgotten == Spec => []NoneForgotten
<1>1. Init => TypeOK /\ RotTokens /\ WaitInv
  BY InitType, InitWait
<1>2. TypeOK /\ RotTokens /\ WaitInv /\ [Next]_vars => (TypeOK /\ RotTokens /\ WaitInv)'
  BY NextType, NextTokens, NextWait
<1>3. TypeOK /\ WaitInv => NoneForgotten
  BY NoneIsNone DEF WaitInv, RotInv, PromiseInv, CallInv, NoneForgotten, NoRot
<1> QED BY <1>1, <1>2, <1>3, PTL DEF Spec
-----------------------------------------------------------------------------
(* --------------------------------- rows -------------------------------- *)

\* A row stays as it is, but that it may be revoked.
KeptOrRevoked(x) ==
  \/ session'[x] = session[x]
  \/ /\ session[x].state = "live" /\ session'[x].state = "revoked"
     /\ session'[x].to = session[x].to /\ session'[x].root = session[x].root

\* A blank row is written, by a sign-in or as the replacement of another row.
Written(s) ==
  /\ s \in Sid \ Used
  /\ \E root : session' = [session EXCEPT ![s] = [state |-> "live", to |-> None, root |-> root]]
  /\ \/ session'[s].root = s /\ rot' = rot
     \/ \E r \in Req : ServerCreates(r) /\ session'[s].root = session[rot[r].token].root
                        /\ rot' = [rot EXCEPT ![r].pc = "created", ![r].fresh = s]

LEMMA SignInFacts ==
  ASSUME TypeOK, NEW s \in FreeSid, IssueSession(s), rot' = rot
  PROVE  Written(s)
BY FreeFacts, TypeParts DEF IssueSession, Written, SessionOK

LEMMA SubmitFacts ==
  ASSUME TypeOK, SubmitLogin \/ SubmitCode
  PROVE  /\ \/ \E s \in FreeSid : IssueSession(s)
            \/ /\ UNCHANGED <<session, jar, ui>>
               /\ login'.fresh = login.fresh /\ login'.left = login.left
               /\ login.pc # "saving" /\ login'.pc # "saving"
         /\ UNCHANGED <<app, tabs, expired, promise, rot, call, out, reuse, stops, drops>>
<1>1. CASE SubmitLogin
  BY <1>1, TypeParts DEF SubmitLogin, FormsOK
<1>2. CASE SubmitCode
  BY <1>2, TypeParts DEF SubmitCode, FormsOK
<1> QED BY <1>1, <1>2

LEMMA SessionSteps ==
  ASSUME TypeOK, RotTokens, [Next]_vars
  PROVE  \/ \A x \in Sid : KeptOrRevoked(x)
         \/ \E s \in FreeSid : Written(s)
         \/ \E r \in Req : ServerMarks(r)
<1>1. CASE session' = session
  BY <1>1 DEF KeptOrRevoked
<1>2. CASE SubmitLogin \/ SubmitCode
  BY <1>1, <1>2, SubmitFacts, SignInFacts
<1>3. CASE \E r \in Req : ServerReads(r)
  BY <1>1, <1>3, RevokeFacts DEF ServerReads, KeptOrRevoked
<1>4. CASE EndSession
  BY <1>1, <1>4, RevokeFacts DEF EndSession, KeptOrRevoked
<1>5. ASSUME NEW r \in Req, ServerCreates(r) PROVE \E s \in FreeSid : Written(s)
  <2>1. PICK s \in FreeSid :
          /\ session' = [session EXCEPT ![s] = [state |-> "live", to |-> None,
                                                root |-> session[rot[r].token].root]]
          /\ rot' = [rot EXCEPT ![r].pc = "created", ![r].fresh = s]
    BY <1>5 DEF ServerCreates
  <2> QED BY <1>5, <2>1, FreeFacts, TypeParts DEF Written, SessionOK
<1> QED BY <1>1, <1>2, <1>3, <1>4, <1>5
        DEF Next, vars, AccessExpires, CallNext, Send, Answer, LoseCall, Resend, RotationNext,
            AskRefresh, Deliver, LoseRefresh, Discard, Save, BackToForm, SaveLogin, SignOut,
            ClearTokens, Expire, Restart

\* What a step does to the rows.
LEMMA TableFacts ==
  ASSUME TypeOK, RotTokens, RowInv, [Next]_vars
  PROVE  /\ Used \subseteq Used'
         /\ \A x \in Used : session'[x].root = session[x].root
         /\ \A s \in Sid : Written(s) => Used' = Used \cup {s}
         /\ (\A s \in Sid : ~Written(s)) => Used' = Used
         /\ \A x \in Sid \ Used : session'[x] = session[x] \/ Written(x)
<1>1. SessionOK /\ SessionOK' /\ RotOK
  BY TypeParts, NextType
<1>2. CASE \A x \in Sid : KeptOrRevoked(x)
  <2>1. \A s \in Sid : ~Written(s)
    BY <1>1, <1>2 DEF Written, KeptOrRevoked, Used, SessionOK
  <2> QED BY <1>1, <1>2, <2>1 DEF KeptOrRevoked, Used, SessionOK, SessionRow
<1>3. ASSUME NEW s \in FreeSid, Written(s)
      PROVE  /\ Used' = Used \cup {s}
             /\ \A x \in Sid \ {s} : session'[x] = session[x] /\ ~Written(x)
  <2>1. PICK root : session' = [session EXCEPT ![s] = [state |-> "live", to |-> None, root |-> root]]
    BY <1>3 DEF Written
  <2>2. /\ s \in Sid \ Used /\ session'[s].state = "live"
        /\ \A x \in Sid \ {s} : session'[x] = session[x]
    BY <1>1, <1>3, <2>1, FreeFacts DEF SessionOK
  <2>3. \A x \in Sid \ Used : Written(x) => session'[x].state = "live"
    BY <1>1 DEF Written, SessionOK
  <2>4. \A x \in Sid \ {s} : ~Written(x)
    BY <2>2, <2>3 DEF Used, Written
  <2> QED BY <2>2, <2>4 DEF Used
<1>4. ASSUME NEW r \in Req, ServerMarks(r)
      PROVE  /\ Used' = Used /\ \A s \in Sid : ~Written(s)
             /\ \A x \in Used : session'[x].root = session[x].root
             /\ \A x \in Sid \ Used : session'[x] = session[x]
  <2>1. rot[r].token \in Sid
    BY <1>1, <1>4 DEF ServerMarks, RotTokens, RotOK, RotRecord
  <2>2. CASE session' = session
    BY <1>1, <2>2 DEF Used, Written, SessionOK
  <2>3. CASE /\ session[rot[r].token].state = "live"
             /\ session' = [session EXCEPT ![rot[r].token].state = "revoked",
                                           ![rot[r].token].to = rot[r].fresh]
    <3>1. \A x \in Sid : /\ session'[x].root = session[x].root
                         /\ x # rot[r].token => session'[x] = session[x]
                         /\ x = rot[r].token => session[x].state = "live" /\ session'[x].state = "revoked"
      BY <1>1, <2>1, <2>3 DEF SessionOK, SessionRow
    <3> QED BY <1>1, <3>1 DEF Used, Written, SessionOK
  <2> QED BY <1>4, <2>2, <2>3 DEF ServerMarks
<1>5. CASE \E s \in FreeSid : Written(s)
  BY <1>3, <1>5, FreeFacts DEF Used
<1> QED BY <1>2, <1>4, <1>5, SessionSteps

LEMMA InitRow == Init => RowInv
<1> SUFFICES ASSUME Init PROVE RowInv
  OBVIOUS
<1> DEFINE s == CHOOSE x \in Sid : TRUE
<1>1. /\ s \in Sid
      /\ session = [x \in Sid |-> IF x = s THEN [state |-> "live", to |-> None, root |-> s]
                                           ELSE FreeRow]
      /\ jar = [access |-> s, refresh |-> s]
  BY ClientsAssumption DEF Init
<1> HIDE DEF s
<1>2. Used = {s}
  BY <1>1 DEF Used, FreeRow
<1> QED BY <1>1, <1>2 DEF Init, RowInv, TableInv, NameInv, NoRot, NoPromise, LoginForm

LEMMA NextTable ==
  ASSUME TypeOK, RotTokens, RowInv, [Next]_vars
  PROVE  TableInv'
<1> USE DEF RowInv
<1>1. SessionOK /\ SessionOK' /\ RotOK
  BY TypeParts, NextType
<1>2. Used' # {} /\ \A s \in Sid : session'[s].state = "free" => session'[s] = FreeRow
  <2>1. \A s \in Sid : Written(s) => session'[s].state = "live"
    BY <1>1 DEF Written, SessionOK
  <2> QED BY <2>1, TableFacts DEF TableInv, Used
<1>3. expired' \subseteq Used'
  <2>1. expired' = expired \/ \E s \in Sid : AccessExpires(s)
    BY DEF Next, vars, CallNext, Send, Answer, LoseCall, Resend, RotationNext,
       AskRefresh, ServerReads, ServerCreates, ServerMarks, Deliver, LoseRefresh, Discard, Save,
       SubmitLogin, SubmitCode, BackToForm, SaveLogin, SignOut, EndSession, ClearTokens, Expire, Restart
  <2> QED BY <2>1, TableFacts DEF TableInv, AccessExpires, Used
<1>4. ASSUME NEW x \in Used' PROVE session'[x].root \in Used'
  <2>1. CASE x \in Used
    BY <2>1, TableFacts DEF TableInv
  <2>2. CASE x \notin Used
    <3>1. Written(x) /\ Used' = Used \cup {x}
      BY <2>2, TableFacts DEF Used
    <3>2. ASSUME NEW r \in Req, ServerCreates(r), session'[x].root = session[rot[r].token].root
          PROVE  session'[x].root \in Used'
      BY <1>1, <3>1, <3>2 DEF ServerCreates, RotTokens, NameInv, TableInv
    <3> QED BY <3>1, <3>2 DEF Written
  <2> QED BY <2>1, <2>2
<1> QED BY <1>2, <1>3, <1>4 DEF TableInv

LEMMA NextName ==
  ASSUME TypeOK, RotTokens, WaitInv, RowInv, [Next]_vars
  PROVE  NameInv'
<1> USE NoneIsNone DEF RowInv
<1> DEFINE N == Used' \cup {None}
<1>1. RotOK /\ PromiseOK /\ JarOK /\ FormsOK /\ tabs \subseteq Tab
  BY TypeParts DEF RestOK
<1>2. /\ jar.access \in N /\ jar.refresh \in N /\ login.fresh \in N
      /\ \A r \in Req : rot[r].token \in N /\ rot[r].fresh \in N
      /\ \A t \in Tab : promise[t].fresh \in N
      /\ \A s \in FreeSid : Written(s) => s \in N
  BY TableFacts, FreeFacts DEF NameInv
<1> DEFINE JarNamed == jar'.access \in N /\ jar'.refresh \in N
           LoginNamed == login'.fresh \in N /\ (login'.pc = "saving" <=> login'.fresh # None)
           RotNamed == \A r \in Req : rot'[r].token \in N /\ rot'[r].fresh \in N
           PromiseNamed == \A t \in Tab : promise'[t].fresh \in N
<1>3. /\ jar' = jar => JarNamed
      /\ login' = login => LoginNamed
      /\ rot' = rot => RotNamed
      /\ promise' = promise => PromiseNamed
  BY <1>2 DEF NameInv
<1>4. /\ jar' = NoTokens => JarNamed
      /\ \A k \in Keys : Deleted(k) => JarNamed
      /\ \A r \in Req : rot' = [rot EXCEPT ![r] = NoRot] => RotNamed
      /\ \A t \in Tab : promise' = [promise EXCEPT ![t] = NoPromise] => PromiseNamed
  BY <1>1, <1>2, KeyFacts DEF NoTokens, NoRot, NoPromise, RotOK, PromiseOK
<1>5. CASE UNCHANGED <<jar, login, rot, promise>>
  BY <1>3, <1>5 DEF NameInv
<1>6. ASSUME NEW t \in Tab, NEW store, Fail(t, store), store \in {jar, NoTokens}
      PROVE  JarNamed /\ PromiseNamed
  BY <1>3, <1>4, <1>6, FailFacts, WakeFacts DEF Woken
<1>7. ASSUME NEW c \in Call, CallNext(c) PROVE NameInv'
  <2>1. UNCHANGED <<jar, login, rot>>
    BY <1>7 DEF CallNext, Send, Answer, LoseCall, Resend
  <2>2. promise' = promise \/ promise' = [promise EXCEPT ![call[c].by].pc = "starting"]
    BY <1>7 DEF CallNext, Send, Answer, LoseCall, Resend
  <2>3. PromiseNamed
    BY <1>1, <1>2, <2>2 DEF PromiseOK, PromiseRecord
  <2> QED BY <1>3, <2>1, <2>3 DEF NameInv
<1>8. ASSUME NEW r \in Req, NEW t \in tabs, AskRefresh(t, r) PROVE NameInv'
  <2>1. CASE Fail(t, jar) /\ UNCHANGED rot
    BY <1>1, <1>3, <1>6, <1>8, <2>1 DEF AskRefresh, NameInv
  <2>2. CASE ~(Fail(t, jar) /\ UNCHANGED rot)
    <3> DEFINE token == IF OnPhone /\ AccessInJar = None THEN None ELSE jar.refresh
    <3>1. /\ rot' = [rot EXCEPT ![r] = [pc |-> "sent", token |-> token, fresh |-> None, by |-> t]]
          /\ promise' = [promise EXCEPT ![t].pc = "waiting", ![t].req = r]
          /\ UNCHANGED <<jar, login>>
      BY <1>8, <2>2 DEF AskRefresh
    <3>2. token \in N
      BY <1>2
    <3> HIDE DEF token
    <3>3. RotNamed
      BY <1>1, <1>2, <3>1, <3>2 DEF RotOK
    <3>4. PromiseNamed
      BY <1>1, <1>2, <3>1 DEF PromiseOK, PromiseRecord
    <3> QED BY <1>3, <3>1, <3>3, <3>4 DEF NameInv
  <2> QED BY <2>1, <2>2
<1>9. ASSUME NEW r \in Req, ServerReads(r) \/ ServerCreates(r) \/ ServerMarks(r) PROVE NameInv'
  <2>1. UNCHANGED <<jar, login, promise>>
    BY <1>9 DEF ServerReads, ServerCreates, ServerMarks
  <2>2. RotNamed
    <3>1. CASE ServerReads(r)
      BY <1>1, <1>2, <3>1 DEF ServerReads, RotOK, RotRecord
    <3>2. CASE ServerCreates(r)
      <4>1. PICK s \in FreeSid :
              /\ session' = [session EXCEPT ![s] = [state |-> "live", to |-> None,
                                                    root |-> session[rot[r].token].root]]
              /\ rot' = [rot EXCEPT ![r].pc = "created", ![r].fresh = s]
        BY <3>2 DEF ServerCreates
      <4>2. s \in N
        BY <1>2, <3>2, <4>1, FreeFacts, TypeParts DEF Written, SessionOK
      <4> QED BY <1>1, <1>2, <4>1, <4>2 DEF RotOK, RotRecord
    <3>3. CASE ServerMarks(r)
      BY <1>1, <1>2, <3>3 DEF ServerMarks, RotOK, RotRecord
    <3> QED BY <1>9, <3>1, <3>2, <3>3
  <2> QED BY <1>3, <2>1, <2>2 DEF NameInv
<1>10. ASSUME NEW r \in Req, Deliver(r) PROVE NameInv'
  <2> DEFINE t == rot[r].by
  <2>1. t \in Tab /\ rot[r].fresh \in N /\ RotNamed /\ LoginNamed
    BY <1>1, <1>2, <1>3, <1>4, <1>10 DEF Deliver, RotOK, RotRecord
  <2>2. CASE Fail(t, NoTokens)
    BY <1>6, <2>1, <2>2 DEF NameInv
  <2>3. CASE Succeed(t) /\ jar' = [access |-> rot[r].fresh, refresh |-> rot[r].fresh]
    BY <1>4, <2>1, <2>3, WakeFacts DEF Succeed, NameInv, Woken
  <2>4. CASE /\ jar' = jar
             /\ promise' = [promise EXCEPT ![t].pc = "saving", ![t].fresh = rot[r].fresh,
                                           ![t].left = Keys]
    <3>1. PromiseNamed
      BY <1>1, <1>2, <2>1, <2>4 DEF PromiseOK, PromiseRecord
    <3> QED BY <1>3, <2>1, <2>4, <3>1 DEF NameInv
  <2> QED BY <1>10, <2>2, <2>3, <2>4 DEF Deliver
<1>11. ASSUME NEW r \in Req, LoseRefresh(r) PROVE NameInv'
  <2>1. rot[r].by \in Tab /\ login' = login
    BY <1>1, <1>11 DEF LoseRefresh, RotOK, RotRecord
  <2>2. RotNamed
    <3>1. CASE rot' = [rot EXCEPT ![r].by = None]
      BY <1>1, <1>2, <3>1 DEF RotOK, RotRecord
    <3> QED BY <1>4, <1>11, <3>1 DEF LoseRefresh
  <2> QED BY <1>3, <1>6, <1>11, <2>1, <2>2 DEF LoseRefresh, NameInv
<1>12. ASSUME NEW r \in Req, Discard(r) PROVE NameInv'
  BY <1>3, <1>4, <1>12 DEF Discard, NameInv
<1>13. ASSUME NEW t \in tabs, NEW k \in Keys, Save(t, k) PROVE NameInv'
  <2>1. t \in Tab /\ UNCHANGED <<login, rot>>
    BY <1>1, <1>13 DEF Save
  <2>2. JarNamed
    BY <1>1, <1>2, <1>13, <2>1 DEF Save, JarOK
  <2>3. PromiseNamed
    <3>1. CASE Succeed(t)
      BY <1>4, <2>1, <3>1, WakeFacts DEF Succeed, Woken
    <3>2. CASE promise' = [promise EXCEPT ![t].left = @ \ {k}]
      BY <1>1, <1>2, <3>2 DEF PromiseOK, PromiseRecord
    <3> QED BY <1>13, <3>1, <3>2 DEF Save
  <2> QED BY <1>3, <2>1, <2>2, <2>3 DEF NameInv
<1>14. ASSUME SubmitLogin \/ SubmitCode PROVE NameInv'
  <2>1. UNCHANGED <<rot, promise>>
    BY <1>14, SubmitFacts
  <2>2. ASSUME NEW s \in FreeSid, IssueSession(s) PROVE NameInv'
    <3>1. s \in N /\ s # None
      BY <1>2, <2>1, <2>2, SignInFacts, FreeFacts
    <3>2. JarNamed /\ LoginNamed
      BY <1>2, <2>2, <3>1 DEF IssueSession, LoginForm
    <3> QED BY <1>3, <2>1, <3>2 DEF NameInv
  <2>3. CASE UNCHANGED <<session, jar, ui>> /\ login'.fresh = login.fresh
             /\ login.pc # "saving" /\ login'.pc # "saving"
    BY <1>2, <1>3, <2>1, <2>3 DEF NameInv
  <2> QED BY <1>14, <2>2, <2>3, SubmitFacts
<1>15. CASE BackToForm
  BY <1>1, <1>2, <1>3, <1>15 DEF BackToForm, NameInv, FormsOK
<1>16. ASSUME NEW k \in Keys, SaveLogin(k) PROVE NameInv'
  <2>1. JarNamed /\ UNCHANGED <<rot, promise>>
    BY <1>1, <1>2, <1>16 DEF SaveLogin, JarOK
  <2>2. LoginNamed
    <3>1. login' = LoginForm \/ login' = [login EXCEPT !.left = @ \ {k}]
      BY <1>16 DEF SaveLogin
    <3> QED BY <1>1, <1>2, <3>1 DEF NameInv, LoginForm, FormsOK
  <2> QED BY <1>3, <2>1, <2>2 DEF NameInv
<1>17. ASSUME NEW k \in Keys, ClearTokens(k) \/ \E c \in Call : Expire(c, k) PROVE NameInv'
  BY <1>3, <1>4, <1>17 DEF ClearTokens, Expire, Deleted, NameInv
<1>18. CASE Restart
  <2>0. rot' = [r \in Req |-> IF rot[r].pc = "idle" THEN NoRot ELSE [rot[r] EXCEPT !.by = None]]
    BY <1>18 DEF Restart
  <2>1. RotNamed
    BY <1>1, <1>2, <2>0 DEF RotOK, RotRecord, NoRot
  <2>2. PromiseNamed /\ LoginNamed
    BY <1>18 DEF Restart, NoPromise, LoginForm
  <2> QED BY <1>3, <1>18, <2>1, <2>2 DEF Restart, NameInv
<1> QED BY <1>5, <1>7, <1>8, <1>9, <1>10, <1>11, <1>12, <1>13, <1>14, <1>15, <1>16, <1>17, <1>18
        DEF Next, vars, AccessExpires, RotationNext, SignOut, EndSession

LEMMA Coherence ==
  /\ Init => IInv
  /\ IInv /\ [Next]_vars => IInv'
BY InitType, InitWait, InitRow, NextType, NextTokens, NextWait, NextTable, NextName DEF IInv, RowInv

-----------------------------------------------------------------------------
(* -------------------------- the token of a retry ------------------------ *)

LEMMA SignedInFacts ==
  ASSUME IInv, [Next]_vars
  PROVE  /\ SignedInOnce' => SignedInOnce
         /\ \A s \in FreeSid : IssueSession(s) /\ rot' = rot => ~SignedInOnce'
<1>1. /\ \A x \in Used : session[x].root \in Used /\ session'[x].root = session[x].root
      /\ \A x \in Sid \ Used : session[x].root = None
      /\ Used # {}
  BY TableFacts DEF IInv, RowInv, TableInv, Used, FreeRow
<1>2. SignedInOnce' => SignedInOnce
  BY <1>1, NoneIsNone DEF SignedInOnce, Used
<1>3. ASSUME NEW s \in FreeSid, IssueSession(s), rot' = rot PROVE ~SignedInOnce'
  <2>1. PICK x \in Used : TRUE
    BY <1>1
  <2>2. /\ session'[s].root = s /\ s \in Sid \ Used
        /\ session'[x].root = session[x].root /\ session[x].root \in Used
    <3>1. session' = [session EXCEPT ![s] = [state |-> "live", to |-> None, root |-> s]]
      BY <1>3 DEF IssueSession
    <3> QED BY <1>1, <3>1, FreeFacts, TypeParts DEF IInv, SessionOK
  <2> QED BY <2>2, NoneIsNone DEF SignedInOnce, Used
<1> QED BY <1>2, <1>3

LEMMA NextRefused ==
  ASSUME IInv, RefusedInv, [Next]_vars
  PROVE  RefusedInv'
<1> USE NoneIsNone DEF IInv
<1>1. /\ RotOK /\ PromiseOK /\ CallOK /\ tabs \subseteq Tab
      /\ expired \subseteq Used /\ None \notin expired
  BY TypeParts DEF RestOK, RowInv, TableInv, Used
<1>2. /\ expired \subseteq expired' /\ app' = app
      /\ expired' = expired \/ \E s \in Sid : AccessExpires(s)
  BY DEF Next, vars, AccessExpires, CallNext, Send, Answer, LoseCall, Resend, RotationNext,
     AskRefresh, ServerReads, ServerCreates, ServerMarks, Deliver, LoseRefresh, Discard, Save,
     SubmitLogin, SubmitCode, BackToForm, SaveLogin, SignOut, EndSession, ClearTokens, Expire, Restart
<1> DEFINE Refused == \A c \in Call : call'[c].pc \in {"waiting", "retry"} /\ call'[c].token # None
                                      => call'[c].token \in expired'
           RotFresh == \A r \in Req : rot'[r].fresh \notin expired'
           PromiseFresh == \A t \in Tab : promise'[t].pc = "saving"
                                           => promise'[t].fresh \notin expired' /\ OnPhone'
<1>3. /\ call' = call => Refused
      /\ expired' = expired /\ rot' = rot => RotFresh
      /\ expired' = expired /\ promise' = promise => PromiseFresh
      /\ OnPhone' = OnPhone
  BY <1>2 DEF RefusedInv, OnPhone
<1>4. ASSUME NEW t \in Tab, NEW pc \in Woken, Wake(t, pc), expired' = expired
      PROVE  Refused /\ PromiseFresh
  BY <1>1, <1>3, <1>4, WakeFacts DEF RefusedInv, PromiseOK, NoPromise, Woken
<1>5. ASSUME NEW r \in Req, expired' = expired, rot' = [rot EXCEPT ![r] = NoRot] PROVE RotFresh
  BY <1>1, <1>5 DEF RefusedInv, RotOK, NoRot
<1>6. ASSUME NEW s \in Sid, AccessExpires(s) PROVE RefusedInv'
  BY <1>2, <1>3, <1>6 DEF AccessExpires, RefusedInv
<1>7. ASSUME NEW c \in Call, CallNext(c) PROVE RefusedInv'
  <2>1. rot' = rot /\ expired' = expired
    BY <1>7 DEF CallNext, Send, Answer, LoseCall, Resend
  <2>2. Refused
    <3>1. CASE Answer(c)
      BY <1>1, <2>1, <3>1 DEF Answer, Accepts, RefusedInv, CallOK, CallRecord
    <3>2. CASE ~Answer(c)
      BY <1>1, <1>7, <2>1, <3>2 DEF CallNext, Send, LoseCall, Resend, RefusedInv, CallOK, CallRecord
    <3> QED BY <3>1, <3>2
  <2>3. promise' = promise \/ promise' = [promise EXCEPT ![call[c].by].pc = "starting"]
    BY <1>7 DEF CallNext, Send, Answer, LoseCall, Resend
  <2>4. PromiseFresh
    BY <1>1, <1>3, <2>1, <2>3 DEF RefusedInv, PromiseOK, PromiseRecord
  <2> QED BY <1>3, <2>1, <2>2, <2>4 DEF RefusedInv
<1>8. ASSUME NEW r \in Req, NEW t \in tabs, AskRefresh(t, r) PROVE RefusedInv'
  <2>1. CASE Fail(t, jar) /\ UNCHANGED rot
    BY <1>1, <1>3, <1>4, <1>8, <2>1, FailFacts DEF AskRefresh, RefusedInv, Woken
  <2>2. CASE ~(Fail(t, jar) /\ UNCHANGED rot)
    <3> DEFINE token == IF OnPhone /\ AccessInJar = None THEN None ELSE jar.refresh
    <3>1. /\ rot' = [rot EXCEPT ![r] = [pc |-> "sent", token |-> token, fresh |-> None, by |-> t]]
          /\ promise' = [promise EXCEPT ![t].pc = "waiting", ![t].req = r]
          /\ UNCHANGED <<call, expired>>
      BY <1>8, <2>2 DEF AskRefresh
    <3> HIDE DEF token
    <3>2. RotFresh /\ PromiseFresh
      BY <1>1, <1>3, <3>1 DEF RefusedInv, RotOK, PromiseOK, PromiseRecord
    <3> QED BY <1>3, <3>1, <3>2 DEF RefusedInv
  <2> QED BY <2>1, <2>2
<1>9. ASSUME NEW r \in Req, ServerReads(r) \/ ServerCreates(r) \/ ServerMarks(r) PROVE RefusedInv'
  <2>1. UNCHANGED <<call, promise, expired>>
    BY <1>9 DEF ServerReads, ServerCreates, ServerMarks
  <2>2. RotFresh
    <3>1. CASE ServerReads(r)
      BY <1>1, <2>1, <3>1 DEF ServerReads, RefusedInv, RotOK, RotRecord
    <3>2. CASE ServerCreates(r)
      BY <1>1, <2>1, <3>2, FreeFacts DEF ServerCreates, RefusedInv, RotOK, RotRecord
    <3>3. CASE ServerMarks(r)
      BY <1>1, <2>1, <3>3 DEF ServerMarks, RefusedInv, RotOK, RotRecord
    <3> QED BY <1>9, <3>1, <3>2, <3>3
  <2> QED BY <1>3, <2>1, <2>2 DEF RefusedInv
<1>10. ASSUME NEW r \in Req, Deliver(r) PROVE RefusedInv'
  <2> DEFINE t == rot[r].by
  <2>1. t \in Tab /\ expired' = expired /\ RotFresh
    BY <1>1, <1>5, <1>10 DEF Deliver, RotOK, RotRecord
  <2>2. CASE Succeed(t) \/ Fail(t, NoTokens)
    BY <1>4, <2>1, <2>2, FailFacts DEF Succeed, RefusedInv, Woken
  <2>3. CASE /\ OnPhone /\ call' = call
             /\ promise' = [promise EXCEPT ![t].pc = "saving", ![t].fresh = rot[r].fresh,
                                           ![t].left = Keys]
    <3>0. Granted(t, rot[r].fresh) /\ OnPhone'
      BY <1>1, <1>3, <2>1, <2>3, GrantedFacts DEF RotOK, RotRecord
    <3>1. PromiseFresh
      BY <2>1, <3>0 DEF RefusedInv, Granted
    <3> QED BY <1>3, <2>1, <2>3, <3>1 DEF RefusedInv
  <2> QED BY <1>10, <2>2, <2>3 DEF Deliver
<1>11. ASSUME NEW r \in Req, LoseRefresh(r) PROVE RefusedInv'
  <2>0. rot[r].by \in Tab /\ expired' = expired /\ Fail(rot[r].by, jar)
    BY <1>1, <1>11 DEF LoseRefresh, RotOK, RotRecord
  <2>1. rot[r].by \in Tab /\ expired' = expired /\ \E pc \in Woken : Wake(rot[r].by, pc)
    BY <2>0, FailFacts DEF Woken
  <2>2. RotFresh
    BY <1>1, <1>5, <1>11, <2>1 DEF LoseRefresh, RefusedInv, RotOK, RotRecord
  <2> QED BY <1>4, <2>1, <2>2 DEF RefusedInv
<1>12. ASSUME NEW r \in Req, Discard(r) PROVE RefusedInv'
  BY <1>3, <1>5, <1>12 DEF Discard, RefusedInv
<1>13. ASSUME NEW t \in tabs, NEW k \in Keys, Save(t, k) PROVE RefusedInv'
  <2>1. t \in Tab /\ UNCHANGED <<rot, expired>>
    BY <1>1, <1>13 DEF Save
  <2>2. CASE Succeed(t)
    BY <1>3, <1>4, <2>1, <2>2 DEF Succeed, RefusedInv, Woken
  <2>3. CASE promise' = [promise EXCEPT ![t].left = @ \ {k}] /\ UNCHANGED call
    <3>1. PromiseFresh
      BY <1>1, <1>3, <2>1, <2>3 DEF RefusedInv, PromiseOK, PromiseRecord
    <3> QED BY <1>3, <2>1, <2>3, <3>1 DEF RefusedInv
  <2> QED BY <1>13, <2>2, <2>3 DEF Save
<1>14. CASE Restart
  <2>1. Refused
    BY <1>1, <1>2, <1>14 DEF Restart, RefusedInv, CallOK, CallRecord
  <2>2. RotFresh
    BY <1>1, <1>14 DEF Restart, RefusedInv, RotOK, RotRecord, NoRot
  <2>3. PromiseFresh
    BY <1>14 DEF Restart, NoPromise
  <2> QED BY <2>1, <2>2, <2>3 DEF RefusedInv
<1>15. CASE UNCHANGED <<call, rot, promise, expired>>
  BY <1>3, <1>15 DEF RefusedInv
<1>16. ASSUME NEW c \in Call, NEW k \in Keys, Expire(c, k) PROVE RefusedInv'
  <2>1. UNCHANGED <<rot, promise, expired>>
    BY <1>16 DEF Expire
  <2>2. \A d \in Call : call'[d] = call[d] \/ call'[d].pc \in {"expiring", "failed"}
    BY <1>1, <1>16 DEF Expire, CallOK, CallRecord
  <2> QED BY <1>3, <2>1, <2>2 DEF RefusedInv
<1> QED BY <1>6, <1>7, <1>8, <1>9, <1>10, <1>11, <1>12, <1>13, <1>14, <1>15, <1>16
        DEF Next, vars, RotationNext, SubmitLogin, SubmitCode, BackToForm, SaveLogin, SignOut, EndSession, ClearTokens

LEMMA NextFresh ==
  ASSUME IInv, RefusedInv, FreshInv, [Next]_vars
  PROVE  FreshInv'
<1> USE NoneIsNone DEF IInv
<1>1. /\ RotOK /\ PromiseOK /\ CallOK /\ JarOK /\ FormsOK /\ tabs \subseteq Tab
      /\ SignedInOnce' => SignedInOnce
  BY TypeParts, SignedInFacts DEF RestOK
<1> DEFINE Saved == \A t \in Tab : promise'[t].pc = "saving" /\ "access" \notin promise'[t].left
                                  => jar'.access \in {promise'[t].fresh, None}
           Retried == \A c \in Call : call'[c].pc = "retry" /\ call'[c].token # None
                                     => jar'.access # call'[c].token
           SignedIn == login'.pc = "saving" => ~SignedInOnce'
\* No call, and no jar, of another user's tokens.
<1>2. CASE UNCHANGED <<login, promise, jar, call>>
  BY <1>1, <1>2 DEF FreshInv
<1>3. login' = login => SignedIn
  BY <1>1 DEF FreshInv
<1>4. CASE ~SignedInOnce'
  BY <1>4 DEF FreshInv
<1>5. ASSUME jar'.access \in {jar.access, None}, promise' = promise,
             \A c \in Call : call'[c].pc = "retry" => call'[c] = call[c]
      PROVE  SignedInOnce => Saved /\ Retried
  BY <1>5 DEF FreshInv
<1>7. ASSUME NEW t \in Tab, Fail(t, jar) \/ Fail(t, NoTokens), login' = login PROVE FreshInv'
  <2>1. jar'.access \in {jar.access, None}
    BY <1>7, FailFacts DEF NoTokens
  <2>2. \E pc \in {"failed", "expiring"} : Wake(t, pc)
    BY <1>7, FailFacts
  <2>3. promise' = [promise EXCEPT ![t] = NoPromise]
        /\ \A c \in Call : /\ call'[c].token = call[c].token
                           /\ call'[c].pc = "retry" => call[c].pc = "retry"
    BY <2>2, WakeFacts DEF Woken
  <2>4. SignedInOnce => Saved
    <3> SUFFICES ASSUME SignedInOnce, NEW u \in Tab, promise'[u].pc = "saving",
                        "access" \notin promise'[u].left
                 PROVE  jar'.access \in {promise'[u].fresh, None}
      OBVIOUS
    <3>1. u # t /\ promise'[u] = promise[u]
      BY <1>1, <1>7, <2>3 DEF PromiseOK, NoPromise
    <3>2. jar.access \in {promise[u].fresh, None}
      BY <3>1 DEF FreshInv
    <3> QED BY <2>1, <3>1, <3>2
  <2>5. SignedInOnce => Retried
    BY <2>1, <2>3 DEF FreshInv
  <2>6. SignedIn
    BY <1>3, <1>7
  <2> QED BY <1>1, <2>4, <2>5, <2>6 DEF FreshInv
<1>8. ASSUME NEW c \in Call, CallNext(c) PROVE FreshInv'
  <2>1. login' = login /\ jar' = jar
    BY <1>8 DEF CallNext, Send, Answer, LoseCall, Resend
  <2>2. promise' = promise \/ promise' = [promise EXCEPT ![call[c].by].pc = "starting"]
    BY <1>8 DEF CallNext, Send, Answer, LoseCall, Resend
  <2>3. \A d \in Call : call'[d].pc = "retry" => call'[d] = call[d]
    <3>1. CASE Answer(c)
      BY <1>1, <3>1 DEF Answer, CallOK, CallRecord
    <3>2. CASE ~Answer(c)
      BY <1>1, <1>8, <3>2 DEF CallNext, Send, LoseCall, Resend, CallOK, CallRecord
    <3> QED BY <3>1, <3>2
  <2>4. SignedInOnce => Saved
    BY <1>1, <2>1, <2>2 DEF FreshInv, PromiseOK, PromiseRecord
  <2> QED BY <1>1, <1>3, <2>1, <2>3, <2>4 DEF FreshInv
<1>9. ASSUME NEW r \in Req, NEW t \in tabs, AskRefresh(t, r) PROVE FreshInv'
  <2>1. CASE Fail(t, jar) /\ UNCHANGED rot
    BY <1>1, <1>7, <1>9, <2>1 DEF AskRefresh
  <2>2. CASE ~(Fail(t, jar) /\ UNCHANGED rot)
    <3>1. /\ promise' = [promise EXCEPT ![t].pc = "waiting", ![t].req = r]
          /\ UNCHANGED <<jar, call, login>>
      BY <1>9, <2>2 DEF AskRefresh
    <3>2. SignedInOnce => Saved
      BY <1>1, <3>1 DEF FreshInv, PromiseOK, PromiseRecord
    <3> QED BY <1>1, <1>3, <3>1, <3>2 DEF FreshInv
  <2> QED BY <2>1, <2>2
<1>10. ASSUME NEW r \in Req, Deliver(r) PROVE FreshInv'
  <2> DEFINE t == rot[r].by
  <2>1. t \in Tab /\ login' = login /\ rot[r].fresh \notin expired
    BY <1>1, <1>10 DEF Deliver, RotOK, RotRecord, RefusedInv
  <2>2. CASE Fail(t, NoTokens)
    BY <1>7, <2>1, <2>2
  <2>3. CASE ~OnPhone /\ Succeed(t) /\ jar' = [access |-> rot[r].fresh, refresh |-> rot[r].fresh]
    <3>1. Saved
      BY <1>1, <2>1, <2>3, WakeFacts DEF Succeed, RefusedInv, PromiseOK, NoPromise, Woken
    <3>2. Retried
      BY <2>1, <2>3, WakeFacts DEF Succeed, RefusedInv, Woken
    <3> QED BY <1>3, <2>1, <3>1, <3>2 DEF FreshInv
  <2>4. CASE /\ jar' = jar /\ call' = call
             /\ promise' = [promise EXCEPT ![t].pc = "saving", ![t].fresh = rot[r].fresh,
                                           ![t].left = Keys]
    <3>1. SignedInOnce => Saved
      BY <1>1, <2>1, <2>4 DEF FreshInv, PromiseOK, PromiseRecord, Keys
    <3> QED BY <1>1, <1>3, <2>1, <2>4, <3>1 DEF FreshInv
  <2> QED BY <1>10, <2>2, <2>3, <2>4 DEF Deliver
<1>11. ASSUME NEW r \in Req, LoseRefresh(r) PROVE FreshInv'
  <2>1. rot[r].by \in Tab /\ login' = login /\ Fail(rot[r].by, jar)
    BY <1>1, <1>11 DEF LoseRefresh, RotOK, RotRecord
  <2> QED BY <1>7, <2>1
<1>12. ASSUME NEW t \in tabs, NEW k \in Keys, Save(t, k) PROVE FreshInv'
  <2>1. /\ t \in Tab /\ login' = login /\ promise[t].pc = "saving"
        /\ promise[t].fresh \notin expired /\ k \in promise[t].left
        /\ jar' = [jar EXCEPT ![k] = promise[t].fresh]
    BY <1>1, <1>12 DEF Save, RefusedInv
  <2>2. /\ k = "access" => jar'.access = promise[t].fresh
        /\ k = "refresh" => jar'.access = jar.access
    BY <1>1, <2>1 DEF JarOK
  <2>3. \A u \in Tab : promise[u].pc = "saving" => u = t
    BY <2>1 DEF WaitInv, PromiseInv, TabInv, RefusedInv
  <2>4. CASE Succeed(t) /\ promise[t].left = {k}
    <3>1. Saved
      BY <1>1, <2>3, <2>4, WakeFacts, <2>1 DEF Succeed, PromiseOK, NoPromise, Woken
    <3>2. SignedInOnce => jar'.access \in {promise[t].fresh, None}
      BY <2>1, <2>2, <2>4 DEF FreshInv
    <3>3. SignedInOnce => Retried
      <4> SUFFICES ASSUME SignedInOnce, NEW c \in Call, call'[c].pc = "retry", call'[c].token # None
                   PROVE  jar'.access # call'[c].token
        OBVIOUS
      <4>1. call[c].token = call'[c].token /\ call[c].pc \in {"waiting", "retry"}
        BY <2>1, <2>4, WakeFacts DEF Succeed, Woken
      <4>2. call[c].token \in expired
        BY <4>1 DEF RefusedInv
      <4> QED BY <2>1, <3>2, <4>1, <4>2
    <3> QED BY <1>1, <1>3, <2>1, <3>1, <3>3 DEF FreshInv
  <2>5. CASE promise' = [promise EXCEPT ![t].left = @ \ {k}] /\ UNCHANGED call
    <3>1. SignedInOnce => Saved
      BY <1>1, <2>1, <2>2, <2>3, <2>5 DEF FreshInv, PromiseOK, PromiseRecord
    <3>2. SignedInOnce => Retried
      <4> SUFFICES ASSUME SignedInOnce, NEW c \in Call, call[c].pc = "retry", call[c].token # None
                   PROVE  jar'.access # call[c].token
        BY <2>5
      <4>1. call[c].token \in expired /\ jar.access # call[c].token
        BY DEF RefusedInv, FreshInv
      <4> QED BY <2>1, <2>2, <4>1
    <3> QED BY <1>1, <1>3, <2>1, <3>1, <3>2 DEF FreshInv
  <2> QED BY <1>12, <2>4, <2>5 DEF Save
<1>13. ASSUME SubmitLogin \/ SubmitCode PROVE FreshInv'
  <2>1. CASE \E s \in FreeSid : IssueSession(s)
    BY <1>4, <1>13, <2>1, SubmitFacts, SignedInFacts
  <2>2. CASE UNCHANGED jar /\ login'.pc # "saving"
    BY <1>1, <1>13, <2>2, SubmitFacts DEF FreshInv
  <2> QED BY <1>13, <2>1, <2>2, SubmitFacts
<1>14. CASE BackToForm
  BY <1>1, <1>14 DEF BackToForm, FreshInv, FormsOK
<1>15. ASSUME NEW k \in Keys, SaveLogin(k) PROVE FreshInv'
  BY <1>1, <1>4, <1>15 DEF SaveLogin, FreshInv
<1>16. ASSUME NEW k \in Keys, ClearTokens(k) PROVE FreshInv'
  <2>1. jar'.access \in {jar.access, None} /\ UNCHANGED <<login, promise, call>>
    BY <1>1, <1>16, KeyFacts DEF ClearTokens, Deleted
  <2> QED BY <1>1, <1>3, <1>5, <2>1 DEF FreshInv
<1>18. ASSUME NEW c \in Call, NEW k \in Keys, Expire(c, k) PROVE FreshInv'
  <2>1. jar'.access \in {jar.access, None} /\ UNCHANGED <<login, promise>>
    BY <1>1, <1>18, KeyFacts DEF Expire, Deleted
  <2>2. \A d \in Call : call'[d].pc = "retry" => call'[d] = call[d]
    BY <1>1, <1>18 DEF Expire, CallOK, CallRecord
  <2> QED BY <1>1, <1>3, <1>5, <2>1, <2>2 DEF FreshInv
<1>17. CASE Restart
  BY <1>1, <1>17 DEF Restart, FreshInv, CallOK, CallRecord, NoPromise, LoginForm
<1> QED BY <1>2, <1>8, <1>9, <1>10, <1>11, <1>12, <1>13, <1>14, <1>15, <1>16, <1>17, <1>18
        DEF Next, vars, AccessExpires, RotationNext, ServerReads, ServerCreates, ServerMarks,
            Discard, SignOut, EndSession

\* A call that was refused is not sent again with the token it was refused with,
\* as long as nobody signs in a second time: the two writes of setTokens, their
\* order, and whatever signs out, fails or is killed between them.
THEOREM RetriesAreFresh == Spec => RetryHasNewToken
<1>1. Init => IInv /\ RefusedInv /\ FreshInv
  <2> SUFFICES ASSUME Init PROVE RefusedInv /\ FreshInv
    BY Coherence
  <2> QED BY DEF Init, RefusedInv, FreshInv, NoPromise, LoginForm
<1>2. IInv /\ RefusedInv /\ FreshInv /\ [Next]_vars => (IInv /\ RefusedInv /\ FreshInv)'
  BY Coherence, NextRefused, NextFresh
<1>3. IInv /\ FreshInv /\ [Next]_vars
        => [\A c \in Call : call[c].pc = "retry" /\ call'[c].pc = "resent"
              /\ call[c].token # None /\ SignedInOnce => call'[c].token # call[c].token]_vars
  <2> SUFFICES ASSUME IInv, FreshInv, Next, NEW c \in Call, call[c].pc = "retry",
                      call'[c].pc = "resent", call[c].token # None, SignedInOnce
               PROVE  call'[c].token # call[c].token
    BY DEF vars
  <2>1. CallOK /\ jar.access # call[c].token /\ call' # call
    BY TypeParts DEF IInv, FreshInv
  <2>2. Resend(c)
    <3>1. ASSUME NEW t \in Tab, NEW pc \in Woken, Wake(t, pc) PROVE FALSE
      BY <3>1, WakeFacts DEF IInv, Woken
    <3>7. ASSUME NEW t \in Tab, NEW store, Fail(t, store) \/ Succeed(t) PROVE FALSE
      BY <3>1, <3>7, FailFacts DEF Succeed, Woken
    <3>8. ASSUME NEW d \in Call, NEW k \in Keys, Expire(d, k) PROVE FALSE
      BY <2>1, <3>8 DEF Expire, CallOK, CallRecord
    <3>2. ASSUME NEW d \in Call, CallNext(d) PROVE Resend(c)
      <4>1. d = c
        BY <2>1, <3>2 DEF CallNext, Send, Answer, LoseCall, Resend, CallOK
      <4> QED BY <2>1, <3>2, <4>1 DEF CallNext, Send, Answer, LoseCall, CallOK, CallRecord
    <3>3. CASE Restart
      BY <2>1, <3>3 DEF Restart, CallOK, CallRecord
    <3>4. \A r \in Req : rot[r].by \in Tab \cup {None} /\ tabs \subseteq Tab
      BY TypeParts DEF IInv, RotOK, RotRecord, RestOK
    <3>5. ASSUME NEW r \in Req, RotationNext(r) PROVE FALSE
      BY <2>1, <3>4, <3>5, <3>7
         DEF RotationNext, AskRefresh, ServerReads, ServerCreates, ServerMarks, Deliver,
             LoseRefresh, Discard
    <3>6. ASSUME NEW t \in tabs, NEW k \in Keys, Save(t, k) PROVE FALSE
      BY <2>1, <3>6, <3>7, TypeParts DEF IInv, RestOK, Save
    <3> QED BY <2>1, <3>2, <3>3, <3>5, <3>6, <3>8
            DEF Next, AccessExpires, SubmitLogin, SubmitCode, BackToForm, SaveLogin, SignOut,
                EndSession, ClearTokens
  <2>3. call'[c].token = AccessInJar
    BY <2>1, <2>2 DEF Resend, CallOK
  <2> QED BY <2>1, <2>3 DEF AccessInJar
<1> QED BY <1>1, <1>2, <1>3, PTL DEF Spec, RetryHasNewToken
-----------------------------------------------------------------------------
(* --------------------------- one rotation at a time --------------------- *)

\* The refresh token is presented.
Asked(t, r) ==
  /\ t \in tabs /\ promise[t].pc = "starting" /\ jar.refresh # None
  /\ rot[r].pc = "idle"
  /\ rot' = [rot EXCEPT ![r] = [pc |-> "sent", token |-> jar.refresh, fresh |-> None, by |-> t]]
  /\ promise' = [promise EXCEPT ![t].pc = "waiting", ![t].req = r]
  /\ UNCHANGED <<session, jar, login>>

LEMMA AskFacts ==
  ASSUME NEW r \in Req, NEW t \in tabs, AskRefresh(t, r)
  PROVE  /\ \/ Asked(t, r)
            \/ /\ promise[t].pc = "starting" /\ Fail(t, jar)
               /\ UNCHANGED <<session, rot, login>>
         /\ UNCHANGED <<reuse, drops, stops>>
BY DEF AskRefresh, Asked

\* What a step does to a rotation.
LEMMA RotFacts ==
  ASSUME IInv, [Next]_vars, NEW r \in Req
  PROVE  \/ /\ rot'[r].token = rot[r].token /\ rot'[r].fresh = rot[r].fresh
            /\ rot'[r].pc \in {"sent", "refused"} => rot[r].pc \in {"sent", "refused"}
         \/ rot'[r] = NoRot
         \/ \E t \in tabs : Asked(t, r)
         \/ /\ ServerCreates(r) /\ rot'[r].token = rot[r].token /\ rot'[r].pc = "created"
            /\ Written(rot'[r].fresh) /\ rot'[r].fresh \in FreeSid
<1>1. RotOK /\ SessionOK
  BY TypeParts DEF IInv
<1>2. CASE rot' = rot
  BY <1>2
<1>3. ASSUME NEW q \in Req, q # r, RotationNext(q) PROVE rot'[r] = rot[r]
  <2>1. ASSUME NEW t \in tabs, AskRefresh(t, q) PROVE rot'[r] = rot[r]
    BY <1>1, <1>3, <2>1, AskFacts DEF Asked, RotOK
  <2>2. CASE \E t \in tabs : AskRefresh(t, q)
    BY <2>1, <2>2
  <2>3. CASE ServerReads(q) \/ ServerCreates(q) \/ ServerMarks(q)
    BY <1>1, <1>3, <2>3 DEF ServerReads, ServerCreates, ServerMarks, RotOK
  <2>4. CASE Deliver(q) \/ LoseRefresh(q) \/ Discard(q)
    BY <1>1, <1>3, <2>4 DEF Deliver, LoseRefresh, Discard, RotOK
  <2> QED BY <1>3, <2>2, <2>3, <2>4 DEF RotationNext
<1>4. CASE RotationNext(r)
  <2>1. ASSUME NEW t \in tabs, AskRefresh(t, r) PROVE Asked(t, r) \/ rot' = rot
    BY <2>1, AskFacts
  <2>2. CASE ServerReads(r) \/ ServerMarks(r)
    BY <1>1, <2>2 DEF ServerReads, ServerMarks, RotOK, RotRecord
  <2>3. CASE ServerCreates(r)
    <3>1. PICK s \in FreeSid :
            /\ session' = [session EXCEPT ![s] = [state |-> "live", to |-> None,
                                                  root |-> session[rot[r].token].root]]
            /\ rot' = [rot EXCEPT ![r].pc = "created", ![r].fresh = s]
      BY <2>3 DEF ServerCreates
    <3>2. Written(s)
      BY <1>1, <2>3, <3>1, FreeFacts DEF Written, SessionOK, IInv
    <3> QED BY <1>1, <2>3, <3>1, <3>2 DEF RotOK, RotRecord
  <2>4. CASE Deliver(r) \/ LoseRefresh(r) \/ Discard(r)
    BY <1>1, <2>4 DEF Deliver, LoseRefresh, Discard, RotOK, RotRecord
  <2> QED BY <1>4, <2>1, <2>2, <2>3, <2>4 DEF RotationNext
<1>5. CASE Restart
  BY <1>1, <1>5 DEF Restart, RotOK, RotRecord
<1> QED BY <1>2, <1>3, <1>4, <1>5
        DEF Next, vars, AccessExpires, CallNext, Send, Answer, LoseCall, Resend, Save,
            SubmitLogin, SubmitCode, BackToForm, SaveLogin, SignOut, EndSession, ClearTokens, Expire

\* The refresh token of a sign-in is written.
LoginSaved ==
  /\ SaveLogin("refresh") /\ "refresh" \in login.left
  /\ login'.fresh # None => "refresh" \notin login'.left

\* Where the stored refresh token, the fresh one of a promise and that of a
\* sign-in come from.
LEMMA HolderFacts ==
  ASSUME IInv, [Next]_vars
  PROVE  /\ \/ jar'.refresh \in {jar.refresh, None}
            \/ LoginSaved /\ jar'.refresh = login.fresh
            \/ \E t \in tabs : Save(t, "refresh") /\ jar'.refresh = promise[t].fresh
            \/ \E r \in Req : Deliver(r) /\ jar'.refresh = rot[r].fresh /\ rot'[r] = NoRot
            \/ \E s \in FreeSid : IssueSession(s) /\ rot' = rot /\ jar'.refresh = s /\ login'.fresh = None
         /\ \/ login'.fresh = None
            \/ login'.fresh = login.fresh /\ login'.left \subseteq login.left
            \/ \E s \in FreeSid : IssueSession(s) /\ rot' = rot /\ promise' = promise
                                 /\ jar' = jar /\ login'.fresh = s
         /\ \A t \in Tab :
              \/ promise'[t].fresh \in {promise[t].fresh, None}
              \/ \E r \in Req : /\ Deliver(r) /\ rot[r].by = t /\ promise'[t].fresh = rot[r].fresh
                                /\ rot'[r] = NoRot /\ jar' = jar /\ login' = login
<1>1. /\ RotOK /\ PromiseOK /\ JarOK /\ FormsOK /\ tabs \subseteq Tab
      /\ \A t \in Tab : promise[t].pc = "none" => promise[t].fresh = None
  BY TypeParts DEF IInv, RestOK, WaitInv, PromiseInv, NoPromise
<1> DEFINE FromJar == \/ jar'.refresh \in {jar.refresh, None}
                      \/ LoginSaved /\ jar'.refresh = login.fresh
                      \/ \E t \in tabs : Save(t, "refresh") /\ jar'.refresh = promise[t].fresh
                      \/ \E r \in Req : Deliver(r) /\ jar'.refresh = rot[r].fresh /\ rot'[r] = NoRot
                      \/ \E s \in FreeSid : /\ IssueSession(s) /\ rot' = rot /\ jar'.refresh = s
                                            /\ login'.fresh = None
           FromLogin == \/ login'.fresh = None
                        \/ login'.fresh = login.fresh /\ login'.left \subseteq login.left
                        \/ \E s \in FreeSid : /\ IssueSession(s) /\ rot' = rot /\ promise' = promise
                                              /\ jar' = jar /\ login'.fresh = s
           FromPromise(t) ==
              \/ promise'[t].fresh \in {promise[t].fresh, None}
              \/ \E r \in Req : /\ Deliver(r) /\ rot[r].by = t /\ promise'[t].fresh = rot[r].fresh
                                /\ rot'[r] = NoRot /\ jar' = jar /\ login' = login
           Goal == FromJar /\ FromLogin /\ \A t \in Tab : FromPromise(t)
<1>2. CASE UNCHANGED <<jar, login, promise>>
  BY <1>2
<1>3. ASSUME NEW t \in Tab, NEW pc \in Woken, Wake(t, pc)
      PROVE  \A u \in Tab : promise'[u].fresh \in {promise[u].fresh, None}
  BY <1>1, <1>3, WakeFacts DEF IInv, PromiseOK, NoPromise
<1>4. ASSUME NEW t \in Tab, Fail(t, jar) \/ Fail(t, NoTokens), login' = login PROVE Goal
  <2>1. jar'.refresh \in {jar.refresh, None}
    BY <1>4, FailFacts DEF NoTokens
  <2>2. \E pc \in Woken : Wake(t, pc)
    BY <1>4, FailFacts DEF Woken
  <2> QED BY <1>3, <1>4, <2>1, <2>2
<1>5. ASSUME NEW c \in Call, CallNext(c) PROVE Goal
  <2>1. /\ UNCHANGED <<jar, login>>
        /\ promise' = promise \/ promise' = [promise EXCEPT ![call[c].by].pc = "starting"]
    BY <1>5 DEF CallNext, Send, Answer, LoseCall, Resend
  <2> QED BY <1>1, <2>1 DEF PromiseOK, PromiseRecord
<1>6. ASSUME NEW r \in Req, NEW t \in tabs, AskRefresh(t, r) PROVE Goal
  <2>1. CASE Asked(t, r)
    BY <1>1, <2>1 DEF Asked, PromiseOK, PromiseRecord
  <2> QED BY <1>1, <1>4, <1>6, <2>1, AskFacts
<1>7. ASSUME NEW r \in Req, Deliver(r) PROVE Goal
  <2> DEFINE t == rot[r].by
  <2>1. t \in Tab /\ rot' = [rot EXCEPT ![r] = NoRot] /\ rot'[r] = NoRot /\ login' = login
    BY <1>1, <1>7 DEF Deliver, RotOK, RotRecord
  <2>2. CASE Fail(t, NoTokens)
    BY <1>4, <2>1, <2>2
  <2>3. CASE Succeed(t) /\ jar' = [access |-> rot[r].fresh, refresh |-> rot[r].fresh]
    BY <1>3, <1>7, <2>1, <2>3 DEF Succeed, Woken
  <2>4. CASE /\ jar' = jar
             /\ promise' = [promise EXCEPT ![t].pc = "saving", ![t].fresh = rot[r].fresh,
                                           ![t].left = Keys]
    <3>1. Granted(t, rot[r].fresh)
      BY <1>1, <2>1, <2>4, GrantedFacts DEF RotOK, RotRecord
    <3> QED BY <1>1, <1>7, <2>1, <2>4, <3>1 DEF Granted
  <2> QED BY <1>7, <2>2, <2>3, <2>4 DEF Deliver
<1>8. ASSUME NEW r \in Req, LoseRefresh(r) PROVE Goal
  BY <1>1, <1>4, <1>8 DEF LoseRefresh, RotOK, RotRecord
<1>9. ASSUME NEW t \in tabs, NEW k \in Keys, Save(t, k) PROVE Goal
  <2>1. t \in Tab /\ login' = login /\ jar' = [jar EXCEPT ![k] = promise[t].fresh]
    BY <1>1, <1>9 DEF Save
  <2>2. FromJar
    BY <1>1, <1>9, <2>1 DEF JarOK
  <2>3. CASE Succeed(t)
    BY <1>3, <2>1, <2>2, <2>3 DEF Succeed, Woken
  <2>4. CASE promise' = [promise EXCEPT ![t].left = @ \ {k}]
    <3>1. \A u \in Tab : promise'[u].fresh = promise[u].fresh
      BY <1>1, <2>4 DEF PromiseOK, PromiseRecord
    <3> QED BY <2>1, <2>2, <3>1
  <2> QED BY <1>9, <2>3, <2>4 DEF Save
<1>10. CASE SubmitLogin \/ SubmitCode
  <2>1. TypeOK /\ rot' = rot /\ promise' = promise
    BY <1>10, SubmitFacts DEF IInv
  <2>2. ASSUME NEW s \in FreeSid, IssueSession(s) PROVE Goal
    <3>1. CASE OnPhone
      <4>1. jar' = jar /\ login'.fresh = s
        BY <2>2, <3>1 DEF IssueSession
      <4> QED BY <2>1, <2>2, <4>1
    <3>2. CASE ~OnPhone
      <4>1. jar'.refresh = s /\ login'.fresh = None
        BY <2>2, <3>2 DEF IssueSession, LoginForm
      <4> QED BY <2>1, <2>2, <4>1
    <3> QED BY <3>1, <3>2
  <2> QED BY <1>10, <2>1, <2>2, SubmitFacts
<1>11. CASE BackToForm
  BY <1>1, <1>11 DEF BackToForm, FormsOK
<1>14. ASSUME NEW k \in Keys, SaveLogin(k) PROVE Goal
  <2>1. login' = LoginForm \/ login' = [login EXCEPT !.left = @ \ {k}]
    BY <1>14 DEF SaveLogin
  <2>2. \/ login'.fresh = None
        \/ login'.fresh = login.fresh /\ login'.left = login.left \ {k}
    BY <1>1, <2>1 DEF LoginForm, FormsOK
  <2>3. k \in login.left /\ promise' = promise
    BY <1>14 DEF SaveLogin
  <2>4. CASE k = "refresh"
    BY <1>1, <1>14, <2>2, <2>3, <2>4, KeyFacts DEF LoginSaved
  <2>5. CASE k = "access"
    BY <1>1, <1>14, <2>2, <2>3, <2>5, KeyFacts
  <2> QED BY <2>4, <2>5 DEF Keys
<1>15. ASSUME NEW k \in Keys, ClearTokens(k) \/ \E c \in Call : Expire(c, k) PROVE Goal
  <2>1. UNCHANGED <<login, promise>> /\ Deleted(k)
    BY <1>15 DEF ClearTokens, Expire, Deleted
  <2> QED BY <1>1, <2>1, KeyFacts
<1>12. CASE Restart
  BY <1>12 DEF Restart, NoPromise, LoginForm
<1>13. Goal
  BY <1>2, <1>5, <1>6, <1>7, <1>8, <1>9, <1>10, <1>11, <1>12, <1>14, <1>15
     DEF Next, vars, AccessExpires, RotationNext, ServerReads, ServerCreates, ServerMarks,
         Discard, SignOut, EndSession
<1> QED BY <1>13

LEMMA NextDistinct ==
  ASSUME IInv, DistinctInv, [Next]_vars
  PROVE  DistinctInv'
<1> USE NoneIsNone
<1>1. /\ RotOK /\ tabs \subseteq Tab /\ NameInv
      /\ \A s \in FreeSid : s \notin Used \cup {None}
  BY TypeParts, FreeFacts DEF IInv, RestOK, RowInv
<1>2. ASSUME NEW r \in Req, rot'[r].fresh = rot[r].fresh, rot[r].fresh # None
      PROVE  /\ rot[r].fresh \notin {login'.fresh, jar'.refresh}
             /\ \A t \in Tab : rot[r].fresh # promise'[t].fresh
             /\ \A q \in Req : /\ rot[r].fresh # rot'[q].token
                               /\ rot[r].fresh = rot'[q].fresh => r = q
  <2>1. rot[r].fresh \in Used /\ rot'[r] # NoRot
    BY <1>1, <1>2 DEF NameInv, NoRot
  <2>2. rot[r].fresh # login'.fresh
    BY <1>1, <1>2, <2>1, HolderFacts DEF DistinctInv
  <2>3. rot[r].fresh # jar'.refresh
    BY <1>1, <1>2, <2>1, HolderFacts DEF DistinctInv
  <2>4. \A t \in Tab : rot[r].fresh # promise'[t].fresh
    BY <1>1, <1>2, <2>1, HolderFacts DEF DistinctInv
  <2>5. ASSUME NEW q \in Req
        PROVE  rot[r].fresh # rot'[q].token /\ (rot[r].fresh = rot'[q].fresh => r = q)
    <3>1. CASE \E t \in tabs : Asked(t, q)
      BY <1>1, <1>2, <3>1 DEF Asked, DistinctInv, RotOK
    <3>2. CASE ~\E t \in tabs : Asked(t, q)
      BY <1>1, <1>2, <2>1, <3>2, RotFacts DEF DistinctInv, NoRot
    <3> QED BY <3>1, <3>2
  <2> QED BY <2>2, <2>3, <2>4, <2>5
<1>3. ASSUME NEW r \in Req, ServerCreates(r), rot'[r].fresh \in FreeSid
      PROVE  /\ rot'[r].fresh \notin {login'.fresh, jar'.refresh}
             /\ \A t \in Tab : rot'[r].fresh # promise'[t].fresh
             /\ \A q \in Req : /\ rot'[r].fresh # rot'[q].token
                               /\ rot'[r].fresh = rot'[q].fresh => r = q
  <2>1. /\ UNCHANGED <<jar, login, promise>>
        /\ \A q \in Req : rot'[q].token = rot[q].token /\ (q # r => rot'[q] = rot[q])
    BY <1>1, <1>3 DEF ServerCreates, RotOK, RotRecord
  <2>2. rot'[r].fresh \notin Used \cup {None}
    BY <1>1, <1>3
  <2>3. /\ login'.fresh \in Used \cup {None} /\ jar'.refresh \in Used \cup {None}
        /\ \A t \in Tab : promise'[t].fresh \in Used \cup {None}
        /\ \A q \in Req : /\ rot'[q].token \in Used \cup {None}
                          /\ q # r => rot'[q].fresh \in Used \cup {None}
    <3>1. /\ login.fresh \in Used \cup {None} /\ jar.refresh \in Used \cup {None}
          /\ \A t \in Tab : promise[t].fresh \in Used \cup {None}
          /\ \A q \in Req : rot[q].token \in Used \cup {None} /\ rot[q].fresh \in Used \cup {None}
      BY <1>1 DEF NameInv
    <3> HIDE DEF Used
    <3> QED BY <2>1, <3>1
  <2> HIDE DEF Used
  <2> QED BY <2>2, <2>3
<1>4. ASSUME NEW r \in Req, rot'[r].fresh # None
      PROVE  /\ rot'[r].fresh \notin {login'.fresh, jar'.refresh}
             /\ \A t \in Tab : rot'[r].fresh # promise'[t].fresh
             /\ \A q \in Req : /\ rot'[r].fresh # rot'[q].token
                               /\ rot'[r].fresh = rot'[q].fresh => r = q
  <2>1. CASE \E t \in tabs : Asked(t, r)
    BY <1>1, <1>4, <2>1 DEF Asked, RotOK
  <2>2. CASE ~\E t \in tabs : Asked(t, r)
    BY <1>2, <1>3, <1>4, <2>2, RotFacts DEF NoRot
  <2> QED BY <2>1, <2>2
<1>5. ASSUME login'.fresh # None
      PROVE  /\ "refresh" \in login'.left => login'.fresh # jar'.refresh
             /\ \A t \in Tab : login'.fresh # promise'[t].fresh
  <2>1. CASE login'.fresh = login.fresh /\ login'.left \subseteq login.left
    <3>1. \A t \in Tab : login'.fresh # promise'[t].fresh
      BY <1>5, <2>1, HolderFacts DEF DistinctInv
    <3>2. login.fresh \in Used
      BY <1>1, <1>5, <2>1 DEF NameInv
    <3>3. ASSUME "refresh" \in login'.left PROVE login'.fresh # jar'.refresh
      BY <1>1, <1>5, <2>1, <3>2, <3>3, HolderFacts DEF DistinctInv, LoginSaved
    <3> QED BY <3>1, <3>3
  <2>2. CASE login'.fresh \in FreeSid /\ jar' = jar /\ promise' = promise
    BY <1>1, <2>2 DEF NameInv
  <2> QED BY <1>5, <2>1, <2>2, HolderFacts
<1> QED BY <1>4, <1>5 DEF DistinctInv

-----------------------------------------------------------------------------
\* A row that was never rotated, and is not being rotated.
Clean(x) == session[x].to = None /\ \A r \in Req : rot[r].token # x

\* ... after a step, for a row x named before it or after it.
CleanNext(x) == session'[x].to = None /\ \A r \in Req : rot'[r].token # x

\* Nothing cuts the client off from what it stores, or from the server.
Steady == stops = 0 /\ ~drops /\ \E t \in Tab : tabs = {t}

\* In a steady client, every token that is presented is clean, for the stored
\* one is, but while its replacement is fetched or written.
ReuseInv ==
  Steady =>
    /\ ~reuse
    /\ \A r \in Req : rot[r].pc \in {"sent", "refused"} =>
         /\ session[rot[r].token].to = None
         /\ \A q \in Req \ {r} : rot[q].token # rot[r].token
    /\ login.fresh # None /\ "refresh" \in login.left => Clean(login.fresh)
    /\ \A t \in Tab : promise[t].fresh # None => Clean(promise[t].fresh)
    /\ \A r \in Req : rot[r].fresh # None => session[rot[r].fresh].to = None
    /\ jar.refresh # None =>
         \/ Clean(jar.refresh)
         \/ \E t \in Tab : promise[t].pc = "saving" /\ "refresh" \in promise[t].left
         \/ \E t \in Tab : promise[t].pc = "waiting" /\ rot[promise[t].req].token = jar.refresh

LEMMA SteadyFacts ==
  ASSUME IInv, [Next]_vars
  PROVE  /\ tabs' = tabs /\ OnPhone' = OnPhone
         /\ Steady' => Steady /\ stops' = stops /\ ~Restart
         /\ Steady' => \A r \in Req : ~LoseRefresh(r)
         /\ drops => drops'
<1>1. stops \in Nat /\ drops \in BOOLEAN
  BY TypeParts, ClientsAssumption DEF IInv, RestOK
<1>2. /\ tabs' = tabs /\ app' = app
      /\ (stops' = stops /\ ~Restart) \/ stops' = stops + 1
      /\ drops' = drops \/ drops' = TRUE
  BY <1>1 DEF Next, vars, AccessExpires, CallNext, Send, Answer, LoseCall, Resend, RotationNext,
     AskRefresh, ServerReads, ServerCreates, ServerMarks, Deliver, LoseRefresh, Discard, Save,
     SubmitLogin, SubmitCode, BackToForm, SaveLogin, SignOut, EndSession, ClearTokens, Expire, Restart
<1> QED BY <1>1, <1>2 DEF Steady, OnPhone, LoseRefresh

\* A clean row is spoilt by being presented, and by nothing else.
LEMMA CleanFacts ==
  ASSUME IInv, [Next]_vars
  PROVE  /\ \A x \in Used : \/ session'[x].to = session[x].to
                            \/ \E r \in Req : ServerMarks(r) /\ rot[r].token = x
         /\ \A s \in Sid : Written(s) => session'[s].to = None /\ CleanNext(s)
         /\ \A x \in Used : Clean(x) =>
              CleanNext(x) \/ \E r \in Req, t \in tabs : Asked(t, r) /\ x = jar.refresh
<1> USE NoneIsNone
<1>1. SessionOK /\ RotOK /\ NameInv
  BY TypeParts DEF IInv, RowInv
<1>2. ASSUME NEW x \in Used
      PROVE  session'[x].to = session[x].to \/ \E r \in Req : ServerMarks(r) /\ rot[r].token = x
  <2>1. CASE \A y \in Sid : KeptOrRevoked(y)
    BY <2>1 DEF KeptOrRevoked, Used
  <2>2. CASE \E s \in FreeSid : Written(s)
    BY <1>1, <2>2 DEF Written, SessionOK, Used
  <2>3. ASSUME NEW r \in Req, ServerMarks(r), rot[r].token # x PROVE session'[x] = session[x]
    BY <1>1, <2>3 DEF ServerMarks, SessionOK, Used
  <2> QED BY <2>1, <2>2, <2>3, SessionSteps DEF IInv
<1>3. ASSUME NEW r \in Req
      PROVE  \/ rot'[r].token \in {rot[r].token, None}
             \/ \E t \in tabs : Asked(t, r) /\ rot'[r].token = jar.refresh
  <2>1. \A t \in tabs : Asked(t, r) => rot'[r].token = jar.refresh
    BY <1>1 DEF Asked, RotOK
  <2> QED BY <2>1, RotFacts DEF NoRot
<1>4. ASSUME NEW s \in Sid, Written(s) PROVE session'[s].to = None /\ CleanNext(s)
  <2>1. session'[s].to = None /\ s \notin Used
    BY <1>1, <1>4 DEF Written, SessionOK
  <2>2. \A r \in Req : rot'[r].token # s
    BY <1>1, <1>3, <2>1 DEF NameInv
  <2> QED BY <2>1, <2>2 DEF CleanNext
<1>5. ASSUME NEW x \in Used, Clean(x), ~\E r \in Req, t \in tabs : Asked(t, r) /\ x = jar.refresh
      PROVE  CleanNext(x)
  BY <1>2, <1>3, <1>5 DEF Clean, CleanNext, Used
<1> QED BY <1>2, <1>4, <1>5

LEMMA NextReuse ==
  ASSUME IInv, DistinctInv, ReuseInv, [Next]_vars
  PROVE  ReuseInv'
<1> SUFFICES ASSUME Steady' PROVE ReuseInv'
  BY DEF ReuseInv
<1> USE NoneIsNone
<1>1. /\ RotOK /\ PromiseOK /\ JarOK /\ SessionOK /\ tabs \subseteq Tab /\ NameInv
      /\ \A s \in FreeSid : s \in Sid /\ s \notin Used \cup {None}
      /\ None \notin Used
  BY TypeParts, FreeFacts DEF IInv, RestOK, RowInv, Used
<1>2. /\ Steady /\ tabs' = tabs /\ ~Restart
      /\ \A t, u \in tabs : t = u
      /\ \A r \in Req : ~LoseRefresh(r)
  BY SteadyFacts DEF Steady
<1>3. /\ \A t \in Tab : promise[t].pc # "none" => t \in tabs
      /\ \A r \in Req : rot[r].by # None => promise[rot[r].by].pc = "waiting" /\ promise[rot[r].by].req = r
      /\ \A t \in Tab : promise[t].pc = "waiting" => promise[t].req \in Req /\ rot[promise[t].req].by = t
      /\ \A t \in Tab : promise[t].pc = "saving" <=> promise[t].fresh # None
  BY DEF IInv, WaitInv, PromiseInv, RotInv
\* What is presented is clean.
<1>4. ASSUME NEW t \in tabs, NEW r \in Req, Asked(t, r)
      PROVE  /\ Clean(jar.refresh) /\ jar.refresh \in Used
             /\ \A u \in Tab : promise[u].fresh = None
  <2>1. \A u \in Tab : promise[u].pc \notin {"saving", "waiting"}
    BY <1>1, <1>2, <1>3, <1>4 DEF Asked
  <2> QED BY <1>1, <1>2, <1>3, <1>4, <2>1 DEF Asked, ReuseInv, NameInv
<1>5. ~reuse'
  <2>1. ASSUME NEW r \in Req, ServerReads(r) PROVE ~reuse'
    BY <1>2, <2>1 DEF ServerReads, ReuseInv
  <2> QED BY <1>2, <2>1 DEF ReuseInv, Next, vars, AccessExpires, CallNext, Send, Answer, LoseCall,
     Resend, RotationNext, AskRefresh, ServerCreates, ServerMarks, Deliver, LoseRefresh, Discard, Save,
     SubmitLogin, SubmitCode, BackToForm, SaveLogin, SignOut, EndSession, ClearTokens, Expire, Restart
\* Tokens that others present stay theirs.
<1>6. ASSUME NEW q \in Req, ~\E t \in tabs : Asked(t, q)
      PROVE  rot'[q].token \in {rot[q].token, None}
  BY <1>6, RotFacts DEF NoRot
<1>7. ASSUME NEW r \in Req, rot'[r].pc \in {"sent", "refused"}
      PROVE  /\ session'[rot'[r].token].to = None
             /\ \A q \in Req \ {r} : rot'[q].token # rot'[r].token
  <2>1. ASSUME NEW t \in tabs, Asked(t, r)
        PROVE  /\ session'[rot'[r].token].to = None
               /\ \A q \in Req \ {r} : rot'[q].token # rot'[r].token
    <3>1. /\ session' = session /\ rot'[r].token = jar.refresh
          /\ \A q \in Req \ {r} : rot'[q] = rot[q]
      BY <1>1, <2>1 DEF Asked, RotOK
    <3> QED BY <1>4, <2>1, <3>1 DEF Clean
  <2>2. CASE ~\E t \in tabs : Asked(t, r)
    <3>1. rot[r].pc \in {"sent", "refused"} /\ rot'[r].token = rot[r].token
      BY <1>7, <2>2, RotFacts DEF NoRot
    <3>2. rot[r].token \in Used
      BY <1>1, <3>1 DEF IInv, RotTokens, NameInv
    <3>3. session'[rot[r].token].to = None
      <4>1. \A q \in Req : ServerMarks(q) => q # r
        BY <3>1 DEF ServerMarks
      <4> QED BY <1>2, <3>1, <3>2, <4>1, CleanFacts DEF ReuseInv
    <3>4. ASSUME NEW q \in Req \ {r} PROVE rot'[q].token # rot[r].token
      <4>1. ASSUME NEW t \in tabs, Asked(t, q) PROVE rot'[q].token # rot[r].token
        <5>1. rot'[q].token = jar.refresh
          BY <1>1, <4>1 DEF Asked, RotOK
        <5> QED BY <1>4, <4>1, <5>1 DEF Clean
      <4>2. CASE ~\E t \in tabs : Asked(t, q)
        BY <1>1, <1>2, <1>6, <3>1, <3>2, <4>2 DEF ReuseInv
      <4> QED BY <4>1, <4>2
    <3> QED BY <3>1, <3>3, <3>4
  <2> QED BY <2>1, <2>2
<1>8. ASSUME NEW x \in Used, Clean(x), \A r \in Req, t \in tabs : ~(Asked(t, r) /\ x = jar.refresh)
      PROVE  CleanNext(x)
  BY <1>8, CleanFacts
<1>9. \A s \in FreeSid : IssueSession(s) /\ rot' = rot => CleanNext(s)
  BY <1>1, SignInFacts, CleanFacts DEF IInv
<1>10. ASSUME NEW r \in Req, Deliver(r), rot[r].fresh # None PROVE CleanNext(rot[r].fresh)
  <2>1. Clean(rot[r].fresh) /\ rot[r].fresh \in Used
    BY <1>1, <1>2, <1>10 DEF Clean, ReuseInv, DistinctInv, NameInv
  <2>2. rot[r].fresh # jar.refresh
    BY <1>10 DEF DistinctInv
  <2> QED BY <1>8, <2>1, <2>2
<1>11. ASSUME login'.fresh # None, "refresh" \in login'.left PROVE CleanNext(login'.fresh)
  <2>1. CASE login'.fresh = login.fresh /\ login'.left \subseteq login.left
    <3>1. login.fresh \in Used /\ Clean(login.fresh) /\ login.fresh # jar.refresh
      BY <1>1, <1>2, <1>11, <2>1 DEF ReuseInv, DistinctInv, NameInv
    <3> QED BY <1>8, <2>1, <3>1
  <2>2. CASE \E s \in FreeSid : IssueSession(s) /\ rot' = rot /\ login'.fresh = s
    BY <1>9, <2>2
  <2> QED BY <1>11, <2>1, <2>2, HolderFacts
<1>12. ASSUME NEW t \in Tab, promise'[t].fresh # None PROVE CleanNext(promise'[t].fresh)
  <2>1. CASE promise'[t].fresh = promise[t].fresh
    <3>1. promise[t].fresh \in Used /\ Clean(promise[t].fresh)
      BY <1>1, <1>2, <1>12, <2>1 DEF ReuseInv, NameInv
    <3> QED BY <1>4, <1>8, <1>12, <2>1, <3>1
  <2>2. CASE promise'[t].fresh # promise[t].fresh
    BY <1>10, <1>12, <2>2, HolderFacts
  <2> QED BY <2>1, <2>2
<1>13. ASSUME NEW r \in Req, rot'[r].fresh # None PROVE session'[rot'[r].fresh].to = None
  <2>1. CASE rot'[r].fresh = rot[r].fresh
    <3>1. rot[r].fresh \in Used /\ session[rot[r].fresh].to = None
      BY <1>1, <1>2, <1>13, <2>1 DEF ReuseInv, NameInv
    <3> QED BY <1>13, <2>1, <3>1, CleanFacts DEF DistinctInv
  <2>2. CASE rot'[r].fresh # rot[r].fresh
    <3>1. \A t \in tabs : ~Asked(t, r)
      BY <1>1, <1>13 DEF Asked, RotOK
    <3>2. rot'[r].fresh \in FreeSid /\ Written(rot'[r].fresh)
      BY <1>13, <2>2, <3>1, RotFacts DEF NoRot
    <3> QED BY <1>1, <3>2, CleanFacts
  <2> QED BY <2>1, <2>2
<1> DEFINE Held(x) == \/ CleanNext(x)
                      \/ \E t \in Tab : promise'[t].pc = "saving" /\ "refresh" \in promise'[t].left
                      \/ \E t \in Tab : promise'[t].pc = "waiting" /\ rot'[promise'[t].req].token = x
<1>14. ASSUME jar'.refresh # None, jar'.refresh # jar.refresh PROVE CleanNext(jar'.refresh)
  <2>1. CASE LoginSaved /\ jar'.refresh = login.fresh
    <3>1. login.fresh \in Used /\ Clean(login.fresh) /\ login.fresh # jar.refresh
      BY <1>1, <1>2, <1>14, <2>1 DEF ReuseInv, NameInv, LoginSaved
    <3> QED BY <1>8, <2>1, <3>1
  <2>2. ASSUME NEW t \in tabs, jar'.refresh = promise[t].fresh PROVE CleanNext(jar'.refresh)
    <3>1. promise[t].fresh \in Used /\ Clean(promise[t].fresh) /\ promise[t].fresh # jar.refresh
      BY <1>1, <1>2, <1>14, <2>2 DEF ReuseInv, NameInv
    <3> QED BY <1>8, <2>2, <3>1
  <2> QED BY <1>9, <1>10, <1>14, <2>1, <2>2, HolderFacts
<1>15. ASSUME jar'.refresh # None, jar'.refresh = jar.refresh PROVE Held(jar.refresh)
  <2>1. CASE Clean(jar.refresh)
    <3>1. ASSUME NEW t \in tabs, NEW r \in Req, Asked(t, r) PROVE Held(jar.refresh)
      <4>1. t \in Tab /\ promise'[t].pc = "waiting" /\ rot'[promise'[t].req].token = jar.refresh
        BY <1>1, <3>1 DEF Asked, PromiseOK, PromiseRecord, RotOK
      <4> QED BY <4>1
    <3> QED BY <1>1, <1>8, <1>15, <2>1, <3>1 DEF NameInv
  \* Its replacement is being written, until that is over.
  <2>2. ASSUME NEW t \in Tab, promise[t].pc = "saving", "refresh" \in promise[t].left
        PROVE  Held(jar.refresh)
    <3>1. \A u \in Tab : promise[u].pc # "none" => u = t
      BY <1>1, <1>2, <1>3, <2>2
    <3>2. \A r \in Req : rot[r].by = None
      BY <1>1, <1>3, <2>2, <3>1 DEF RotOK, RotRecord
    <3>3. CASE promise' = promise
      BY <2>2, <3>3
    <3>4. ASSUME NEW k \in Keys, Save(t, k)
          PROVE  \/ promise'[t].pc = "saving" /\ "refresh" \in promise'[t].left
                 \/ jar'.refresh = promise[t].fresh
      <4>1. CASE k = "refresh"
        BY <1>1, <3>4, <4>1 DEF Save, JarOK
      <4>2. CASE k = "access"
        <5>1. promise' = [promise EXCEPT ![t].left = @ \ {k}]
          BY <2>2, <3>4, <4>2 DEF Save
        <5> QED BY <1>1, <2>2, <4>2, <5>1 DEF PromiseOK, PromiseRecord
      <4> QED BY <4>1, <4>2 DEF Keys
    <3>5. ASSUME NEW k \in Keys, Save(t, k) PROVE Held(jar.refresh)
      <4>1. CASE jar'.refresh = promise[t].fresh
        <5>1. Clean(promise[t].fresh) /\ promise[t].fresh \in Used
          BY <1>1, <1>2, <1>3, <2>2 DEF ReuseInv, NameInv
        <5>2. \A r \in Req, u \in tabs : ~Asked(u, r)
          BY <1>1, <2>2, <3>1 DEF Asked
        <5> QED BY <1>8, <1>15, <4>1, <5>1, <5>2
      <4> QED BY <3>4, <3>5, <4>1
    <3>6. ASSUME NEW c \in Call, CallNext(c) PROVE promise' = promise \/ promise'[t] = promise[t]
      BY <1>1, <2>2, <3>6 DEF CallNext, Send, Answer, LoseCall, Resend, PromiseOK
    <3>7. ASSUME NEW r \in Req, RotationNext(r) PROVE promise' = promise
      BY <2>2, <3>1, <3>2, <3>7, <1>1
         DEF RotationNext, AskRefresh, ServerReads, ServerCreates, ServerMarks, Deliver, LoseRefresh,
             Discard
    <3>8. ASSUME NEW u \in tabs, NEW k \in Keys, Save(u, k) PROVE u = t
      BY <1>1, <3>1, <3>8 DEF Save
    <3> QED BY <1>2, <2>2, <3>3, <3>5, <3>6, <3>7, <3>8
            DEF Next, vars, AccessExpires, SubmitLogin, SubmitCode, BackToForm, SaveLogin, SignOut,
                EndSession, ClearTokens, Expire
  \* It is being rotated, until the answer is there.
  <2>3. ASSUME NEW t \in Tab, promise[t].pc = "waiting", rot[promise[t].req].token = jar.refresh
        PROVE  Held(jar.refresh)
    <3> DEFINE r == promise[t].req
    <3>1. r \in Req /\ rot[r].by = t /\ \A u \in Tab : promise[u].pc # "none" => u = t
      BY <1>1, <1>2, <1>3, <2>3
    <3>2. CASE promise'[t] = promise[t] /\ rot'[r].token = rot[r].token
      BY <2>3, <3>2
    <3>3. CASE promise'[t] = promise[t] /\ ~(rot'[r].token = rot[r].token)
      <4>1. ~\E u \in tabs : Asked(u, r)
        BY <1>1, <2>3, <3>1 DEF Asked
      <4>2. rot'[r] = NoRot
        BY <3>1, <3>3, <4>1, RotFacts
      <4>3. promise'[t].pc = "waiting" => rot'[promise'[t].req].by = t
        BY Coherence DEF IInv, WaitInv, PromiseInv
      <4> QED BY <2>3, <3>3, <4>2, <4>3 DEF NoRot
    <3>4. ASSUME NEW q \in Req, Deliver(q) PROVE promise'[t] = promise[t] \/ Held(jar.refresh)
      <4>1. q = r
        BY <1>1, <1>3, <3>1, <3>4 DEF Deliver, RotOK, RotRecord
      <4>2. CASE rot[q].pc = "granted" /\ OnPhone
        <5>1. promise' = [promise EXCEPT ![t].pc = "saving", ![t].fresh = rot[q].fresh,
                                        ![t].left = Keys]
          BY <3>1, <3>4, <4>1, <4>2 DEF Deliver
        <5>2. promise'[t].pc = "saving" /\ "refresh" \in promise'[t].left
          BY <1>1, <5>1 DEF PromiseOK, PromiseRecord, Keys
        <5> QED BY <5>2
      <4>3. CASE rot[q].pc = "granted" /\ ~OnPhone
        <5>1. jar'.refresh = rot[q].fresh /\ rot[q].fresh # None
          BY <3>1, <3>4, <4>3 DEF Deliver, IInv, WaitInv, RotInv
        <5> QED BY <1>15, <5>1 DEF DistinctInv
      <4>4. CASE rot[q].pc = "refused"
        <5>1. /\ rot[q].token = jar.refresh /\ session[jar.refresh].to = None
              /\ \A p \in Req \ {q} : rot[p].token # jar.refresh
          BY <1>2, <2>3, <4>1, <4>4 DEF ReuseInv
        <5>2. session' = session /\ rot' = [rot EXCEPT ![q] = NoRot]
          BY <3>4 DEF Deliver
        <5>3. rot'[q].token = None /\ \A p \in Req \ {q} : rot'[p] = rot[p]
          BY <1>1, <5>2 DEF RotOK, NoRot
        <5>4. \A p \in Req : rot'[p].token # jar.refresh
          BY <1>15, <5>1, <5>3
        <5>5. CleanNext(jar.refresh)
          BY <5>1, <5>2, <5>4 DEF CleanNext
        <5> QED BY <5>5
      <4> QED BY <3>4, <4>2, <4>3, <4>4 DEF Deliver
    <3>5. ASSUME NEW q \in Req, LoseRefresh(q) PROVE FALSE
      BY <1>2, <3>5
    <3>6. ASSUME NEW c \in Call, CallNext(c) PROVE promise'[t] = promise[t]
      BY <1>1, <2>3, <3>6 DEF CallNext, Send, Answer, LoseCall, Resend, PromiseOK
    <3>7. ASSUME NEW q \in Req, RotationNext(q), ~Deliver(q), ~LoseRefresh(q) PROVE promise' = promise
      BY <1>1, <2>3, <3>1, <3>7
         DEF RotationNext, AskRefresh, ServerReads, ServerCreates, ServerMarks, Discard
    <3>8. ASSUME NEW u \in tabs, NEW k \in Keys, Save(u, k) PROVE FALSE
      BY <1>1, <2>3, <3>1, <3>8 DEF Save
    <3>9. promise'[t] = promise[t] \/ Held(jar.refresh)
      BY <1>2, <3>4, <3>5, <3>6, <3>7, <3>8
         DEF Next, vars, AccessExpires, SubmitLogin, SubmitCode, BackToForm, SaveLogin, SignOut,
             EndSession, ClearTokens, Expire
    <3> QED BY <3>2, <3>3, <3>9
  <2> QED BY <1>2, <1>15, <2>1, <2>2, <2>3 DEF ReuseInv
<1>16. jar'.refresh # None => Held(jar'.refresh)
  BY <1>14, <1>15
<1> QED BY <1>5, <1>7, <1>11, <1>12, <1>13, <1>16 DEF ReuseInv, Clean, CleanNext
-----------------------------------------------------------------------------
SameLive(x, y) ==
  session[x].state = "live" /\ session[y].state = "live" /\ session[x].root = session[y].root

\* A live row of the sign-in that r rotates a row of.
Sibling(x, r) == session[x].state = "live" /\ session[x].root = session[rot[r].token].root

\* In a steady client somebody waits for every request, so there is one at a time;
\* of two live rows of a sign-in one is being replaced by the other.
AliveInv ==
  Steady =>
    /\ \A r \in Req : rot[r].pc # "idle" => rot[r].by # None
    /\ \A r \in Req : rot[r].pc = "read" =>
         \A x \in Sid : Sibling(x, r) => x = rot[r].token
    /\ \A x, y \in Sid : SameLive(x, y) /\ x # y =>
         \E r \in Req : rot[r].pc = "created" /\ rot[r].token \in {x, y}

LEMMA OneRequest ==
  ASSUME IInv, AliveInv, Steady, NEW q \in Req, NEW r \in Req, rot[q].pc # "idle", rot[r].pc # "idle"
  PROVE  q = r
<1>1. PICK t \in Tab : tabs = {t}
  BY DEF Steady
<1>2. \A p \in {q, r} : rot[p].by \in Tab /\ promise[rot[p].by].req = p /\ promise[rot[p].by].pc = "waiting"
  BY TypeParts DEF IInv, RotOK, RotRecord, WaitInv, RotInv, AliveInv
<1>3. rot[q].by = t /\ rot[r].by = t
  BY <1>1, <1>2 DEF IInv, WaitInv, PromiseInv
<1> QED BY <1>2, <1>3

\* Two live rows of one sign-in, after a step, were that before, or one is new.
LEMMA LiveFacts ==
  ASSUME IInv, [Next]_vars, NEW x \in Sid, NEW y \in Sid, SameLive(x, y)', x # y, ~SameLive(x, y)
  PROVE  \E r \in Req : ServerCreates(r) /\ \E z \in {x, y} : Sibling(z, r)
<1>1. SessionOK /\ RotOK /\ SessionOK' /\ RowInv
  BY TypeParts, NextType DEF IInv
<1>2. CASE \A z \in Sid : KeptOrRevoked(z)
  BY <1>2 DEF KeptOrRevoked, SameLive
<1>3. ASSUME NEW r \in Req, ServerMarks(r) PROVE SameLive(x, y)
  <2>1. \A z \in Sid : session'[z].root = session[z].root
                       /\ (session'[z].state = "live" => session[z].state = "live")
    BY <1>1, <1>3 DEF ServerMarks, SessionOK, SessionRow
  <2> QED BY <2>1 DEF SameLive
<1>4. ASSUME NEW s \in FreeSid, Written(s)
      PROVE  \E r \in Req : ServerCreates(r) /\ \E z \in {x, y} : Sibling(z, r)
  <2>1. PICK root : session' = [session EXCEPT ![s] = [state |-> "live", to |-> None, root |-> root]]
    BY <1>4 DEF Written
  <2>2. s \in Sid \ Used /\ \A z \in Sid \ {s} : session'[z] = session[z]
    BY <1>1, <1>4, <2>1 DEF Written, SessionOK
  <2>3. s \in {x, y}
    BY <2>2 DEF SameLive
  <2>4. PICK z \in {x, y} : z # s /\ z \in Sid
    BY <2>3
  <2>5. session[z].state = "live" /\ session[z].root = session'[s].root
    BY <2>2, <2>3, <2>4 DEF SameLive
  <2>6. session[z].root \in Used
    BY <1>1, <2>4, <2>5 DEF RowInv, TableInv, Used
  <2>7. session'[s].root # s
    BY <2>2, <2>5, <2>6
  <2>8. PICK r \in Req : ServerCreates(r) /\ session'[s].root = session[rot[r].token].root
    BY <1>4, <2>7 DEF Written
  <2> QED BY <2>4, <2>5, <2>8 DEF Sibling
<1> QED BY <1>2, <1>3, <1>4, SessionSteps DEF IInv

\* A row that becomes live after the rotation of its sign-in has been read, is
\* that rotation's.
LEMMA SiblingFacts ==
  ASSUME IInv, [Next]_vars, NEW r \in Req, rot[r].pc # "idle", rot'[r].token = rot[r].token,
         NEW x \in Sid, Sibling(x, r)', ~Sibling(x, r)
  PROVE  \E q \in Req : ServerCreates(q)
<1>1. SessionOK /\ RotOK /\ RowInv /\ rot[r].token \in Used
  BY TypeParts DEF IInv, RowInv, RotTokens, NameInv
<1>2. session'[rot[r].token].root = session[rot[r].token].root /\ session[rot[r].token].root \in Used
  BY <1>1, TableFacts DEF IInv, RowInv, TableInv
<1>3. CASE \A z \in Sid : KeptOrRevoked(z)
  BY <1>2, <1>3 DEF KeptOrRevoked, Sibling
<1>4. ASSUME NEW q \in Req, ServerMarks(q) PROVE FALSE
  <2>1. \A z \in Sid : session'[z].root = session[z].root
                       /\ (session'[z].state = "live" => session[z].state = "live")
    BY <1>1, <1>4 DEF ServerMarks, SessionOK, SessionRow
  <2> QED BY <1>2, <2>1 DEF Sibling
<1>5. ASSUME NEW s \in FreeSid, Written(s), ~\E q \in Req : ServerCreates(q) PROVE FALSE
  <2>1. s \in Sid \ Used /\ session'[s].root = s /\ \A z \in Sid \ {s} : session'[z] = session[z]
    BY <1>1, <1>5 DEF Written, SessionOK
  <2> QED BY <1>2, <2>1 DEF Sibling
<1> QED BY <1>3, <1>4, <1>5, SessionSteps DEF IInv

\* Which steps of a steady client change where a rotation is.
LEMMA PhaseFacts ==
  ASSUME IInv, [Next]_vars, Steady', NEW r \in Req
  PROVE  \/ rot'[r] = rot[r]
         \/ \E t \in tabs : Asked(t, r)
         \/ /\ ServerReads(r) \/ ServerCreates(r) \/ ServerMarks(r)
            /\ rot'[r].token = rot[r].token /\ rot'[r].by = rot[r].by
            /\ rot'[r].pc = "read" => session[rot[r].token].state = "live"
         \/ rot'[r] = NoRot /\ (Deliver(r) \/ Discard(r))
<1>1. RotOK
  BY TypeParts DEF IInv
<1>2. ~Restart /\ \A q \in Req : ~LoseRefresh(q)
  BY SteadyFacts
<1>3. ASSUME NEW q \in Req, q # r, RotationNext(q) PROVE rot'[r] = rot[r]
  <2>1. ASSUME NEW t \in tabs, AskRefresh(t, q) PROVE rot'[r] = rot[r]
    BY <1>1, <1>3, <2>1, AskFacts DEF Asked, RotOK
  <2> QED BY <1>1, <1>2, <1>3, <2>1
        DEF RotationNext, ServerReads, ServerCreates, ServerMarks, Deliver, Discard, RotOK
<1>4. ASSUME NEW t \in tabs, AskRefresh(t, r) PROVE Asked(t, r) \/ rot' = rot
  BY <1>4, AskFacts
<1>5. CASE ServerReads(r) \/ ServerCreates(r) \/ ServerMarks(r)
  BY <1>1, <1>5 DEF ServerReads, ServerCreates, ServerMarks, RotOK, RotRecord
<1>6. CASE Deliver(r) \/ Discard(r)
  BY <1>1, <1>6 DEF Deliver, Discard, RotOK
<1> QED BY <1>2, <1>3, <1>4, <1>5, <1>6
        DEF Next, vars, AccessExpires, CallNext, Send, Answer, LoseCall, Resend, RotationNext, Save,
            SubmitLogin, SubmitCode, BackToForm, SaveLogin, SignOut, EndSession, ClearTokens, Expire

LEMMA NextAlive ==
  ASSUME IInv, AliveInv, [Next]_vars
  PROVE  AliveInv'
<1> SUFFICES ASSUME Steady' PROVE AliveInv'
  BY DEF AliveInv
<1> USE NoneIsNone
<1>1. /\ RotOK /\ RotOK' /\ SessionOK /\ tabs \subseteq Tab
      /\ \A r \in Req : rot[r].pc # "idle" => rot[r].token \in Used
      /\ IInv'
  BY TypeParts, NextType, Coherence DEF IInv, RestOK, RowInv, RotTokens, NameInv
<1>2. Steady
  BY SteadyFacts
<1>3. ASSUME NEW r \in Req, rot'[r].pc # "idle" PROVE rot'[r].by # None
  <2>1. \A t \in tabs : Asked(t, r) => rot'[r].by = t
    BY <1>1 DEF Asked, RotOK
  <2>2. ServerReads(r) \/ ServerCreates(r) \/ ServerMarks(r) => rot[r].pc # "idle"
    BY DEF ServerReads, ServerCreates, ServerMarks
  <2> QED BY <1>1, <1>2, <1>3, <2>1, <2>2, PhaseFacts DEF AliveInv, NoRot
<1>4. ASSUME NEW r \in Req, rot'[r].pc = "read", NEW x \in Sid, Sibling(x, r)'
      PROVE  x = rot'[r].token
  <2>1. \A t \in tabs : ~Asked(t, r)
    BY <1>1, <1>4 DEF Asked, RotOK
  <2>2. rot'[r].token = rot[r].token /\ rot[r].pc # "idle"
    <3>1. ServerReads(r) \/ ServerCreates(r) \/ ServerMarks(r) => rot[r].pc # "idle"
      BY DEF ServerReads, ServerCreates, ServerMarks
    <3> QED BY <1>2, <1>4, <2>1, <3>1, PhaseFacts DEF NoRot
  <2>3. ASSUME NEW q \in Req, ServerCreates(q) PROVE FALSE
    <3>1. q = r
      BY <1>2, <2>2, <2>3, OneRequest DEF ServerCreates
    <3> QED BY <1>1, <1>4, <2>3, <3>1 DEF ServerCreates, RotOK
  <2>4. Sibling(x, r)
    BY <1>4, <2>2, <2>3, SiblingFacts
  <2>5. CASE rot[r].pc = "read"
    BY <1>2, <2>2, <2>4, <2>5 DEF AliveInv
  <2>6. CASE rot[r].pc # "read"
    <3>1. ServerReads(r) /\ session[rot[r].token].state = "live"
      <4>1. ~ServerCreates(r) /\ ~ServerMarks(r)
        BY <1>1, <1>4 DEF ServerCreates, ServerMarks, RotOK, RotRecord
      <4> QED BY <1>2, <1>4, <2>1, <2>6, <4>1, PhaseFacts DEF NoRot
    <3>2. \A q \in Req : rot[q].pc # "created"
      BY <1>2, <2>2, <3>1, OneRequest DEF ServerReads
    <3> QED BY <1>1, <1>2, <2>2, <2>4, <3>1, <3>2 DEF AliveInv, SameLive, Sibling, Used
  <2> QED BY <2>5, <2>6
<1>5. ASSUME NEW x \in Sid, NEW y \in Sid, SameLive(x, y)', x # y
      PROVE  \E r \in Req : rot'[r].pc = "created" /\ rot'[r].token \in {x, y}
  <2>1. CASE SameLive(x, y)
    <3>1. PICK r \in Req : rot[r].pc = "created" /\ rot[r].token \in {x, y}
      BY <1>2, <1>5, <2>1 DEF AliveInv
    <3>2. CASE rot'[r] = rot[r]
      BY <3>1, <3>2
    <3>3. CASE ServerMarks(r)
      <4>1. session'[rot[r].token].state # "live"
        BY <1>1, <3>1, <3>3 DEF ServerMarks, SessionOK, SessionRow, Used
      <4> QED BY <1>5, <3>1, <4>1 DEF SameLive
    <3>4. ~Discard(r)
      BY <1>2, <3>1 DEF Discard, AliveInv
    <3> QED BY <3>1, <3>2, <3>3, <3>4, PhaseFacts DEF Asked, ServerReads, ServerCreates, Deliver
  <2>2. CASE ~SameLive(x, y)
    <3>1. PICK r \in Req : ServerCreates(r) /\ \E z \in {x, y} : Sibling(z, r)
      BY <1>5, <2>2, LiveFacts
    <3>2. rot[r].token \in {x, y}
      BY <1>2, <1>5, <3>1 DEF AliveInv, ServerCreates
    <3>3. rot'[r].pc = "created" /\ rot'[r].token = rot[r].token
      BY <1>1, <3>1 DEF ServerCreates, RotOK, RotRecord
    <3> QED BY <3>2, <3>3
  <2> QED BY <2>1, <2>2
<1> QED BY <1>3, <1>4, <1>5 DEF AliveInv

\* A set without two different members has one at most.
LEMMA AtMostOne ==
  ASSUME NEW S, \A x, y \in S : x = y
  PROVE  Cardinality(S) <= 1
<1>1. CASE S = {}
  BY <1>1, FS_EmptySet
<1>2. CASE S # {}
  <2>1. PICK x \in S : S = {x}
    BY <1>2
  <2> QED BY <2>1, FS_Singleton
<1> QED BY <1>1, <1>2

\* No rotation of a client that is left alone is taken for a reuse, and a
\* sign-in has one row that can be rotated, but for the one being replaced.
THEOREM RotationsAreSingle == Spec => []OneRotationAtATime
<1> DEFINE Inv == IInv /\ DistinctInv /\ ReuseInv /\ AliveInv
<1>1. Init => Inv
  <2> SUFFICES ASSUME Init PROVE DistinctInv /\ ReuseInv /\ AliveInv
    BY Coherence
  <2>1. \A x \in Sid : Clean(x)
    BY NoneIsNone DEF Init, Clean, NoRot, FreeRow
  <2>2. \A x, y \in Sid : SameLive(x, y) => x = y
    BY DEF Init, SameLive, FreeRow
  <2>3. jar.refresh \in Sid
    BY ClientsAssumption DEF Init
  <2> QED BY <2>1, <2>2, <2>3 DEF Init, DistinctInv, ReuseInv, AliveInv, NoRot, NoPromise,
                                       LoginForm
<1>2. Inv /\ [Next]_vars => Inv'
  BY Coherence, NextDistinct, NextReuse, NextAlive
<1>3. Inv => OneRotationAtATime
  <2> SUFFICES ASSUME Inv PROVE OneRotationAtATime
    OBVIOUS
  <2>1. tabs \subseteq Tab /\ IsFiniteSet(tabs)
    BY TypeParts, ClientsAssumption, FS_Subset DEF IInv, RestOK
  <2>2. Cardinality(tabs) = 1 => \E t \in Tab : tabs = {t}
    BY <2>1, FS_Singleton
  <2>5. stops = 0 /\ ~drops /\ Cardinality(tabs) = 1 => ~reuse
    BY <2>2 DEF ReuseInv, Steady
  <2>6. ASSUME stops = 0, ~drops, Cardinality(tabs) = 1, NEW root \in Sid
        PROVE  Cardinality(LiveOf(root) \ {rot[r].token : r \in {q \in Req : rot[q].pc = "created"}}) <= 1
    <3>1. Steady
      BY <2>2, <2>6 DEF Steady
    <3> QED BY <3>1, AtMostOne DEF AliveInv, SameLive, LiveOf
  <2> QED BY <2>5, <2>6 DEF OneRotationAtATime
<1> QED BY <1>1, <1>2, <1>3, PTL DEF Spec
=============================================================================
