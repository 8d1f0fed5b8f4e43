---------------------------- MODULE SessionsProofs ----------------------------
(***************************************************************************)
(* Theorems about Sessions, for any number of tabs, calls and roles, and   *)
(* any lives of the two tokens.                                            *)
(***************************************************************************)
EXTENDS Sessions, TLAPS

-----------------------------------------------------------------------------
(* The invariant. *)

\* A token's role was held, by an active user, no longer ago than the token
\* has been alive.
Fresh(token, ago) == token.life > 0 => ago[token.role] + token.life <= AccessTTL

Recent ==
  /\ account.active => heldAgo[account.role] = 0
  /\ Fresh(jar.access, heldAgo)
  /\ \A c \in Calls : Fresh(call[c].token, heldAgo)
  /\ \A t \in Tabs : Fresh(refreshing[t].pair.access, heldAgo)
  /\ \A t \in Tabs : form[t].at # "logout" => Fresh(form[t].pair.access, heldAgo)

\* What an exchange under way, and a call, look like while all is calm.
CalmRefresh(e) ==
  /\ e.at # "refused"
  /\ e.at = "sent" => e.refresh > 0
  /\ e.at = "issued" => e.pair.access.life > 0 /\ e.pair.refresh > 0
CalmForm(e) == e.at # "logout" /\ (e.at = "issued" => e.pair.refresh > 0)
CalmCall(x) == ~x.denied /\ (x.at = "resent" => x.token.life > 0)

Quiet ==
  calm => /\ account.active /\ jar.refresh > 0
          /\ \A t \in Tabs : CalmRefresh(refreshing[t]) /\ CalmForm(form[t])
          /\ \A c \in Calls : CalmCall(call[c])

Inv == SessionsTypeOK /\ Recent /\ Quiet

-----------------------------------------------------------------------------
(* Tokens and exchanges. *)

LEMMA NoTokenType == NoToken \in Tokens /\ NoToken.life = 0 /\ \A ago : Fresh(NoToken, ago)
<1>1. NoToken \in Tokens /\ NoToken.life = 0
  BY DEF NoToken, Tokens
<1> HIDE DEF NoToken
<1> QED
  BY <1>1 DEF Fresh

LEMMA TokenLife ==
  ASSUME NEW token \in Tokens
  PROVE  /\ token.life \in 0 .. AccessTTL
         /\ token.life > 0 => token.role \in Roles
<1>1. CASE token = NoToken
  <2>1. token.life = 0
    BY <1>1, NoTokenType
  <2> QED
    BY <2>1, SessionsAssumption
<1>2. CASE token \in [role : Roles, life : 1 .. AccessTTL]
  BY <1>2, SessionsAssumption
<1> QED
  BY <1>1, <1>2 DEF Tokens

LEMMA NoExchangeType ==
  /\ NoExchange \in Exchange /\ NoExchange.at = "none"
  /\ NoExchange.pair.access = NoToken /\ NoPair \in Pairs
<1>1. NoPair \in Pairs /\ NoPair.access = NoToken
  BY NoTokenType, SessionsAssumption DEF NoPair, Pairs
<1>2. NoExchange.at = "none" /\ NoExchange.pair = NoPair
  BY DEF NoExchange
<1>3. NoExchange \in Exchange
  BY <1>1, SessionsAssumption DEF NoExchange, Exchange
<1> QED
  BY <1>1, <1>2, <1>3

LEMMA IssuedType ==
  ASSUME Inv
  PROVE  /\ Issued \in Pairs /\ Issued.access.life > 0 /\ Issued.refresh > 0
         /\ account.active => Fresh(Issued.access, heldAgo)
<1> DEFINE token == [role |-> account.role, life |-> AccessTTL]
<1>1. account.role \in Roles
  BY DEF Inv, SessionsTypeOK, Accounts
<1>2. token \in Tokens /\ token.life = AccessTTL /\ token.role = account.role
  BY <1>1, SessionsAssumption DEF Tokens
<1>3. account.active => Fresh(token, heldAgo)
  BY <1>2, SessionsAssumption DEF Fresh, Inv, Recent
<1>4. Issued.access = token /\ Issued.refresh = RefreshTTL /\ Issued = [access |-> token, refresh |-> RefreshTTL]
  BY DEF Issued
<1> HIDE DEF token
<1>5. Issued \in Pairs
  BY <1>2, <1>4, SessionsAssumption DEF Pairs
<1> QED
  BY <1>2, <1>3, <1>4, <1>5, SessionsAssumption

\* What the server answers to an exchange.
LEMMA AnsweredType ==
  ASSUME Inv, NEW granted \in BOOLEAN, granted => account.active
  PROVE  /\ Answered(granted) \in Exchange
         /\ Answered(granted).at = IF granted THEN "issued" ELSE "refused"
         /\ granted => Answered(granted).pair = Issued
         /\ Fresh(Answered(granted).pair.access, heldAgo)
<1> DEFINE issued  == [NoExchange EXCEPT !.at = "issued", !.pair = Issued]
           refused == [NoExchange EXCEPT !.at = "refused"]
<1>1. /\ issued \in Exchange /\ issued.at = "issued" /\ issued.pair = Issued
      /\ refused \in Exchange /\ refused.at = "refused" /\ refused.pair = NoExchange.pair
  BY NoExchangeType, IssuedType DEF Exchange
<1>2. Answered(granted) = IF granted THEN issued ELSE refused
  BY DEF Answered
<1> HIDE DEF issued, refused
<1>3. Fresh(refused.pair.access, heldAgo)
  BY <1>1, NoExchangeType, NoTokenType
<1> QED
  BY <1>1, <1>2, <1>3, IssuedType

LEMMA StoredType ==
  ASSUME NEW pair \in Pairs
  PROVE  /\ Stored(pair) \in Cookies /\ Stored(pair).access = pair.access
         /\ Stored(pair).keep > 0 /\ Stored(pair).refresh = pair.refresh
BY SessionsAssumption DEF Stored, Cookies, Pairs

LEMMA SentType ==
  ASSUME NEW kind \in {"data", "me"}, NEW at \in {"sent", "resent"}, NEW cookies \in Cookies
  PROVE  /\ Sent(kind, at, cookies) \in Call
         /\ Sent(kind, at, cookies).at = at /\ ~Sent(kind, at, cookies).denied
         /\ Sent(kind, at, cookies).token = Attached(cookies)
         /\ Attached(cookies) \in {cookies.access, NoToken}
         /\ cookies.keep > 0 => Attached(cookies) = cookies.access
<1>1. /\ Attached(cookies) \in {cookies.access, NoToken} /\ Attached(cookies) \in Tokens
      /\ cookies.keep > 0 => Attached(cookies) = cookies.access
  BY NoTokenType DEF Attached, Cookies
<1>2. Sent(kind, at, cookies) \in Call
  BY <1>1 DEF Sent, Call
<1> QED
  BY <1>1, <1>2 DEF Sent

LEMMA EndedType ==
  ASSUME NEW denied \in BOOLEAN
  PROVE  /\ Ended(denied) \in Call /\ Ended(denied).at = "idle"
         /\ Ended(denied).denied = denied /\ Ended(denied).token = NoToken
BY NoTokenType DEF Ended, Call

-----------------------------------------------------------------------------
(* The server's row. *)

LEMMA InitInv == Init => Inv
<1> SUFFICES ASSUME Init PROVE Inv
  OBVIOUS
<1>1. /\ account.role \in Roles /\ account.active = TRUE
      /\ account \in Accounts
  BY DEF Init, Accounts
<1> DEFINE token == [role |-> account.role, life |-> AccessTTL]
<1>2. token \in Tokens /\ token.life = AccessTTL /\ token.role = account.role
  BY <1>1, SessionsAssumption DEF Tokens
<1>3. Issued = [access |-> token, refresh |-> RefreshTTL]
  BY DEF Issued
<1> HIDE DEF token
<1>4. Issued \in Pairs /\ Issued.access = token /\ Issued.refresh = RefreshTTL
  BY <1>2, <1>3, SessionsAssumption DEF Pairs
<1>5. jar \in Cookies /\ jar.access = token /\ jar.refresh = RefreshTTL
  BY <1>4, StoredType DEF Init
<1>6. heldAgo \in [Roles -> 0 .. AccessTTL] /\ heldAgo[account.role] = 0
  BY <1>1, SessionsAssumption DEF Init
<1>7. attempts \in [Endpoints -> 0 .. Limit]
  BY SessionsAssumption DEF Init
<1>8. SessionsTypeOK
  BY <1>1, <1>5, <1>6, <1>7, EndedType, NoExchangeType DEF Init, SessionsTypeOK
<1>9. Recent
  <2>1. Fresh(jar.access, heldAgo)
    BY <1>2, <1>5, <1>6, SessionsAssumption DEF Fresh
  <2> QED
    BY <1>6, <2>1, EndedType, NoExchangeType, NoTokenType DEF Init, Recent
<1>10. Quiet
  <2>1. CalmRefresh(NoExchange) /\ CalmForm(NoExchange) /\ CalmCall(Ended(FALSE))
    BY EndedType, NoExchangeType DEF CalmRefresh, CalmForm, CalmCall
  <2>2. jar.refresh > 0
    BY <1>5, SessionsAssumption
  <2> QED
    BY <1>1, <2>1, <2>2 DEF Init, Quiet
<1> QED
  BY <1>8, <1>9, <1>10 DEF Inv

\* A role that is held again is held now: no token gets older by it.
LEMMA UpdateUserInv ==
  ASSUME Inv, UpdateUser
  PROVE  Inv'
<1>1. /\ account' \in Accounts
      /\ heldAgo' = [r \in Roles |-> IF r = account'.role /\ account'.active THEN 0
                                     ELSE heldAgo[r]]
      /\ calm' = (calm /\ account'.active)
  BY DEF UpdateUser
<1>2. /\ jar' = jar /\ attempts' = attempts /\ call' = call
      /\ refreshing' = refreshing /\ form' = form /\ page' = page
  BY DEF UpdateUser, client
<1>3. heldAgo \in [Roles -> 0 .. AccessTTL]
  BY DEF Inv, SessionsTypeOK
<1>4. SessionsTypeOK'
  BY <1>1, <1>2, <1>3, SessionsAssumption DEF Inv, SessionsTypeOK
<1>5. ASSUME NEW token \in Tokens, Fresh(token, heldAgo)
      PROVE  Fresh(token, heldAgo')
  BY <1>1, <1>3, <1>5, TokenLife, SessionsAssumption DEF Fresh
<1>6. Recent'
  <2>1. account'.active => heldAgo'[account'.role] = 0
    BY <1>1 DEF Accounts
  <2>2. /\ jar.access \in Tokens /\ \A c \in Calls : call[c].token \in Tokens
        /\ \A t \in Tabs : refreshing[t].pair.access \in Tokens
        /\ \A t \in Tabs : form[t].at # "logout" => form[t].pair.access \in Tokens
    BY DEF Inv, SessionsTypeOK, Cookies, Call, Exchange, Pairs
  <2> QED
    BY <1>2, <1>5, <2>1, <2>2 DEF Inv, Recent
<1>7. Quiet'
  BY <1>1, <1>2 DEF Inv, Quiet
<1> QED
  BY <1>4, <1>6, <1>7 DEF Inv

-----------------------------------------------------------------------------
(* A call takes a step. *)

\* One call changes, and perhaps a page.
LEMMA OneCallMoves ==
  ASSUME Inv, NEW c \in Calls, NEW new \in Call,
         new.token.life > 0 => Fresh(new.token, heldAgo),
         calm => CalmCall(new),
         call' = [call EXCEPT ![c] = new],
         page' \in [Tabs -> {"app", "login"}],
         UNCHANGED <<server, jar, refreshing, form, calm>>
  PROVE  Inv'
<1>1. \A d \in Calls : call'[d] = IF d = c THEN new ELSE call[d]
  BY DEF Inv, SessionsTypeOK
<1>2. SessionsTypeOK'
  BY DEF Inv, SessionsTypeOK, server
<1>3. Recent'
  BY <1>1 DEF Inv, Recent, server, Fresh
<1>4. Quiet'
  BY <1>1 DEF Inv, Quiet, server
<1> QED
  BY <1>2, <1>3, <1>4 DEF Inv

LEMMA StartInv ==
  ASSUME Inv, NEW c \in Calls, Start(c)
  PROVE  Inv'
<1>1. PICK kind \in {"data", "me"} : call' = [call EXCEPT ![c] = Sent(kind, "sent", jar)]
  BY DEF Start
<1> DEFINE new == Sent(kind, "sent", jar)
<1>2. jar \in Cookies
  BY DEF Inv, SessionsTypeOK
<1>3. /\ new \in Call /\ new.at = "sent" /\ ~new.denied
      /\ new.token \in {jar.access, NoToken}
  BY <1>2, SentType
<1> HIDE DEF new
<1>4. Fresh(new.token, heldAgo)
  BY <1>3, NoTokenType DEF Inv, Recent
<1>5. CalmCall(new)
  BY <1>3 DEF CalmCall
<1>6. call' = [call EXCEPT ![c] = new]
  BY <1>1 DEF new
<1> QED
  BY <1>3, <1>4, <1>5, <1>6, OneCallMoves DEF Start, Inv, SessionsTypeOK

LEMMA ServeInv ==
  ASSUME Inv, NEW c \in Calls, Serve(c)
  PROVE  Inv'
<1>1. Ended(FALSE) \in Call /\ Ended(FALSE).token.life = 0 /\ CalmCall(Ended(FALSE))
  BY EndedType, NoTokenType DEF CalmCall
<1>2. /\ call' = [call EXCEPT ![c] = Ended(FALSE)]
      /\ page' \in [Tabs -> {"app", "login"}]
      /\ UNCHANGED <<server, jar, refreshing, form, calm>>
  BY DEF Serve, Inv, SessionsTypeOK
<1>3. Fresh(Ended(FALSE).token, heldAgo)
  BY EndedType, NoTokenType
<1> QED
  BY <1>1, <1>2, <1>3, OneCallMoves

LEMMA DenyInv ==
  ASSUME Inv, NEW c \in Calls, Deny(c)
  PROVE  Inv'
<1> DEFINE denied == call[c].kind = "data"
           new    == Ended(denied)
<1>1. call' = [call EXCEPT ![c] = new]
  BY DEF Deny, Inv, SessionsTypeOK
<1>2. new \in Call /\ new.at = "idle" /\ new.denied = denied /\ new.token.life = 0
  BY EndedType, NoTokenType
<1>3. calm => ~denied
  BY DEF Inv, Quiet, CalmCall, Deny, Retried
<1>4. page' \in [Tabs -> {"app", "login"}]
  BY DEF Deny, Inv, SessionsTypeOK
<1> HIDE DEF new, denied
<1>5. calm => CalmCall(new)
  BY <1>2, <1>3 DEF CalmCall
<1>6. Fresh(new.token, heldAgo)
  BY <1>2 DEF Fresh
<1>7. UNCHANGED <<server, jar, refreshing, form, calm>>
  BY DEF Deny
<1> QED
  BY <1>1, <1>2, <1>4, <1>5, <1>6, <1>7, OneCallMoves

LEMMA RefuseInv ==
  ASSUME Inv, NEW c \in Calls, Refuse(c)
  PROVE  Inv'
<1> DEFINE x   == call[c]
           t   == TabOf[c]
           e   == refreshing[t]
           new == [x EXCEPT !.at = "waiting"]
           f   == IF e.at = "none" THEN [e EXCEPT !.at = "sent", !.refresh = jar.refresh] ELSE e
<1>1. x \in Call /\ t \in Tabs /\ e \in Exchange /\ jar \in Cookies
  BY SessionsAssumption DEF Inv, SessionsTypeOK
<1>2. call' = [call EXCEPT ![c] = new] /\ refreshing' = [refreshing EXCEPT ![t] = f]
  BY DEF Refuse
<1>3. /\ new \in Call /\ new.at = "waiting" /\ new.token = x.token /\ new.denied = x.denied
  BY <1>1 DEF Call
<1>4. /\ f \in Exchange /\ f.pair = e.pair
      /\ f = e \/ (f.at = "sent" /\ f.refresh = jar.refresh)
  BY <1>1 DEF Exchange, Cookies
<1> HIDE DEF new, f
<1>5. \A d \in Calls : call'[d] = IF d = c THEN new ELSE call[d]
  BY <1>2 DEF Inv, SessionsTypeOK
<1>6. \A u \in Tabs : refreshing'[u] = IF u = t THEN f ELSE refreshing[u]
  BY <1>2 DEF Inv, SessionsTypeOK
<1>7. SessionsTypeOK'
  <2>1. call' \in [Calls -> Call] /\ refreshing' \in [Tabs -> Exchange]
    BY <1>2, <1>3, <1>4 DEF Inv, SessionsTypeOK
  <2>2. /\ account' = account /\ heldAgo' = heldAgo /\ jar' = jar /\ attempts' = attempts
        /\ form' = form /\ page' = page /\ calm' = calm
    BY DEF Refuse, server
  <2> QED
    BY <2>1, <2>2 DEF Inv, SessionsTypeOK
<1>8. Recent'
  <2>1. Fresh(new.token, heldAgo) /\ Fresh(f.pair.access, heldAgo)
    BY <1>1, <1>3, <1>4 DEF Inv, Recent
  <2> QED
    BY <1>5, <1>6, <2>1 DEF Inv, Recent, Refuse, server
<1>9. Quiet'
  <2>1. calm => CalmRefresh(f)
    BY <1>1, <1>4 DEF Inv, Quiet, CalmRefresh
  <2>2. calm => CalmCall(new)
    BY <1>3 DEF Inv, Quiet, CalmCall
  <2> QED
    BY <1>5, <1>6, <2>1, <2>2 DEF Inv, Quiet, Refuse, server
<1> QED
  BY <1>7, <1>8, <1>9 DEF Inv

-----------------------------------------------------------------------------
(* Exchanges. *)

LogoutForm == [at |-> "logout"]

\* Only exchanges and pages change, and perhaps the limiter.
LEMMA ExchangesMove ==
  ASSUME Inv,
         refreshing' \in [Tabs -> Exchange],
         form' \in [Tabs -> Exchange \union {LogoutForm}],
         attempts' \in [Endpoints -> 0 .. Limit], calm' \in BOOLEAN, calm' => calm,
         page' \in [Tabs -> {"app", "login"}],
         \A u \in Tabs : Fresh(refreshing'[u].pair.access, heldAgo),
         \A u \in Tabs : form'[u].at # "logout" => Fresh(form'[u].pair.access, heldAgo),
         calm' => \A u \in Tabs : CalmRefresh(refreshing'[u]) /\ CalmForm(form'[u]),
         UNCHANGED <<account, heldAgo, jar, call>>
  PROVE  Inv'
<1>1. SessionsTypeOK'
  BY DEF Inv, SessionsTypeOK, LogoutForm
<1>2. Recent'
  BY DEF Inv, Recent
<1>3. Quiet'
  BY DEF Inv, Quiet
<1> QED
  BY <1>1, <1>2, <1>3 DEF Inv

LEMMA ExchangeTypes ==
  ASSUME Inv
  PROVE  /\ refreshing \in [Tabs -> Exchange]
         /\ form \in [Tabs -> Exchange \union {LogoutForm}]
         /\ attempts \in [Endpoints -> 0 .. Limit] /\ calm \in BOOLEAN
         /\ page \in [Tabs -> {"app", "login"}] /\ jar \in Cookies
         /\ \A u \in Tabs : Fresh(refreshing[u].pair.access, heldAgo)
         /\ \A u \in Tabs : form[u].at # "logout" =>
              form[u] \in Exchange /\ Fresh(form[u].pair.access, heldAgo)
         /\ calm => /\ account.active /\ jar.refresh > 0
                    /\ \A u \in Tabs : CalmRefresh(refreshing[u]) /\ CalmForm(form[u])
<1>1. LogoutForm.at = "logout"
  BY DEF LogoutForm
<1> QED
  BY <1>1 DEF Inv, SessionsTypeOK, Recent, Quiet, LogoutForm

LEMMA CountAttemptType ==
  ASSUME Inv, NEW e \in Endpoints, CountAttempt(e)
  PROVE  attempts' \in [Endpoints -> 0 .. Limit]
<1>1. attempts \in [Endpoints -> 0 .. Limit] /\ Limit \in Nat
  BY ExchangeTypes, SessionsAssumption
<1> QED
  BY <1>1 DEF CountAttempt, Limited

LEMMA RefreshInv ==
  ASSUME Inv, NEW t \in Tabs, Refresh(t)
  PROVE  Inv'
<1> DEFINE e       == refreshing[t]
           granted == ~Limited("refresh") /\ e.refresh > 0 /\ account.active
           f       == Answered(granted)
<1>1. /\ refreshing' = [refreshing EXCEPT ![t] = f] /\ e.at = "sent"
      /\ CountAttempt("refresh") /\ calm' = (calm /\ ~Limited("refresh"))
      /\ form' = form /\ page' = page
      /\ UNCHANGED <<account, heldAgo, jar, call>>
  BY DEF Refresh, MayHaveTokens
<1>2. /\ f \in Exchange /\ Fresh(f.pair.access, heldAgo)
      /\ f.at = IF granted THEN "issued" ELSE "refused"
      /\ granted => f.pair = Issued
  <2>1. granted \in BOOLEAN /\ (granted => account.active)
    OBVIOUS
  <2> HIDE DEF granted
  <2> QED
    BY <2>1, AnsweredType
<1> HIDE DEF f
<1>3. \A u \in Tabs : refreshing'[u] = IF u = t THEN f ELSE refreshing[u]
  BY <1>1, ExchangeTypes
<1>4. calm' => CalmRefresh(f)
  <2> SUFFICES ASSUME calm' PROVE CalmRefresh(f)
    OBVIOUS
  <2>1. calm /\ ~Limited("refresh")
    BY <1>1
  <2>2. granted
    BY <1>1, <2>1, ExchangeTypes DEF CalmRefresh
  <2> QED
    BY <1>2, <2>2, IssuedType DEF CalmRefresh
<1>5. /\ attempts' \in [Endpoints -> 0 .. Limit] /\ calm' \in BOOLEAN /\ (calm' => calm)
  BY <1>1, CountAttemptType, ExchangeTypes DEF Endpoints
<1>6. refreshing' \in [Tabs -> Exchange]
  BY <1>1, <1>2, ExchangeTypes
<1> QED
  BY <1>1, <1>2, <1>3, <1>4, <1>5, <1>6, ExchangeTypes, ExchangesMove

LEMMA RefreshIsLostInv ==
  ASSUME Inv, NEW t \in Tabs, RefreshIsLost(t)
  PROVE  Inv'
<1> DEFINE f == [NoExchange EXCEPT !.at = "refused"]
<1>1. f \in Exchange /\ Fresh(f.pair.access, heldAgo)
  <2>1. f \in Exchange /\ f.pair = NoExchange.pair
    BY NoExchangeType DEF Exchange
  <2> HIDE DEF f
  <2> QED
    BY <2>1, NoExchangeType, NoTokenType
<1>2. /\ refreshing' = [refreshing EXCEPT ![t] = f] /\ calm' = FALSE
      /\ form' = form /\ page' = page /\ attempts' = attempts
      /\ UNCHANGED <<account, heldAgo, jar, call>>
  BY DEF RefreshIsLost, server
<1> HIDE DEF f
<1>3. /\ \A u \in Tabs : refreshing'[u] = IF u = t THEN f ELSE refreshing[u]
      /\ refreshing' \in [Tabs -> Exchange]
  BY <1>1, <1>2, ExchangeTypes
<1> QED
  BY <1>1, <1>2, <1>3, ExchangeTypes, ExchangesMove

LEMMA NavigateInv ==
  ASSUME Inv, NEW t \in Tabs, Navigate(t)
  PROVE  Inv'
<1>1. /\ page' \in [Tabs -> {"app", "login"}] /\ refreshing' = refreshing /\ form' = form
      /\ attempts' = attempts /\ calm' = calm /\ UNCHANGED <<account, heldAgo, jar, call>>
  BY ExchangeTypes DEF Navigate, server
<1> QED
  BY <1>1, ExchangeTypes, ExchangesMove

\* A form changes to an exchange or to a sign-out.
LEMMA FormMoves ==
  ASSUME Inv, NEW t \in Tabs, NEW f \in Exchange \union {LogoutForm},
         form' = [form EXCEPT ![t] = f],
         f.at # "logout" => Fresh(f.pair.access, heldAgo),
         calm' => CalmForm(f),
         attempts' \in [Endpoints -> 0 .. Limit], calm' \in BOOLEAN, calm' => calm,
         UNCHANGED <<account, heldAgo, jar, call, refreshing, page>>
  PROVE  Inv'
<1>1. /\ \A u \in Tabs : form'[u] = IF u = t THEN f ELSE form[u]
      /\ form' \in [Tabs -> Exchange \union {LogoutForm}]
  BY ExchangeTypes
<1> QED
  BY <1>1, ExchangeTypes, ExchangesMove

LEMMA SubmitLoginInv ==
  ASSUME Inv, NEW t \in Tabs, SubmitLogin(t)
  PROVE  Inv'
<1> DEFINE e == form[t]
           f == [e EXCEPT !.at = "sent"]
<1>1. e.at = "none" /\ e \in Exchange /\ Fresh(e.pair.access, heldAgo)
  BY ExchangeTypes DEF SubmitLogin
<1>2. f \in Exchange /\ f.at = "sent" /\ f.pair = e.pair
  BY <1>1 DEF Exchange
<1>3. /\ form' = [form EXCEPT ![t] = f] /\ attempts' = attempts /\ calm' = calm
      /\ UNCHANGED <<account, heldAgo, jar, call, refreshing, page>>
  BY DEF SubmitLogin, server
<1> HIDE DEF f
<1>4. CalmForm(f)
  BY <1>2 DEF CalmForm
<1> QED
  BY <1>1, <1>2, <1>3, <1>4, ExchangeTypes, FormMoves

LEMMA LoginInv ==
  ASSUME Inv, NEW t \in Tabs, Login(t)
  PROVE  Inv'
<1>1. PICK granted \in BOOLEAN : /\ form' = [form EXCEPT ![t] = Answered(granted)]
                                 /\ granted => account.active
  BY DEF Login, MayHaveTokens
<1> DEFINE f == Answered(granted)
<1>2. /\ f \in Exchange /\ f.at = IF granted THEN "issued" ELSE "refused"
      /\ granted => f.pair = Issued
      /\ Fresh(f.pair.access, heldAgo)
  BY <1>1, AnsweredType
<1>3. CountAttempt("login") /\ UNCHANGED <<account, heldAgo, jar, call, refreshing, page, calm>>
  BY DEF Login
<1>4. /\ attempts' \in [Endpoints -> 0 .. Limit] /\ calm' \in BOOLEAN /\ (calm' => calm)
  BY <1>3, CountAttemptType, ExchangeTypes DEF Endpoints
<1> HIDE DEF f
<1>5. CalmForm(f)
  BY <1>2, IssuedType DEF CalmForm
<1>6. form' = [form EXCEPT ![t] = f]
  BY <1>1 DEF f
<1> QED
  BY <1>2, <1>3, <1>4, <1>5, <1>6, FormMoves

LEMMA SubmitLogoutInv ==
  ASSUME Inv, NEW t \in Tabs, SubmitLogout(t)
  PROVE  Inv'
<1>1. /\ form' = [form EXCEPT ![t] = LogoutForm] /\ attempts' = attempts /\ calm' = FALSE
      /\ UNCHANGED <<account, heldAgo, jar, call, refreshing, page>>
  BY DEF SubmitLogout, server, LogoutForm
<1>2. LogoutForm.at = "logout"
  BY DEF LogoutForm
<1> QED
  BY <1>1, <1>2, ExchangeTypes, FormMoves

\* The cookies of a pair that was issued, or none, are in the jar.
LEMMA JarMoves ==
  ASSUME Inv, NEW t \in Tabs, NEW new \in Cookies, jar' = new,
         Fresh(new.access, heldAgo), calm => new.refresh > 0,
         form' = [form EXCEPT ![t] = NoExchange],
         page' \in [Tabs -> {"app", "login"}],
         UNCHANGED <<server, call, refreshing, calm>>
  PROVE  Inv'
<1>1. /\ \A u \in Tabs : form'[u] = IF u = t THEN NoExchange ELSE form[u]
      /\ form' \in [Tabs -> Exchange \union {LogoutForm}]
  BY ExchangeTypes, NoExchangeType
<1>2. /\ NoExchange.at = "none" /\ Fresh(NoExchange.pair.access, heldAgo) /\ CalmForm(NoExchange)
  BY NoExchangeType, NoTokenType DEF CalmForm
<1>3. SessionsTypeOK'
  BY <1>1 DEF Inv, SessionsTypeOK, server, LogoutForm
<1>4. Recent'
  BY <1>1, <1>2 DEF Inv, Recent, server
<1>5. Quiet'
  BY <1>1, <1>2 DEF Inv, Quiet, server
<1> QED
  BY <1>3, <1>4, <1>5 DEF Inv

LEMMA LoginEndsInv ==
  ASSUME Inv, NEW t \in Tabs, LoginEnds(t)
  PROVE  Inv'
<1> DEFINE e == form[t]
<1>1. e \in Exchange /\ Fresh(e.pair.access, heldAgo) /\ e.at \in {"refused", "issued"}
  BY ExchangeTypes DEF LoginEnds
<1>2. /\ form' = [form EXCEPT ![t] = NoExchange] /\ UNCHANGED <<server, call, refreshing, calm>>
      /\ page' \in [Tabs -> {"app", "login"}]
  BY ExchangeTypes DEF LoginEnds
<1>3. CASE e.at = "issued"
  <2>1. e.pair \in Pairs /\ jar' = Stored(e.pair)
    BY <1>1, <1>3 DEF LoginEnds, Exchange
  <2>2. calm => e.pair.refresh > 0
    BY <1>3, ExchangeTypes DEF CalmForm
  <2> QED
    BY <1>1, <1>2, <2>1, <2>2, StoredType, JarMoves
<1>4. CASE e.at # "issued"
  <2>1. jar' = jar /\ jar \in Cookies /\ Fresh(jar.access, heldAgo) /\ (calm => jar.refresh > 0)
    BY <1>4, ExchangeTypes DEF LoginEnds, Inv, Recent
  <2> QED
    BY <1>2, <2>1, JarMoves
<1> QED
  BY <1>3, <1>4

LEMMA LogoutEndsInv ==
  ASSUME Inv, NEW t \in Tabs, LogoutEnds(t)
  PROVE  Inv'
<1>1. /\ form' = [form EXCEPT ![t] = NoExchange] /\ UNCHANGED <<server, call, refreshing, calm>>
      /\ page' \in [Tabs -> {"app", "login"}] /\ jar' \in {jar, Cleared}
  BY ExchangeTypes DEF LogoutEnds
<1>2. ~calm
  BY ExchangeTypes DEF LogoutEnds, CalmForm
<1>3. Cleared \in Cookies /\ Cleared.access = NoToken
  BY NoTokenType, SessionsAssumption DEF Cleared, Cookies
<1>4. jar' \in Cookies /\ Fresh(jar'.access, heldAgo)
  BY <1>1, <1>3, ExchangeTypes, NoTokenType DEF Inv, Recent
<1> QED
  BY <1>1, <1>2, <1>4, JarMoves

\* The refresh of a tab settles for every caller that waits for it.
LEMMA RefreshEndsInv ==
  ASSUME Inv, NEW t \in Tabs, RefreshEnds(t)
  PROVE  Inv'
<1> DEFINE e == refreshing[t]
<1>1. /\ e \in Exchange /\ Fresh(e.pair.access, heldAgo) /\ e.at \in {"refused", "issued"}
      /\ e.pair \in Pairs
  BY ExchangeTypes DEF RefreshEnds, Exchange
<1>2. /\ refreshing' = [refreshing EXCEPT ![t] = NoExchange] /\ call' = Released(t, jar')
      /\ jar' = IF e.at = "issued" THEN Stored(e.pair) ELSE jar
      /\ UNCHANGED <<server, form, page, calm>>
  BY DEF RefreshEnds
<1>3. /\ \A u \in Tabs : refreshing'[u] = IF u = t THEN NoExchange ELSE refreshing[u]
      /\ refreshing' \in [Tabs -> Exchange]
      /\ Fresh(NoExchange.pair.access, heldAgo) /\ CalmRefresh(NoExchange)
  BY <1>2, ExchangeTypes, NoExchangeType, NoTokenType DEF CalmRefresh
<1>4. calm => e.at = "issued" /\ e.pair.access.life > 0 /\ e.pair.refresh > 0
  BY <1>1, ExchangeTypes DEF CalmRefresh
<1>5. jar' \in Cookies /\ Fresh(jar'.access, heldAgo) /\ (calm => jar'.refresh > 0)
  <2>1. CASE e.at = "issued"
    BY <1>1, <1>2, <1>4, <2>1, StoredType
  <2>2. CASE e.at # "issued"
    BY <1>2, <2>2, ExchangeTypes DEF Inv, Recent
  <2> QED
    BY <2>1, <2>2
<1>6. ASSUME NEW c \in Calls
      PROVE  /\ call'[c] \in Call /\ Fresh(call'[c].token, heldAgo)
             /\ calm => CalmCall(call'[c])
  <2>1. call[c] \in Call /\ Fresh(call[c].token, heldAgo) /\ (calm => CalmCall(call[c]))
    BY DEF Inv, SessionsTypeOK, Recent, Quiet
  <2>2. call[c].kind \in {"data", "me"}
    BY <2>1 DEF Call
  <2>3. CASE c \in Waiting(t) /\ e.at = "issued"
    <3> DEFINE new == Sent(call[c].kind, "resent", jar')
    <3>1. call'[c] = new
      BY <1>2, <2>3 DEF Released
    <3>2. jar'.keep > 0 /\ jar'.access = e.pair.access
      BY <1>1, <1>2, <2>3, StoredType
    <3>3. new \in Call /\ ~new.denied /\ new.token = e.pair.access
      BY <1>5, <2>2, <3>2, SentType
    <3> HIDE DEF new
    <3> QED
      BY <1>1, <1>4, <3>1, <3>3 DEF CalmCall
  <2>4. CASE c \in Waiting(t) /\ e.at # "issued"
    <3>1. call'[c] = Ended(TRUE)
      BY <1>2, <2>4 DEF Released
    <3> QED
      BY <1>4, <2>4, <3>1, EndedType, NoTokenType
  <2>5. CASE c \notin Waiting(t)
    <3>1. call'[c] = call[c]
      BY <1>2, <2>5 DEF Released
    <3> QED
      BY <2>1, <3>1
  <2> QED
    BY <2>3, <2>4, <2>5
<1>7. SessionsTypeOK'
  <2>1. call' \in [Calls -> Call]
    BY <1>2, <1>6 DEF Released
  <2> QED
    BY <1>2, <1>3, <1>5, <2>1 DEF Inv, SessionsTypeOK, server
<1>8. Recent'
  BY <1>2, <1>3, <1>5, <1>6 DEF Inv, Recent, server
<1>9. Quiet'
  BY <1>2, <1>3, <1>5, <1>6 DEF Inv, Quiet, server
<1> QED
  BY <1>7, <1>8, <1>9 DEF Inv

-----------------------------------------------------------------------------
(* Time. *)

LEMMA LessType ==
  ASSUME NEW n \in Nat, NEW k \in 0 .. n
  PROVE  Less(k) \in 0 .. n
BY DEF Less

LEMMA AgedType ==
  ASSUME NEW token \in Tokens
  PROVE  /\ Aged(token) \in Tokens
         /\ Aged(token).life > 0 =>
              Aged(token).role = token.role /\ Aged(token).life = token.life - 1
<1>1. CASE token.life <= 1
  BY <1>1, NoTokenType DEF Aged
<1>2. CASE ~(token.life <= 1)
  <2>1. token \in [role : Roles, life : 1 .. AccessTTL]
    BY <1>2, NoTokenType DEF Tokens
  <2>2. /\ Aged(token) = [token EXCEPT !.life = token.life - 1]
        /\ token.life - 1 \in 1 .. AccessTTL
    BY <1>2, <2>1, SessionsAssumption DEF Aged
  <2>3. /\ Aged(token) \in [role : Roles, life : 1 .. AccessTTL]
        /\ Aged(token).role = token.role /\ Aged(token).life = token.life - 1
    BY <2>1, <2>2
  <2> QED
    BY <2>3 DEF Tokens
<1> QED
  BY <1>1, <1>2

LEMMA OlderType ==
  ASSUME NEW e \in Exchange, e.at # "logout"
  PROVE  /\ Older(e) \in Exchange /\ Older(e).at = e.at
         /\ Older(e).pair.access = Aged(e.pair.access)
<1>1. e.pair \in Pairs /\ e.pair.access \in Tokens /\ e.refresh \in 0 .. RefreshTTL
      /\ e.pair.refresh \in 0 .. RefreshTTL
  BY DEF Exchange, Pairs
<1> DEFINE pair == [access |-> Aged(e.pair.access), refresh |-> Less(e.pair.refresh)]
<1>2. Less(e.refresh) \in 0 .. RefreshTTL /\ pair \in Pairs
  BY <1>1, AgedType, LessType, SessionsAssumption DEF Pairs
<1>3. Older(e) = [at |-> e.at, refresh |-> Less(e.refresh), pair |-> pair]
  BY <1>1 DEF Older, Exchange, Pairs
<1>4. pair.access = Aged(e.pair.access)
  OBVIOUS
<1> HIDE DEF pair
<1> QED
  BY <1>2, <1>3, <1>4 DEF Exchange

LEMMA TickInv ==
  ASSUME Inv, Tick
  PROVE  Inv'
<1>1. /\ heldAgo' = [r \in Roles |-> IF Held(r) \/ heldAgo[r] = AccessTTL THEN heldAgo[r]
                                     ELSE heldAgo[r] + 1]
      /\ jar' = [jar EXCEPT !.access = Aged(@), !.keep = Less(@), !.refresh = Less(@)]
      /\ attempts' = [e \in Endpoints |-> 0]
      /\ call' = [c \in Calls |-> [call[c] EXCEPT !.token = Aged(@)]]
      /\ refreshing' = [t \in Tabs |-> Older(refreshing[t])]
      /\ form' = [t \in Tabs |-> Older(form[t])]
      /\ calm' = (calm /\ ~Pending /\ jar'.refresh > 0)
      /\ account' = account /\ page' = page
  BY DEF Tick
<1>2. heldAgo \in [Roles -> 0 .. AccessTTL]
  BY DEF Inv, SessionsTypeOK
<1>3. /\ heldAgo' \in [Roles -> 0 .. AccessTTL]
      /\ \A r \in Roles : heldAgo'[r] <= heldAgo[r] + 1
  <2>1. ASSUME NEW r \in Roles
        PROVE  heldAgo'[r] \in 0 .. AccessTTL /\ heldAgo'[r] <= heldAgo[r] + 1
    <3>1. /\ heldAgo'[r] \in {heldAgo[r], heldAgo[r] + 1}
          /\ heldAgo[r] = AccessTTL => heldAgo'[r] = heldAgo[r]
      BY <1>1
    <3>2. heldAgo[r] \in 0 .. AccessTTL /\ AccessTTL \in Nat
      BY <1>2, SessionsAssumption
    <3> QED
      BY <3>1, <3>2
  <2>2. heldAgo' = [r \in Roles |-> heldAgo'[r]]
    BY <1>1
  <2> QED
    BY <2>1, <2>2
<1>4. ASSUME NEW token \in Tokens, Fresh(token, heldAgo)
      PROVE  Fresh(Aged(token), heldAgo')
  <2> SUFFICES ASSUME Aged(token).life > 0
               PROVE  heldAgo'[Aged(token).role] + Aged(token).life <= AccessTTL
    BY DEF Fresh
  <2>1. Aged(token).role = token.role /\ Aged(token).life = token.life - 1
    BY AgedType
  <2>2. token.life \in 0 .. AccessTTL /\ token.life > 0 /\ token.role \in Roles
    BY <2>1, TokenLife, SessionsAssumption
  <2>3. heldAgo[token.role] + token.life <= AccessTTL
    BY <1>4, <2>2 DEF Fresh
  <2>4. heldAgo'[token.role] \in Int /\ heldAgo[token.role] \in Int
    BY <1>2, <1>3, <2>2
  <2>5. heldAgo'[token.role] <= heldAgo[token.role] + 1
    BY <1>3, <2>2
  <2> QED
    BY <2>1, <2>2, <2>3, <2>4, <2>5, SessionsAssumption
<1>5. /\ jar' \in Cookies /\ jar'.access = Aged(jar.access)
  <2>1. /\ jar \in Cookies /\ jar.access \in Tokens
        /\ jar.keep \in 0 .. AccessTTL /\ jar.refresh \in 0 .. RefreshTTL
    BY DEF Inv, SessionsTypeOK, Cookies
  <2>2. /\ Aged(jar.access) \in Tokens /\ Less(jar.keep) \in 0 .. AccessTTL
        /\ Less(jar.refresh) \in 0 .. RefreshTTL
    BY <2>1, AgedType, LessType, SessionsAssumption
  <2> QED
    BY <1>1, <2>1, <2>2 DEF Cookies
<1>6. ASSUME NEW c \in Calls
      PROVE  /\ call'[c] \in Call /\ call'[c].token = Aged(call[c].token)
             /\ call'[c].at = call[c].at /\ call'[c].denied = call[c].denied
  <2>1. call[c] \in Call /\ call[c].token \in Tokens
    BY DEF Inv, SessionsTypeOK, Call
  <2>2. Aged(call[c].token) \in Tokens
    BY <2>1, AgedType
  <2>3. call'[c] = [call[c] EXCEPT !.token = Aged(call[c].token)]
    BY <1>1
  <2> QED
    BY <2>1, <2>2, <2>3 DEF Call
<1>7. ASSUME NEW t \in Tabs
      PROVE  /\ refreshing'[t] \in Exchange /\ refreshing'[t].at = refreshing[t].at
             /\ refreshing'[t].pair.access = Aged(refreshing[t].pair.access)
  <2>1. refreshing[t] \in Exchange /\ refreshing[t].at # "logout"
    BY ExchangeTypes DEF Exchange
  <2> QED
    BY <1>1, <2>1, OlderType
<1>8. ASSUME NEW t \in Tabs
      PROVE  /\ form'[t] \in Exchange \union {LogoutForm} /\ form'[t].at = form[t].at
             /\ form[t].at # "logout" =>
                  /\ form[t] \in Exchange
                  /\ form'[t].pair.access = Aged(form[t].pair.access)
  <2>1. CASE form[t].at = "logout"
    BY <1>1, <2>1, ExchangeTypes DEF Older
  <2>2. CASE form[t].at # "logout"
    BY <1>1, <2>2, ExchangeTypes, OlderType
  <2> QED
    BY <2>1, <2>2
<1>9. SessionsTypeOK'
  <2>1. call' \in [Calls -> Call] /\ refreshing' \in [Tabs -> Exchange]
        /\ form' \in [Tabs -> Exchange \union {LogoutForm}]
    BY <1>1, <1>6, <1>7, <1>8
  <2>2. attempts' \in [Endpoints -> 0 .. Limit] /\ calm' \in BOOLEAN
    BY <1>1, SessionsAssumption DEF Inv, SessionsTypeOK
  <2> QED
    BY <1>1, <1>3, <1>5, <2>1, <2>2 DEF Inv, SessionsTypeOK, LogoutForm
<1>10. Recent'
  <2>1. account'.active => heldAgo'[account'.role] = 0
    BY <1>1 DEF Inv, Recent, Held, SessionsTypeOK, Accounts
  <2>2. /\ jar.access \in Tokens /\ \A c \in Calls : call[c].token \in Tokens
        /\ \A t \in Tabs : refreshing[t].pair.access \in Tokens
        /\ \A t \in Tabs : form[t].at # "logout" => form[t].pair.access \in Tokens
    BY <1>8 DEF Inv, SessionsTypeOK, Cookies, Call, Exchange, Pairs
  <2>3. Fresh(jar'.access, heldAgo')
    BY <1>4, <1>5, <2>2 DEF Inv, Recent
  <2>4. \A c \in Calls : Fresh(call'[c].token, heldAgo')
    BY <1>4, <1>6, <2>2 DEF Inv, Recent
  <2>5. \A t \in Tabs : Fresh(refreshing'[t].pair.access, heldAgo')
    BY <1>4, <1>7, <2>2 DEF Inv, Recent
  <2>6. \A t \in Tabs : form'[t].at # "logout" => Fresh(form'[t].pair.access, heldAgo')
    BY <1>4, <1>8, <2>2 DEF Inv, Recent
  <2> QED
    BY <2>1, <2>3, <2>4, <2>5, <2>6 DEF Recent
<1>11. Quiet'
  <2> SUFFICES ASSUME calm'
               PROVE  /\ account'.active /\ jar'.refresh > 0
                      /\ \A t \in Tabs : CalmRefresh(refreshing'[t]) /\ CalmForm(form'[t])
                      /\ \A c \in Calls : CalmCall(call'[c])
    BY DEF Quiet
  <2>1. calm /\ ~Pending /\ jar'.refresh > 0
    BY <1>1
  <2>2. \A t \in Tabs : refreshing'[t].at = "none" /\ form'[t].at = "none"
    BY <1>7, <1>8, <2>1 DEF Pending
  <2>3. \A c \in Calls : call'[c].at # "resent" /\ ~call'[c].denied
    BY <1>6, <2>1 DEF Pending, Inv, Quiet, CalmCall
  <2>4. account'.active
    BY <1>1, <2>1 DEF Inv, Quiet
  <2> QED
    BY <2>1, <2>2, <2>3, <2>4 DEF CalmRefresh, CalmForm, CalmCall
<1> QED
  BY <1>9, <1>10, <1>11 DEF Inv

-----------------------------------------------------------------------------
(* The theorems. *)

LEMMA StepInv == Inv /\ [Next]_vars => Inv'
<1> SUFFICES ASSUME Inv, [Next]_vars PROVE Inv'
  OBVIOUS
<1>1. CASE UNCHANGED vars
  <2>1. /\ account' = account /\ heldAgo' = heldAgo /\ jar' = jar /\ attempts' = attempts
        /\ call' = call /\ refreshing' = refreshing /\ form' = form /\ page' = page
        /\ calm' = calm
    BY <1>1 DEF vars, server, client
  <2> QED
    BY <2>1, ExchangeTypes, ExchangesMove
<1>2. CASE UpdateUser \/ Tick
  BY <1>2, UpdateUserInv, TickInv
<1>3. ASSUME NEW c \in Calls, Start(c) \/ Serve(c) \/ Refuse(c) \/ Deny(c)
      PROVE  Inv'
  BY <1>3, StartInv, ServeInv, RefuseInv, DenyInv
<1>4. ASSUME NEW t \in Tabs,
             \/ Refresh(t) \/ RefreshIsLost(t) \/ RefreshEnds(t) \/ Navigate(t)
             \/ SubmitLogin(t) \/ Login(t) \/ LoginEnds(t)
             \/ SubmitLogout(t) \/ LogoutEnds(t)
      PROVE  Inv'
  BY <1>4, RefreshInv, RefreshIsLostInv, RefreshEndsInv, NavigateInv, SubmitLoginInv,
     LoginInv, LoginEndsInv, SubmitLogoutInv, LogoutEndsInv
<1> QED
  BY <1>1, <1>2, <1>3, <1>4 DEF Next

\* The inductive invariant: every token on its way is fresh, and while all is
\* calm every refresh succeeds and nothing is refused for good.
THEOREM InvHolds == Spec => []Inv
BY InitInv, StepInv, PTL DEF Spec

\* The cookies, the calls and the exchanges keep their types, and the limiter
\* admits no more than its limit.
THEOREM SessionsAreTyped == Spec => []SessionsTypeOK
<1>1. Inv => SessionsTypeOK
  BY DEF Inv
<1> QED
  BY <1>1, InvHolds, PTL

\* No call is served under a role the user last had an access token's life
\* ago, through whatever chain of refreshes the token came.
THEOREM RolesAreRecent == Spec => RoleIsRecent
<1> DEFINE Served == \A c \in Calls :
              call[c].token.life > 0 /\ call'[c].at = "idle"
                => heldAgo[call[c].token.role] < AccessTTL
<1>1. Inv => Served
  <2> SUFFICES ASSUME Inv, NEW c \in Calls, call[c].token.life > 0
               PROVE  heldAgo[call[c].token.role] < AccessTTL
    OBVIOUS
  <2> DEFINE token == call[c].token
  <2>1. token \in Tokens /\ Fresh(token, heldAgo)
    BY DEF Inv, Recent, SessionsTypeOK, Call
  <2>2. token.life \in 0 .. AccessTTL /\ token.role \in Roles
    BY <2>1, TokenLife
  <2>3. heldAgo[token.role] + token.life <= AccessTTL
    BY <2>1 DEF Fresh
  <2>4. heldAgo[token.role] \in Int
    BY <2>2 DEF Inv, SessionsTypeOK
  <2> HIDE DEF token
  <2>5. token.life > 0 => heldAgo[token.role] < AccessTTL
    BY <2>2, <2>3, <2>4, SessionsAssumption
  <2> QED
    BY <2>5 DEF token
<1>2. RoleIsRecent <=> [][Served]_vars
  BY DEF RoleIsRecent
<1> QED
  BY <1>1, <1>2, InvHolds, PTL

\* While nothing happens that may end a session, no call that may be sent
\* again is refused for good.
THEOREM CalmSessionsLast == Spec => []CalmCallsSucceed
<1>1. Inv => CalmCallsSucceed
  BY DEF Inv, Quiet, CalmCall, CalmCallsSucceed
<1> QED
  BY <1>1, InvHolds, PTL
=============================================================================
