------------------------------ MODULE Sessions ------------------------------
(***************************************************************************)
(* How a browser stays signed in.                                          *)
(*                                                                         *)
(* Signing in sets two cookies: an access token that carries the user's    *)
(* role for minutes, and a refresh token that carries nothing but the user *)
(* for a month.  Neither is stored by the server.  A call that is refused  *)
(* waits for a refresh all calls of its tab share, and is sent again once; *)
(* the refresh reads the user's row anew.  Tabs share the cookies and the  *)
(* rate limits, not the refresh (AuthService, tokens.py, deps/auth.py and   *)
(* routers/auth.py; client.ts, use-session.ts, session-guard.tsx and       *)
(* proxy.ts).                                                              *)
(*                                                                         *)
(* Time is the rest of the life of every token and cookie: a tick is taken *)
(* from all of them, and lasts longer than the limiter's minute.           *)
(***************************************************************************)
EXTENDS Integers

CONSTANTS
  Roles,
  Tabs,
  Calls,       \* requests of the tabs that need a session
  TabOf,       \* the tab of each
  AccessTTL,   \* access_token_ttl_seconds
  RefreshTTL,  \* REFRESH_TTL
  Limit        \* AUTH_LIMIT

ASSUME SessionsAssumption ==
  /\ TabOf \in [Calls -> Tabs]
  /\ AccessTTL \in Nat \ {0} /\ RefreshTTL \in Nat /\ AccessTTL <= RefreshTTL
  /\ Limit \in Nat \ {0}

VARIABLES
  account,    \* the user's row
  heldAgo,    \* auxiliary: ticks since the user, active, last had each role
  jar,        \* the browser's cookies
  attempts,   \* credential checks of this minute, at the limiter of each endpoint
  call,       \* what each call is doing, and how it last ended
  refreshing, \* each tab's shared refresh
  form,       \* each tab's sign-in or sign-out on its way
  page,       \* whether a tab shows the application or the sign-in page
  calm        \* auxiliary: nothing has happened that may end a session

server == <<account, heldAgo, attempts>>
client == <<call, refreshing, form, page>>
vars   == <<server, jar, client, calm>>

\* An access token; NoToken stands for none and for one that has expired.
NoToken == [life |-> 0]
Tokens  == [role : Roles, life : 1 .. AccessTTL] \union {NoToken}

\* Of a refresh token only what is left of it matters.  keep is what is left of
\* the access cookie's max-age, which may outlast the token in it.
Pairs   == [access : Tokens, refresh : 0 .. RefreshTTL]
NoPair  == [access |-> NoToken, refresh |-> 0]
Cookies == [access : Tokens, keep : 0 .. AccessTTL, refresh : 0 .. RefreshTTL]

\* denied: the last call of a path that may be sent again ended with a 401.
Call == [at : {"idle", "sent", "waiting", "resent"}, kind : {"data", "me"},
         token : Tokens, denied : BOOLEAN]

\* An exchange of a password or of a refresh token for a new pair; refresh is
\* what is left of the token sent.
Exchange   == [at : {"none", "sent", "refused", "issued"}, refresh : 0 .. RefreshTTL,
               pair : Pairs]
NoExchange == [at |-> "none", refresh |-> 0, pair |-> NoPair]

Accounts  == [role : Roles, active : BOOLEAN]
Endpoints == {"login", "refresh"}

SessionsTypeOK ==
  /\ account \in Accounts
  /\ heldAgo \in [Roles -> 0 .. AccessTTL]
  /\ jar \in Cookies
  /\ attempts \in [Endpoints -> 0 .. Limit]
  /\ call \in [Calls -> Call]
  /\ refreshing \in [Tabs -> Exchange]
  /\ form \in [Tabs -> Exchange \union {[at |-> "logout"]}]
  /\ page \in [Tabs -> {"app", "login"}]
  /\ calm \in BOOLEAN

-----------------------------------------------------------------------------
(* The server. *)

Held(role) == account.active /\ account.role = role

\* Updates of the user's row, which no part of the application announces.
UpdateUser ==
  /\ account' \in Accounts
  /\ heldAgo' = [r \in Roles |-> IF r = account'.role /\ account'.active THEN 0 ELSE heldAgo[r]]
  /\ calm' = (calm /\ account'.active)
  /\ UNCHANGED <<jar, attempts, client>>

\* issue_access_token, issue_refresh_token: the role is the row's.
Issued == [access |-> [role |-> account.role, life |-> AccessTTL], refresh |-> RefreshTTL]

\* Mutant: a refresh does not look at the row's state.
AnyAccount == TRUE
\* refresh, authenticate
MayHaveTokens == account.active

\* Mutant: one attempt too many.
PastLimit(endpoint) == attempts[endpoint] > Limit
\* The limiter's decorator comes before the handler, and counts for each.
Limited(endpoint) == attempts[endpoint] >= Limit

CountAttempt(endpoint) ==
  attempts' = IF Limited(endpoint) THEN attempts ELSE [attempts EXCEPT ![endpoint] = @ + 1]

\* What an exchange of credentials comes to.
Answered(granted) ==
  IF granted THEN [NoExchange EXCEPT !.at = "issued", !.pair = Issued]
             ELSE [NoExchange EXCEPT !.at = "refused"]

-----------------------------------------------------------------------------
(* The browser. *)

\* _set_auth_cookies arrives: max-age counts from now.
Stored(pair) == [access |-> pair.access, keep |-> AccessTTL, refresh |-> pair.refresh]
Cleared == [access |-> NoToken, keep |-> 0, refresh |-> 0]

\* The cookie a call is sent with: none once its max-age is over.
Attached(cookies) == IF cookies.keep > 0 THEN cookies.access ELSE NoToken
Sent(kind, at, cookies) ==
  [at |-> at, kind |-> kind, token |-> Attached(cookies), denied |-> FALSE]

\* useSession: one query of a tab asks for /auth/me.
AsksWho(t) == \E c \in Calls : TabOf[c] = t /\ call[c].kind = "me"

\* send
Start(c) ==
  /\ call[c].at = "idle" /\ page[TabOf[c]] = "app"
  /\ \E kind \in {"data"} \union (IF AsksWho(TabOf[c]) THEN {} ELSE {"me"}) :
       call' = [call EXCEPT ![c] = Sent(kind, "sent", jar)]
  /\ UNCHANGED <<server, jar, refreshing, form, page, calm>>

Ended(denied) == [at |-> "idle", kind |-> "data", token |-> NoToken, denied |-> denied]

\* get_current_user accepts the access token.
Serve(c) ==
  /\ call[c].at \in {"sent", "resent"} /\ call[c].token.life > 0
  /\ call' = [call EXCEPT ![c] = Ended(FALSE)]
  /\ UNCHANGED <<server, jar, refreshing, form, page, calm>>

\* Mutant: no path is sent again.
NeverRetried(c) == FALSE

\* Only the first refusal of a path that is not in NO_RETRY.
Retried(c) == call[c].at = "sent" /\ call[c].kind = "data"

\* refreshSession: the refresh of the tab, started unless it is under way.
Refuse(c) ==
  /\ call[c].at \in {"sent", "resent"} /\ call[c].token.life = 0 /\ Retried(c)
  /\ call' = [call EXCEPT ![c] = [@ EXCEPT !.at = "waiting"]]
  /\ refreshing' = [refreshing EXCEPT ![TabOf[c]] =
       IF @.at = "none" THEN [@ EXCEPT !.at = "sent", !.refresh = jar.refresh] ELSE @]
  /\ UNCHANGED <<server, jar, form, page, calm>>

\* The refusal reaches the caller.  SessionGuard asks for "me", and sends the
\* user to sign in when the answer is 401.
Deny(c) ==
  /\ call[c].at \in {"sent", "resent"} /\ call[c].token.life = 0 /\ ~Retried(c)
  /\ call' = [call EXCEPT ![c] = Ended(@.kind = "data")]
  /\ page' = IF call[c].kind = "me" THEN [page EXCEPT ![TabOf[c]] = "login"] ELSE page
  /\ UNCHANGED <<server, jar, refreshing, form, calm>>

Refresh(t) ==
  /\ refreshing[t].at = "sent"
  /\ refreshing' = [refreshing EXCEPT ![t] =
                      Answered(~Limited("refresh") /\ @.refresh > 0 /\ MayHaveTokens)]
  /\ CountAttempt("refresh")
  /\ calm' = (calm /\ ~Limited("refresh"))
  /\ UNCHANGED <<account, heldAgo, jar, call, form, page>>

\* fetch throws, or a gateway answers, before or after the server has.
RefreshIsLost(t) ==
  /\ refreshing[t].at \in {"sent", "issued"}
  /\ refreshing' = [refreshing EXCEPT ![t] = [NoExchange EXCEPT !.at = "refused"]]
  /\ calm' = FALSE
  /\ UNCHANGED <<server, jar, call, form, page>>

Waiting(t) == {c \in Calls : TabOf[c] = t /\ call[c].at = "waiting"}

\* Mutant: a refresh that fails leaves its callers waiting.
ReleasedIfIssued(t, cookies) ==
  [c \in Calls |-> IF c \in Waiting(t) /\ refreshing[t].at = "issued"
                     THEN Sent(call[c].kind, "resent", cookies) ELSE call[c]]
\* The promise settles, for every caller that waits on it.
Released(t, cookies) ==
  [c \in Calls |-> IF c \notin Waiting(t) THEN call[c]
                   ELSE IF refreshing[t].at = "issued" THEN Sent(call[c].kind, "resent", cookies)
                   ELSE Ended(TRUE)]

\* The answer sets the cookies, the callers go on, and refreshing is null
\* again before another answer is looked at.
RefreshEnds(t) ==
  /\ refreshing[t].at \in {"refused", "issued"}
  /\ jar' = IF refreshing[t].at = "issued" THEN Stored(refreshing[t].pair) ELSE jar
  /\ call' = Released(t, jar')
  /\ refreshing' = [refreshing EXCEPT ![t] = NoExchange]
  /\ UNCHANGED <<server, form, page, calm>>

\* proxy.ts looks for the access cookie when a page is loaded.
Navigate(t) ==
  /\ page[t] = "app" /\ jar.keep = 0
  /\ page' = [page EXCEPT ![t] = "login"]
  /\ UNCHANGED <<server, jar, call, refreshing, form, calm>>

\* useLogin and useLogout.
SubmitLogin(t) ==
  /\ page[t] = "login" /\ form[t].at = "none"
  /\ form' = [form EXCEPT ![t].at = "sent"]
  /\ UNCHANGED <<server, jar, call, refreshing, page, calm>>

\* Valid credentials are those of an active tenant; a refresh does not look at
\* the tenant's row.
Login(t) ==
  /\ form[t].at = "sent"
  /\ \E valid \in BOOLEAN :
       form' = [form EXCEPT ![t] = Answered(~Limited("login") /\ valid /\ MayHaveTokens)]
  /\ CountAttempt("login")
  /\ UNCHANGED <<account, heldAgo, jar, call, refreshing, page, calm>>

LoginEnds(t) ==
  /\ form[t].at \in {"refused", "issued"}
  /\ form' = [form EXCEPT ![t] = NoExchange]
  /\ IF form[t].at = "issued"
       THEN jar' = Stored(form[t].pair) /\ page' = [page EXCEPT ![t] = "app"]
       ELSE UNCHANGED <<jar, page>>
  /\ UNCHANGED <<server, call, refreshing, calm>>

SubmitLogout(t) ==
  /\ page[t] = "app" /\ form[t].at = "none"
  /\ form' = [form EXCEPT ![t] = [at |-> "logout"]]
  /\ calm' = FALSE
  /\ UNCHANGED <<server, jar, call, refreshing, page>>

\* The answer clears the cookies, or is lost; the client signs out either way.
LogoutEnds(t) ==
  /\ form[t].at = "logout"
  /\ form' = [form EXCEPT ![t] = NoExchange]
  /\ page' = [page EXCEPT ![t] = "login"]
  /\ jar' \in {jar, Cleared}
  /\ UNCHANGED <<server, call, refreshing, calm>>

-----------------------------------------------------------------------------
(* Time. *)

Less(n) == IF n = 0 THEN 0 ELSE n - 1
Aged(token) == IF token.life <= 1 THEN NoToken ELSE [token EXCEPT !.life = @ - 1]
Older(exchange) ==
  IF exchange.at = "logout" THEN exchange
  ELSE [exchange EXCEPT !.refresh = Less(@), !.pair.refresh = Less(@),
                        !.pair.access = Aged(@)]

\* An answer or a repeated call that takes a whole tick may come too late.
Pending == \/ \E t \in Tabs : refreshing[t].at # "none" \/ form[t].at # "none"
           \/ \E c \in Calls : call[c].at = "resent"

Tick ==
  /\ heldAgo' = [r \in Roles |-> IF Held(r) \/ heldAgo[r] = AccessTTL THEN heldAgo[r]
                                 ELSE heldAgo[r] + 1]
  /\ jar' = [jar EXCEPT !.access = Aged(@), !.keep = Less(@), !.refresh = Less(@)]
  /\ attempts' = [e \in Endpoints |-> 0]
  /\ call' = [c \in Calls |-> [call[c] EXCEPT !.token = Aged(@)]]
  /\ refreshing' = [t \in Tabs |-> Older(refreshing[t])]
  /\ form' = [t \in Tabs |-> Older(form[t])]
  /\ calm' = (calm /\ ~Pending /\ jar'.refresh > 0)
  /\ UNCHANGED <<account, page>>

-----------------------------------------------------------------------------
\* The user has just signed in, in one of the tabs.
Init ==
  /\ account \in [role : Roles, active : {TRUE}]
  /\ heldAgo = [r \in Roles |-> IF r = account.role THEN 0 ELSE AccessTTL]
  /\ jar = Stored(Issued)
  /\ attempts = [e \in Endpoints |-> 0]
  /\ call = [c \in Calls |-> Ended(FALSE)]
  /\ refreshing = [t \in Tabs |-> NoExchange]
  /\ form = [t \in Tabs |-> NoExchange]
  /\ page = [t \in Tabs |-> "app"]
  /\ calm = TRUE

Next ==
  \/ UpdateUser \/ Tick
  \/ \E c \in Calls : Start(c) \/ Serve(c) \/ Refuse(c) \/ Deny(c)
  \/ \E t \in Tabs : \/ Refresh(t) \/ RefreshIsLost(t) \/ RefreshEnds(t) \/ Navigate(t)
                     \/ SubmitLogin(t) \/ Login(t) \/ LoginEnds(t)
                     \/ SubmitLogout(t) \/ LogoutEnds(t)

Spec == Init /\ [][Next]_vars

\* Servers answer and browsers take what was answered; nobody has to call.
Fairness ==
  /\ \A c \in Calls : WF_vars(Serve(c)) /\ WF_vars(Refuse(c)) /\ WF_vars(Deny(c))
  /\ \A t \in Tabs : WF_vars(Refresh(t)) /\ WF_vars(RefreshEnds(t))

FairSpec == Spec /\ Fairness

-----------------------------------------------------------------------------
(* Properties. *)

\* "A role demoted last week must not survive in a token minted a month ago":
\* a call is served under a role only if the user, active, had that role less
\* than the life of an access token ago.
RoleIsRecent ==
  [][\A c \in Calls :
       call[c].token.life > 0 /\ call'[c].at = "idle" => heldAgo[call[c].token.role] < AccessTTL]_vars

\* While the refresh token is good and neither the network, the limiter nor
\* the user's row gets in the way, no call that may be sent again is refused
\* for good, however many expire at once.
CalmCallsSucceed ==
  calm => \A c \in Calls : ~call[c].denied

\* Every call ends: no caller waits for a refresh that is over, and none is
\* sent again for ever.
CallsEnd == \A c \in Calls : call[c].at # "idle" ~> call[c].at = "idle"

=============================================================================
