-------------------------------- MODULE Session --------------------------------
(***************************************************************************)
(* Who is logged in: useAuthStore in every tab of a browser, the token they  *)
(* share in localStorage, and the server that makes tokens and judges them  *)
(* (auth_router, AuthMiddleware, get_current_user).  Accounts are disabled  *)
(* and tokens expire; an answer may be lost or come after the user has done *)
(* something else.                                                          *)
(***************************************************************************)
EXTENDS Integers, FiniteSets

CONSTANTS
  Tabs,
  Users,
  Nobody,     \* not one of the users
  MaxTokens,  \* bound on the logins
  MaxLoads    \* bound on the pages loaded

VARIABLES
  stored,    \* localStorage: the access token
  token,     \* per tab: accessToken
  user,      \* per tab: user
  restoring, \* per tab: storedToken of a restore that waits
  loggingIn, \* per tab: whose login waits
  owner,     \* the tokens made so far and whose they are
  expired,   \* those that are not valid any more
  disabled,  \* the users that are not active
  loads

vars == <<stored, token, user, restoring, loggingIn, owner, expired, disabled, loads>>

NoToken == 0

Tokens == 1..MaxTokens

TypeOK ==
  /\ stored \in {NoToken} \cup Tokens
  /\ token \in [Tabs -> {NoToken} \cup Tokens]
  /\ user \in [Tabs -> {Nobody} \cup Users]
  /\ restoring \in [Tabs -> {NoToken} \cup Tokens]
  /\ loggingIn \in [Tabs -> {Nobody} \cup Users]
  /\ DOMAIN owner \subseteq Tokens /\ \A n \in DOMAIN owner : owner[n] \in Users
  /\ expired \subseteq Tokens /\ disabled \subseteq Users
  /\ loads \in 0..MaxLoads

Init ==
  /\ stored = NoToken /\ owner = << >> /\ expired = {} /\ disabled = {} /\ loads = 0
  /\ token = [t \in Tabs |-> NoToken] /\ user = [t \in Tabs |-> Nobody]
  /\ restoring = [t \in Tabs |-> NoToken] /\ loggingIn = [t \in Tabs |-> Nobody]

-----------------------------------------------------------------------------
(* The server.                                                             *)

Disable(u) ==
  /\ u \notin disabled
  /\ disabled' = disabled \cup {u}
  /\ UNCHANGED <<stored, token, user, restoring, loggingIn, owner, expired, loads>>

Expire(n) ==
  /\ n \in DOMAIN owner \ expired
  /\ expired' = expired \cup {n}
  /\ UNCHANGED <<stored, token, user, restoring, loggingIn, owner, disabled, loads>>

\* AuthMiddleware and get_current_user: whom a request with this token is for.
CurrentUser(n) == IF n \in expired \/ owner[n] \in disabled THEN Nobody ELSE owner[n]

-----------------------------------------------------------------------------
(* A tab.                                                                  *)

\* The page is loaded: the store is made anew, and restore asks for the user.
\* The request takes the token from localStorage, where the store has just found it.
Load(t) ==
  /\ loads < MaxLoads
  /\ loads' = loads + 1
  /\ token' = [token EXCEPT ![t] = stored]
  /\ user' = [user EXCEPT ![t] = Nobody]
  /\ restoring' = [restoring EXCEPT ![t] = stored]
  /\ loggingIn' = [loggingIn EXCEPT ![t] = Nobody]
  /\ UNCHANGED <<stored, owner, expired, disabled>>

LoggedOut(t) ==
  /\ token' = [token EXCEPT ![t] = NoToken]
  /\ user' = [user EXCEPT ![t] = Nobody]
  /\ stored' = NoToken

\* Plausible slip: the answer is taken as it comes.
TakenAnyway(t) == TRUE

StillThere(t) == token[t] = restoring[t]

\* The answer of /auth/me, which is the user, a refusal or none at all.
RestoreReturns(t) ==
  /\ restoring[t] # NoToken
  /\ restoring' = [restoring EXCEPT ![t] = NoToken]
  /\ \/ /\ CurrentUser(restoring[t]) # Nobody
        /\ user' = [user EXCEPT ![t] = IF StillThere(t) THEN CurrentUser(restoring[t]) ELSE @]
        /\ UNCHANGED <<stored, token>>
     \/ IF StillThere(t) THEN LoggedOut(t) ELSE UNCHANGED <<stored, token, user>>
  /\ UNCHANGED <<loggingIn, owner, expired, disabled, loads>>

\* The login page is only shown without a token, and waits for one answer.
StartLogin(t, u) ==
  /\ token[t] = NoToken /\ loggingIn[t] = Nobody
  /\ loggingIn' = [loggingIn EXCEPT ![t] = u]
  /\ UNCHANGED <<stored, token, user, restoring, owner, expired, disabled, loads>>

\* /auth/login refuses a wrong password and a disabled account.
LoginReturns(t) ==
  LET n == Cardinality(DOMAIN owner) + 1 IN
  /\ loggingIn[t] # Nobody
  /\ loggingIn' = [loggingIn EXCEPT ![t] = Nobody]
  /\ \/ /\ loggingIn[t] \notin disabled /\ n <= MaxTokens
        /\ owner' = [k \in 1..n |-> IF k = n THEN loggingIn[t] ELSE owner[k]]
        /\ token' = [token EXCEPT ![t] = n]
        /\ user' = [user EXCEPT ![t] = loggingIn[t]]
        /\ stored' = n
     \/ UNCHANGED <<owner, token, user, stored>>
  /\ UNCHANGED <<restoring, expired, disabled, loads>>

Logout(t) ==
  /\ token[t] # NoToken
  /\ LoggedOut(t)
  /\ UNCHANGED <<restoring, loggingIn, owner, expired, disabled, loads>>

Next ==
  \/ \E t \in Tabs : \/ Load(t) \/ RestoreReturns(t) \/ LoginReturns(t) \/ Logout(t)
                     \/ \E u \in Users : StartLogin(t, u)
  \/ \E u \in Users : Disable(u)
  \/ \E n \in Tokens : Expire(n)

Spec == Init /\ [][Next]_vars

-----------------------------------------------------------------------------
(* What must hold.                                                         *)

\* A tab shows the user whose token it has and nobody without one, although the
\* answer about a token may come when the user has logged out or is another one.
\* (Requests take the token from localStorage: with two tabs that is the one of
\* the last login, whomever the other tab shows.)
ShownUserIsOwner ==
  \A t \in Tabs : user[t] # Nobody => token[t] # NoToken /\ owner[token[t]] = user[t]
=============================================================================
