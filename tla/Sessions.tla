------------------------------ MODULE Sessions ------------------------------
(***************************************************************************)
(* Signing in, staying signed in and signing out: the refresh tokens of    *)
(* the API (AuthService) and one browser tab, its storage, its store and   *)
(* the requests it has under way (auth-session.ts, api.ts).                *)
(*                                                                         *)
(* The tab is one page after another: signing out navigates within it, and *)
(* what is under way stays so. Signing in is modelled of a tab that is     *)
(* signed out.                                                             *)
(***************************************************************************)
EXTENDS Naturals

CONSTANTS
  User,      \* accounts
  MaxTokens, \* bound on the refresh tokens issued
  Request,   \* requests of the tab, each one at a time
  None       \* null

Token == 1..MaxTokens

TokenRow == [user : User, revoked : BOOLEAN]

\* Null is no account, no pair and no row.
SessionsAssumption ==
  /\ MaxTokens \in Nat
  /\ None \notin User /\ None \notin Token /\ None \notin TokenRow

VARIABLES
  token,   \* refresh_tokens, by the order of issue; an access token bears the number of its pair
  expired, \* pairs whose access token has expired
  storage, \* sessionStorage: the pair the tab holds
  user,    \* the account in the store of the tab
  req      \* the requests of the tab

vars == <<token, expired, storage, user, req>>
-----------------------------------------------------------------------------
\* A request: what it waits for, the pair it was sent with, the refresh token it presents,
\* and the pair issued for it.
Step   == {"idle", "sent", "refused", "checked", "issued"}
NoReq  == [step |-> "idle", pair |-> None, presents |-> None, issued |-> None]

Owner(t) == token[t].user
Issued   == {t \in Token : token[t] # None}
Live(t)  == token[t] # None /\ ~token[t].revoked

Init ==
  /\ token = [t \in Token |-> None]
  /\ expired = {}
  /\ storage = None
  /\ user = None
  /\ req = [r \in Request |-> NoReq]

-----------------------------------------------------------------------------
\* _issueTokens: one row, and the pair is numbered by it.
Issues(t, u) ==
  /\ token[t] = None
  /\ \A s \in 1..(t - 1) : token[s] # None
  /\ token' = [token EXCEPT ![t] = [user |-> u, revoked |-> FALSE]]

\* AuthService.login, and the page that asked for it: store and cache are emptied before,
\* the storage is replaced after.
Login(u, t) ==
  /\ storage = None
  /\ Issues(t, u)
  /\ storage' = t
  /\ user' = u
  /\ UNCHANGED <<expired, req>>

\* handleLogout of the tab: nothing is told to the API, nothing under way is dropped.
SignOut ==
  /\ user # None
  /\ storage' = None
  /\ user' = None
  /\ UNCHANGED <<token, expired, req>>

\* The pairs the tab still uses: nobody looks at another again.
InUse == {t \in Issued : t = storage \/ \E r \in Request : t \in {req[r].pair, req[r].presents}}

\* AuthService.logout, as other clients of the API call it.
Revoke(t) ==
  /\ t \in InUse /\ Live(t)
  /\ token' = [token EXCEPT ![t].revoked = TRUE]
  /\ UNCHANGED <<expired, storage, user, req>>

\* The access token of a pair reaches its age.
Expire(t) ==
  /\ t \in InUse \ expired
  /\ expired' = expired \cup {t}
  /\ UNCHANGED <<token, storage, user, req>>

-----------------------------------------------------------------------------
\* request: sent with the access token the tab holds.
Send(r) ==
  /\ storage # None
  /\ req[r].step = "idle"
  /\ req' = [req EXCEPT ![r] = [NoReq EXCEPT !.step = "sent", !.pair = storage]]
  /\ UNCHANGED <<token, expired, storage, user>>

\* requireAuth accepts the access token.
Answered(r) ==
  /\ req[r].step = "sent"
  /\ req[r].pair \notin expired
  /\ req' = [req EXCEPT ![r] = NoReq]
  /\ UNCHANGED <<token, expired, storage, user>>

\* clearAuthSession and redirectToLogin: a new page is loaded and what was under way is gone.
GiveUp ==
  /\ storage' = None
  /\ user' = None
  /\ req' = [q \in Request |-> NoReq]

\* Faulty: the refresh is tried with whatever the tab holds.
UnauthorizedBlind(r) ==
  /\ req[r].step = "sent"
  /\ req[r].pair \in expired
  /\ req' = [req EXCEPT ![r].step = "refused", ![r].presents = storage]
  /\ UNCHANGED <<token, expired, storage, user>>

\* A 401: refreshAccessToken presents the refresh token the tab holds by now, and without
\* one gives up.
Unauthorized(r) ==
  /\ req[r].step = "sent"
  /\ req[r].pair \in expired
  /\ IF storage = None
     THEN GiveUp
     ELSE /\ req' = [req EXCEPT ![r].step = "refused", ![r].presents = storage]
          /\ UNCHANGED <<storage, user>>
  /\ UNCHANGED <<token, expired>>

\* AuthService.refresh reads the row: a revoked token is refused.
CheckRefresh(r) ==
  /\ req[r].step = "refused"
  /\ IF Live(req[r].presents)
     THEN /\ req' = [req EXCEPT ![r].step = "checked"]
          /\ UNCHANGED <<storage, user>>
     ELSE GiveUp
  /\ UNCHANGED <<token, expired>>

IssueRefreshed(r, t) ==
  /\ req[r].step = "checked"
  /\ Issues(t, Owner(req[r].presents))
  /\ req' = [req EXCEPT ![r].step = "issued", ![r].issued = t]
  /\ UNCHANGED <<expired, storage, user>>

\* Faulty: the column holds any string, and nothing else stands in the way.
ColumnTakesAny(kind) == TRUE

\* RefreshToken.replacedBy is a UUID column.
ColumnTakes(kind) == kind = "uuid"

\* The update of the old row: replacedBy is given the SHA-256 of the new token. A refused
\* update throws, and refresh fails although the new row is there. Were it not refused, the
\* tab would be given the new pair, wherever it is by then, and the request sent once more:
\* its answer, even a second 401, is the caller's.
Replace(r) ==
  /\ req[r].step = "issued"
  /\ IF ColumnTakes("sha256")
     THEN /\ token' = [token EXCEPT ![req[r].presents].revoked = TRUE]
          /\ storage' = req[r].issued
          /\ req' = [req EXCEPT ![r] = NoReq]
          /\ UNCHANGED user
     ELSE GiveUp /\ UNCHANGED token
  /\ UNCHANGED expired

Next ==
  \/ SignOut
  \/ \E t \in Token : Revoke(t) \/ Expire(t) \/ \E u \in User : Login(u, t)
  \/ \E r \in Request :
       \/ Send(r) \/ Answered(r) \/ Unauthorized(r) \/ CheckRefresh(r) \/ Replace(r)
       \/ \E t \in Token : IssueRefreshed(r, t)

Spec == Init /\ [][Next]_vars
-----------------------------------------------------------------------------
RequestType == [step : Step, pair : Token \cup {None}, presents : Token \cup {None},
                issued : Token \cup {None}]

\* The variables keep their types, and a request that refreshes presents a token that exists.
TypeOK ==
  /\ token \in [Token -> TokenRow \cup {None}]
  /\ expired \subseteq Issued
  /\ storage \in Issued \cup {None}
  /\ user \in User \cup {None}
  /\ req \in [Request -> RequestType]
  /\ \A r \in Request :
       /\ req[r].step # "idle" => req[r].pair \in Issued
       /\ req[r].step \in {"refused", "checked", "issued"} => req[r].presents \in Issued
       /\ req[r].step = "issued" => req[r].issued \in Issued

\* The pair in the storage and the account in the store are always of one user, or both gone:
\* no late answer to a request of an earlier session signs anybody in, or somebody else.
TabCoherent == user = IF storage = None THEN None ELSE Owner(storage)

\* Claim: a session lasts as long as its refresh token: what ends it, other than signing out,
\* which leaves the requests alone, is that the token was revoked.
SessionPersists ==
  [][storage # None /\ storage' = None /\ req' # req => ~Live(storage)]_vars
=============================================================================
