----------------------------- MODULE ApiAccess -----------------------------
(***************************************************************************)
(* What stands between a browser and the product data: GitHub sign-in with  *)
(* a single-use OAuth state, durable sessions, the refresh of an expired    *)
(* user credential, and the repository authorization that asks GitHub on    *)
(* every request.  Requests of one browser run concurrently; each is split  *)
(* at its awaits, and GitHub may change in between.                         *)
(*                                                                          *)
(* One user and one repository: rows of different users and authorizations  *)
(* of different repositories share nothing.  Hashing, encryption, cookie    *)
(* attributes, and requests refused before anything is read (no cookie, no  *)
(* code, a state cookie of another sign-in) are left out.  What "now" is at a *)
(* lookup is the moment of the lookup.                                       *)
(***************************************************************************)
EXTENDS Naturals

CONSTANTS
  Requests,        \* request slots of the server
  OAuthStates,     \* sign-ins the browser may begin
  Sessions,        \* session rows
  Installations,   \* GitHub App installations
  Recorded,        \* the one the repository is on record under; no code changes it
  Situations,      \* what GitHub may say of the user and the repository: visible
                   \* installations, the repository's own, its permission object
  Rotates,         \* GitHub replaces the refresh token with each exchange
  NoState, NoSession,
  MaxGrants,       \* bound: credentials GitHub issues
  MaxUpsets        \* bound: changes of access on GitHub, failing requests and statements

ASSUME AccessAssumption ==
  /\ NoState \notin OAuthStates /\ NoSession \notin Sessions
  /\ Recorded \in Installations
  /\ Situations \subseteq [visible : SUBSET Installations, home : Installations,
                           flags : SUBSET {"admin", "maintain", "push", "triage", "pull"}]
  /\ Rotates \in BOOLEAN
  /\ MaxGrants \in Nat /\ MaxUpsets \in Nat

VARIABLES
  oauthState,   \* oauth_states: "none", "issued", "consumed" or "expired"
  session,      \* auth_sessions: status ("over": revoked or past its time) and origin
  userRow,      \* auth_users: number of the access and of the refresh token, 0 is none
  request,      \* where each request stands
  github,       \* the situation on GitHub
  issued,       \* credentials GitHub has issued so far, numbered
  dead,         \* access tokens past their time
  lapsed,       \* refresh tokens past their time
  spent,        \* refresh tokens exchanged; their access token is replaced with them
  withdrawn,    \* credentials the user has withdrawn on GitHub
  changes, faults

credentials == <<issued, dead, lapsed, spent, withdrawn>>
limits == <<changes, faults>>
vars == <<oauthState, session, userRow, request, github, credentials, limits>>

CallbackAwaits == {"consume", "exchange", "upsert", "create"}
ApiAwaits == {"find", "refresh", "store", "touch",
              "installations", "repositories", "query"}
InFlight == CallbackAwaits \union ApiAwaits

Token == [access : 0 .. issued, refresh : 0 .. issued]
NoToken == [access |-> 0, refresh |-> 0]

\* at: the await; session, state: what the cookies named; token:
\* the credential the request works with; next: the one GitHub has just issued to
\* it.  active, granted and quiet are history no action reads: the session was
\* active, GitHub granted the repository, at some moment of the request, and
\* nothing has interfered since it came.
Request == [at : InFlight \union {"idle"}, session : Sessions \union {NoSession},
            state : OAuthStates \union {NoState},
            token : Token, next : Token, active : BOOLEAN, granted : BOOLEAN, quiet : BOOLEAN]
Idle == [at |-> "idle", session |-> NoSession, state |-> NoState,
         token |-> NoToken, next |-> NoToken, active |-> FALSE, granted |-> FALSE, quiet |-> FALSE]

TypeOK ==
  /\ oauthState \in [OAuthStates -> {"none", "issued", "consumed", "expired"}]
  /\ session \in [Sessions -> [status : {"none", "active", "over"},
                               from : OAuthStates \union {NoState}]]
  /\ userRow \in Token
  /\ request \in [Requests -> Request]
  /\ github \in Situations
  /\ issued \in 0 .. MaxGrants
  /\ dead \subseteq 1 .. issued /\ lapsed \subseteq 1 .. issued
  /\ spent \subseteq 1 .. issued /\ withdrawn \subseteq 1 .. issued
  /\ changes \in 0 .. MaxUpsets /\ faults \in 0 .. MaxUpsets

Init ==
  /\ oauthState = [o \in OAuthStates |-> "none"]
  /\ session = [s \in Sessions |-> [status |-> "none", from |-> NoState]]
  /\ userRow = NoToken
  /\ request = [r \in Requests |-> Idle]
  /\ github \in Situations
  /\ issued = 0 /\ dead = {} /\ lapsed = {} /\ spent = {} /\ withdrawn = {}
  /\ changes = 0 /\ faults = 0

-----------------------------------------------------------------------------
(* Permission of the user, as the authorization service works it out *)

\* mapGitHubRepositoryPermission and ACCESS_RANK; 0 stands for null.
Rank(flags) ==
  CASE "admin" \in flags -> 3
    [] "admin" \notin flags /\ flags \intersect {"maintain", "push"} # {} -> 2
    [] flags \intersect {"admin", "maintain", "push"} = {}
         /\ flags \intersect {"triage", "pull"} # {} -> 1
    [] OTHER -> 0

RequiredRank == 1   \* every product query asks for READ

\* authorizeRepositoryAccess, with the HTTP server's translation of a refusal.
PolicyAnswer(rank) ==
  CASE rank = 0 -> "NOT_FOUND"
    [] rank \in 1 .. RequiredRank - 1 -> "INSUFFICIENT_ACCESS"
    [] OTHER -> "query"

\* What GitHub would say at one moment, were it asked everything at once.
Granted(g) ==
  Recorded \in g.visible /\ g.home = Recorded /\ g.flags # {}

\* A token GitHub accepts; an exchange replaces the access token as well.
Accepted(access) == access \in (1 .. issued) \ (dead \union spent \union withdrawn)
Exchangeable(refresh) == refresh \in (1 .. issued) \ (lapsed \union spent \union withdrawn)

\* With this row a request can go on without its user.
Usable(row) ==
  \/ Accepted(row.access)
  \/ row.access \in dead \ withdrawn /\ Exchangeable(row.refresh)

-----------------------------------------------------------------------------
(* Bookkeeping *)

Underway(r) == request[r].at # "idle"

Moves(r, at) == request' = [request EXCEPT ![r].at = at]

\* The answer is sent and the request forgotten.
Done(r) == request' = [request EXCEPT ![r] = Idle]

\* r becomes entry, and every other request under way is disturbed by it.
Disturbs(r, entry) ==
  request' = [x \in Requests |->
                IF x = r THEN entry
                ELSE IF Underway(x) THEN [request[x] EXCEPT !.quiet = FALSE] ELSE request[x]]

\* All requests under way are disturbed; from now on access is as in g.
AllDisturbed(g) ==
  request' = [x \in Requests |->
                IF Underway(x)
                THEN [request[x] EXCEPT !.quiet = FALSE, !.granted = @ \/ Granted(g)]
                ELSE request[x]]

Fault == changes + faults < MaxUpsets /\ faults' = faults + 1

-----------------------------------------------------------------------------
(* Sign-in *)

\* GET /auth/github/login.
BeginLogin(o) ==
  /\ oauthState[o] = "none"
  /\ oauthState' = [oauthState EXCEPT ![o] = "issued"]
  /\ UNCHANGED <<session, userRow, request, github, credentials, limits>>

\* GitHub sends the browser back, perhaps once more when the page is reloaded.
CallbackArrives(r, o) ==
  /\ ~Underway(r)
  /\ oauthState[o] # "none"
  /\ request' = [request EXCEPT ![r] = [Idle EXCEPT !.at = "consume", !.state = o]]
  /\ UNCHANGED <<oauthState, session, userRow, github, credentials, limits>>

\* Mutant of Consumable: consumed_at is not looked at.
Consumable_Again(o) == oauthState[o] \in {"issued", "consumed"}

Consumable(o) == oauthState[o] = "issued"

\* OAuthStateRepository.consume, one conditional UPDATE.
Consume(r) ==
  /\ request[r].at = "consume"
  /\ IF Consumable(request[r].state)
     THEN /\ oauthState' = [oauthState EXCEPT ![request[r].state] = "consumed"]
          /\ Moves(r, "exchange")
     ELSE oauthState' = oauthState /\ Done(r)
  /\ UNCHANGED <<session, userRow, github, credentials, limits>>

\* exchangeCode and fetchViewer: a new credential of the user.
Exchange(r) ==
  /\ request[r].at = "exchange"
  /\ issued < MaxGrants
  /\ issued' = issued + 1
  /\ request' = [request EXCEPT
       ![r].at = "upsert", ![r].next = [access |-> issued + 1, refresh |-> issued + 1]]
  /\ UNCHANGED <<oauthState, session, userRow, github,
                 dead, lapsed, spent, withdrawn, limits>>

\* upsertGitHubUser: the row of the user, whatever it held.
Upsert(r) ==
  /\ request[r].at = "upsert"
  /\ userRow' = request[r].next
  /\ Disturbs(r, [request[r] EXCEPT !.at = "create", !.next = NoToken])
  /\ UNCHANGED <<oauthState, session, github, credentials, limits>>

\* The session row.
CreateSession(r) ==
  /\ request[r].at = "create"
  /\ \E s \in Sessions :
       /\ session[s].status = "none"
       /\ session' = [session EXCEPT ![s] = [status |-> "active", from |-> request[r].state]]
  /\ Done(r)
  /\ UNCHANGED <<oauthState, userRow, github, credentials, limits>>

\* POST /auth/logout: revokeByTokenHash.
SignOut(s) ==
  /\ session[s].status = "active"
  /\ session' = [session EXCEPT ![s].status = "over"]
  /\ UNCHANGED <<oauthState, userRow, request, github, credentials, limits>>

-----------------------------------------------------------------------------
(* GET /api/...: the session and the credential *)

\* A page asks for its user or for the repository.
ApiArrives(r, s) ==
  /\ ~Underway(r)
  /\ session[s].status # "none"
  /\ request' = [request EXCEPT ![r] = [Idle EXCEPT
       !.at = "find", !.session = s,
       !.active = (session[s].status = "active"),
       !.granted = Granted(github),
       !.quiet = Usable(userRow)]]
  /\ UNCHANGED <<oauthState, session, userRow, github, credentials, limits>>

\* Mutant of FindActive: neither revoked_at nor expires_at is looked at.
FindActive_Over(s) == session[s].status \in {"active", "over"}

FindActive(s) == session[s].status = "active"

\* Mutant of NeedsRefresh: the user signs in anew when the access token is due.
NeedsRefresh_Never(row) == FALSE

\* refreshUserCredential's two early returns.
NeedsRefresh(row) == row.access \in dead /\ row.refresh # 0 /\ row.refresh \notin lapsed

Find(r) ==
  /\ request[r].at = "find"
  /\ IF FindActive(request[r].session)
     THEN request' = [request EXCEPT
            ![r].token = userRow,
            ![r].at = IF NeedsRefresh(userRow) THEN "refresh" ELSE "touch"]
     ELSE Done(r)
  /\ UNCHANGED <<oauthState, session, userRow, github, credentials, limits>>

\* GitHub exchanges a refresh token, once when it replaces it.
GitHubExchanges(refresh) ==
  /\ issued < MaxGrants
  /\ issued' = issued + 1
  /\ spent' = IF Rotates THEN spent \union {refresh} ELSE spent

\* refreshAccessToken; a refusal is caught and the request goes on with the row
\* it has read.
Refresh(r) ==
  /\ request[r].at = "refresh"
  /\ IF Exchangeable(request[r].token.refresh)
     THEN /\ GitHubExchanges(request[r].token.refresh)
          /\ Disturbs(r, [request[r] EXCEPT
               !.at = "store",
               !.next = [access |-> issued + 1,
                         refresh |-> IF Rotates THEN issued + 1 ELSE 0]])
     ELSE UNCHANGED <<issued, spent>> /\ Moves(r, "touch")
  /\ UNCHANGED <<oauthState, session, userRow, github,
                 dead, lapsed, withdrawn, limits>>

\* GitHub has exchanged the token and its answer is lost: caught as well.
RefreshAnswerLost(r) ==
  /\ request[r].at = "refresh"
  /\ Exchangeable(request[r].token.refresh)
  /\ Fault
  /\ GitHubExchanges(request[r].token.refresh)
  /\ Disturbs(r, [request[r] EXCEPT !.at = "touch", !.quiet = FALSE])
  /\ UNCHANGED <<oauthState, session, userRow, github,
                 dead, lapsed, withdrawn, changes>>

\* Mutant of Stored: the refresh token that was exchanged is kept.
Stored_KeepsRefresh(row, next) == [row EXCEPT !.access = next.access]

\* What the row becomes: the old refresh token is kept when GitHub sent none.
Stored(row, next) == IF next.refresh = 0 THEN [row EXCEPT !.access = next.access] ELSE next

Store(r) ==
  /\ request[r].at = "store"
  /\ userRow' = Stored(request[r].token, request[r].next)
  /\ Disturbs(r, [request[r] EXCEPT !.at = "touch", !.next = NoToken,
                                     !.token = Stored(@, request[r].next)])
  /\ UNCHANGED <<oauthState, session, github, credentials, limits>>

\* The UPDATE fails: the new credential is dropped, the request goes on.
StoreFails(r) ==
  /\ request[r].at = "store"
  /\ Fault
  /\ request' = [request EXCEPT ![r].at = "touch", ![r].next = NoToken, ![r].quiet = FALSE]
  /\ UNCHANGED <<oauthState, session, userRow, github, credentials, changes>>

\* The session row may be touched; then /api/auth/me is answered, ...
TellUser(r) ==
  /\ request[r].at = "touch"
  /\ Done(r)
  /\ UNCHANGED <<oauthState, session, userRow, github, credentials, limits>>

\* ... or authorize() looks at the token's time once more (Reauthenticate) and
\* reads the scope row: the repository joined with its installation.  No code
\* rewrites that row, and one that is not on record is answered 404 here.
Touch(r) ==
  /\ request[r].at = "touch"
  /\ request[r].token.access \notin dead
  /\ Moves(r, "installations")
  /\ UNCHANGED <<oauthState, session, userRow, github, credentials, limits>>

-----------------------------------------------------------------------------
(* The repository authorization and the query *)

\* Mutant of ListedHere: the repository is looked for in every installation.
ListedHere_Anywhere == TRUE

\* The repository is in the list of its recorded installation.
ListedHere == github.home = Recorded

\* GET /user/installations; the recorded one must be among them.
ListInstallations(r) ==
  /\ request[r].at = "installations"
  /\ Accepted(request[r].token.access)
  /\ Recorded \in github.visible
  /\ Moves(r, "repositories")
  /\ UNCHANGED <<oauthState, session, userRow, github, credentials, limits>>

\* GET /user/installations/{id}/repositories, and what its permission object
\* allows.
ListRepositories(r) ==
  /\ request[r].at = "repositories"
  /\ Accepted(request[r].token.access)
  /\ Recorded \in github.visible
  /\ ListedHere /\ PolicyAnswer(Rank(github.flags)) = "query"
  /\ Moves(r, "query")
  /\ UNCHANGED <<oauthState, session, userRow, github, credentials, limits>>

\* 404: the recorded installation or the repository is not listed, or the user
\* has no permission there.  (403 INSUFFICIENT_ACCESS takes a query that asks
\* for more than READ.)
Hide(r) ==
  /\ Accepted(request[r].token.access)
  /\ \/ request[r].at = "installations" /\ Recorded \notin github.visible
     \/ /\ request[r].at = "repositories" /\ Recorded \in github.visible
        /\ ~ListedHere \/ PolicyAnswer(Rank(github.flags)) = "NOT_FOUND"
  /\ Done(r)
  /\ UNCHANGED <<oauthState, session, userRow, github, credentials, limits>>

\* 401 REAUTHENTICATION_REQUIRED: the token is past its time, or GitHub refuses it.
Reauthenticate(r) ==
  /\ \/ request[r].at = "touch" /\ request[r].token.access \in dead
     \/ /\ request[r].at \in {"installations", "repositories"}
        /\ ~Accepted(request[r].token.access)
  /\ Done(r)
  /\ UNCHANGED <<oauthState, session, userRow, github, credentials, limits>>

\* GitHub refuses the list of an installation the user cannot see any more: 500.
InstallationGone(r) ==
  /\ request[r].at = "repositories"
  /\ Accepted(request[r].token.access) /\ Recorded \notin github.visible
  /\ Done(r)
  /\ UNCHANGED <<oauthState, session, userRow, github, credentials, limits>>

\* handleProductHttpRequest: one of the five queries is answered.
Query(r) ==
  /\ request[r].at = "query"
  /\ Done(r)
  /\ UNCHANGED <<oauthState, session, userRow, github, credentials, limits>>

\* Everything the refresh does not catch is answered 500.
RequestFails(r) ==
  /\ request[r].at \in InFlight \ {"refresh", "store"}
  /\ Fault
  /\ Done(r)
  /\ UNCHANGED <<oauthState, session, userRow, github, credentials, changes>>

-----------------------------------------------------------------------------
(* Time and GitHub *)

\* The credentials whose end makes a difference: stored, or read by a request.
\* Tokens live for hours, so none ends between GitHub's answer and its storing.
InUse == {userRow} \union {request[r].token : r \in Requests}

AccessExpires(g) ==
  /\ g \in {row.access : row \in InUse} \ (dead \union {0})
  /\ dead' = dead \union {g}
  /\ AllDisturbed(github)
  /\ UNCHANGED <<oauthState, session, userRow, github,
                 issued, lapsed, spent, withdrawn, limits>>

\* Refresh tokens live longer than access tokens.
RefreshExpires(g) ==
  /\ g \in {row.refresh : row \in InUse} \ (lapsed \union spent \union {0})
  /\ g \in dead
  /\ lapsed' = lapsed \union {g}
  /\ AllDisturbed(github)
  /\ UNCHANGED <<oauthState, session, userRow, github,
                 issued, dead, spent, withdrawn, limits>>

SessionExpires(s) ==
  /\ session[s].status = "active"
  /\ session' = [session EXCEPT ![s].status = "over"]
  /\ UNCHANGED <<oauthState, userRow, request, github, credentials, limits>>

StateExpires(o) ==
  /\ oauthState[o] = "issued"
  /\ oauthState' = [oauthState EXCEPT ![o] = "expired"]
  /\ UNCHANGED <<session, userRow, request, github, credentials, limits>>

Change == changes + faults < MaxUpsets /\ changes' = changes + 1

\* Somebody changes what the user may see, or moves the repository.
AccessChanges ==
  /\ Change
  /\ github' \in Situations \ {github}
  /\ AllDisturbed(github')
  /\ UNCHANGED <<oauthState, session, userRow, credentials, faults>>

\* The user withdraws the authorization of the App on GitHub.
AuthorizationWithdrawn ==
  /\ Change
  /\ withdrawn # 1 .. issued /\ withdrawn' = 1 .. issued
  /\ AllDisturbed(github)
  /\ UNCHANGED <<oauthState, session, userRow, github,
                 issued, dead, lapsed, spent, faults>>

-----------------------------------------------------------------------------
Callback(r) == Consume(r) \/ Exchange(r) \/ Upsert(r) \/ CreateSession(r)
Resolve(r) ==
  Find(r) \/ Refresh(r) \/ RefreshAnswerLost(r) \/ Store(r) \/ StoreFails(r) \/ TellUser(r)
Authorize(r) ==
  \/ Touch(r) \/ ListInstallations(r) \/ ListRepositories(r) \/ Query(r)
  \/ Hide(r) \/ Reauthenticate(r) \/ InstallationGone(r)

Environment ==
  \/ \E g \in 1 .. MaxGrants : AccessExpires(g) \/ RefreshExpires(g)
  \/ \E s \in Sessions : SessionExpires(s) \/ SignOut(s)
  \/ \E o \in OAuthStates : StateExpires(o) \/ BeginLogin(o)
  \/ AccessChanges \/ AuthorizationWithdrawn

Next ==
  \/ \E r \in Requests :
       \/ Callback(r) \/ Resolve(r) \/ Authorize(r) \/ RequestFails(r)
       \/ \E o \in OAuthStates : CallbackArrives(r, o)
       \/ \E s \in Sessions : ApiArrives(r, s)
  \/ Environment

Spec == Init /\ [][Next]_vars

-----------------------------------------------------------------------------
(* Properties *)

\* A state signs in once: of all the callbacks that bring it, also two at a time
\* or one after the state has expired, at most one gets past the consumption,
\* and at most one session comes from it.
Passed(r) == request[r].at \in {"exchange", "upsert", "create"}
OneSignInPerState ==
  /\ \A r, q \in Requests :
       Passed(r) /\ Passed(q) /\ request[r].state = request[q].state => r = q
  /\ \A s, t \in Sessions : session[s].from = session[t].from => s = t \/ session[s].from = NoState
  /\ \A r \in Requests, s \in Sessions : Passed(r) => session[s].from # request[r].state
  /\ \A r \in Requests : Passed(r) => oauthState[request[r].state] = "consumed"
  /\ \A s \in Sessions : session[s].from # NoState => oauthState[session[s].from] = "consumed"

\* An answer with content was due: the session was neither signed out nor
\* expired when the request came, and, for product data, GitHub granted the
\* repository through its recorded installation at a moment of the request,
\* although session, installations and repositories are asked one by one.
AnswersAreAuthorized ==
  [][\A r \in Requests :
       /\ TellUser(r) \/ Query(r) => request[r].active
       /\ Query(r) => request[r].granted]_vars

\* The stored credential outlives concurrent refreshes and sign-ins: a refresh
\* token that GitHub has already exchanged stays in the row only while the
\* request that exchanged it is about to store its successor, or after a fault.
CredentialSurvives ==
  userRow.refresh \in spent /\ faults = 0 =>
    \E r \in Requests : request[r].at = "store" /\ request[r].token.refresh = userRow.refresh

\* What the properties above rest on.  A credential issued to a request and not yet
\* stored is nobody else's and has not been exchanged; the request that has
\* exchanged a token is about to store its successor.
PendingIsFresh ==
  /\ \A r, q \in Requests :
       request[r].next.refresh # 0 =>
         /\ request[r].next.refresh \notin spent
         /\ request[r].next.refresh \notin {userRow.refresh, request[q].token.refresh}
         /\ r # q => request[r].next.refresh # request[q].next.refresh
  /\ \A r \in Requests :
       /\ request[r].at = "upsert" => request[r].next.refresh # 0
       /\ request[r].at = "store" /\ Rotates =>
            request[r].next.refresh # 0 /\ request[r].token.refresh \in spent
  /\ ~Rotates => spent = {}

\* What a request has with it, and has found out, by the await it is at.
FoundOut ==
  \A r \in Requests :
    /\ request[r].at \in CallbackAwaits => request[r].state \in OAuthStates
    /\ request[r].at \in ApiAwaits =>
         /\ request[r].session \in Sessions
         /\ session[request[r].session].status # "none"
         /\ session[request[r].session].status = "active" => request[r].active
         /\ request[r].at # "find" => request[r].active
         /\ Granted(github) => request[r].granted
         /\ request[r].at = "query" => request[r].granted

AccessInv ==
  TypeOK /\ OneSignInPerState /\ PendingIsFresh /\ CredentialSurvives /\ FoundOut

\* A request that nothing interferes with is refused only when one look at GitHub
\* would refuse it: an expired access token is not noticed, and reauthentication
\* is asked for only when the credential was lost, or something expired, was
\* withdrawn, or was exchanged or replaced by another request meanwhile.
QuietRequestIsExact ==
  [][\A r \in Requests :
       request[r].quiet => ~Reauthenticate(r) /\ (Hide(r) => ~request[r].granted)]_vars
=============================================================================
