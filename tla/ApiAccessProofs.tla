-------------------------- MODULE ApiAccessProofs --------------------------
(***************************************************************************)
(* AccessInv is inductive; OneSignInPerState, CredentialSurvives and        *)
(* AnswersAreAuthorized follow.  So is QuietInv beside it, from which       *)
(* QuietRequestIsExact follows.  For any number of requests, sign-ins,      *)
(* sessions, credentials and faults, and whatever GitHub may say.           *)
(***************************************************************************)
EXTENDS ApiAccess, TLAPS

-----------------------------------------------------------------------------
(* Every step keeps the types. *)

LEMMA InitType == Init => TypeOK
  BY AccessAssumption DEF Init, TypeOK, Token, NoToken, Request, Idle

LEMMA Constants ==
  ASSUME TypeOK
  PROVE  NoToken \in Token /\ Idle \in Request
  <1>1. issued \in Nat
    BY AccessAssumption DEF TypeOK
  <1>2. NoToken \in Token
    BY <1>1 DEF Token, NoToken
  <1>3. Idle \in Request
    BY <1>2 DEF Request, Idle
  <1> QED BY <1>2, <1>3

\* What was issued stays issued.
LEMMA Grows ==
  ASSUME TypeOK, issued' \in 0 .. MaxGrants, issued <= issued'
  PROVE  /\ Token \subseteq Token' /\ Request \subseteq Request'
         /\ dead \subseteq 1 .. issued' /\ lapsed \subseteq 1 .. issued'
         /\ spent \subseteq 1 .. issued' /\ withdrawn \subseteq 1 .. issued'
  <1>1. issued \in Nat /\ issued' \in Nat
    BY AccessAssumption DEF TypeOK
  <1>2. 0 .. issued \subseteq 0 .. issued' /\ 1 .. issued \subseteq 1 .. issued'
    BY <1>1
  <1>3. Token \subseteq Token'
    BY <1>2 DEF Token
  <1>4. Request \subseteq Request'
    BY <1>3 DEF Request
  <1> QED BY <1>2, <1>3, <1>4 DEF TypeOK

LEMMA Unissued ==
  ASSUME issued' = issued
  PROVE  Token' = Token /\ Request' = Request
  BY DEF Token, Request

LEMMA MovesType ==
  ASSUME TypeOK, NEW r \in Requests, NEW at \in InFlight, Moves(r, at)
  PROVE  request' \in [Requests -> Request]
  <1>1. [request[r] EXCEPT !.at = at] \in Request
    BY DEF TypeOK, Request
  <1>2. request' = [request EXCEPT ![r] = [request[r] EXCEPT !.at = at]]
    BY DEF Moves
  <1> QED BY <1>1, <1>2 DEF TypeOK

LEMMA DoneType ==
  ASSUME TypeOK, NEW r \in Requests, Done(r)
  PROVE  request' \in [Requests -> Request]
  BY Constants DEF TypeOK, Done

LEMMA QuietType ==
  ASSUME NEW entry \in Request, NEW quiet \in BOOLEAN, NEW granted \in BOOLEAN
  PROVE  [entry EXCEPT !.quiet = quiet] \in Request
      /\ [entry EXCEPT !.quiet = quiet, !.granted = granted] \in Request
  BY DEF Request

LEMMA DisturbsType ==
  ASSUME TypeOK, NEW r \in Requests, NEW entry, entry \in Request',
         Request \subseteq Request', Disturbs(r, entry)
  PROVE  (request \in [Requests -> Request])'
  <1>1. \A x \in Requests : [request[x] EXCEPT !.quiet = FALSE] \in Request
    BY QuietType DEF TypeOK
  <1> QED BY <1>1 DEF TypeOK, Disturbs

LEMMA AllDisturbedType ==
  ASSUME TypeOK, NEW g, AllDisturbed(g)
  PROVE  request' \in [Requests -> Request]
  <1>1. \A x \in Requests :
          [request[x] EXCEPT !.quiet = FALSE, !.granted = @ \/ Granted(g)] \in Request
    <2> TAKE x \in Requests
    <2>1. (request[x].granted \/ Granted(g)) \in BOOLEAN
      OBVIOUS
    <2>2. request[x] \in Request
      BY DEF TypeOK
    <2> QED BY <2>1, <2>2 DEF Request
  <1> QED BY <1>1 DEF TypeOK, AllDisturbed

LEMMA ArrivalType ==
  ASSUME TypeOK, NEW r \in Requests,
         \/ \E o \in OAuthStates : CallbackArrives(r, o)
         \/ \E s \in Sessions : ApiArrives(r, s)
  PROVE  TypeOK'
  <1> USE DEF TypeOK, credentials, limits
  <1>1. ASSUME NEW o \in OAuthStates, CallbackArrives(r, o) PROVE TypeOK'
    <2>1. [Idle EXCEPT !.at = "consume", !.state = o] \in Request
      BY Constants DEF Request, Idle, InFlight, CallbackAwaits
    <2>2. request' \in [Requests -> Request]
      BY <1>1, <2>1 DEF CallbackArrives
    <2> QED BY <1>1, <2>2, Unissued DEF CallbackArrives
  <1>2. ASSUME NEW s \in Sessions, ApiArrives(r, s) PROVE TypeOK'
    <2>1. \A a, g, q \in BOOLEAN :
            [Idle EXCEPT !.at = "find", !.session = s, !.active = a, !.granted = g, !.quiet = q]
              \in Request
      BY Constants DEF Request, Idle, InFlight, ApiAwaits
    <2>2. request' \in [Requests -> Request]
      BY <1>2, <2>1 DEF ApiArrives, Granted, Usable
    <2> QED BY <1>2, <2>2, Unissued DEF ApiArrives
  <1> QED BY <1>1, <1>2

LEMMA SignInType ==
  ASSUME TypeOK, NEW r \in Requests, Callback(r)
  PROVE  TypeOK'
  <1> USE DEF TypeOK, credentials, limits
  <1>1. CASE Consume(r)
    <2>1. request' \in [Requests -> Request]
      BY <1>1, MovesType, DoneType DEF Consume, InFlight, CallbackAwaits
    <2>2. oauthState' \in [OAuthStates -> {"none", "issued", "consumed", "expired"}]
      BY <1>1 DEF Consume
    <2> QED BY <1>1, <2>1, <2>2, Unissued DEF Consume
  <1>2. CASE Exchange(r)
    <2>1. issued' \in 0 .. MaxGrants /\ issued <= issued' /\ issued + 1 \in 0 .. issued'
      BY <1>2, AccessAssumption DEF Exchange
    <2>2. [access |-> issued + 1, refresh |-> issued + 1] \in Token'
      BY <2>1, <1>2 DEF Exchange, Token
    <2>3. request[r] \in Request'
      BY <2>1, Grows
    <2>4. request'[r] \in Request'
      BY <1>2, <2>2, <2>3 DEF Exchange, Request, InFlight, CallbackAwaits
    <2>5. request' \in [Requests -> Request']
      BY <1>2, <2>1, <2>4, Grows DEF Exchange
    <2> QED BY <1>2, <2>1, <2>5, Grows DEF Exchange
  <1>3. CASE Upsert(r)
    <2>1. [request[r] EXCEPT !.at = "create", !.next = NoToken] \in Request
      BY Constants DEF Request, InFlight, CallbackAwaits
    <2>2. issued' = issued /\ Request' = Request /\ Token' = Token
      BY <1>3, Unissued DEF Upsert
    <2>3. (request \in [Requests -> Request])'
      BY <1>3, <2>1, <2>2, DisturbsType DEF Upsert
    <2>4. userRow' \in Token'
      BY <1>3, <2>2 DEF Upsert, Request
    <2> QED BY <1>3, <2>2, <2>3, <2>4 DEF Upsert
  <1>4. CASE CreateSession(r)
    <2>1. request' \in [Requests -> Request]
      BY <1>4, DoneType DEF CreateSession
    <2>2. session' \in [Sessions -> [status : {"none", "active", "over"},
                                     from : OAuthStates \union {NoState}]]
      BY <1>4 DEF CreateSession, Request
    <2> QED BY <1>4, <2>1, <2>2, Unissued DEF CreateSession
  <1> QED BY <1>1, <1>2, <1>3, <1>4 DEF Callback

LEMMA ResolveType ==
  ASSUME TypeOK, NEW r \in Requests, Resolve(r)
  PROVE  TypeOK'
  <1> USE DEF TypeOK, credentials, limits
  <1>1. CASE Find(r)
    <2>1. \A at \in {"refresh", "touch"} :
            [request[r] EXCEPT !.token = userRow, !.at = at] \in Request
      <3>1. request[r] \in Request /\ userRow \in Token
        OBVIOUS
      <3>2. {"refresh", "touch"} \subseteq InFlight
        BY DEF InFlight, ApiAwaits
      <3> QED BY <3>1, <3>2 DEF Request
    <2>2. CASE FindActive(request[r].session)
      <3>1. request' = [request EXCEPT ![r] = [request[r] EXCEPT !.token = userRow,
                          !.at = IF NeedsRefresh(userRow) THEN "refresh" ELSE "touch"]]
        BY <1>1, <2>2 DEF Find
      <3>2. request' \in [Requests -> Request]
        BY <2>1, <3>1
      <3> QED BY <1>1, <3>2, Unissued DEF Find
    <2>3. CASE ~FindActive(request[r].session)
      BY <1>1, <2>3, DoneType, Unissued DEF Find
    <2> QED BY <2>2, <2>3
  <1>2. CASE Refresh(r)
    <2>1. CASE Exchangeable(request[r].token.refresh)
      <3> DEFINE next == [access |-> issued + 1,
                          refresh |-> IF Rotates THEN issued + 1 ELSE 0]
      <3>1. issued' \in 0 .. MaxGrants /\ issued <= issued' /\ issued' = issued + 1
        BY <1>2, <2>1, AccessAssumption DEF Refresh, GitHubExchanges
      <3>2. Request \subseteq Request' /\ Token \subseteq Token'
        BY <3>1, Grows
      <3>3. next \in Token'
        BY <3>1 DEF Token
      <3>4. [request[r] EXCEPT !.at = "store", !.next = next] \in Request'
        <4>1. request[r] \in Request'
          BY <3>2
        <4> HIDE DEF next
        <4> QED BY <3>3, <4>1 DEF Request, InFlight, ApiAwaits
      <3>5. (request \in [Requests -> Request])'
        <4> DEFINE entry == [request[r] EXCEPT !.at = "store", !.next = next]
        <4>1. Disturbs(r, entry)
          BY <1>2, <2>1 DEF Refresh
        <4>2. entry \in Request'
          BY <3>4
        <4> HIDE DEF entry
        <4> QED BY <3>2, <4>1, <4>2, DisturbsType
      <3>6. spent' \subseteq 1 .. issued'
        BY <1>2, <2>1, <3>1, Grows DEF Refresh, GitHubExchanges, Exchangeable
      <3> QED BY <1>2, <3>1, <3>2, <3>5, <3>6, Grows DEF Refresh
    <2>2. CASE ~Exchangeable(request[r].token.refresh)
      <3>1. request' \in [Requests -> Request]
        BY <1>2, <2>2, MovesType DEF Refresh, InFlight, ApiAwaits
      <3> QED BY <1>2, <2>2, <3>1, Unissued DEF Refresh
    <2> QED BY <2>1, <2>2
  <1>3. CASE RefreshAnswerLost(r)
    <2>1. issued' \in 0 .. MaxGrants /\ issued <= issued' /\ issued' = issued + 1
      BY <1>3, AccessAssumption DEF RefreshAnswerLost, GitHubExchanges
    <2>2. Request \subseteq Request' /\ Token \subseteq Token'
      BY <2>1, Grows
    <2>3. [request[r] EXCEPT !.at = "touch", !.quiet = FALSE] \in Request'
      <3>1. request[r] \in Request'
        BY <2>2
      <3> QED BY <3>1 DEF Request, InFlight, ApiAwaits
    <2>4. (request \in [Requests -> Request])'
      BY <1>3, <2>2, <2>3, DisturbsType DEF RefreshAnswerLost
    <2>5. spent' \subseteq 1 .. issued'
      BY <1>3, <2>1, Grows DEF RefreshAnswerLost, GitHubExchanges, Exchangeable
    <2>6. faults' \in 0 .. MaxUpsets
      BY <1>3, AccessAssumption DEF RefreshAnswerLost, Fault
    <2> QED BY <1>3, <2>1, <2>2, <2>4, <2>5, <2>6, Grows DEF RefreshAnswerLost
  <1>4. CASE Store(r)
    <2>1. Stored(request[r].token, request[r].next) \in Token
      BY DEF Stored, Request, Token
    <2>2. [request[r] EXCEPT !.at = "touch", !.next = NoToken,
             !.token = Stored(@, request[r].next)] \in Request
      BY <2>1, Constants DEF Request, InFlight, ApiAwaits
    <2>3. issued' = issued /\ Request' = Request /\ Token' = Token
      BY <1>4, Unissued DEF Store
    <2>4. (request \in [Requests -> Request])'
      BY <1>4, <2>2, <2>3, DisturbsType DEF Store
    <2> QED BY <1>4, <2>1, <2>3, <2>4 DEF Store
  <1>5. CASE StoreFails(r)
    <2>1. [request[r] EXCEPT !.at = "touch", !.next = NoToken, !.quiet = FALSE] \in Request
      BY Constants DEF Request, InFlight, ApiAwaits
    <2>2. request' = [request EXCEPT ![r] =
                        [request[r] EXCEPT !.at = "touch", !.next = NoToken, !.quiet = FALSE]]
      BY <1>5 DEF StoreFails
    <2>3. faults' \in 0 .. MaxUpsets
      BY <1>5, AccessAssumption DEF StoreFails, Fault
    <2> QED BY <1>5, <2>1, <2>2, <2>3, Unissued DEF StoreFails
  <1>6. CASE TellUser(r)
    BY <1>6, DoneType, Unissued DEF TellUser
  <1> QED BY <1>1, <1>2, <1>3, <1>4, <1>5, <1>6 DEF Resolve

LEMMA AuthorizeType ==
  ASSUME TypeOK, NEW r \in Requests, Authorize(r) \/ RequestFails(r)
  PROVE  TypeOK'
  <1> USE DEF TypeOK, credentials, limits
  <1>1. CASE Touch(r) \/ ListInstallations(r) \/ ListRepositories(r)
    <2>1. request' \in [Requests -> Request]
      BY <1>1, MovesType DEF Touch, ListInstallations, ListRepositories, InFlight, ApiAwaits
    <2> QED BY <1>1, <2>1, Unissued DEF Touch, ListInstallations, ListRepositories
  <1>2. CASE Query(r) \/ Hide(r) \/ Reauthenticate(r) \/ InstallationGone(r)
    <2>1. request' \in [Requests -> Request]
      BY <1>2, DoneType DEF Query, Hide, Reauthenticate, InstallationGone
    <2> QED BY <1>2, <2>1, Unissued DEF Query, Hide, Reauthenticate, InstallationGone
  <1>3. CASE RequestFails(r)
    <2>1. request' \in [Requests -> Request]
      BY <1>3, DoneType DEF RequestFails
    <2>2. faults' \in 0 .. MaxUpsets
      BY <1>3, AccessAssumption DEF RequestFails, Fault
    <2> QED BY <1>3, <2>1, <2>2, Unissued DEF RequestFails
  <1> QED BY <1>1, <1>2, <1>3 DEF Authorize

LEMMA EnvironmentType ==
  ASSUME TypeOK, Environment
  PROVE  TypeOK'
  <1> USE DEF TypeOK, credentials, limits
  <1>1. ASSUME NEW g \in 1 .. MaxGrants, AccessExpires(g) \/ RefreshExpires(g)
        PROVE  TypeOK'
    <2>1. g \in 1 .. issued
      <3>1. \A row \in InUse : row.access \in 0 .. issued /\ row.refresh \in 0 .. issued
        BY DEF InUse, Request, Token
      <3> QED BY <1>1, <3>1, AccessAssumption DEF AccessExpires, RefreshExpires
    <2>2. request' \in [Requests -> Request]
      BY <1>1, AllDisturbedType DEF AccessExpires, RefreshExpires
    <2> QED BY <1>1, <2>1, <2>2, Unissued DEF AccessExpires, RefreshExpires
  <1>2. ASSUME NEW s \in Sessions, SessionExpires(s) \/ SignOut(s)
        PROVE  TypeOK'
    <2>1. session' \in [Sessions -> [status : {"none", "active", "over"},
                                     from : OAuthStates \union {NoState}]]
      BY <1>2 DEF SessionExpires, SignOut
    <2> QED BY <1>2, <2>1, Unissued DEF SessionExpires, SignOut
  <1>3. ASSUME NEW o \in OAuthStates, StateExpires(o) \/ BeginLogin(o)
        PROVE  TypeOK'
    BY <1>3, Unissued DEF StateExpires, BeginLogin
  <1>4. CASE AccessChanges
    <2>1. request' \in [Requests -> Request]
      BY <1>4, AllDisturbedType DEF AccessChanges
    <2>2. changes' \in 0 .. MaxUpsets
      BY <1>4, AccessAssumption DEF AccessChanges, Change
    <2> QED BY <1>4, <2>1, <2>2, Unissued DEF AccessChanges
  <1>5. CASE AuthorizationWithdrawn
    <2>1. request' \in [Requests -> Request]
      BY <1>5, AllDisturbedType DEF AuthorizationWithdrawn
    <2>2. changes' \in 0 .. MaxUpsets
      BY <1>5, AccessAssumption DEF AuthorizationWithdrawn, Change
    <2> QED BY <1>5, <2>1, <2>2, Unissued DEF AuthorizationWithdrawn
  <1> QED BY <1>1, <1>2, <1>3, <1>4, <1>5 DEF Environment

LEMMA NextType == TypeOK /\ [Next]_vars => TypeOK'
  <1> SUFFICES ASSUME TypeOK, [Next]_vars PROVE TypeOK'
    OBVIOUS
  <1>1. CASE UNCHANGED vars
    BY <1>1, Unissued DEF TypeOK, vars, credentials, limits
  <1>2. CASE Environment
    BY <1>2, EnvironmentType
  <1>3. ASSUME NEW r \in Requests,
               \/ \E o \in OAuthStates : CallbackArrives(r, o)
               \/ \E s \in Sessions : ApiArrives(r, s)
        PROVE  TypeOK'
    BY <1>3, ArrivalType
  <1>4. ASSUME NEW r \in Requests, Callback(r) PROVE TypeOK'
    BY <1>4, SignInType
  <1>5. ASSUME NEW r \in Requests, Resolve(r) PROVE TypeOK'
    BY <1>5, ResolveType
  <1>6. ASSUME NEW r \in Requests, Authorize(r) \/ RequestFails(r) PROVE TypeOK'
    BY <1>6, AuthorizeType
  <1> QED BY <1>1, <1>2, <1>3, <1>4, <1>5, <1>6 DEF Next

-----------------------------------------------------------------------------
(* What a step leaves of the other requests: everything but quiet. *)

Same(x) ==
  /\ request'[x].at = request[x].at /\ request'[x].session = request[x].session
  /\ request'[x].state = request[x].state
  /\ request'[x].token = request[x].token /\ request'[x].next = request[x].next
  /\ request'[x].active = request[x].active

StepOf(r) ==
  \/ \E o \in OAuthStates : CallbackArrives(r, o)
  \/ \E s \in Sessions : ApiArrives(r, s)
  \/ Callback(r) \/ Resolve(r) \/ Authorize(r) \/ RequestFails(r)

LEMMA DisturbsKeeps ==
  ASSUME TypeOK, NEW r \in Requests, NEW entry, Disturbs(r, entry)
  PROVE  /\ request'[r] = entry
         /\ \A x \in Requests \ {r} : Same(x) /\ request'[x].granted = request[x].granted
  <1>1. \A x \in Requests : request[x] \in Request
    BY DEF TypeOK
  <1>2. \A entry2 \in Request :
          LET quiet == [entry2 EXCEPT !.quiet = FALSE]
          IN  /\ quiet.at = entry2.at /\ quiet.session = entry2.session
              /\ quiet.state = entry2.state /\ quiet.token = entry2.token
              /\ quiet.next = entry2.next /\ quiet.active = entry2.active
              /\ quiet.granted = entry2.granted
    BY DEF Request
  <1> QED BY <1>1, <1>2 DEF Disturbs, Same

LEMMA AllDisturbedKeeps ==
  ASSUME TypeOK, NEW g, AllDisturbed(g)
  PROVE  \A x \in Requests :
           /\ Same(x)
           /\ Underway(x) => (request'[x].granted <=> request[x].granted \/ Granted(g))
  <1> SUFFICES ASSUME NEW x \in Requests
               PROVE  /\ Same(x)
                      /\ Underway(x) => (request'[x].granted <=> request[x].granted \/ Granted(g))
    OBVIOUS
  <1>1. request[x] \in Request
    BY DEF TypeOK
  <1>2. CASE Underway(x)
    <2>1. request'[x] = [request[x] EXCEPT !.quiet = FALSE,
                                           !.granted = request[x].granted \/ Granted(g)]
      BY <1>2 DEF AllDisturbed
    <2> QED BY <1>1, <2>1 DEF Same, Request
  <1>3. CASE ~Underway(x)
    BY <1>3 DEF AllDisturbed, Same
  <1> QED BY <1>2, <1>3

LEMMA OthersKept ==
  ASSUME TypeOK, NEW r \in Requests, StepOf(r)
  PROVE  \A x \in Requests \ {r} : Same(x) /\ request'[x].granted = request[x].granted
  <1>1. ASSUME NEW entry, request' = [request EXCEPT ![r] = entry]
        PROVE  \A x \in Requests \ {r} : Same(x) /\ request'[x].granted = request[x].granted
    BY <1>1 DEF TypeOK, Same
  <1>2. CASE \/ \E o \in OAuthStates : CallbackArrives(r, o)
             \/ \E s \in Sessions : ApiArrives(r, s)
    BY <1>1, <1>2 DEF CallbackArrives, ApiArrives
  <1>3. CASE Callback(r)
    BY <1>1, <1>3, DisturbsKeeps
       DEF Callback, Consume, Exchange, Upsert, CreateSession, Moves, Done
  <1>4. CASE Find(r) \/ StoreFails(r) \/ TellUser(r)
    BY <1>1, <1>4 DEF Find, StoreFails, TellUser, Done
  <1>5. CASE Refresh(r) \/ RefreshAnswerLost(r) \/ Store(r)
    BY <1>1, <1>5, DisturbsKeeps DEF Refresh, RefreshAnswerLost, Store, Moves
  <1>6. CASE Authorize(r) \/ RequestFails(r)
    BY <1>1, <1>6 DEF Authorize, RequestFails, Touch, ListInstallations, ListRepositories,
                      Query, Hide, Reauthenticate, InstallationGone, Moves, Done
  <1> QED BY <1>2, <1>3, <1>4, <1>5, <1>6 DEF StepOf, Resolve

LEMMA EnvironmentKeeps ==
  ASSUME TypeOK, Environment
  PROVE  /\ \A x \in Requests : Same(x)
         /\ \A x \in Requests : Underway(x) =>
              /\ request[x].granted => request'[x].granted
              /\ Granted(github') /\ ~Granted(github) => request'[x].granted
  <1>1. CASE request' = request /\ github' = github
    BY <1>1 DEF Same
  <1>2. CASE AllDisturbed(github')
    BY <1>2, AllDisturbedKeeps
  <1>3. \/ request' = request /\ github' = github
        \/ AllDisturbed(github')
    BY DEF Environment, BeginLogin, SignOut, SessionExpires, StateExpires,
           AccessExpires, RefreshExpires, AccessChanges, AuthorizationWithdrawn
  <1> QED BY <1>1, <1>2, <1>3

-----------------------------------------------------------------------------
(* A state signs in once. *)

LEMMA SignInKept ==
  ASSUME TypeOK, OneSignInPerState, FoundOut,
         \A x \in Requests : Passed(x)' => Passed(x) /\ request'[x].state = request[x].state,
         \A s \in Sessions : session'[s].from = session[s].from,
         \A o \in OAuthStates : oauthState[o] = "consumed" => oauthState'[o] = "consumed"
  PROVE  OneSignInPerState'
  <1>1. \A x \in Requests : Passed(x) => request[x].state \in OAuthStates
    BY DEF Passed, FoundOut, CallbackAwaits
  <1>2. \A s \in Sessions : session[s].from \in OAuthStates \union {NoState}
    BY DEF TypeOK
  <1> QED BY <1>1, <1>2 DEF OneSignInPerState, Passed

LEMMA ConsumeSignIn ==
  ASSUME TypeOK, OneSignInPerState, FoundOut, NEW r \in Requests,
         Consume(r), Consumable(request[r].state)
  PROVE  OneSignInPerState'
  <1> DEFINE o == request[r].state
  <1>1. o \in OAuthStates /\ oauthState[o] = "issued" /\ o # NoState
    BY AccessAssumption DEF FoundOut, Consume, CallbackAwaits, Consumable
  <1>2. /\ \A x \in Requests : Passed(x) => request[x].state # o
        /\ \A s \in Sessions : session[s].from # o
    BY <1>1 DEF OneSignInPerState
  <1>3. /\ \A x \in Requests \ {r} : Same(x)
        /\ request'[r].at = "exchange" /\ request'[r].state = o
    BY OthersKept DEF Consume, Moves, TypeOK, StepOf, Callback, Request
  <1>4. /\ oauthState'[o] = "consumed" /\ session' = session
        /\ \A p \in OAuthStates : oauthState[p] = "consumed" => oauthState'[p] = "consumed"
    BY <1>1 DEF Consume, TypeOK
  <1> HIDE DEF o
  <1>5. \A x \in Requests : /\ x # r /\ Passed(x)' => Passed(x)
                            /\ x # r => request'[x].state = request[x].state
    BY <1>3 DEF Passed, Same
  <1>6. \A x, y \in Requests :
          Passed(x)' /\ Passed(y)' /\ request'[x].state = request'[y].state => x = y
    BY <1>2, <1>3, <1>5 DEF OneSignInPerState
  <1>7. \A x \in Requests : Passed(x)' =>
          /\ oauthState'[request'[x].state] = "consumed"
          /\ \A s \in Sessions : session[s].from # request'[x].state
    <2>1. \A x \in Requests : Passed(x) => request[x].state \in OAuthStates
      BY DEF Passed, FoundOut, CallbackAwaits
    <2> QED BY <1>2, <1>3, <1>4, <1>5, <2>1 DEF OneSignInPerState
  <1>8. \A s \in Sessions : session[s].from \in OAuthStates \union {NoState}
    BY DEF TypeOK
  <1> QED BY <1>4, <1>6, <1>7, <1>8 DEF OneSignInPerState

LEMMA CreateSignIn ==
  ASSUME TypeOK, OneSignInPerState, FoundOut, NEW r \in Requests, CreateSession(r)
  PROVE  OneSignInPerState'
  <1>1. PICK s \in Sessions :
          session' = [session EXCEPT ![s] = [status |-> "active", from |-> request[r].state]]
    BY DEF CreateSession
  <1>2. Passed(r) /\ oauthState' = oauthState /\ ~Passed(r)'
    BY DEF CreateSession, Done, Idle, TypeOK, Passed
  <1>3. \A x \in Requests \ {r} : Same(x)
    BY OthersKept DEF StepOf, Callback
  <1>4. \A x \in Requests : Passed(x)' =>
          x # r /\ Passed(x) /\ request'[x].state = request[x].state
    BY <1>2, <1>3 DEF Passed, Same
  <1>5. \A t \in Sessions : session'[t].from = IF t = s THEN request[r].state
                                               ELSE session[t].from
    BY <1>1 DEF TypeOK
  <1> QED BY <1>2, <1>4, <1>5 DEF OneSignInPerState

\* What the three steps of a refresh make of their request.
LEMMA RefreshFields ==
  ASSUME TypeOK, NEW r \in Requests, Refresh(r), Exchangeable(request[r].token.refresh)
  PROVE  /\ request'[r].at = "store" /\ request'[r].token = request[r].token
         /\ request'[r].next.refresh = IF Rotates THEN issued + 1 ELSE 0
         /\ request'[r].session = request[r].session
         /\ request'[r].active = request[r].active
         /\ request'[r].granted = request[r].granted
  <1> DEFINE next == [access |-> issued + 1, refresh |-> IF Rotates THEN issued + 1 ELSE 0]
  <1>1. request'[r] = [request[r] EXCEPT !.at = "store", !.next = next]
    BY DisturbsKeeps DEF Refresh
  <1>2. request[r] \in Request /\ next.refresh = IF Rotates THEN issued + 1 ELSE 0
    BY DEF TypeOK
  <1> HIDE DEF next
  <1> QED BY <1>1, <1>2 DEF Request

LEMMA LostFields ==
  ASSUME TypeOK, NEW r \in Requests, RefreshAnswerLost(r)
  PROVE  /\ request'[r].at = "touch" /\ request'[r].token = request[r].token
         /\ request'[r].next = request[r].next
         /\ request'[r].session = request[r].session
         /\ request'[r].active = request[r].active
         /\ request'[r].granted = request[r].granted
  <1>1. request'[r] = [request[r] EXCEPT !.at = "touch", !.quiet = FALSE]
    BY DisturbsKeeps DEF RefreshAnswerLost
  <1>2. request[r] \in Request
    BY DEF TypeOK
  <1> QED BY <1>1, <1>2 DEF Request

LEMMA StoreFields ==
  ASSUME TypeOK, NEW r \in Requests, Store(r)
  PROVE  /\ request'[r].at = "touch"
         /\ request'[r].token = Stored(request[r].token, request[r].next)
         /\ request'[r].next = NoToken
         /\ request'[r].session = request[r].session
         /\ request'[r].active = request[r].active
         /\ request'[r].granted = request[r].granted
  <1> DEFINE stored == Stored(request[r].token, request[r].next)
  <1>1. request'[r] = [request[r] EXCEPT !.at = "touch", !.next = NoToken, !.token = stored]
    BY DisturbsKeeps DEF Store
  <1>2. request[r] \in Request
    BY DEF TypeOK
  <1> HIDE DEF stored
  <1>3. /\ request'[r].at = "touch" /\ request'[r].token = stored
        /\ request'[r].next = NoToken
        /\ request'[r].session = request[r].session
        /\ request'[r].active = request[r].active
        /\ request'[r].granted = request[r].granted
    BY <1>1, <1>2 DEF Request
  <1> QED BY <1>3 DEF stored

LEMMA SignInStep ==
  ASSUME TypeOK, OneSignInPerState, FoundOut, NEW r \in Requests, StepOf(r)
  PROVE  OneSignInPerState'
  <1>1. \A x \in Requests \ {r} : Same(x)
    BY OthersKept
  <1>2. ASSUME session' = session, oauthState' = oauthState,
               Passed(r)' => Passed(r) /\ request'[r].state = request[r].state
        PROVE  OneSignInPerState'
    BY <1>1, <1>2, SignInKept DEF Passed, Same
  <1>3. CASE \/ \E o \in OAuthStates : CallbackArrives(r, o)
             \/ \E s \in Sessions : ApiArrives(r, s)
    <2>1. ASSUME NEW o \in OAuthStates, CallbackArrives(r, o) PROVE ~Passed(r)'
      <3>1. request'[r] = [Idle EXCEPT !.at = "consume", !.state = o]
        BY <2>1 DEF CallbackArrives, TypeOK
      <3> QED BY <3>1 DEF Idle, Passed
    <2>2. ASSUME NEW s \in Sessions, ApiArrives(r, s) PROVE ~Passed(r)'
      <3>1. request'[r].at = "find"
        BY <2>2 DEF ApiArrives, TypeOK, Idle
      <3> QED BY <3>1 DEF Passed
    <2>3. session' = session /\ oauthState' = oauthState
      BY <1>3 DEF CallbackArrives, ApiArrives
    <2> QED BY <1>2, <1>3, <2>1, <2>2, <2>3
  <1>4. CASE Callback(r)
    <2>1. CASE Consume(r) /\ ~Consumable(request[r].state)
      BY <1>2, <2>1 DEF Consume, Done, Idle, TypeOK, Passed
    <2>2. CASE Exchange(r)
      BY <1>2, <2>2 DEF Exchange, TypeOK, Request, Passed
    <2>3. CASE Upsert(r)
      <3>1. request'[r] = [request[r] EXCEPT !.at = "create", !.next = NoToken]
        BY <2>3, DisturbsKeeps DEF Upsert
      <3> QED BY <1>2, <2>3, <3>1 DEF Upsert, TypeOK, Request, Passed
    <2> QED BY <1>4, <2>1, <2>2, <2>3, ConsumeSignIn, CreateSignIn DEF Callback
  <1>5. CASE Resolve(r)
    <2>1. session' = session /\ oauthState' = oauthState
      BY <1>5 DEF Resolve, Find, Refresh, RefreshAnswerLost, Store, StoreFails, TellUser
    <2>2. request'[r].at \in {"idle", "touch", "refresh", "store"}
      <3>1. request[r] \in Request
        BY DEF TypeOK
      <3>2. CASE Find(r) \/ StoreFails(r) \/ TellUser(r)
        BY <3>1, <3>2 DEF Find, StoreFails, TellUser, Done, Idle, TypeOK, Request
      <3>3. CASE Refresh(r)
        <4>1. CASE Exchangeable(request[r].token.refresh)
          BY <3>3, <4>1, RefreshFields
        <4>2. CASE ~Exchangeable(request[r].token.refresh)
          <5>1. request' = [request EXCEPT ![r].at = "touch"]
            BY <3>3, <4>2 DEF Refresh, Moves
          <5> QED BY <3>1, <5>1 DEF TypeOK, Request
        <4> QED BY <4>1, <4>2
      <3> QED BY <1>5, <3>2, <3>3, LostFields, StoreFields DEF Resolve
    <2> QED BY <1>2, <2>1, <2>2 DEF Passed
  <1>6. CASE Authorize(r)
    <2>1. session' = session /\ oauthState' = oauthState
      BY <1>6 DEF Authorize, Touch, ListInstallations, ListRepositories,
                  Query, Hide, Reauthenticate, InstallationGone
    <2>2. request'[r].at \in {"idle", "installations", "repositories", "query"}
      BY <1>6 DEF Authorize, Touch, ListInstallations, ListRepositories, Query, Hide,
                  Reauthenticate, InstallationGone, Moves, Done, Idle, TypeOK, Request
    <2> QED BY <1>2, <2>1, <2>2 DEF Passed
  <1>7. CASE RequestFails(r)
    BY <1>2, <1>7 DEF RequestFails, Done, Idle, TypeOK, Passed
  <1> QED BY <1>3, <1>4, <1>5, <1>6, <1>7 DEF StepOf

LEMMA SignInEnvironment ==
  ASSUME TypeOK, OneSignInPerState, FoundOut, Environment
  PROVE  OneSignInPerState'
  <1>1. \A x \in Requests : Same(x)
    BY EnvironmentKeeps
  <1>2. \A s \in Sessions : session'[s].from = session[s].from
    BY DEF Environment, BeginLogin, SignOut, SessionExpires, StateExpires, TypeOK,
           AccessExpires, RefreshExpires, AccessChanges, AuthorizationWithdrawn
  <1>3. \A o \in OAuthStates : oauthState[o] = "consumed" => oauthState'[o] = "consumed"
    BY DEF Environment, BeginLogin, SignOut, SessionExpires, StateExpires, TypeOK,
           AccessExpires, RefreshExpires, AccessChanges, AuthorizationWithdrawn
  <1> QED BY <1>1, <1>2, <1>3, SignInKept DEF Same, Passed

-----------------------------------------------------------------------------
(* Credentials on their way are nobody else's, and none is lost. *)

\* The parts of PendingIsFresh that speak about requests x and q.
Apart(x, q) ==
  request[x].next.refresh # 0 =>
    /\ request[x].next.refresh \notin spent
    /\ request[x].next.refresh # userRow.refresh
    /\ request[x].next.refresh # request[q].token.refresh
    /\ x # q => request[x].next.refresh # request[q].next.refresh
Carries(x) ==
  /\ request[x].at = "upsert" => request[x].next.refresh # 0
  /\ request[x].at = "store" /\ Rotates =>
       request[x].next.refresh # 0 /\ request[x].token.refresh \in spent

LEMMA FreshParts ==
  ASSUME PendingIsFresh
  PROVE  /\ \A x, q \in Requests : Apart(x, q)
         /\ \A x \in Requests : Carries(x)
         /\ ~Rotates => spent = {}
  BY DEF PendingIsFresh, Apart, Carries

LEMMA PartsFresh ==
  ASSUME \A x, q \in Requests : Apart(x, q)', \A x \in Requests : Carries(x)',
         ~Rotates => spent' = {}
  PROVE  PendingIsFresh'
  BY DEF PendingIsFresh, Apart, Carries

\* PendingIsFresh and CredentialSurvives stand when no credential is moved.
LEMMA CredentialKept ==
  ASSUME PendingIsFresh, CredentialSurvives, TypeOK,
         userRow' = userRow, spent' = spent, faults' = 0 => faults = 0,
         \A x \in Requests :
           /\ request'[x].next.refresh \in {0, request[x].next.refresh}
           /\ request'[x].token.refresh \in {0, request[x].token.refresh, userRow.refresh}
           /\ request'[x].at = "upsert" =>
                request[x].at = "upsert" /\ request'[x].next = request[x].next
           /\ request'[x].at = "store" =>
                request[x].at = "store" /\ request'[x].next = request[x].next
                                        /\ request'[x].token = request[x].token
           /\ request[x].at = "store" =>
                \/ faults' # 0
                \/ request'[x].at = "store" /\ request'[x].token = request[x].token
  PROVE  PendingIsFresh' /\ CredentialSurvives'
  <1>1. ASSUME NEW x \in Requests, NEW q \in Requests PROVE Apart(x, q)'
    <2>1. Apart(x, q)
      BY FreshParts
    <2> QED BY <2>1 DEF Apart
  <1>2. ASSUME NEW x \in Requests PROVE Carries(x)'
    <2>1. Carries(x)
      BY FreshParts
    <2> QED BY <2>1 DEF Carries
  <1>3. PendingIsFresh'
    BY <1>1, <1>2, FreshParts, PartsFresh
  <1>4. CredentialSurvives'
    BY DEF CredentialSurvives
  <1> QED BY <1>3, <1>4

LEMMA ExchangeCredential ==
  ASSUME PendingIsFresh, CredentialSurvives, TypeOK, NEW r \in Requests, Exchange(r)
  PROVE  PendingIsFresh' /\ CredentialSurvives'
  <1>1. /\ request'[r].at = "upsert" /\ request'[r].next.refresh = issued + 1
        /\ request'[r].token = request[r].token
        /\ userRow' = userRow /\ spent' = spent /\ faults' = faults
    BY DEF Exchange, TypeOK, Request, limits
  <1>2. \A x \in Requests \ {r} : Same(x)
    BY OthersKept DEF StepOf, Callback
  <1>3. /\ issued \in Nat /\ userRow.refresh \in 0 .. issued /\ spent \subseteq 1 .. issued
        /\ \A x \in Requests : /\ request[x].token.refresh \in 0 .. issued
                               /\ request[x].next.refresh \in 0 .. issued
    BY AccessAssumption DEF TypeOK, Request, Token
  <1>4. issued + 1 # 0 /\ issued + 1 \notin spent /\ issued + 1 # userRow.refresh
        /\ \A x \in Requests : /\ request[x].token.refresh # issued + 1
                               /\ request[x].next.refresh # issued + 1
    BY <1>3
  <1>5. PendingIsFresh'
    <2>1. ASSUME NEW x \in Requests, NEW q \in Requests PROVE Apart(x, q)'
      <3>1. Apart(x, q)
        BY FreshParts
      <3>2. /\ x # r => request'[x].next = request[x].next
            /\ q # r => request'[q].next = request[q].next
            /\ request'[q].token = request[q].token
        BY <1>1, <1>2 DEF Same
      <3> QED BY <1>1, <1>4, <3>1, <3>2 DEF Apart
    <2>2. ASSUME NEW x \in Requests PROVE Carries(x)'
      <3>1. Carries(x)
        BY FreshParts
      <3> QED BY <1>1, <1>2, <1>4, <3>1 DEF Carries, Same
    <2> QED BY <1>1, <2>1, <2>2, FreshParts, PartsFresh
  <1>6. CredentialSurvives'
    BY <1>1, <1>2 DEF CredentialSurvives, Same, Exchange
  <1> QED BY <1>5, <1>6

LEMMA UpsertCredential ==
  ASSUME PendingIsFresh, CredentialSurvives, TypeOK, NEW r \in Requests, Upsert(r)
  PROVE  PendingIsFresh' /\ CredentialSurvives'
  <1>1. request'[r] = [request[r] EXCEPT !.at = "create", !.next = NoToken]
    BY DisturbsKeeps DEF Upsert
  <1>2. /\ request'[r].at = "create" /\ request'[r].next.refresh = 0
        /\ request'[r].token = request[r].token
    BY <1>1 DEF TypeOK, Request, NoToken
  <1>3. userRow'.refresh = request[r].next.refresh /\ spent' = spent /\ request[r].at = "upsert"
    BY DEF Upsert, credentials
  <1>4. \A x \in Requests \ {r} : Same(x)
    BY OthersKept DEF StepOf, Callback
  <1>5. PendingIsFresh'
    <2>1. ASSUME NEW x \in Requests, NEW q \in Requests PROVE Apart(x, q)'
      <3>1. Apart(x, q) /\ Apart(x, r)
        BY FreshParts
      <3>2. /\ x # r => request'[x].next = request[x].next
            /\ q # r => request'[q].next = request[q].next
            /\ request'[q].token = request[q].token
        BY <1>2, <1>4 DEF Same
      <3> QED BY <1>2, <1>3, <3>1, <3>2 DEF Apart
    <2>2. ASSUME NEW x \in Requests PROVE Carries(x)'
      <3>1. Carries(x)
        BY FreshParts
      <3> QED BY <1>2, <1>3, <1>4, <3>1 DEF Carries, Same
    <2> QED BY <1>3, <2>1, <2>2, FreshParts, PartsFresh
  <1>6. CredentialSurvives'
    <2>1. Apart(r, r) /\ Carries(r)
      BY FreshParts
    <2> QED BY <1>3, <2>1 DEF Apart, Carries, CredentialSurvives
  <1> QED BY <1>5, <1>6

\* GitHub exchanges the token of r.
LEMMA ExchangedCredential ==
  ASSUME PendingIsFresh, CredentialSurvives, TypeOK, NEW r \in Requests,
         GitHubExchanges(request[r].token.refresh), userRow' = userRow,
         \A x \in Requests \ {r} : Same(x),
         request[r].at = "refresh", request'[r].token = request[r].token,
         \/ /\ request'[r].at = "store" /\ faults' = faults
            /\ request'[r].next.refresh = IF Rotates THEN issued + 1 ELSE 0
         \/ /\ request'[r].at = "touch" /\ faults' # 0
            /\ request'[r].next = request[r].next,
         Exchangeable(request[r].token.refresh)
  PROVE  PendingIsFresh' /\ CredentialSurvives'
  <1> DEFINE old == request[r].token.refresh
  <1>1. /\ issued \in Nat /\ userRow.refresh \in 0 .. issued /\ spent \subseteq 1 .. issued
        /\ \A x \in Requests : /\ request[x].token.refresh \in 0 .. issued
                               /\ request[x].next.refresh \in 0 .. issued
    BY AccessAssumption DEF TypeOK, Request, Token
  <1>2. issued + 1 # 0 /\ issued + 1 \notin spent \union {old} /\ issued + 1 # userRow.refresh
        /\ \A x \in Requests : /\ request[x].token.refresh # issued + 1
                               /\ request[x].next.refresh # issued + 1
    BY <1>1
  <1>3. spent' = IF Rotates THEN spent \union {old} ELSE spent
    BY DEF GitHubExchanges
  <1> HIDE DEF old
  <1>4. \A x \in Requests : request[x].next.refresh # 0 => request[x].next.refresh # old
    BY FreshParts DEF Apart, old
  <1>5. PendingIsFresh'
    <2>1. ASSUME NEW x \in Requests, NEW q \in Requests PROVE Apart(x, q)'
      <3>1. Apart(x, q)
        BY FreshParts
      <3>2. /\ x # r => request'[x].next = request[x].next
            /\ q # r => request'[q].next = request[q].next
            /\ request'[q].token = request[q].token
        BY DEF Same
      <3> QED BY <1>2, <1>3, <1>4, <3>1, <3>2 DEF Apart
    <2>2. ASSUME NEW x \in Requests PROVE Carries(x)'
      <3>1. Carries(x)
        BY FreshParts
      <3> QED BY <1>2, <1>3, <3>1 DEF Carries, Same, old
    <2>3. ~Rotates => spent' = {}
      BY <1>3, FreshParts
    <2> QED BY <2>1, <2>2, <2>3, PartsFresh
  <1>6. CredentialSurvives'
    <2> SUFFICES ASSUME userRow.refresh \in spent', faults' = 0
                 PROVE  \E q \in Requests : /\ request'[q].at = "store"
                                            /\ request'[q].token.refresh = userRow.refresh
      BY DEF CredentialSurvives
    <2>1. request'[r].at = "store" /\ faults = 0 /\ request'[r].token.refresh = old
      BY DEF old
    <2>2. CASE userRow.refresh = old
      BY <2>1, <2>2 DEF old
    <2>3. CASE userRow.refresh \in spent
      <3>1. PICK q \in Requests : /\ request[q].at = "store"
                                  /\ request[q].token.refresh = userRow.refresh
        BY <2>1, <2>3 DEF CredentialSurvives
      <3> QED BY <3>1 DEF Same
    <2> QED BY <1>3, <2>2, <2>3
  <1> QED BY <1>5, <1>6

LEMMA StoreCredential ==
  ASSUME PendingIsFresh, CredentialSurvives, TypeOK, NEW r \in Requests, Store(r)
  PROVE  PendingIsFresh' /\ CredentialSurvives'
  <1> DEFINE new == Stored(request[r].token, request[r].next)
  <1>1. /\ request'[r].at = "touch" /\ request'[r].token = new /\ request'[r].next.refresh = 0
        /\ userRow' = new /\ spent' = spent /\ request[r].at = "store"
    <2>1. userRow' = new /\ spent' = spent /\ request[r].at = "store"
      BY DEF Store, credentials
    <2>2. request'[r].at = "touch" /\ request'[r].token = new /\ request'[r].next = NoToken
      BY StoreFields
    <2> QED BY <2>1, <2>2 DEF NoToken
  <1>2. \A x \in Requests \ {r} : Same(x)
    BY OthersKept DEF StepOf, Resolve
  <1>3. new.refresh = IF request[r].next.refresh = 0 THEN request[r].token.refresh
                      ELSE request[r].next.refresh
    BY DEF Stored, TypeOK, Request, Token
  <1> HIDE DEF new
  <1>4. PendingIsFresh'
    <2>1. ASSUME NEW x \in Requests, NEW q \in Requests PROVE Apart(x, q)'
      <3>1. Apart(x, q) /\ Apart(x, r)
        BY FreshParts
      <3>2. CASE x = r
        BY <1>1, <3>2 DEF Apart
      <3>3. CASE x # r
        <4>1. request'[x].next = request[x].next
          BY <1>2, <3>3 DEF Same
        <4>2. q # r => request'[q].next = request[q].next /\ request'[q].token = request[q].token
          BY <1>2 DEF Same
        <4> QED BY <1>1, <1>3, <3>1, <3>3, <4>1, <4>2 DEF Apart
      <3> QED BY <3>2, <3>3
    <2>2. ASSUME NEW x \in Requests PROVE Carries(x)'
      <3>1. Carries(x)
        BY FreshParts
      <3> QED BY <1>1, <1>2, <3>1 DEF Carries, Same
    <2> QED BY <1>1, <2>1, <2>2, FreshParts, PartsFresh
  <1>5. CredentialSurvives'
    <2>1. Apart(r, r) /\ Carries(r)
      BY FreshParts
    <2>2. ~Rotates => spent = {}
      BY FreshParts
    <2> QED BY <1>1, <1>3, <2>1, <2>2, AccessAssumption DEF Apart, Carries, CredentialSurvives
  <1> QED BY <1>4, <1>5

LEMMA CredentialStep ==
  ASSUME PendingIsFresh, CredentialSurvives, TypeOK, NEW r \in Requests, StepOf(r)
  PROVE  PendingIsFresh' /\ CredentialSurvives'
  <1>1. \A x \in Requests \ {r} : Same(x)
    BY OthersKept
  <1>2. request[r] \in Request
    BY DEF TypeOK
  <1>3. faults \in Nat /\ (Fault => faults' # 0)
    BY AccessAssumption DEF TypeOK, Fault
  <1>4. ASSUME userRow' = userRow, spent' = spent, faults' = 0 => faults = 0,
               request'[r] = Idle, request[r].at # "store"
        PROVE  PendingIsFresh' /\ CredentialSurvives'
    BY <1>1, <1>4, CredentialKept DEF Same, Idle, NoToken
  <1>5. ASSUME userRow' = userRow, spent' = spent, faults' = faults,
               request'[r].next = request[r].next,
               request'[r].token \in {request[r].token, userRow},
               request[r].at # "store", request'[r].at \notin {"store", "upsert"}
        PROVE  PendingIsFresh' /\ CredentialSurvives'
    BY <1>1, <1>5, CredentialKept DEF Same
  <1>6. CASE \E o \in OAuthStates : CallbackArrives(r, o)
    <2>1. PICK o \in OAuthStates : CallbackArrives(r, o)
      BY <1>6
    <2>2. /\ userRow' = userRow /\ spent' = spent /\ faults' = faults
          /\ request[r].at = "idle"
      BY <2>1 DEF CallbackArrives, Underway, credentials, limits
    <2>3. /\ request'[r].at = "consume" /\ request'[r].token = NoToken
          /\ request'[r].next = NoToken
      <3>1. request'[r] = [Idle EXCEPT !.at = "consume", !.state = o]
        BY <2>1 DEF CallbackArrives, TypeOK
      <3> QED BY <3>1 DEF Idle
    <2> QED BY <1>1, <2>2, <2>3, CredentialKept DEF Same, NoToken
  <1>7. CASE \E s \in Sessions : ApiArrives(r, s)
    <2>1. PICK s \in Sessions : ApiArrives(r, s)
      BY <1>7
    <2>2. /\ userRow' = userRow /\ spent' = spent /\ faults' = faults
          /\ request[r].at = "idle"
      BY <2>1 DEF ApiArrives, Underway, credentials, limits
    <2>3. /\ request'[r].at = "find" /\ request'[r].token = NoToken
          /\ request'[r].next = NoToken
      BY <2>1 DEF ApiArrives, TypeOK, Idle
    <2> QED BY <1>1, <2>2, <2>3, CredentialKept DEF Same, NoToken
  <1>8. CASE Callback(r)
    <2>1. CASE Consume(r)
      <3>1. CASE Consumable(request[r].state)
        BY <1>2, <1>5, <2>1, <3>1 DEF Consume, Moves, TypeOK, Request, credentials, limits
      <3>2. CASE ~Consumable(request[r].state)
        BY <1>4, <2>1, <3>2 DEF Consume, Done, TypeOK, credentials, limits
      <3> QED BY <3>1, <3>2
    <2>2. CASE CreateSession(r)
      BY <1>4, <2>2 DEF CreateSession, Done, TypeOK, credentials, limits
    <2> QED BY <1>8, <2>1, <2>2, ExchangeCredential, UpsertCredential DEF Callback
  <1>9. CASE Find(r)
    <2>1. CASE FindActive(request[r].session)
      <3>1. /\ request'[r].next = request[r].next /\ request'[r].token = userRow
            /\ request'[r].at \in {"refresh", "touch"}
        BY <1>2, <1>9, <2>1 DEF Find, TypeOK, Request
      <3> QED BY <1>5, <1>9, <3>1 DEF Find, credentials, limits
    <2>2. CASE ~FindActive(request[r].session)
      BY <1>4, <1>9, <2>2 DEF Find, Done, TypeOK, credentials, limits
    <2> QED BY <2>1, <2>2
  <1>10. CASE Refresh(r)
    <2>1. CASE Exchangeable(request[r].token.refresh)
      <3>1. GitHubExchanges(request[r].token.refresh)
        BY <1>10, <2>1 DEF Refresh
      <3>2. userRow' = userRow /\ faults' = faults /\ request[r].at = "refresh"
        BY <1>10 DEF Refresh, limits
      <3> QED BY <1>1, <1>10, <2>1, <3>1, <3>2, RefreshFields, ExchangedCredential
    <2>2. CASE ~Exchangeable(request[r].token.refresh)
      BY <1>2, <1>5, <1>10, <2>2 DEF Refresh, Moves, TypeOK, Request, limits
    <2> QED BY <2>1, <2>2
  <1>11. CASE RefreshAnswerLost(r)
    <2>1. /\ GitHubExchanges(request[r].token.refresh) /\ faults' # 0
          /\ userRow' = userRow /\ request[r].at = "refresh"
          /\ Exchangeable(request[r].token.refresh)
      BY <1>3, <1>11 DEF RefreshAnswerLost
    <2> QED BY <1>1, <1>11, <2>1, LostFields, ExchangedCredential
  <1>12. CASE StoreFails(r)
    <2>1. /\ request'[r].at = "touch" /\ request'[r].next = NoToken
          /\ request'[r].token = request[r].token
      BY <1>2, <1>12 DEF StoreFails, TypeOK, Request
    <2>2. userRow' = userRow /\ spent' = spent /\ faults' # 0
      BY <1>3, <1>12 DEF StoreFails, credentials
    <2> QED BY <1>1, <2>1, <2>2, CredentialKept DEF Same, NoToken
  <1>13. CASE TellUser(r) \/ Query(r) \/ Hide(r) \/ Reauthenticate(r) \/ InstallationGone(r)
    BY <1>4, <1>13 DEF TellUser, Query, Hide, Reauthenticate, InstallationGone, Done, TypeOK,
                       credentials, limits
  <1>14. CASE Touch(r) \/ ListInstallations(r) \/ ListRepositories(r)
    BY <1>2, <1>5, <1>14 DEF Touch, ListInstallations, ListRepositories, Moves, TypeOK, Request,
                             credentials, limits
  <1>15. CASE RequestFails(r)
    BY <1>3, <1>4, <1>15 DEF RequestFails, Done, TypeOK, credentials
  <1> QED BY <1>6, <1>7, <1>8, <1>9, <1>10, <1>11, <1>12, <1>13, <1>14, <1>15, StoreCredential
          DEF StepOf, Resolve, Authorize

LEMMA CredentialEnvironment ==
  ASSUME PendingIsFresh, CredentialSurvives, TypeOK, Environment
  PROVE  PendingIsFresh' /\ CredentialSurvives'
  <1>1. \A x \in Requests : Same(x)
    BY EnvironmentKeeps
  <1>2. userRow' = userRow /\ spent' = spent /\ faults' = faults
    BY DEF Environment, BeginLogin, SignOut, SessionExpires, StateExpires, AccessExpires,
           RefreshExpires, AccessChanges, AuthorizationWithdrawn, credentials, limits
  <1> QED BY <1>1, <1>2, CredentialKept DEF Same

-----------------------------------------------------------------------------
(* What a request knows at an await is so. *)

\* The part of FoundOut that speaks about request x.
Knows(x) ==
  /\ request[x].at \in CallbackAwaits => request[x].state \in OAuthStates
  /\ request[x].at \in ApiAwaits =>
       /\ request[x].session \in Sessions
       /\ session[request[x].session].status # "none"
       /\ session[request[x].session].status = "active" => request[x].active
       /\ request[x].at # "find" => request[x].active
       /\ Granted(github) => request[x].granted
       /\ request[x].at = "query" => request[x].granted

LEMMA FoundOutIsKnowing == FoundOut <=> \A x \in Requests : Knows(x)
  BY DEF FoundOut, Knows

\* No session begins to be active under a request that has found it.
LEMMA SessionStep ==
  ASSUME TypeOK, [Next]_vars, NEW s \in Sessions, session[s].status # "none"
  PROVE  /\ session'[s].status # "none"
         /\ session'[s].status = "active" => session[s].status = "active"
  <1>1. \/ session' = session
        \/ \E r \in Requests : CreateSession(r)
        \/ \E t \in Sessions : SessionExpires(t) \/ SignOut(t)
    BY DEF Next, Callback, Resolve, Authorize, Environment, vars, CallbackArrives, ApiArrives,
           Consume, Exchange, Upsert, Find, Refresh, RefreshAnswerLost, Store, StoreFails,
           TellUser, Touch, ListInstallations, ListRepositories, Query, Hide, Reauthenticate,
           InstallationGone, RequestFails, AccessExpires, RefreshExpires, StateExpires,
           BeginLogin, AccessChanges, AuthorizationWithdrawn
  <1>2. ASSUME NEW r \in Requests, CreateSession(r)
        PROVE  session'[s] = session[s]
    BY <1>2 DEF CreateSession, TypeOK
  <1>3. ASSUME NEW t \in Sessions, SessionExpires(t) \/ SignOut(t)
        PROVE  session'[s] = session[s] \/ session'[s].status = "over"
    BY <1>3 DEF SessionExpires, SignOut, TypeOK
  <1> QED BY <1>1, <1>2, <1>3

LEMMA KnowsOthers ==
  ASSUME TypeOK, NEW x \in Requests, Knows(x), Same(x), [Next]_vars,
         Underway(x) => /\ request[x].granted => request'[x].granted
                        /\ Granted(github') /\ ~Granted(github) => request'[x].granted
  PROVE  Knows(x)'
  <1>1. request'[x].at \in CallbackAwaits => request'[x].state \in OAuthStates
    BY DEF Knows, Same
  <1>2. ASSUME request'[x].at \in ApiAwaits
        PROVE  /\ request'[x].session \in Sessions
               /\ session'[request'[x].session].status # "none"
               /\ session'[request'[x].session].status = "active" => request'[x].active
               /\ request'[x].at # "find" => request'[x].active
               /\ Granted(github') => request'[x].granted
               /\ request'[x].at = "query" => request'[x].granted
    <2>1. Underway(x)
      BY <1>2 DEF Same, Underway, ApiAwaits
    <2>2. /\ request'[x].session \in Sessions
          /\ session'[request'[x].session].status # "none"
          /\ session'[request'[x].session].status = "active" => request'[x].active
      BY <1>2, SessionStep DEF Knows, Same
    <2> QED BY <1>2, <2>1, <2>2 DEF Knows, Same
  <1> QED BY <1>1, <1>2 DEF Knows, Granted

\* A step of r itself, which changes neither session nor GitHub.
LEMMA KnowsOwn ==
  ASSUME TypeOK, NEW r \in Requests, Knows(r), session' = session, github' = github,
         request[r].at \in ApiAwaits \ {"find"},
         request'[r].at \in ApiAwaits, request'[r].session = request[r].session,
         request'[r].active = request[r].active, request'[r].granted = request[r].granted,
         request'[r].at = "query" => Granted(github)
  PROVE  Knows(r)'
  <1>1. request'[r].at \notin CallbackAwaits
    BY DEF ApiAwaits, CallbackAwaits
  <1>2. Granted(github') <=> Granted(github)
    BY DEF Granted
  <1>3. /\ request[r].session \in Sessions
        /\ session[request[r].session].status # "none"
        /\ session[request[r].session].status = "active" => request[r].active
        /\ request[r].active
        /\ Granted(github) => request[r].granted
    BY DEF Knows
  <1> QED BY <1>1, <1>2, <1>3 DEF Knows, Granted

\* A repository that gets past the policy is granted at that moment.
LEMMA PolicyGrants ==
  ASSUME NEW r \in Requests, ListRepositories(r)
  PROVE  Granted(github)
  <1>1. Rank({}) = 0 /\ PolicyAnswer(0) = "NOT_FOUND"
    BY DEF Rank, PolicyAnswer
  <1>2. github.flags # {}
    BY <1>1 DEF ListRepositories
  <1> QED BY <1>2 DEF ListRepositories, ListedHere, Granted

LEMMA KnowsArrival ==
  ASSUME TypeOK, NEW r \in Requests,
         \/ \E o \in OAuthStates : CallbackArrives(r, o)
         \/ \E s \in Sessions : ApiArrives(r, s)
  PROVE  Knows(r)'
  <1>1. ASSUME NEW o \in OAuthStates, CallbackArrives(r, o)
        PROVE  Knows(r)'
    <2>1. request'[r] = [Idle EXCEPT !.at = "consume", !.state = o]
      BY <1>1 DEF CallbackArrives, TypeOK
    <2>2. request'[r].at = "consume" /\ request'[r].state = o
      BY <2>1 DEF Idle
    <2> QED BY <2>2 DEF Knows, ApiAwaits
  <1>2. ASSUME NEW s \in Sessions, ApiArrives(r, s)
        PROVE  Knows(r)'
    <2> DEFINE active == session[s].status = "active"
               granted == Granted(github)
               quiet == Usable(userRow)
    <2>1. request'[r] = [Idle EXCEPT !.at = "find", !.session = s, !.active = active,
                                     !.granted = granted, !.quiet = quiet]
      BY <1>2 DEF ApiArrives, TypeOK
    <2>2. session' = session /\ github' = github /\ session[s].status # "none"
      BY <1>2 DEF ApiArrives
    <2> HIDE DEF active, granted, quiet
    <2>3. /\ request'[r].at = "find" /\ request'[r].session = s
          /\ request'[r].active = active /\ request'[r].granted = granted
      BY <2>1 DEF Idle
    <2>4. request'[r].at \notin CallbackAwaits
      BY <2>3 DEF CallbackAwaits
    <2> QED BY <2>2, <2>3, <2>4 DEF Knows, Granted, active, granted
  <1> QED BY <1>1, <1>2

LEMMA KnowsSignIn ==
  ASSUME TypeOK, NEW r \in Requests, Knows(r), Callback(r)
  PROVE  Knows(r)'
  <1>1. request[r] \in Request
    BY DEF TypeOK
  <1>2. ASSUME request'[r].at \in {"exchange", "upsert", "create"},
               request'[r].state = request[r].state, request[r].at \in CallbackAwaits
        PROVE  Knows(r)'
    BY <1>2 DEF Knows, ApiAwaits
  <1>3. ASSUME request'[r] = Idle PROVE Knows(r)'
    BY <1>3 DEF Knows, Idle, ApiAwaits, CallbackAwaits
  <1>4. CASE Consume(r)
    <2>1. CASE Consumable(request[r].state)
      BY <1>1, <1>2, <1>4, <2>1 DEF Consume, Moves, TypeOK, Request, CallbackAwaits
    <2>2. CASE ~Consumable(request[r].state)
      BY <1>3, <1>4, <2>2 DEF Consume, Done, TypeOK
    <2> QED BY <2>1, <2>2
  <1>5. CASE Exchange(r)
    BY <1>1, <1>2, <1>5 DEF Exchange, TypeOK, Request, CallbackAwaits
  <1>6. CASE Upsert(r)
    <2>1. request'[r] = [request[r] EXCEPT !.at = "create", !.next = NoToken]
      BY <1>6, DisturbsKeeps DEF Upsert
    <2> QED BY <1>1, <1>2, <1>6, <2>1 DEF Upsert, Request, CallbackAwaits
  <1>7. CASE CreateSession(r)
    BY <1>3, <1>7 DEF CreateSession, Done, TypeOK
  <1> QED BY <1>4, <1>5, <1>6, <1>7 DEF Callback

LEMMA KnowsResolve ==
  ASSUME TypeOK, NEW r \in Requests, Knows(r), Resolve(r)
  PROVE  Knows(r)'
  <1>1. request[r] \in Request /\ session' = session /\ github' = github
    BY DEF TypeOK, Resolve, Find, Refresh, RefreshAnswerLost, Store, StoreFails, TellUser
  <1>2. ASSUME request'[r].at \in {"store", "touch"},
               request[r].at \in {"refresh", "store"},
               request'[r].session = request[r].session,
               request'[r].active = request[r].active,
               request'[r].granted = request[r].granted
        PROVE  Knows(r)'
    BY <1>1, <1>2, KnowsOwn DEF ApiAwaits
  <1>3. ASSUME request'[r] = Idle PROVE Knows(r)'
    BY <1>3 DEF Knows, Idle, ApiAwaits, CallbackAwaits
  <1>4. CASE Find(r)
    <2>1. CASE FindActive(request[r].session)
      <3>1. PICK at \in {"refresh", "touch"} :
              request' = [request EXCEPT ![r] = [request[r] EXCEPT !.token = userRow, !.at = at]]
        BY <1>4, <2>1 DEF Find
      <3>2. request'[r] = [request[r] EXCEPT !.token = userRow, !.at = at]
        BY <3>1 DEF TypeOK
      <3>3. /\ request'[r].at = at /\ request'[r].session = request[r].session
            /\ request'[r].active = request[r].active
            /\ request'[r].granted = request[r].granted
        BY <1>1, <3>2 DEF Request
      <3>4. /\ request[r].session \in Sessions
            /\ session[request[r].session].status = "active"
            /\ request[r].active
            /\ Granted(github) => request[r].granted
        BY <1>4, <2>1 DEF Find, FindActive, Knows, ApiAwaits
      <3>5. at # "query" /\ at \notin CallbackAwaits
        BY DEF CallbackAwaits
      <3> QED BY <1>1, <3>3, <3>4, <3>5 DEF Knows, Granted
    <2>2. CASE ~FindActive(request[r].session)
      BY <1>3, <1>4, <2>2 DEF Find, Done, TypeOK
    <2> QED BY <2>1, <2>2
  <1>5. CASE Refresh(r)
    <2>1. CASE Exchangeable(request[r].token.refresh)
      BY <1>2, <1>5, <2>1, RefreshFields DEF Refresh
    <2>2. CASE ~Exchangeable(request[r].token.refresh)
      <3>1. request'[r] = [request[r] EXCEPT !.at = "touch"]
        BY <1>5, <2>2 DEF Refresh, Moves, TypeOK
      <3> QED BY <1>1, <1>2, <1>5, <3>1 DEF Refresh, Request
    <2> QED BY <2>1, <2>2
  <1>6. CASE RefreshAnswerLost(r)
    BY <1>2, <1>6, LostFields DEF RefreshAnswerLost
  <1>7. CASE Store(r)
    BY <1>2, <1>7, StoreFields DEF Store
  <1>8. CASE StoreFails(r)
    <2>1. request'[r] = [request[r] EXCEPT !.at = "touch", !.next = NoToken, !.quiet = FALSE]
      BY <1>8 DEF StoreFails, TypeOK
    <2>2. /\ request'[r].at = "touch" /\ request'[r].session = request[r].session
          /\ request'[r].active = request[r].active
          /\ request'[r].granted = request[r].granted
      BY <1>1, <2>1 DEF Request
    <2> QED BY <1>2, <1>8, <2>2 DEF StoreFails
  <1>9. CASE TellUser(r)
    BY <1>3, <1>9 DEF TellUser, Done, TypeOK
  <1> QED BY <1>4, <1>5, <1>6, <1>7, <1>8, <1>9 DEF Resolve

LEMMA KnowsAuthorize ==
  ASSUME TypeOK, NEW r \in Requests, Knows(r), Authorize(r) \/ RequestFails(r)
  PROVE  Knows(r)'
  <1>1. request[r] \in Request /\ session' = session /\ github' = github
    BY DEF TypeOK, Authorize, Touch, ListInstallations, ListRepositories, Query, Hide,
           Reauthenticate, InstallationGone, RequestFails
  <1>2. CASE Touch(r) \/ ListInstallations(r) \/ ListRepositories(r)
    <2>1. PICK at \in {"installations", "repositories", "query"} :
            Moves(r, at) /\ (at = "query" => Granted(github))
      BY <1>2, PolicyGrants DEF Touch, ListInstallations, ListRepositories
    <2>2. request'[r] = [request[r] EXCEPT !.at = at]
      BY <2>1 DEF Moves, TypeOK
    <2>3. /\ request'[r].at = at /\ request'[r].session = request[r].session
          /\ request'[r].active = request[r].active
          /\ request'[r].granted = request[r].granted
      BY <1>1, <2>2 DEF Request
    <2>4. request[r].at \in ApiAwaits \ {"find"}
      BY <1>2 DEF Touch, ListInstallations, ListRepositories, ApiAwaits
    <2> QED BY <1>1, <2>1, <2>3, <2>4, KnowsOwn DEF ApiAwaits
  <1>3. CASE \/ Query(r) \/ Hide(r) \/ Reauthenticate(r) \/ InstallationGone(r)
             \/ RequestFails(r)
    <2>1. request'[r] = Idle
      BY <1>3 DEF Query, Hide, Reauthenticate, InstallationGone, RequestFails, Done, TypeOK
    <2> QED BY <2>1 DEF Knows, Idle, ApiAwaits, CallbackAwaits
  <1> QED BY <1>2, <1>3 DEF Authorize

LEMMA KnowsStep ==
  ASSUME TypeOK, FoundOut, NEW r \in Requests, StepOf(r)
  PROVE  FoundOut'
  <1>1. \A x \in Requests : Knows(x)
    BY FoundOutIsKnowing
  <1>2. Knows(r)'
    BY <1>1, KnowsArrival, KnowsSignIn, KnowsResolve, KnowsAuthorize DEF StepOf
  <1>3. github' = github
    BY DEF StepOf, Callback, Resolve, Authorize, CallbackArrives, ApiArrives, Consume,
           Exchange, Upsert, CreateSession, Find, Refresh, RefreshAnswerLost, Store,
           StoreFails, TellUser, Touch, ListInstallations, ListRepositories, Query, Hide,
           Reauthenticate, InstallationGone, RequestFails
  <1>4. [Next]_vars
    BY DEF StepOf, Next
  <1>5. ASSUME NEW x \in Requests \ {r} PROVE Knows(x)'
    <2>1. Same(x) /\ request'[x].granted = request[x].granted
      BY OthersKept
    <2> QED BY <1>1, <1>3, <1>4, <2>1, KnowsOthers DEF Granted
  <1>6. \A x \in Requests : Knows(x)'
    BY <1>2, <1>5
  <1> QED BY <1>6 DEF FoundOut, Knows

LEMMA KnowsEnvironment ==
  ASSUME TypeOK, FoundOut, Environment
  PROVE  FoundOut'
  <1>1. \A x \in Requests : Knows(x)
    BY FoundOutIsKnowing
  <1>2. [Next]_vars
    BY DEF Next
  <1>3. \A x \in Requests : Knows(x)'
    BY <1>1, <1>2, EnvironmentKeeps, KnowsOthers
  <1> QED BY <1>3 DEF FoundOut, Knows

-----------------------------------------------------------------------------
(* The invariant and what follows from it. *)

LEMMA InitInv == Init => AccessInv
  <1> SUFFICES ASSUME Init PROVE AccessInv
    OBVIOUS
  <1>1. /\ \A r \in Requests : request[r] = Idle
        /\ \A s \in Sessions : session[s].from = NoState
        /\ userRow.refresh = 0 /\ spent = {}
    BY DEF Init, NoToken
  <1>2. \A r \in Requests : /\ request[r].at = "idle" /\ request[r].next.refresh = 0
    <2>1. Idle.at = "idle" /\ Idle.next.refresh = 0
      BY DEF Idle, NoToken
    <2> QED BY <1>1, <2>1
  <1>3. OneSignInPerState /\ FoundOut
    BY <1>1, <1>2 DEF OneSignInPerState, FoundOut, Passed, CallbackAwaits, ApiAwaits
  <1>4. PendingIsFresh /\ CredentialSurvives
    BY <1>1, <1>2 DEF PendingIsFresh, CredentialSurvives
  <1> QED BY <1>3, <1>4, InitType DEF AccessInv

LEMMA NextInv == AccessInv /\ [Next]_vars => AccessInv'
  <1> SUFFICES ASSUME AccessInv, [Next]_vars PROVE AccessInv'
    OBVIOUS
  <1> USE DEF AccessInv
  <1>1. TypeOK'
    BY NextType
  <1>2. ASSUME NEW r \in Requests, StepOf(r) PROVE AccessInv'
    BY <1>1, <1>2, SignInStep, CredentialStep, KnowsStep
  <1>3. CASE Environment
    BY <1>1, <1>3, SignInEnvironment, CredentialEnvironment, KnowsEnvironment
  <1>4. CASE UNCHANGED vars
    <2> USE <1>4 DEF vars, credentials, limits
    <2>1. OneSignInPerState'
      BY DEF OneSignInPerState, Passed
    <2>2. PendingIsFresh' /\ CredentialSurvives'
      BY DEF PendingIsFresh, CredentialSurvives
    <2>3. FoundOut'
      BY DEF FoundOut, Granted
    <2> QED BY <1>1, <2>1, <2>2, <2>3
  <1> QED BY <1>2, <1>3, <1>4 DEF Next, StepOf

\* The inductive invariant holds in every reachable state.
THEOREM AccessInvariant == Spec => []AccessInv
  BY InitInv, NextInv, PTL DEF Spec

\* However many callbacks bring the same sign-in, at once or one after another, one
\* of them gets past the consumption of its state and one session comes from it.
THEOREM OneSignIn == Spec => []OneSignInPerState
  <1>1. AccessInv => OneSignInPerState
    BY DEF AccessInv
  <1> QED BY <1>1, AccessInvariant, PTL

\* While nothing fails, the stored refresh token has not been exchanged, or the
\* request that exchanged it is about to store its successor.
THEOREM CredentialIsKept == Spec => []CredentialSurvives
  <1>1. AccessInv => CredentialSurvives
    BY DEF AccessInv
  <1> QED BY <1>1, AccessInvariant, PTL

\* Nothing is answered to a session that was over when its request came, and no
\* product data that GitHub did not grant at some moment of the request.
THEOREM Authorized == Spec => AnswersAreAuthorized
  <1> DEFINE Due == \A r \in Requests : /\ TellUser(r) \/ Query(r) => request[r].active
                                        /\ Query(r) => request[r].granted
  <1>1. AccessInv /\ [Next]_vars => [Due]_vars
    BY DEF AccessInv, FoundOut, TellUser, Query, ApiAwaits
  <1>2. Spec => [][Due]_vars
    BY <1>1, AccessInvariant, PTL DEF Spec
  <1> QED BY <1>2 DEF AnswersAreAuthorized

-----------------------------------------------------------------------------
(* What a request that nothing has disturbed may rely on. *)

\* GitHub grants no less than it did when the request came, and the credential the
\* request works with, or is about to, is one GitHub takes.
Undisturbed(x) ==
  request[x].quiet =>
    /\ request[x].at \in ApiAwaits
    /\ request[x].granted => Granted(github)
    /\ request[x].at = "find" => Usable(userRow)
    /\ request[x].at = "refresh" => Exchangeable(request[x].token.refresh)
    /\ request[x].at = "store" => Accepted(request[x].next.access)
    /\ request[x].at \in ApiAwaits \ {"find", "refresh", "store"} =>
         Accepted(request[x].token.access)

QuietInv == \A x \in Requests : Undisturbed(x)

\* No credential ends and GitHub stays as it is; new credentials may be issued.
WorldKept ==
  /\ github' = github
  /\ dead' = dead /\ lapsed' = lapsed /\ spent' = spent /\ withdrawn' = withdrawn
  /\ issued \in Nat /\ issued' \in Nat /\ issued <= issued'

LEMMA KeptWorld ==
  ASSUME WorldKept
  PROVE  /\ \A a : Accepted(a) => Accepted(a)'
         /\ \A a : Exchangeable(a) => Exchangeable(a)'
         /\ Granted(github)' <=> Granted(github)
         /\ userRow' = userRow /\ Usable(userRow) => Usable(userRow)'
  <1>1. 1 .. issued \subseteq 1 .. issued'
    BY DEF WorldKept
  <1>2. \A a : (Accepted(a) => Accepted(a)') /\ (Exchangeable(a) => Exchangeable(a)')
    BY <1>1 DEF WorldKept, Accepted, Exchangeable
  <1>3. userRow' = userRow /\ Usable(userRow) => Usable(userRow)'
    BY <1>2 DEF Usable, WorldKept
  <1> QED BY <1>2, <1>3 DEF WorldKept, Granted

LEMMA UndisturbedKept ==
  ASSUME NEW x \in Requests, Undisturbed(x), WorldKept, userRow' = userRow,
         request'[x] = request[x]
  PROVE  Undisturbed(x)'
  <1>1. /\ \A a : Accepted(a) => Accepted(a)'
        /\ \A a : Exchangeable(a) => Exchangeable(a)'
        /\ Granted(github)' <=> Granted(github)
        /\ Usable(userRow) => Usable(userRow)'
    BY KeptWorld
  <1> QED BY <1>1 DEF Undisturbed

\* What is disturbed is not quiet any more.
LEMMA NoLongerQuiet ==
  ASSUME TypeOK, NEW x \in Requests, Undisturbed(x), NEW quietened, NEW granted \in BOOLEAN,
         quietened \in {[request[x] EXCEPT !.quiet = FALSE],
                        [request[x] EXCEPT !.quiet = FALSE, !.granted = granted]},
         request'[x] = IF Underway(x) THEN quietened ELSE request[x]
  PROVE  ~request'[x].quiet
  <1>1. PICK q \in Request : q = request[x]
    BY DEF TypeOK
  <1>2. CASE Underway(x)
    BY <1>1, <1>2 DEF Request
  <1>3. CASE ~Underway(x)
    BY <1>1, <1>3 DEF Undisturbed, Underway, ApiAwaits
  <1> QED BY <1>2, <1>3

LEMMA DisturbsQuiet ==
  ASSUME TypeOK, NEW r \in Requests, NEW entry, Disturbs(r, entry),
         NEW x \in Requests \ {r}, Undisturbed(x)
  PROVE  Undisturbed(x)'
  <1>1. request'[x] = IF Underway(x) THEN [request[x] EXCEPT !.quiet = FALSE] ELSE request[x]
    BY DEF Disturbs
  <1>2. ~request'[x].quiet
    BY <1>1, NoLongerQuiet
  <1> QED BY <1>2 DEF Undisturbed

LEMMA AllDisturbedQuiet ==
  ASSUME TypeOK, NEW g, AllDisturbed(g), NEW x \in Requests, Undisturbed(x)
  PROVE  Undisturbed(x)'
  <1>1. PICK granted \in BOOLEAN : granted = (request[x].granted \/ Granted(g))
    OBVIOUS
  <1>2. request'[x] = IF Underway(x)
                      THEN [request[x] EXCEPT !.quiet = FALSE,
                                              !.granted = request[x].granted \/ Granted(g)]
                      ELSE request[x]
    BY DEF AllDisturbed
  <1>3. request'[x] = IF Underway(x)
                      THEN [request[x] EXCEPT !.quiet = FALSE, !.granted = granted]
                      ELSE request[x]
    BY <1>1, <1>2
  <1>4. ~request'[x].quiet
    BY <1>3, NoLongerQuiet
  <1> QED BY <1>4 DEF Undisturbed

\* An arrival is quiet when one look at GitHub would let it through.
LEMMA ArrivalUndisturbed ==
  ASSUME TypeOK, NEW r \in Requests,
         \/ \E o \in OAuthStates : CallbackArrives(r, o)
         \/ \E s \in Sessions : ApiArrives(r, s)
  PROVE  Undisturbed(r)'
  <1>1. ASSUME NEW o \in OAuthStates, CallbackArrives(r, o)
        PROVE  Undisturbed(r)'
    <2>1. request'[r] = [Idle EXCEPT !.at = "consume", !.state = o]
      BY <1>1 DEF CallbackArrives, TypeOK
    <2>2. ~request'[r].quiet
      BY <2>1 DEF Idle
    <2> QED BY <2>2 DEF Undisturbed
  <1>2. ASSUME NEW s \in Sessions, ApiArrives(r, s)
        PROVE  Undisturbed(r)'
    <2> DEFINE active == session[s].status = "active"
               granted == Granted(github)
               quiet == Usable(userRow)
    <2>1. request'[r] = [Idle EXCEPT !.at = "find", !.session = s, !.active = active,
                                     !.granted = granted, !.quiet = quiet]
      BY <1>2 DEF ApiArrives, TypeOK
    <2>2. WorldKept /\ userRow' = userRow
      <3>1. UNCHANGED <<userRow, github, credentials>>
        BY <1>2 DEF ApiArrives
      <3>2. issued \in Nat
        BY AccessAssumption DEF TypeOK
      <3> QED BY <3>1, <3>2 DEF WorldKept, credentials
    <2> HIDE DEF active, granted, quiet
    <2>3. /\ request'[r].at = "find" /\ request'[r].granted = granted
          /\ request'[r].quiet = quiet
      BY <2>1 DEF Idle
    <2>4. (granted => Granted(github)') /\ (quiet => Usable(userRow)')
      BY <2>2, KeptWorld DEF granted, quiet
    <2> QED BY <2>3, <2>4 DEF Undisturbed, ApiAwaits
  <1> QED BY <1>1, <1>2

\* A sign-in is never called quiet.
LEMMA SignInUndisturbed ==
  ASSUME TypeOK, NEW r \in Requests, Undisturbed(r), Callback(r)
  PROVE  Undisturbed(r)'
  <1>1. PICK q \in Request : q = request[r]
    BY DEF TypeOK
  <1>2. q.at \in CallbackAwaits /\ ~q.quiet
    BY <1>1 DEF Undisturbed, Callback, Consume, Exchange, Upsert, CreateSession, ApiAwaits,
                CallbackAwaits
  <1>3. \/ request'[r] = Idle
        \/ request'[r] = [q EXCEPT !.at = "exchange"]
        \/ \E next : request'[r] = [q EXCEPT !.at = "upsert", !.next = next]
        \/ request'[r] = [q EXCEPT !.at = "create", !.next = NoToken]
    <2>1. CASE Consume(r) \/ CreateSession(r)
      BY <1>1, <2>1 DEF Consume, CreateSession, Moves, Done, TypeOK
    <2>2. CASE Exchange(r)
      <3>1. request' = [request EXCEPT ![r] = [request[r] EXCEPT
              !.at = "upsert", !.next = [access |-> issued + 1, refresh |-> issued + 1]]]
        BY <2>2 DEF Exchange
      <3>2. request'[r] = [q EXCEPT !.at = "upsert",
                                     !.next = [access |-> issued + 1, refresh |-> issued + 1]]
        BY <1>1, <3>1 DEF TypeOK
      <3> QED BY <3>2
    <2>3. CASE Upsert(r)
      BY <1>1, <2>3, DisturbsKeeps DEF Upsert
    <2> QED BY <2>1, <2>2, <2>3 DEF Callback
  <1>4. ~request'[r].quiet
    <2>1. ASSUME NEW next, request'[r] = [q EXCEPT !.at = "upsert", !.next = next]
          PROVE  ~request'[r].quiet
      BY <1>2, <2>1 DEF Request
    <2>2. CASE \/ request'[r] = [q EXCEPT !.at = "exchange"]
               \/ request'[r] = [q EXCEPT !.at = "create", !.next = NoToken]
      BY <1>2, <2>2 DEF Request
    <2>3. CASE request'[r] = Idle
      BY <2>3 DEF Idle
    <2> QED BY <1>3, <2>1, <2>2, <2>3
  <1> QED BY <1>4 DEF Undisturbed

\* A refresh that GitHub carries out brings an access token that GitHub takes.
LEMMA RefreshUndisturbed ==
  ASSUME TypeOK, NEW r \in Requests, Undisturbed(r),
         Refresh(r) \/ RefreshAnswerLost(r)
  PROVE  Undisturbed(r)'
  <1>1. PICK q \in Request : q = request[r]
    BY DEF TypeOK
  <1>2. CASE Refresh(r) /\ Exchangeable(q.token.refresh)
    <2>1. PICK next : next = [access |-> issued + 1, refresh |-> IF Rotates THEN issued + 1 ELSE 0]
      OBVIOUS
    <2>2. request'[r] = [q EXCEPT !.at = "store", !.next = next]
      BY <1>1, <1>2, <2>1, DisturbsKeeps DEF Refresh
    <2>3. /\ request'[r].at = "store" /\ request'[r].next = next
          /\ request'[r].quiet = q.quiet /\ request'[r].granted = q.granted
      BY <2>2 DEF Request
    <2>4. /\ github' = github /\ issued' = issued + 1 /\ issued \in Nat
          /\ dead' = dead /\ withdrawn' = withdrawn
          /\ spent' \subseteq spent \union {q.token.refresh}
          /\ q.token.refresh \in 1 .. issued
      BY <1>1, <1>2, AccessAssumption DEF Refresh, GitHubExchanges, TypeOK, Exchangeable
    <2>5. PICK n : n = issued + 1
      OBVIOUS
    <2>6. n \in 1 .. issued' /\ n \notin 1 .. issued
      BY <2>4, <2>5
    <2>7. n \in (1 .. issued') \ (dead' \union spent' \union withdrawn')
      BY <2>4, <2>6 DEF TypeOK
    <2>8. request'[r].next.access = n
      BY <2>1, <2>3, <2>5
    <2>9. Accepted(request[r].next.access)'
      BY <2>7, <2>8 DEF Accepted
    <2>10. (Granted(github)' <=> Granted(github)) /\ (q.quiet /\ q.granted => Granted(github))
      BY <1>1, <2>4 DEF Granted, Undisturbed
    <2> QED BY <2>3, <2>9, <2>10 DEF Undisturbed, ApiAwaits
  <1>3. CASE Refresh(r) /\ ~Exchangeable(q.token.refresh)
    <2>1. ~q.quiet
      BY <1>1, <1>3 DEF Undisturbed, Refresh
    <2>2. request'[r] = [q EXCEPT !.at = "touch"]
      BY <1>1, <1>3 DEF Refresh, Moves, TypeOK
    <2>3. ~request'[r].quiet
      BY <2>1, <2>2 DEF Request
    <2> QED BY <2>3 DEF Undisturbed
  <1>4. CASE RefreshAnswerLost(r)
    <2>1. request'[r] = [q EXCEPT !.at = "touch", !.quiet = FALSE]
      BY <1>1, <1>4, DisturbsKeeps DEF RefreshAnswerLost
    <2>2. ~request'[r].quiet
      BY <2>1 DEF Request
    <2> QED BY <2>2 DEF Undisturbed
  <1> QED BY <1>2, <1>3, <1>4

\* A step of r that leaves GitHub, the user's row and the credentials alone.
Alone(r) ==
  \/ Find(r) \/ StoreFails(r) \/ TellUser(r) \/ Consume(r) \/ CreateSession(r)
  \/ Authorize(r) \/ RequestFails(r)
  \/ \E o \in OAuthStates : CallbackArrives(r, o)
  \/ \E s \in Sessions : ApiArrives(r, s)

LEMMA AloneKeeps ==
  ASSUME TypeOK, NEW r \in Requests, Alone(r)
  PROVE  /\ WorldKept /\ userRow' = userRow
         /\ \A x \in Requests \ {r} : request'[x] = request[x]
  <1>1. UNCHANGED <<userRow, github, credentials>>
    BY DEF Alone, Find, StoreFails, TellUser, Consume, CreateSession, RequestFails,
           CallbackArrives, ApiArrives, Authorize, Touch, ListInstallations, ListRepositories,
           Query, Hide, Reauthenticate, InstallationGone
  <1>2. issued \in Nat
    BY AccessAssumption DEF TypeOK
  <1>3. \E entry : request' = [request EXCEPT ![r] = entry]
    BY DEF Alone, Find, StoreFails, TellUser, Consume, CreateSession, RequestFails,
           CallbackArrives, ApiArrives, Authorize, Touch, ListInstallations, ListRepositories,
           Query, Hide, Reauthenticate, InstallationGone, Moves, Done
  <1> QED BY <1>1, <1>2, <1>3 DEF WorldKept, credentials, TypeOK

\* A credential that needs no refresh and can be used is one GitHub takes.
LEMMA UsableAsItIs ==
  ASSUME Usable(userRow)
  PROVE  /\ NeedsRefresh(userRow) => Exchangeable(userRow.refresh)
         /\ ~NeedsRefresh(userRow) => Accepted(userRow.access)
  BY DEF Usable, NeedsRefresh, Accepted, Exchangeable

LEMMA FindUndisturbed ==
  ASSUME TypeOK, NEW r \in Requests, Undisturbed(r), Find(r)
  PROVE  Undisturbed(r)'
  <1>1. PICK q \in Request : q = request[r]
    BY DEF TypeOK
  <1>2. WorldKept /\ userRow' = userRow
    BY AloneKeeps DEF Alone
  <1>3. CASE FindActive(request[r].session)
    <2>1. PICK at : at = IF NeedsRefresh(userRow) THEN "refresh" ELSE "touch"
      OBVIOUS
    <2>2. PICK token : token = userRow
      OBVIOUS
    <2>3. request'[r] = [q EXCEPT !.token = token, !.at = at]
      BY <1>1, <1>3, <2>1, <2>2 DEF Find, TypeOK
    <2>4. /\ request'[r].token = token /\ request'[r].at = at
          /\ request'[r].quiet = q.quiet /\ request'[r].granted = q.granted
      BY <2>3 DEF Request
    <2>5. q.quiet => /\ at = "refresh" => Exchangeable(token.refresh)
                     /\ at = "touch" => Accepted(token.access)
                     /\ q.granted => Granted(github)
      BY <1>1, <2>1, <2>2, UsableAsItIs DEF Undisturbed, Find
    <2>6. at \in {"refresh", "touch"}
      BY <2>1
    <2>7. /\ Exchangeable(token.refresh) => Exchangeable(token.refresh)'
          /\ Accepted(token.access) => Accepted(token.access)'
          /\ Granted(github) => Granted(github)'
      BY <1>2, KeptWorld
    <2>8. q.quiet => /\ at = "refresh" => Exchangeable(request[r].token.refresh)'
                     /\ at = "touch" => Accepted(request[r].token.access)'
                     /\ q.granted => Granted(github)'
      BY <2>4, <2>5, <2>7 DEF Exchangeable, Accepted
    <2> QED BY <2>4, <2>6, <2>8 DEF Undisturbed, ApiAwaits
  <1>4. CASE ~FindActive(request[r].session)
    <2>1. request'[r] = Idle
      BY <1>4 DEF Find, Done, TypeOK
    <2> QED BY <2>1 DEF Undisturbed, Idle
  <1> QED BY <1>3, <1>4

LEMMA StoreUndisturbed ==
  ASSUME TypeOK, NEW r \in Requests, Undisturbed(r), Store(r) \/ StoreFails(r) \/ TellUser(r)
  PROVE  Undisturbed(r)'
  <1>1. PICK q \in Request : q = request[r]
    BY DEF TypeOK
  <1>2. CASE Store(r)
    <2>1. PICK token : token = Stored(q.token, q.next)
      OBVIOUS
    <2>2. request'[r] = [q EXCEPT !.at = "touch", !.next = NoToken, !.token = token]
      BY <1>1, <1>2, <2>1, DisturbsKeeps DEF Store
    <2>3. /\ request'[r].at = "touch" /\ request'[r].token = token
          /\ request'[r].quiet = q.quiet /\ request'[r].granted = q.granted
      BY <2>2 DEF Request
    <2>4. token.access = q.next.access
      BY <2>1 DEF Stored, Request, Token
    <2>5. q.quiet => Accepted(q.next.access) /\ (q.granted => Granted(github))
      BY <1>1, <1>2 DEF Undisturbed, Store
    <2>6. issued \in Nat /\ UNCHANGED <<github, credentials>>
      BY <1>2, AccessAssumption DEF Store, TypeOK
    <2>7. WorldKept
      BY <2>6 DEF WorldKept, credentials
    <2>8. /\ Accepted(token.access) => Accepted(token.access)'
          /\ Granted(github) => Granted(github)'
      BY <2>7, KeptWorld
    <2>9. q.quiet => Accepted(request[r].token.access)' /\ (q.granted => Granted(github)')
      BY <2>3, <2>4, <2>5, <2>8 DEF Accepted
    <2> QED BY <2>3, <2>9 DEF Undisturbed, ApiAwaits
  <1>3. CASE StoreFails(r)
    <2>1. request'[r] = [q EXCEPT !.at = "touch", !.next = NoToken, !.quiet = FALSE]
      BY <1>1, <1>3 DEF StoreFails, TypeOK
    <2>2. ~request'[r].quiet
      BY <2>1 DEF Request
    <2> QED BY <2>2 DEF Undisturbed
  <1>4. CASE TellUser(r)
    <2>1. request'[r] = Idle
      BY <1>4 DEF TellUser, Done, TypeOK
    <2> QED BY <2>1 DEF Undisturbed, Idle
  <1> QED BY <1>2, <1>3, <1>4

LEMMA AuthorizeUndisturbed ==
  ASSUME TypeOK, NEW r \in Requests, Undisturbed(r), Authorize(r) \/ RequestFails(r)
  PROVE  Undisturbed(r)'
  <1>1. PICK q \in Request : q = request[r]
    BY DEF TypeOK
  <1>2. CASE Touch(r) \/ ListInstallations(r) \/ ListRepositories(r)
    <2>1. PICK at \in {"installations", "repositories", "query"} : Moves(r, at)
      BY <1>2 DEF Touch, ListInstallations, ListRepositories
    <2>2. request'[r] = [q EXCEPT !.at = at]
      BY <1>1, <2>1 DEF Moves, TypeOK
    <2>3. /\ request'[r].at = at /\ request'[r].token = q.token
          /\ request'[r].quiet = q.quiet /\ request'[r].granted = q.granted
      BY <2>2 DEF Request
    <2>4. q.at \in {"touch", "installations", "repositories"}
      BY <1>1, <1>2 DEF Touch, ListInstallations, ListRepositories
    <2>5. q.quiet => Accepted(q.token.access) /\ (q.granted => Granted(github))
      BY <1>1, <2>4 DEF Undisturbed, ApiAwaits
    <2>6. WorldKept
      BY <1>2, AloneKeeps DEF Alone, Authorize
    <2>7. /\ Accepted(q.token.access) => Accepted(q.token.access)'
          /\ Granted(github) => Granted(github)'
      BY <2>6, KeptWorld
    <2>8. q.quiet => Accepted(request[r].token.access)' /\ (q.granted => Granted(github)')
      BY <2>3, <2>5, <2>7 DEF Accepted
    <2> QED BY <2>1, <2>3, <2>8 DEF Undisturbed, ApiAwaits
  <1>3. CASE \/ Query(r) \/ Hide(r) \/ Reauthenticate(r) \/ InstallationGone(r)
             \/ RequestFails(r)
    <2>1. request'[r] = Idle
      BY <1>3 DEF Query, Hide, Reauthenticate, InstallationGone, RequestFails, Done, TypeOK
    <2> QED BY <2>1 DEF Undisturbed, Idle
  <1> QED BY <1>2, <1>3 DEF Authorize


\* What the steps that touch GitHub or the user's row leave to the other requests.
LEMMA OthersUndisturbed ==
  ASSUME TypeOK, NEW r \in Requests, NEW x \in Requests \ {r}, Undisturbed(x), StepOf(r)
  PROVE  Undisturbed(x)'
  <1>1. CASE Alone(r)
    BY <1>1, AloneKeeps, UndisturbedKept
  <1>2. CASE Exchange(r)
    <2>1. \E entry : request' = [request EXCEPT ![r] = entry]
      BY <1>2 DEF Exchange
    <2>2. request'[x] = request[x]
      BY <2>1 DEF TypeOK
    <2>3. issued \in Nat
      BY AccessAssumption DEF TypeOK
    <2>4. WorldKept /\ userRow' = userRow
      BY <1>2, <2>3 DEF Exchange, WorldKept
    <2> QED BY <2>2, <2>4, UndisturbedKept
  <1>3. CASE Refresh(r) /\ ~Exchangeable(request[r].token.refresh)
    <2>1. request'[x] = request[x]
      BY <1>3 DEF Refresh, Moves, TypeOK
    <2>2. issued \in Nat
      BY AccessAssumption DEF TypeOK
    <2>3. WorldKept /\ userRow' = userRow
      BY <1>3, <2>2 DEF Refresh, WorldKept
    <2> QED BY <2>1, <2>3, UndisturbedKept
  <1>4. CASE \/ Upsert(r) \/ RefreshAnswerLost(r) \/ Store(r)
             \/ Refresh(r) /\ Exchangeable(request[r].token.refresh)
    <2>1. \E entry : Disturbs(r, entry)
      BY <1>4 DEF Upsert, RefreshAnswerLost, Store, Refresh
    <2> QED BY <2>1, DisturbsQuiet
  <1> QED BY <1>1, <1>2, <1>3, <1>4 DEF StepOf, Alone, Callback, Resolve

LEMMA QuietStep ==
  ASSUME TypeOK, QuietInv, NEW r \in Requests, StepOf(r)
  PROVE  QuietInv'
  <1>1. Undisturbed(r)'
    <2>1. Undisturbed(r)
      BY DEF QuietInv
    <2> QED BY <2>1, ArrivalUndisturbed, SignInUndisturbed, FindUndisturbed,
               RefreshUndisturbed, StoreUndisturbed, AuthorizeUndisturbed DEF StepOf, Resolve
  <1>2. ASSUME NEW x \in Requests \ {r} PROVE Undisturbed(x)'
    BY OthersUndisturbed DEF QuietInv
  <1>3. \A x \in Requests : Undisturbed(x)'
    BY <1>1, <1>2
  <1> QED BY <1>3 DEF QuietInv

\* Time and GitHub either disturb every request, or touch only sign-ins and sessions.
LEMMA QuietEnvironment ==
  ASSUME TypeOK, QuietInv, Environment \/ UNCHANGED vars
  PROVE  QuietInv'
  <1>1. ASSUME NEW x \in Requests PROVE Undisturbed(x)'
    <2>1. Undisturbed(x)
      BY DEF QuietInv
    <2>2. CASE AllDisturbed(github')
      BY <2>1, <2>2, AllDisturbedQuiet
    <2>3. CASE UNCHANGED <<request, userRow, github, credentials>>
      <3>1. issued \in Nat
        BY AccessAssumption DEF TypeOK
      <3>2. WorldKept /\ userRow' = userRow /\ request'[x] = request[x]
        BY <2>3, <3>1 DEF WorldKept, credentials
      <3> QED BY <2>1, <3>2, UndisturbedKept
    <2> QED
      BY <2>2, <2>3 DEF Environment, vars, BeginLogin, SignOut, SessionExpires, StateExpires,
         AccessExpires, RefreshExpires, AccessChanges, AuthorizationWithdrawn
  <1>2. \A x \in Requests : Undisturbed(x)'
    BY <1>1
  <1> QED BY <1>2 DEF QuietInv

LEMMA InitQuiet == Init => QuietInv
  <1> SUFFICES ASSUME Init PROVE QuietInv
    OBVIOUS
  <1>1. \A x \in Requests : ~request[x].quiet
    BY DEF Init, Idle
  <1> QED BY <1>1 DEF QuietInv, Undisturbed

LEMMA NextQuiet == TypeOK /\ QuietInv /\ [Next]_vars => QuietInv'
  BY QuietStep, QuietEnvironment DEF Next, StepOf

\* A permission object that says anything grants what the queries ask for.
LEMMA SomethingIsRead ==
  ASSUME TypeOK, PolicyAnswer(Rank(github.flags)) = "NOT_FOUND"
  PROVE  github.flags = {}
  <1>1. PICK flags \in SUBSET {"admin", "maintain", "push", "triage", "pull"} : flags = github.flags
    BY AccessAssumption DEF TypeOK
  <1>2. ASSUME flags # {} PROVE Rank(flags) \in {1, 2, 3}
    <2>1. CASE "admin" \in flags
      BY <2>1 DEF Rank
    <2>2. CASE "admin" \notin flags /\ flags \intersect {"maintain", "push"} # {}
      BY <2>2 DEF Rank
    <2>3. CASE /\ flags \intersect {"admin", "maintain", "push"} = {}
               /\ flags \intersect {"triage", "pull"} # {}
      BY <2>3 DEF Rank
    <2> QED BY <1>2, <2>1, <2>2, <2>3
  <1>3. \A rank \in {1, 2, 3} : PolicyAnswer(rank) = "query"
    BY DEF PolicyAnswer, RequiredRank
  <1> QED BY <1>1, <1>2, <1>3

\* A 404 of the authorization is GitHub's own refusal at that moment.
LEMMA HiddenIsUngranted ==
  ASSUME TypeOK, NEW r \in Requests, Hide(r)
  PROVE  ~Granted(github)
  BY SomethingIsRead DEF Hide, Granted, ListedHere

\* As long as nothing has interfered with a request, GitHub grants what it granted when
\* the request came and takes the credential the request works with.
THEOREM QuietInvariant == Spec => []QuietInv
  <1>1. AccessInv => TypeOK
    BY DEF AccessInv
  <1> QED BY <1>1, AccessInvariant, InitQuiet, NextQuiet, PTL DEF Spec

\* Such a request is never asked to sign in anew, and is answered 404 only when
\* GitHub has granted the repository at no moment of it.
THEOREM QuietIsExact == Spec => QuietRequestIsExact
  <1> DEFINE Exact == \A r \in Requests :
                        request[r].quiet => ~Reauthenticate(r) /\ (Hide(r) => ~request[r].granted)
  <1>1. AccessInv /\ QuietInv /\ [Next]_vars => [Exact]_vars
    <2> SUFFICES ASSUME AccessInv, QuietInv, NEW r \in Requests, request[r].quiet
                 PROVE  ~Reauthenticate(r) /\ (Hide(r) => ~request[r].granted)
      OBVIOUS
    <2>1. Undisturbed(r) /\ TypeOK
      BY DEF QuietInv, AccessInv
    <2>2. ~Reauthenticate(r)
      BY <2>1 DEF Undisturbed, Reauthenticate, ApiAwaits, Accepted
    <2>3. Hide(r) => ~request[r].granted
      BY <2>1, HiddenIsUngranted DEF Undisturbed
    <2> QED BY <2>2, <2>3
  <1>2. Spec => [][Exact]_vars
    BY <1>1, AccessInvariant, QuietInvariant, PTL DEF Spec
  <1> QED BY <1>2 DEF QuietRequestIsExact
=============================================================================
