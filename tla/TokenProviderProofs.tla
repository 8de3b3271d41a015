------------------------ MODULE TokenProviderProofs ------------------------
(***************************************************************************)
(* TokenInv is inductive, for any number of requests and tokens; that a     *)
(* retry uses a newer token and that a refusal has a cause follow.          *)
(***************************************************************************)
EXTENDS TokenProvider, TLAPS

\* The parts of InOrder and QuietGetsThrough that speak about request r.
Ordered(r) ==
  /\ request[r].at \in {"send", "unauthorized"} => request[r].token # 0
  /\ request[r].at = "unauthorized" => request[r].token \in dead
  /\ request[r].at = "wait" => refresh.on
  /\ refresh.token # 0 =>
       request[r].token < refresh.token /\ request[r].refused < refresh.token
  /\ cache # 0 => request[r].token <= cache /\ request[r].refused <= cache
RefreshOrdered ==
  /\ refresh.token # 0 => refresh.on /\ refresh.token = issued
  /\ refresh.on => cache \in due \union {0} /\ (refresh.token # 0 => cache < refresh.token)
Newer(r) ==
  request[r].refused # 0 /\ request[r].at \in {"send", "unauthorized"} =>
    request[r].token > request[r].refused
GetsThrough(r) ==
  request[r].quiet =>
    /\ Underway(r)
    /\ refresh.token \in dead => request[r].at = "wait" /\ request[r].refused = 0
    /\ request[r].refused # 0 => request[r].token \notin dead
Good(r) == request[r] \in Request /\ Ordered(r) /\ Newer(r) /\ GetsThrough(r)

\* Everything TypeOK says but for the requests.
Shapes ==
  /\ issued \in 0 .. MaxTokens
  /\ cache \in 0 .. issued
  /\ refresh \in [on : BOOLEAN, token : 0 .. issued]
  /\ narrow \subseteq 1 .. issued /\ due \subseteq 1 .. issued /\ dead \subseteq 1 .. issued

\* The invariant, request by request.
Parts ==
  /\ request = [r \in Requests |-> request[r]]
  /\ Shapes /\ RefreshOrdered
  /\ \A r \in Requests : Good(r)

LEMMA InvParts == TokenInv <=> Parts
  <1>1. (request \in [Requests -> Request]) <=>
          request = [r \in Requests |-> request[r]] /\ \A r \in Requests : request[r] \in Request
    OBVIOUS
  <1>2. TypeOK <=> /\ request = [r \in Requests |-> request[r]]
                   /\ \A r \in Requests : request[r] \in Request
                   /\ Shapes
    BY <1>1 DEF TypeOK, Shapes
  <1>3. InOrder <=> RefreshOrdered /\ \A r \in Requests : Ordered(r)
    BY DEF InOrder, RefreshOrdered, Ordered
  <1>4. /\ RetryIsNewer <=> \A r \in Requests : Newer(r)
        /\ QuietGetsThrough <=> \A r \in Requests : GetsThrough(r)
    BY DEF RetryIsNewer, QuietGetsThrough, Newer, GetsThrough
  <1> QED BY <1>2, <1>3, <1>4 DEF TokenInv, Parts, Good

LEMMA Numbers ==
  ASSUME Shapes
  PROVE  /\ issued \in Nat /\ cache \in Nat /\ refresh.token \in Nat /\ refresh.on \in BOOLEAN
         /\ cache <= issued /\ refresh.token <= issued
         /\ 0 \notin dead /\ 0 \notin narrow /\ 0 \notin due
         /\ issued + 1 \notin dead
  BY TokenAssumption DEF Shapes

LEMMA RequestNumbers ==
  ASSUME Shapes, NEW r, request[r] \in Request
  PROVE  /\ request[r].token \in Nat /\ request[r].refused \in Nat
         /\ request[r].token <= issued /\ request[r].refused <= issued
         /\ request[r].quiet \in BOOLEAN
  BY Numbers DEF Request

\* A request that has been forgotten claims nothing.
LEMMA IdleIsGood ==
  ASSUME Shapes', NEW r, request'[r] = Idle
  PROVE  Good(r)'
  <1>1. /\ request'[r].at = "idle" /\ request'[r].token = 0 /\ request'[r].refused = 0
        /\ request'[r].quiet = FALSE
    BY DEF Idle
  <1>2. /\ issued' \in Nat /\ refresh'.token \in Nat /\ cache' \in Nat
    BY TokenAssumption DEF Shapes
  <1>3. Idle \in Request'
    BY <1>2 DEF Idle, Request
  <1> QED BY <1>1, <1>2, <1>3 DEF Good, Ordered, Newer, GetsThrough

\* A request that stays as it is, while others begin or retry.
LEMMA OtherIsGood ==
  ASSUME Parts, NEW x \in Requests, request'[x] = request[x],
         issued' = issued, dead' = dead, cache' \in {0, cache},
         refresh'.token = refresh.token, refresh.on => refresh'.on
  PROVE  Good(x)'
  <1>1. Good(x)
    BY DEF Parts
  <1>2. Ordered(x)'
    BY <1>1 DEF Good, Ordered
  <1>3. Newer(x)' /\ GetsThrough(x)' /\ request'[x] \in Request'
    BY <1>1 DEF Good, Newer, GetsThrough, Request, Underway
  <1> QED BY <1>2, <1>3 DEF Good

\* A step of one request, after which each is good, keeps the invariant.
LEMMA Together ==
  ASSUME Parts, NEW r \in Requests, NEW entry, request' = [request EXCEPT ![r] = entry],
         Shapes', RefreshOrdered', \A x \in Requests : Good(x)'
  PROVE  Parts'
  <1>1. request' = [x \in Requests |-> request'[x]]
    BY DEF Parts
  <1> QED BY <1>1 DEF Parts

LEMMA BeginInv ==
  ASSUME Parts, NEW r \in Requests, Begin(r)
  PROVE  Parts'
  <1>1. /\ cache' = cache /\ issued' = issued /\ dead' = dead /\ narrow' = narrow /\ due' = due
        /\ Shapes /\ RefreshOrdered
    BY DEF Begin, Parts
  <1> DEFINE entry == [Idle EXCEPT !.quiet = TRUE]
  <1>2. Obtain(r, entry, cache, FALSE)
    BY DEF Begin
  <1>3. issued \in Nat /\ cache \in 0 .. issued
    BY TokenAssumption DEF Shapes, Parts
  <1>4. entry \in Request /\ entry.refused = 0 /\ entry.quiet = TRUE
    <2>1. Idle \in Request /\ Idle.refused = 0
      BY <1>3 DEF Idle, Request
    <2> QED BY <2>1 DEF Request
  <1> HIDE DEF entry
  <1>5. CASE cache # 0 /\ cache \notin due
    <2>1. request' = [request EXCEPT ![r] = With(entry, cache)] /\ refresh' = refresh
      BY <1>2, <1>5 DEF Obtain
    <2>2. Shapes' /\ RefreshOrdered'
      BY <1>1, <2>1 DEF Shapes, RefreshOrdered
    <2>3. request'[r] = With(entry, cache) /\ \A x \in Requests \ {r} : request'[x] = request[x]
      BY <2>1 DEF Parts
    <2>4. \A x \in Requests \ {r} : Good(x)'
      BY <1>1, <2>1, <2>3, OtherIsGood
    <2>5. Good(r)'
      <3>1. CASE cache \in narrow
        BY <2>2, <2>3, <3>1, IdleIsGood DEF With
      <3>2. CASE cache \notin narrow
        <4>1. request'[r] = [entry EXCEPT !.at = "send", !.token = cache]
          BY <2>3, <3>2 DEF With
        <4>2. /\ request'[r].at = "send" /\ request'[r].token = cache
              /\ request'[r].refused = 0 /\ request'[r].quiet = TRUE
          BY <1>4, <4>1 DEF Request
        <4>3. request'[r] \in Request'
          BY <1>1, <1>4, <1>3, <4>1 DEF Request
        <4>4. refresh'.token = 0
          BY <1>1, <1>5, <2>1 DEF RefreshOrdered
        <4>5. 0 \notin dead
          BY <1>1, Numbers
        <4> QED BY <1>1, <1>3, <1>5, <4>2, <4>3, <4>4, <4>5
                DEF Good, Ordered, Newer, GetsThrough, Underway
      <3> QED BY <3>1, <3>2
    <2> QED BY <2>1, <2>2, <2>4, <2>5, Together DEF Parts
  <1>6. CASE cache \in due \union {0}
    <2> DEFINE waiting == [entry EXCEPT !.at = "wait", !.token = 0]
    <2>1. /\ request' = [request EXCEPT ![r] = waiting]
          /\ refresh' = [refresh EXCEPT !.on = TRUE]
      BY <1>2, <1>6 DEF Obtain
    <2>2. /\ waiting.at = "wait" /\ waiting.token = 0 /\ waiting.refused = 0
          /\ waiting.quiet = TRUE /\ waiting \in Request
      BY <1>4, <1>3 DEF Request
    <2> HIDE DEF waiting
    <2>3. request'[r] = waiting /\ \A x \in Requests \ {r} : request'[x] = request[x]
      BY <2>1 DEF Parts
    <2>4. refresh'.on /\ refresh'.token = refresh.token
          /\ refresh' \in [on : BOOLEAN, token : 0 .. issued]
      BY <1>1, <2>1 DEF Shapes
    <2>5. Shapes'
      BY <1>1, <2>4 DEF Shapes
    <2>6. RefreshOrdered'
      BY <1>1, <1>6, <2>4 DEF RefreshOrdered
    <2>7. \A x \in Requests \ {r} : Good(x)'
      BY <1>1, <2>3, <2>4, OtherIsGood
    <2>8. Good(r)'
      <3>1. request'[r] \in Request'
        BY <1>1, <1>3, <2>2, <2>3 DEF Request
      <3>2. refresh'.token \in Nat
        BY <1>1, <2>4, Numbers
      <3> QED BY <1>1, <1>3, <2>2, <2>3, <2>4, <3>1, <3>2
              DEF Good, Ordered, Newer, GetsThrough, Underway
    <2> QED BY <2>1, <2>5, <2>6, <2>7, <2>8, Together DEF Parts
  <1> QED BY <1>5, <1>6

LEMMA RetryInv ==
  ASSUME Parts, NEW r \in Requests, Retry(r)
  PROVE  Parts'
  <1>1. /\ cache' = 0 /\ issued' = issued /\ dead' = dead /\ narrow' = narrow /\ due' = due
        /\ request[r].at = "unauthorized" /\ Shapes /\ RefreshOrdered /\ Good(r)
    BY DEF Retry, Parts, Invalidated
  <1> DEFINE waiting == [[request[r] EXCEPT !.refused = request[r].token]
                           EXCEPT !.at = "wait", !.token = 0]
  <1>2. /\ request' = [request EXCEPT ![r] = waiting]
        /\ refresh' = [refresh EXCEPT !.on = TRUE]
    BY DEF Retry, Obtain
  <1>3. /\ waiting.at = "wait" /\ waiting.token = 0 /\ waiting.refused = request[r].token
        /\ waiting.quiet = request[r].quiet /\ waiting \in Request
    <2>1. 0 \in 0 .. issued
      BY <1>1, Numbers
    <2> QED BY <1>1, <2>1 DEF Good, Request
  <1> HIDE DEF waiting
  <1>4. request'[r] = waiting /\ \A x \in Requests \ {r} : request'[x] = request[x]
    BY <1>2 DEF Parts
  <1>5. refresh'.on /\ refresh'.token = refresh.token
        /\ refresh' \in [on : BOOLEAN, token : 0 .. issued]
    BY <1>1, <1>2 DEF Shapes
  <1>6. Shapes' /\ RefreshOrdered'
    <2>1. refresh.token \in Nat /\ issued \in Nat /\ refresh.on \in BOOLEAN
      BY <1>1, Numbers
    <2> QED BY <1>1, <1>5, <2>1 DEF Shapes, RefreshOrdered
  <1>7. \A x \in Requests \ {r} : Good(x)'
    BY <1>1, <1>4, <1>5, OtherIsGood
  <1>8. Good(r)'
    <2>1. /\ request[r].token \in Nat /\ request[r].token <= issued
          /\ request[r].quiet \in BOOLEAN
      BY <1>1, RequestNumbers DEF Good
    <2>2. /\ refresh.token \in Nat /\ issued \in Nat /\ 0 \notin dead
      BY <1>1, Numbers
    <2>3. request'[r] \in Request'
      BY <1>1, <1>3, <1>4, <2>1, <2>2 DEF Request
    <2>4. Ordered(r)' /\ Newer(r)'
      BY <1>1, <1>3, <1>4, <1>5, <2>1, <2>2 DEF Good, Ordered, Newer
    <2>5. GetsThrough(r)'
      BY <1>1, <1>3, <1>4, <1>5, <2>2 DEF Good, GetsThrough, Underway
    <2> QED BY <2>3, <2>4, <2>5 DEF Good
  <1> QED BY <1>2, <1>6, <1>7, <1>8, Together DEF Parts

\* Steps that only move or forget the request.
LEMMA AnswerInv ==
  ASSUME Parts, NEW r \in Requests, Answered(r) \/ Unauthorized(r) \/ Refused(r)
  PROVE  Parts'
  <1>1. /\ UNCHANGED <<cache, refresh, issued, narrow, due, dead>>
        /\ Shapes /\ RefreshOrdered /\ Good(r)
    BY DEF Answered, Unauthorized, Refused, Parts
  <1>2. Shapes' /\ RefreshOrdered'
    BY <1>1 DEF Shapes, RefreshOrdered
  <1>3. CASE Answered(r) \/ Refused(r)
    <2>1. request' = [request EXCEPT ![r] = Idle]
      BY <1>3 DEF Answered, Refused
    <2>2. request'[r] = Idle /\ \A x \in Requests \ {r} : request'[x] = request[x]
      BY <2>1 DEF Parts
    <2>3. \A x \in Requests : Good(x)'
      BY <1>1, <1>2, <2>2, OtherIsGood, IdleIsGood
    <2> QED BY <1>2, <2>1, <2>3, Together DEF Parts
  <1>4. CASE Unauthorized(r)
    <2>1. request' = [request EXCEPT ![r] = [request[r] EXCEPT !.at = "unauthorized"]]
      BY <1>4 DEF Unauthorized
    <2>2. /\ request'[r] = [request[r] EXCEPT !.at = "unauthorized"]
          /\ \A x \in Requests \ {r} : request'[x] = request[x]
      BY <2>1 DEF Parts
    <2>3. /\ request'[r].at = "unauthorized" /\ request'[r].token = request[r].token
          /\ request'[r].refused = request[r].refused /\ request'[r].quiet = request[r].quiet
          /\ request'[r] \in Request'
      BY <1>1, <2>2 DEF Good, Request
    <2>4. Good(r)'
      BY <1>1, <1>4, <2>3 DEF Unauthorized, Good, Ordered, Newer, GetsThrough, Underway
    <2>5. \A x \in Requests \ {r} : Good(x)'
      BY <1>1, <2>2, OtherIsGood
    <2> QED BY <1>2, <2>1, <2>4, <2>5, Together DEF Parts
  <1> QED BY <1>3, <1>4

LEMMA IssueInv ==
  ASSUME Parts, IssueToken
  PROVE  Parts'
  <1>1. /\ UNCHANGED <<cache, request, due, dead>> /\ issued' = issued + 1
        /\ refresh.on /\ issued < MaxTokens
        /\ refresh' = [refresh EXCEPT !.token = issued + 1]
        /\ narrow' \in {narrow, narrow \union {issued + 1}}
        /\ Shapes /\ RefreshOrdered
    BY DEF IssueToken, Parts
  <1>2. /\ issued \in Nat /\ cache \in Nat /\ cache <= issued /\ issued + 1 \notin dead
        /\ issued + 1 # 0
    BY <1>1, Numbers
  <1>3. refresh'.on /\ refresh'.token = issued + 1
    BY <1>1 DEF Shapes
  <1>4. Shapes'
    <2>1. issued' \in 0 .. MaxTokens /\ cache' \in 0 .. issued'
      BY <1>1, <1>2, TokenAssumption
    <2>2. 1 .. issued \subseteq 1 .. issued' /\ issued + 1 \in 1 .. issued'
      BY <1>1, <1>2
    <2>3. refresh' \in [on : BOOLEAN, token : 0 .. issued']
      BY <1>1, <1>2 DEF Shapes
    <2>4. /\ narrow' \subseteq 1 .. issued' /\ due' \subseteq 1 .. issued'
          /\ dead' \subseteq 1 .. issued'
      BY <1>1, <2>2 DEF Shapes
    <2> QED BY <2>1, <2>3, <2>4 DEF Shapes
  <1>5. RefreshOrdered'
    BY <1>1, <1>2, <1>3 DEF RefreshOrdered
  <1>6. ASSUME NEW x \in Requests PROVE Good(x)'
    <2>1. Good(x)
      BY DEF Parts
    <2>2. /\ request[x].token \in Nat /\ request[x].refused \in Nat
          /\ request[x].token <= issued /\ request[x].refused <= issued
      BY <1>1, <2>1, RequestNumbers DEF Good
    <2>3. request'[x] \in Request'
      <3>1. 0 .. issued \subseteq 0 .. issued'
        BY <1>1, <1>2
      <3> QED BY <1>1, <2>1, <3>1 DEF Good, Request
    <2>4. Ordered(x)' /\ Newer(x)'
      BY <1>1, <1>2, <1>3, <2>1, <2>2 DEF Good, Ordered, Newer
    <2>5. GetsThrough(x)'
      BY <1>1, <1>2, <1>3, <2>1 DEF Good, GetsThrough, Underway
    <2> QED BY <2>3, <2>4, <2>5 DEF Good
  <1>7. request' = [x \in Requests |-> request'[x]]
    BY <1>1 DEF Parts
  <1> QED BY <1>4, <1>5, <1>6, <1>7 DEF Parts

LEMMA RefreshInv ==
  ASSUME Parts, RefreshEnds \/ RefreshFails
  PROVE  Parts'
  <1>1. /\ refresh' = NoRefresh /\ issued' = issued /\ dead' = dead
        /\ narrow' = narrow /\ due' = due
        /\ cache' \in {cache, refresh.token} /\ Shapes /\ RefreshOrdered
    BY DEF RefreshEnds, RefreshFails, Settled, Parts
  <1>2. refresh'.on = FALSE /\ refresh'.token = 0
    BY <1>1 DEF NoRefresh
  <1>3. /\ issued \in Nat /\ cache \in Nat /\ refresh.token \in Nat
        /\ refresh.token <= issued /\ 0 \notin dead
    BY <1>1, Numbers
  <1>4. Shapes'
    <2>1. NoRefresh \in [on : BOOLEAN, token : 0 .. issued]
      BY <1>3 DEF NoRefresh
    <2> QED BY <1>1, <1>3, <2>1 DEF Shapes
  <1>5. RefreshOrdered'
    BY <1>2 DEF RefreshOrdered
  <1>6. CASE RefreshEnds
    <2>1. cache' = refresh.token /\ refresh.token # 0
      BY <1>6 DEF RefreshEnds
    <2>2. \A x \in Requests : request'[x] =
            IF request[x].at = "wait" THEN With(request[x], refresh.token) ELSE request[x]
      BY <1>6 DEF RefreshEnds
    <2>3. ASSUME NEW x \in Requests PROVE Good(x)'
      <3>1. Good(x)
        BY DEF Parts
      <3>2. /\ request[x].token \in Nat /\ request[x].refused \in Nat
            /\ request[x].token < refresh.token /\ request[x].refused < refresh.token
        BY <1>1, <2>1, <3>1, RequestNumbers DEF Good, Ordered
      <3>3. CASE request[x].at # "wait"
        <4>1. request'[x] = request[x]
          BY <2>2, <3>3
        <4>2. Ordered(x)' /\ Newer(x)' /\ GetsThrough(x)'
          BY <1>1, <1>2, <1>3, <2>1, <3>1, <3>2, <3>3, <4>1
             DEF Good, Ordered, Newer, GetsThrough, Underway
        <4> QED BY <1>1, <3>1, <4>1, <4>2 DEF Good, Request
      <3>4. CASE request[x].at = "wait" /\ refresh.token \in narrow
        BY <1>4, <2>2, <3>4, IdleIsGood DEF With
      <3>5. CASE request[x].at = "wait" /\ refresh.token \notin narrow
        <4>1. request'[x] = [request[x] EXCEPT !.at = "send", !.token = refresh.token]
          BY <2>2, <3>5 DEF With
        <4>2. /\ request'[x].at = "send" /\ request'[x].token = refresh.token
              /\ request'[x].refused = request[x].refused
              /\ request'[x].quiet = request[x].quiet
          BY <3>1, <4>1 DEF Good, Request
        <4>3. request'[x] \in Request'
          <5>1. refresh.token \in 0 .. issued
            BY <1>3
          <5> QED BY <1>1, <3>1, <4>1, <5>1 DEF Good, Request
        <4>4. Ordered(x)' /\ Newer(x)'
          BY <1>2, <1>3, <2>1, <3>2, <4>2 DEF Ordered, Newer
        <4>5. GetsThrough(x)'
          BY <1>1, <1>2, <1>3, <3>1, <4>2 DEF Good, GetsThrough, Underway
        <4> QED BY <4>3, <4>4, <4>5 DEF Good
      <3> QED BY <3>3, <3>4, <3>5
    <2>4. request' = [x \in Requests |-> request'[x]]
      BY <1>6 DEF RefreshEnds
    <2> QED BY <1>4, <1>5, <2>3, <2>4 DEF Parts
  <1>7. CASE RefreshFails
    <2>1. \A x \in Requests : request'[x] =
            IF request[x].at = "wait" THEN Idle ELSE request[x]
      BY <1>7 DEF RefreshFails
    <2>2. cache' = cache
      BY <1>7 DEF RefreshFails
    <2>3. ASSUME NEW x \in Requests PROVE Good(x)'
      <3>1. Good(x)
        BY DEF Parts
      <3>2. CASE request[x].at # "wait"
        <4>1. request'[x] = request[x]
          BY <2>1, <3>2
        <4>2. Ordered(x)' /\ Newer(x)' /\ GetsThrough(x)'
          BY <1>1, <1>2, <1>3, <2>2, <3>1, <3>2, <4>1
             DEF Good, Ordered, Newer, GetsThrough, Underway
        <4> QED BY <1>1, <3>1, <4>1, <4>2 DEF Good, Request
      <3> QED BY <1>4, <2>1, <3>2, IdleIsGood
    <2>4. request' = [x \in Requests |-> request'[x]]
      BY <1>7 DEF RefreshFails
    <2> QED BY <1>4, <1>5, <2>3, <2>4 DEF Parts
  <1> QED BY <1>6, <1>7

LEMMA ClearInv ==
  ASSUME Parts, Clear
  PROVE  Parts'
  <1>1. /\ UNCHANGED <<refresh, request, issued, narrow, due, dead>> /\ cache' = 0
        /\ Shapes /\ RefreshOrdered
    BY DEF Clear, Parts
  <1>2. issued \in Nat /\ refresh.token \in Nat /\ refresh.on \in BOOLEAN
    BY <1>1, Numbers
  <1>3. Shapes' /\ RefreshOrdered'
    BY <1>1, <1>2 DEF Shapes, RefreshOrdered
  <1>4. \A x \in Requests : Good(x)'
    BY <1>1, OtherIsGood
  <1> QED BY <1>1, <1>3, <1>4 DEF Parts

LEMMA GitHubInv ==
  ASSUME Parts, GitHub
  PROVE  Parts'
  <1>1. Shapes /\ RefreshOrdered
    BY DEF Parts
  <1>2. ASSUME NEW t, BecomesDue(t) PROVE Parts'
    <2>1. /\ UNCHANGED <<cache, refresh, request, issued, narrow, dead>>
          /\ due' = due \union {t} /\ t \in 1 .. issued
      BY <1>2 DEF BecomesDue
    <2>2. Shapes' /\ RefreshOrdered'
      BY <1>1, <2>1 DEF Shapes, RefreshOrdered
    <2>3. \A x \in Requests : Good(x)'
      BY <2>1, OtherIsGood
    <2> QED BY <2>1, <2>2, <2>3 DEF Parts
  <1>3. ASSUME NEW tokens, End(tokens) PROVE Parts'
    <2>1. /\ UNCHANGED <<cache, refresh, issued, narrow, due>>
          /\ dead' = dead \union tokens /\ tokens \subseteq 1 .. issued
      BY <1>3 DEF End
    <2>2. Shapes' /\ RefreshOrdered'
      BY <1>1, <2>1 DEF Shapes, RefreshOrdered
    <2>3. ASSUME NEW x \in Requests PROVE Good(x)'
      <3>1. Good(x)
        BY DEF Parts
      <3>2. request'[x] = IF Underway(x) THEN [request[x] EXCEPT !.quiet = FALSE] ELSE request[x]
        BY <1>3 DEF End
      <3>3. /\ request'[x].at = request[x].at /\ request'[x].token = request[x].token
            /\ request'[x].refused = request[x].refused /\ ~request'[x].quiet
            /\ request'[x] \in Request'
        <4>1. CASE Underway(x)
          BY <2>1, <3>1, <3>2, <4>1 DEF Good, Request
        <4>2. CASE ~Underway(x)
          BY <2>1, <3>1, <3>2, <4>2 DEF Good, GetsThrough, Request
        <4> QED BY <4>1, <4>2
      <3> QED BY <2>1, <3>1, <3>3 DEF Good, Ordered, Newer, GetsThrough
    <2>4. request' = [x \in Requests |-> request'[x]]
      BY <1>3 DEF End
    <2> QED BY <2>2, <2>3, <2>4 DEF Parts
  <1> QED BY <1>2, <1>3 DEF GitHub

LEMMA InitInv == Init => TokenInv
  <1> SUFFICES ASSUME Init PROVE TokenInv
    OBVIOUS
  <1>1. issued = 0 /\ cache = 0 /\ refresh.on = FALSE /\ refresh.token = 0
        /\ narrow = {} /\ due = {} /\ dead = {}
    BY DEF Init, NoRefresh
  <1>2. \A r \in Requests : /\ request[r].at = "idle" /\ request[r].token = 0
                            /\ request[r].refused = 0 /\ request[r].quiet = FALSE
    <2>1. Idle.at = "idle" /\ Idle.token = 0 /\ Idle.refused = 0 /\ Idle.quiet = FALSE
      BY DEF Idle
    <2> QED BY <2>1 DEF Init
  <1>3. TypeOK
    <2>1. Idle \in Request
      BY <1>1 DEF Idle, Request
    <2>2. refresh \in [on : BOOLEAN, token : 0 .. issued]
      BY <1>1 DEF Init, NoRefresh
    <2> QED BY <1>1, <2>1, <2>2, TokenAssumption DEF Init, TypeOK
  <1> QED BY <1>1, <1>2, <1>3 DEF TokenInv, RetryIsNewer, InOrder, QuietGetsThrough

LEMMA NextInv == TokenInv /\ [Next]_vars => TokenInv'
  <1> SUFFICES ASSUME Parts, [Next]_vars PROVE Parts'
    <2>1. TokenInv' <=> Parts'
      <3>1. (request \in [Requests -> Request])' <=>
              /\ request' = [r \in Requests |-> request'[r]]
              /\ \A r \in Requests : request'[r] \in Request'
        OBVIOUS
      <3>2. TypeOK' <=> /\ request' = [r \in Requests |-> request'[r]]
                        /\ \A r \in Requests : request'[r] \in Request'
                        /\ Shapes'
        BY <3>1 DEF TypeOK, Shapes
      <3>3. InOrder' <=> RefreshOrdered' /\ \A r \in Requests : Ordered(r)'
        BY DEF InOrder, RefreshOrdered, Ordered
      <3>4. /\ RetryIsNewer' <=> \A r \in Requests : Newer(r)'
            /\ QuietGetsThrough' <=> \A r \in Requests : GetsThrough(r)'
        BY DEF RetryIsNewer, QuietGetsThrough, Newer, GetsThrough, Underway
      <3> QED BY <3>2, <3>3, <3>4 DEF TokenInv, Parts, Good
    <2> QED BY <2>1, InvParts
  <1>1. CASE \E r \in Requests : Step(r)
    BY <1>1, BeginInv, RetryInv, AnswerInv DEF Step
  <1>2. CASE IssueToken \/ RefreshEnds \/ RefreshFails \/ Clear \/ GitHub
    BY <1>2, IssueInv, RefreshInv, ClearInv, GitHubInv
  <1>3. CASE UNCHANGED vars
    BY <1>3 DEF vars, Parts, Shapes, RefreshOrdered, Good, Ordered, Newer, GetsThrough,
                Underway, Request
  <1> QED BY <1>1, <1>2, <1>3 DEF Next

\* The inductive invariant holds in every reachable state.
THEOREM TokenInvariant == Spec => []TokenInv
  BY InitInv, NextInv, PTL DEF Spec

\* A request that tries again after 401 does so with a token GitHub issued later than
\* the refused one, however many requests share refreshes and invalidate the cache.
THEOREM RetriesAreNewer == Spec => []RetryIsNewer
  <1>1. TokenInv => RetryIsNewer
    BY DEF TokenInv
  <1> QED BY <1>1, TokenInvariant, PTL

\* A request is refused for good only if a token ended while it was under way.
THEOREM RefusalsHaveACause == Spec => RefusedForCause
  <1> DEFINE Caused == \A r \in Requests : Refused(r) => ~request[r].quiet
  <1>1. TokenInv /\ [Next]_vars => [Caused]_vars
    BY DEF TokenInv, InOrder, QuietGetsThrough, Refused
  <1>2. Spec => [][Caused]_vars
    BY <1>1, TokenInvariant, PTL DEF Spec
  <1> QED BY <1>2 DEF RefusedForCause
=============================================================================
