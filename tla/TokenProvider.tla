--------------------------- MODULE TokenProvider ---------------------------
(***************************************************************************)
(* Installation tokens of the GitHub App: the cache, the refresh that       *)
(* concurrent requests share, and the one retry of a request that GitHub    *)
(* answers 401.  The reads of a reconciliation run in parallel, so several  *)
(* requests stand at an await while tokens end, or are revoked, on GitHub.  *)
(*                                                                          *)
(* One installation: the maps are keyed by installation and the entries     *)
(* share nothing.  What runs between two awaits is one step; a promise's    *)
(* reactions run before the next answer of GitHub is taken, so the answer   *)
(* to a refresh reaches the cache and all that wait for it in one step.     *)
(* Tokens are numbered as GitHub issues them, 0 is none.                    *)
(***************************************************************************)
EXTENDS Naturals

CONSTANTS
  Requests,     \* GitHub reads under way at a time
  MaxTokens     \* bound: tokens GitHub issues

ASSUME TokenAssumption == MaxTokens \in Nat

VARIABLES
  cache,        \* the token in the cache
  refresh,      \* the entry of refreshes: is there one, and the token GitHub has answered
  request,      \* where each request stands
  issued,       \* tokens issued so far
  narrow,       \* tokens without the permissions, or the repository, the reads ask for
  due,          \* tokens within refreshSkewMs of their end
  dead          \* tokens GitHub refuses: past their end, or revoked

vars == <<cache, refresh, request, issued, narrow, due, dead>>

\* at: waits for a token, is at GitHub, has a 401 to handle.  refused: the token of
\* the first try when this is the second.  quiet is history: no token has ended
\* since the request began.
Request == [at : {"idle", "wait", "send", "unauthorized"},
            token : 0 .. issued, refused : 0 .. issued, quiet : BOOLEAN]
Idle == [at |-> "idle", token |-> 0, refused |-> 0, quiet |-> FALSE]
Underway(r) == request[r].at # "idle"

NoRefresh == [on |-> FALSE, token |-> 0]

TypeOK ==
  /\ issued \in 0 .. MaxTokens
  /\ cache \in 0 .. issued
  /\ refresh \in [on : BOOLEAN, token : 0 .. issued]
  /\ request \in [Requests -> Request]
  /\ narrow \subseteq 1 .. issued /\ due \subseteq 1 .. issued /\ dead \subseteq 1 .. issued

Init ==
  /\ cache = 0 /\ refresh = NoRefresh
  /\ request = [r \in Requests |-> Idle]
  /\ issued = 0 /\ narrow = {} /\ due = {} /\ dead = {}

-----------------------------------------------------------------------------
(* What a request does with a token, and how it comes by one *)

\* validateScope: the request is sent, or rejected without asking GitHub.
With(entry, token) ==
  IF token \in narrow THEN Idle ELSE [entry EXCEPT !.at = "send", !.token = token]

\* getToken: from the cache, or with the refresh under way, or a new one.
Obtain(r, entry, cached, force) ==
  IF ~force /\ cached # 0 /\ cached \notin due
  THEN /\ request' = [request EXCEPT ![r] = With(entry, cached)]
       /\ refresh' = refresh
  ELSE /\ request' = [request EXCEPT ![r] = [entry EXCEPT !.at = "wait", !.token = 0]]
       /\ refresh' = [refresh EXCEPT !.on = TRUE]

\* GitHubApiClient.request, up to its first await.
Begin(r) ==
  /\ ~Underway(r)
  /\ Obtain(r, [Idle EXCEPT !.quiet = TRUE], cache, FALSE)
  /\ UNCHANGED <<cache, issued, narrow, due, dead>>

\* GitHub answers, with anything but 401, or the request is lost.
Answered(r) ==
  /\ request[r].at = "send"
  /\ request' = [request EXCEPT ![r] = Idle]
  /\ UNCHANGED <<cache, refresh, issued, narrow, due, dead>>

\* GitHub refuses the token; the answer may take its time.
Unauthorized(r) ==
  /\ request[r].at = "send" /\ request[r].token \in dead
  /\ request' = [request EXCEPT ![r].at = "unauthorized"]
  /\ UNCHANGED <<cache, refresh, issued, narrow, due, dead>>

\* Mutant of Invalidated: the refused token stays in the cache.
Invalidated_Not(token) == token

Invalidated(token) == 0

\* The 401 of the first try: invalidate, whichever token is in the cache by now, and
\* try again with a forced refresh.
Retry(r) ==
  /\ request[r].at = "unauthorized" /\ request[r].refused = 0
  /\ cache' = Invalidated(cache)
  /\ Obtain(r, [request[r] EXCEPT !.refused = request[r].token], Invalidated(cache), TRUE)
  /\ UNCHANGED <<issued, narrow, due, dead>>

\* The 401 of the second try is the caller's.
Refused(r) ==
  /\ request[r].at = "unauthorized" /\ request[r].refused # 0
  /\ request' = [request EXCEPT ![r] = Idle]
  /\ UNCHANGED <<cache, refresh, issued, narrow, due, dead>>

-----------------------------------------------------------------------------
(* The refresh *)

\* createInstallationToken: GitHub issues a token, its answer is on the way.
IssueToken ==
  /\ refresh.on /\ refresh.token = 0
  /\ issued < MaxTokens
  /\ issued' = issued + 1
  /\ refresh' = [refresh EXCEPT !.token = issued + 1]
  /\ narrow' \in {narrow, narrow \union {issued + 1}}
  /\ UNCHANGED <<cache, request, due, dead>>

\* Mutant of Settled: the finally() is missing, the old promise is found again.
Settled_Kept(entry) == entry

Settled(entry) == NoRefresh

\* The answer: the cache, the entry of refreshes, and all that wait.
RefreshEnds ==
  /\ refresh.token # 0
  /\ cache' = refresh.token
  /\ refresh' = Settled(refresh)
  /\ request' = [r \in Requests |->
       IF request[r].at = "wait" THEN With(request[r], refresh.token) ELSE request[r]]
  /\ UNCHANGED <<issued, narrow, due, dead>>

\* GitHub refuses, answers with something that is not a token, or cannot be
\* reached: all that wait fail.
RefreshFails ==
  /\ refresh.on
  /\ refresh' = Settled(refresh)
  /\ request' = [r \in Requests |-> IF request[r].at = "wait" THEN Idle ELSE request[r]]
  /\ UNCHANGED <<cache, issued, narrow, due, dead>>

\* The runtime is closed.  The job has ended, but reads of a Promise.all of which
\* another failed may still be under way.
Clear ==
  /\ cache # 0
  /\ cache' = 0
  /\ UNCHANGED <<refresh, request, issued, narrow, due, dead>>

-----------------------------------------------------------------------------
(* Time and GitHub *)

\* The token comes within refreshSkewMs of its end ...
BecomesDue(t) ==
  /\ t \in (1 .. issued) \ due
  /\ due' = due \union {t}
  /\ UNCHANGED <<cache, refresh, request, issued, narrow, dead>>

\* ... and reaches it, or all tokens of the installation are revoked.
End(tokens) ==
  /\ tokens \subseteq 1 .. issued /\ ~(tokens \subseteq dead)
  /\ dead' = dead \union tokens
  /\ request' = [r \in Requests |->
       IF Underway(r) THEN [request[r] EXCEPT !.quiet = FALSE] ELSE request[r]]
  /\ UNCHANGED <<cache, refresh, issued, narrow, due>>

-----------------------------------------------------------------------------
Step(r) == Begin(r) \/ Answered(r) \/ Unauthorized(r) \/ Retry(r) \/ Refused(r)
GitHub ==
  \/ \E t \in 1 .. MaxTokens : BecomesDue(t) \/ (t \in due /\ End({t}))
  \/ End(1 .. issued)

Next == (\E r \in Requests : Step(r)) \/ IssueToken \/ RefreshEnds \/ RefreshFails \/ Clear \/ GitHub

Spec == Init /\ [][Next]_vars

-----------------------------------------------------------------------------
(* Properties *)

\* The second try never uses the refused token again, nor an older one, although it
\* may join a refresh that was begun before the refusal.
RetryIsNewer ==
  \A r \in Requests :
    request[r].refused # 0 /\ request[r].at \in {"send", "unauthorized"} =>
      request[r].token > request[r].refused

\* A request is refused for good only if a token ended while it was under way:
\* tokens that ended before it began cost it one retry at most, however requests,
\* refreshes and late 401s of others interleave.
RefusedForCause ==
  [][\A r \in Requests : Refused(r) => ~request[r].quiet]_vars

\* What the two rest on.  Tokens are delivered in the order of issue: nothing in
\* use is newer than the cache.
InOrder ==
  /\ refresh.token # 0 => refresh.on /\ refresh.token = issued
  /\ \A r \in Requests :
       /\ request[r].at \in {"send", "unauthorized"} => request[r].token # 0
       /\ request[r].at = "unauthorized" => request[r].token \in dead
       /\ request[r].at = "wait" => refresh.on
       /\ refresh.token # 0 =>
            request[r].token < refresh.token /\ request[r].refused < refresh.token
       /\ cache # 0 => request[r].token <= cache /\ request[r].refused <= cache
  /\ refresh.on => cache \in due \union {0} /\ (refresh.token # 0 => cache < refresh.token)

\* A refresh that a quiet request may still join delivers a token GitHub accepts.
QuietGetsThrough ==
  \A r \in Requests :
    request[r].quiet =>
      /\ Underway(r)
      /\ refresh.token \in dead => request[r].at = "wait" /\ request[r].refused = 0
      /\ request[r].refused # 0 => request[r].token \notin dead

TokenInv == TypeOK /\ RetryIsNewer /\ InOrder /\ QuietGetsThrough
=============================================================================
