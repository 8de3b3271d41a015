------------------------------ MODULE WebPages ------------------------------
(***************************************************************************)
(* A browser tab of the web interface over ProductQueries: the signed-in    *)
(* user's session, the page the address names, and the effect of each page  *)
(* that fetches its answers.  React renders a change at once and runs the   *)
(* effect after it, in a step of its own; the cleanup of the effect before  *)
(* aborts its requests.  What the answers say is in ProductQueries.         *)
(***************************************************************************)
EXTENDS ProductQueries

CONSTANTS
  Rounds,      \* fetches of a page that may be under way: one, with the code's cleanup
  PageSize,    \* 25 in the code
  MaxCommits   \* bound: reconciliations that go on record

VARIABLES
  auth,      \* what the tab knows of the session: AuthProvider's status
  session,   \* the session on record exists
  tab,       \* the page that is mounted and its state
  fetch      \* by round: the place a fetch is for, or None

parts == <<auth, session, tab, fetch>>
vars  == <<tables, request, parts>>

ASSUME PagesAssumption == Rounds \subseteq Nat /\ Requests = Rounds \X {1, 2}

-----------------------------------------------------------------------------
(* Places: what an address and the controls on its page name *)

Place(page, pr, number, actor) == [page |-> page, pr |-> pr, number |-> number, actor |-> actor]
Home == Place("home", None, 1, "")
Addresses ==
  {Home, Place("repository", None, 1, ""), Place("attention", None, 1, ""),
   Place("invalid", None, 1, "")} \union {Place("contribution", p, 1, "") : p \in PullRequests}

\* The two questions of a page's Promise.all, or its only one.
Questions(place) ==
  CASE place.page = "repository"   -> <<Question("overview", None), Question("dashboard", None)>>
    [] place.page = "contribution" -> <<Question("detail", place.pr), Question("trail", place.pr)>>
    [] place.page = "attention"    -> <<Question("attention", None)>>
    [] OTHER                       -> <<>>

\* An identifier that is no positive integer is the contribution page's too.
Component(place) == IF place.page = "invalid" THEN "contribution" ELSE place.page

\* A page as it mounts: ran is the place its effect ran for, shown the place its
\* content answers.
Mounted(place) ==
  [place |-> place, ran |-> None, loading |-> TRUE, error |-> FALSE, shown |-> None,
   totalPages |-> 0]

Init ==
  /\ RecordInit /\ QueriesInit
  /\ auth = "LOADING" /\ session = TRUE
  /\ tab = Mounted(Home) /\ fetch = [g \in Rounds |-> None]

\* ProtectedRoute: the page exists for a user who is signed in, as far as the tab knows.
IsMounted == auth = "AUTHENTICATED" /\ tab.place.page # "home"
Pending == IsMounted /\ tab.ran # tab.place
ContentShown == IsMounted /\ ~tab.loading /\ ~tab.error /\ tab.shown # None

-----------------------------------------------------------------------------
(* A page's effect *)

\* Mutant of Cleanup: nothing is aborted.
Cleanup_None(fetches) == fetches

\* The effect's cleanup: controller.abort().
Cleanup(fetches) == [g \in Rounds |-> None]

StillAsked(fetches) == [r \in Requests |-> IF fetches[r[1]] = None THEN Unused ELSE request[r]]

\* useEffect, for a place it has not run for; the first free round is taken.
Effect ==
  /\ Pending
  /\ LET going == Cleanup(fetch)
         questions == Questions(tab.place)
     IN  \E g \in Rounds :
           /\ going[g] = None /\ \A h \in Rounds : going[h] = None => g <= h
           /\ IF questions = <<>>
              THEN /\ fetch' = going /\ request' = StillAsked(going)
                   /\ tab' = [tab EXCEPT !.ran = tab.place, !.loading = FALSE, !.error = TRUE]
              ELSE /\ fetch' = [going EXCEPT ![g] = tab.place]
                   /\ request' = [r \in Requests |->
                        IF r[1] = g /\ r[2] \in DOMAIN questions THEN questions[r[2]]
                        ELSE StillAsked(going)[r]]
                   /\ tab' = [tab EXCEPT !.ran = tab.place, !.loading = TRUE, !.error = FALSE]
  /\ UNCHANGED <<tables, auth, session>>

Asked(g) == {r \in Requests : r[1] = g /\ request[r].at # "unused"}

Settle(g, to) ==
  /\ tab' = to
  /\ fetch' = [fetch EXCEPT ![g] = None]
  /\ request' = [r \in Requests |-> IF r[1] = g THEN Unused ELSE request[r]]
  /\ UNCHANGED <<tables, auth, session>>

TotalPages(place, r) ==
  IF place.page # "attention" THEN 0
  ELSE (CHOOSE page \in AttentionPages(request[r], [NoFilter EXCEPT !["nextActor"] = place.actor],
                                       place.number, PageSize) : TRUE).totalPages

\* Mutant of Succeed: the answer is kept, and the page goes on loading.
Succeed_Loading(g) ==
  /\ fetch[g] # None /\ \A r \in Asked(g) : Answered(r)
  /\ Settle(g, [tab EXCEPT !.shown = fetch[g], !.totalPages = TotalPages(fetch[g], <<g, 1>>)])

\* All requests of the fetch are answered: then(), finally().
Succeed(g) ==
  /\ fetch[g] # None /\ \A r \in Asked(g) : Answered(r)
  /\ Settle(g, [tab EXCEPT !.shown = fetch[g], !.loading = FALSE,
                           !.totalPages = TotalPages(fetch[g], <<g, 1>>)])

\* One of them is refused or lost: catch(), finally().
Fail(g) ==
  /\ fetch[g] # None
  /\ Settle(g, [tab EXCEPT !.error = TRUE, !.loading = FALSE])

\* What must become of a fetch: answered, or answered 404 or 401.
Answer(g) ==
  \/ session /\ Succeed(g)
  \/ (~session \/ \E r \in Asked(g) : request[r].at = "not found") /\ Fail(g)

\* The server goes on with a request of a user who has a session.
Serve(r) ==
  /\ session /\ QueryStep(r)
  /\ UNCHANGED <<tables, parts>>

-----------------------------------------------------------------------------
(* The user *)

Unmount == fetch' = Cleanup(fetch) /\ request' = StillAsked(Cleanup(fetch))

\* A link, the address bar's history, or the home page's form. A page of the same
\* component keeps its state until its effect has run.
Navigate(place) ==
  /\ ~Pending /\ place # tab.place
  /\ IF IsMounted /\ Component(place) = Component(tab.place)
     THEN tab' = [tab EXCEPT !.place = place] /\ UNCHANGED <<fetch, request>>
     ELSE tab' = Mounted(place) /\ Unmount
  /\ UNCHANGED <<tables, auth, session>>

Turn(place) ==
  /\ ContentShown /\ ~Pending /\ tab.place.page = "attention"
  /\ tab' = [tab EXCEPT !.place = place]
  /\ UNCHANGED <<tables, request, auth, session, fetch>>

\* A change of a filter goes back to the first page.
Filter(actor) ==
  actor # tab.place.actor /\ Turn([tab.place EXCEPT !.actor = actor, !.number = 1])
NextPage ==
  /\ ContentShown /\ tab.shown.number < tab.totalPages
  /\ Turn([tab.place EXCEPT !.number = @ + 1])
PreviousPage ==
  /\ ContentShown /\ tab.shown.number > 1
  /\ Turn([tab.place EXCEPT !.number = Max({1, @ - 1})])

-----------------------------------------------------------------------------
(* auth-context.tsx *)

\* refresh(), on the answer of /api/auth/me.
Refreshed ==
  /\ auth = "LOADING"
  /\ auth' \in {"ERROR", IF session THEN "AUTHENTICATED" ELSE "ANONYMOUS"}
  /\ UNCHANGED <<tables, request, session, tab, fetch>>

\* Mutant of SignOut: the tab signs out whatever becomes of the request.
SignOut_Anyway ==
  /\ auth = "AUTHENTICATED" /\ auth' = "ANONYMOUS"
  /\ session' \in {session, FALSE}
  /\ tab' = Mounted(tab.place) /\ Unmount
  /\ UNCHANGED tables

\* The server deletes the session, and the pages unmount when its answer is here; or
\* the request or its answer is lost or refused, which nobody catches. The tab keeps
\* nothing while the request is under way.
SignOut ==
  /\ auth = "AUTHENTICATED"
  /\ \/ /\ session' = FALSE /\ auth' = "ANONYMOUS"
        /\ tab' = Mounted(tab.place) /\ Unmount
     \/ /\ session /\ session' = FALSE
        /\ UNCHANGED <<request, auth, tab, fetch>>
  /\ UNCHANGED tables

SessionExpires ==
  /\ session /\ session' = FALSE
  /\ UNCHANGED <<tables, request, auth, tab, fetch>>

\* The tab is loaded anew: at its place, or at home after GitHub has signed the user in.
Load ==
  /\ auth' = "LOADING" /\ Unmount
  /\ \/ session' = session /\ tab' = Mounted(tab.place)
     \/ auth = "ANONYMOUS" /\ session' = TRUE /\ tab' = Mounted(Home)
  /\ UNCHANGED tables

\* Bounds: MaxCommits, and the k-th reconciliation of a pull request is at time k, so
\* that rows of different pull requests are updated at one time.
GoesOnRecord ==
  /\ commits < MaxCommits
  /\ \E p \in PullRequests, s \in Snapshots, refs \in EvidenceLists :
       LET time == Len(runs[p]) + 1 IN time \in Stamps /\ Record(p, s, refs, time, time)
  /\ UNCHANGED <<request, parts>>

TabStep == Effect \/ Refreshed \/ \E g \in Rounds : Answer(g)

UserStep ==
  \/ \E place \in Addresses : Navigate(place)
  \/ \E actor \in {"", "MAINTAINER"} : Filter(actor)
  \/ NextPage \/ PreviousPage \/ SignOut \/ Load

\* Effects run, requests are served, and their answers arrive.
Progress == TabStep \/ \E r \in Requests : Serve(r)

Next ==
  \/ Progress \/ UserStep
  \/ \E g \in Rounds : Fail(g)
  \/ SessionExpires
  \/ GoesOnRecord

\* Nobody must click, and no reconciliation must go on record.
Spec == Init /\ [][Next]_vars /\ WF_vars(Progress)

-----------------------------------------------------------------------------
(* Properties *)

\* What a page shows once its effect has run answers what its address and controls
\* ask, however questions and answers have followed each other.
ShownAnswersQuestion == ContentShown /\ ~Pending => tab.shown = tab.place

\* A tab that shows a user as signed out has no session left behind it.
SignedOutHasNoSession == auth = "ANONYMOUS" => ~session

\* Again and again a page that asks has its content or an error, or the user has gone
\* elsewhere: no question stays open for ever.
At(place) == IsMounted /\ tab.place.page = place.page /\ tab.place.pr = place.pr
EveryQuestionSettles ==
  \A place \in Addresses \ {Home} : []<>(~At(place) \/ (~Pending /\ ~tab.loading))
=============================================================================
