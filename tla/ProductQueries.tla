--------------------------- MODULE ProductQueries ---------------------------
(***************************************************************************)
(* ProductQueryService over the tables of ContributionRecord.  A query is   *)
(* several statements, in no transaction: first the rows of the             *)
(* contributions, then, in any order, what belongs to them; reconciliations *)
(* go on record between them.  A request is answered when nothing is left   *)
(* to read.  The repository is on record.                                   *)
(***************************************************************************)
EXTENDS ContributionRecord, AttentionQueue

CONSTANTS
  Requests,  \* of the API, at the same time
  Limit      \* rows of a decision trail's list: 100 in the code

ASSUME QueriesAssumption ==
  /\ PullRequests \subseteq Nat /\ IsFiniteSet(PullRequests)
  /\ Limit \in Nat \ {0}
  /\ None \notin [stamp : Nat, verdict : {Evaluate(s) : s \in Snapshots}]

VARIABLE request

\* kind: overview, dashboard or attention of the repository (pr = None), detail or
\* trail of one pull request; asked: the commits when it was asked (history).
Unused == [at |-> "unused", kind |-> "overview", pr |-> None, asked |-> 0,
           rows |-> <<>>, left |-> {}, found |-> <<>>]

Question(kind, pr) == [Unused EXCEPT !.at = "asked", !.kind = kind, !.pr = pr, !.asked = commits]

QueriesInit == request = [r \in Requests |-> Unused]

-----------------------------------------------------------------------------
(* The statements *)

Listed(pr) == {p \in PullRequests : StoredSnapshot(p) # None /\ pr \in {None, p}}

\* findByRepositoryAndNumber, listByRepositoryId
FindContributions(r) ==
  /\ request[r].at = "asked"
  /\ LET listed == Listed(request[r].pr)
     IN  request' = [request EXCEPT
           ![r].at = IF request[r].pr # None /\ listed = {} THEN "not found" ELSE "reading",
           ![r].rows = [p \in listed |-> contribution[p]],
           ![r].left = IF request[r].kind = "trail" /\ listed # {}
                       THEN {"history", "evidence", "runs"} ELSE listed]

LatestEvaluation(p) == IF evaluations[p] = <<>> THEN None ELSE Latest(evaluations[p])

\* Mutant of Newest: the rows come in ascending order.
Newest_Oldest(table, n) == SubSeq(table, 1, Min({n, Len(table)}))

\* ORDER BY ... DESC LIMIT n
Newest(table, n) ==
  LET later == {r \in (DOMAIN table) \X (DOMAIN table) :
                  \/ table[r[1]].stamp > table[r[2]].stamp
                  \/ table[r[1]].stamp = table[r[2]].stamp /\ r[1] < r[2]}
      order == InOrder(DOMAIN table, later)
  IN  [k \in 1 .. Min({n, Len(table)}) |-> table[order[k]]]

\* The evidence is cut at the limit too, by times that are left out here: take no
\* more objects than Limit.
TrailList(pr, list) ==
  CASE list = "history"  -> Newest(history[pr], Limit)
    [] list = "runs"     -> Newest(runs[pr], Limit)
    [] list = "evidence" -> {o \in Objects : evidence[o].pr = pr}

Selected(q, left) ==
  IF q.kind = "trail" THEN TrailList(q.pr, left) ELSE LatestEvaluation(left)

With(found, left, rows) ==
  [l \in (DOMAIN found) \union {left} |-> IF l = left THEN rows ELSE found[l]]

Select(r, left) ==
  /\ request[r].at = "reading" /\ left \in request[r].left
  /\ request' = [request EXCEPT
       ![r].left = @ \ {left}, ![r].found = With(@, left, Selected(request[r], left))]

QueryStep(r) == FindContributions(r) \/ \E left \in request[r].left : Select(r, left)

Answered(r) == request[r].at = "reading" /\ request[r].left = {}

-----------------------------------------------------------------------------
(* The answers *)

\* A contribution without an evaluation is shown with nulls.
Shown(q, p) ==
  LET verdict == IF q.found[p] = None
                 THEN [workflowState |-> None, nextActor |-> None, readiness |-> None]
                 ELSE q.found[p].verdict
  IN  [pr |-> p, updated |-> q.rows[p].updated, reconciled |-> q.rows[p].stamp,
       workflowState |-> verdict.workflowState, nextActor |-> verdict.nextActor,
       readiness |-> verdict.readiness]

ShownRows(q) == {Shown(q, p) : p \in DOMAIN q.rows}

\* The rows have no order: the database gives them in any.
AttentionPages(q, filters, page, pageSize) ==
  {QueuePage(rows, filters, page, pageSize) : rows \in SetToSeqs(ShownRows(q))}

-----------------------------------------------------------------------------
(* Properties *)

\* An answer is read row by row, and still: a contribution it shows has a verdict
\* (or a run, in a trail) that is not of an earlier reconciliation than the row shown
\* with it, neither is older than what was on record when the question was asked,
\* and no contribution that was on record then is missing.
AnswersAreCurrent ==
  \A r \in Requests : Answered(r) =>
    LET q == request[r]
    IN  /\ \A p \in DOMAIN q.rows :
             IF q.kind = "trail"
             THEN q.found["runs"] # <<>> /\ q.rows[p].stamp <= Head(q.found["runs"]).stamp
             ELSE q.found[p] # None /\ q.rows[p].stamp <= q.found[p].stamp
        /\ \A p \in PullRequests : \A i \in DOMAIN runs[p] :
             runs[p][i].commit <= q.asked /\ q.pr \in {None, p} =>
               p \in DOMAIN q.rows /\ runs[p][i].stamp <= q.rows[p].stamp

\* The answer a question would have if everything were read at one moment: now.
AtOnce ==
  LET listed == Listed(None)
  IN  [rows  |-> [p \in listed |-> contribution[p]],
       found |-> [p \in listed |-> LatestEvaluation(p)]]

Quiet(r) == Answered(r) /\ request[r].asked = commits

\* How many contributions the queue has for an actor, and for "" in all.
Turns(order, actor) == QueuePage(order, [NoFilter EXCEPT !["nextActor"] = actor], 1, 1).total

\* What the answer q shows agrees with the rows on record and their counts.
Agrees(q, rows, counts) ==
  /\ q.kind \in {"overview", "dashboard", "attention"} => ShownRows(q) = rows
  /\ q.kind = "detail" => Shown(q, q.pr) \in rows
  /\ q.kind = "trail" =>
       /\ q.found["history"] # <<>> /\ q.found["runs"] # <<>>
       /\ \E c \in rows : /\ c.pr = q.pr
                          /\ Head(q.found["history"]).to = c.workflowState
                          /\ Head(q.found["runs"]).stamp = c.reconciled
  /\ q.kind = "dashboard" =>
       /\ counts.active + counts.terminal = Cardinality(rows)
       /\ counts.maintainerAction + counts.authorAction + counts.ciAction
            + counts.unknownAction = counts.active
       /\ counts.ambiguous <= counts.blocked
  /\ q.kind = "attention" => \A order \in SetToSeqs(ShownRows(q)) :
       /\ Turns(order, "") = counts.active
       /\ Turns(order, "MAINTAINER") = counts.maintainerAction
       /\ Turns(order, "AUTHOR") = counts.authorAction
       /\ Turns(order, "CI") = counts.ciAction

\* Answers that nothing went on record during show the same rows, whichever page asked:
\* the overview, the dashboard and the attention queue those on record, the detail one
\* of them. The newest transition of a trail leads to the state the row shows and its
\* newest run is the reconciliation the row names. The dashboard's active contributions
\* are each one actor's turn, and the queue, as a whole and filtered for an actor, is as
\* long as the dashboard counts.
PagesAgree ==
  LET rows == ShownRows(AtOnce)
  IN  \A r \in Requests : Quiet(r) => Agrees(request[r], rows, Dashboard(rows))

\* The filters that leave something of these rows, and some that leave nothing.
FiltersOver(rows) ==
  [workflowState : {""} \union {c.workflowState : c \in rows},
   readiness : {""} \union {c.readiness : c \in rows},
   nextActor : {""} \union {c.nextActor : c \in rows}]

\* c is listed before d: never the less urgent, of equals not the one updated later,
\* of those the one with the smaller number.
Outranks(c, d) ==
  /\ Priority(c) >= Priority(d)
  /\ Priority(c) = Priority(d) => c.updated <= d.updated
  /\ Priority(c) = Priority(d) /\ c.updated = d.updated => c.pr < d.pr

\* The pages of the attention queue, read one after the other while nothing goes on
\* record, are one list in the order of urgency, age and number that holds each
\* contribution that waits and matches the filters exactly once, and no other, although
\* the database may give the rows in another order for every page.
PagesPartitionQueue ==
  \A r \in Requests : Answered(r) /\ request[r].kind = "attention" =>
    LET rows == ShownRows(request[r])
    IN  \A filters \in FiltersOver(rows), pageSize \in 1 .. Cardinality(rows),
           order \in [1 .. Cardinality(rows) -> SetToSeqs(rows)] :
          LET pages == QueuePage(order[1], filters, 1, pageSize).totalPages
              items == [page \in 1 .. pages |->
                          QueuePage(order[page], filters, page, pageSize).items]
          IN  /\ \A page \in 1 .. pages : \A other \in page .. pages :
                   LET here == items[page]
                       there == items[other]
                   IN  \A i \in DOMAIN here, j \in DOMAIN there :
                         page < other \/ i < j => Outranks(here[i], there[j])
              /\ UNION {ToSet(items[page]) : page \in 1 .. pages}
                   = {c \in rows : /\ c.workflowState \notin TerminalStates
                                   /\ \A f \in Filters : filters[f] \in {"", c[f]}}
=============================================================================
