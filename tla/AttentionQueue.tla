--------------------------- MODULE AttentionQueue ---------------------------
(***************************************************************************)
(* The maintainers' attention queue and the repository dashboard, as        *)
(* functions of the rows the query service has read: one row per            *)
(* contribution of one repository, with the verdict of its latest           *)
(* evaluation.  Priority reasons and the lists by state, readiness and      *)
(* actor are the same counts under other names and are left out.            *)
(***************************************************************************)
EXTENDS SequencesExt, Naturals

TerminalStates == {"MERGED", "RELEASED", "CLOSED"}
BlockedStates  == {"CHANGES_REQUESTED", "AMBIGUOUS"}

-----------------------------------------------------------------------------
(* maintainer-attention-queue.ts *)

Points(holds, points) == IF holds THEN points ELSE 0

Priority(c) ==
    Points(c.workflowState = "AMBIGUOUS", 100)
  + Points(c.readiness = "READY_TO_MERGE", 90)
  + Points(c.nextActor = "MAINTAINER", 80)
  + Points(c.readiness \in {"READY_FOR_REVIEW", "READY_FOR_REREVIEW"}, 60)
  + Points(c.workflowState = "IN_REVIEW", 40)
  + Points(c.nextActor = "UNKNOWN", 35)
  + Points(c.readiness = "AMBIGUOUS", 35)

\* An empty filter is no filter.
Filters == {"workflowState", "readiness", "nextActor"}
NoFilter == [f \in Filters |-> ""]
MatchesFilters(c, filters) == \A f \in Filters : filters[f] = "" \/ c[f] = filters[f]

\* Mutant of Precedes: pull requests updated at one moment have no order.
Precedes_Untied(c, d) ==
  \/ Priority(c) > Priority(d)
  \/ Priority(c) = Priority(d) /\ c.updated < d.updated

\* The names of one repository are equal, so the pull request number decides next.
Precedes(c, d) ==
  \/ Priority(c) > Priority(d)
  \/ Priority(c) = Priority(d) /\ c.updated < d.updated
  \/ Priority(c) = Priority(d) /\ c.updated = d.updated /\ c.pr < d.pr

\* The elements of I in the order R: the k-th is the one that k - 1 others come before.
InOrder(I, R) ==
  [k \in 1 .. Cardinality(I) |->
     CHOOSE i \in I : Cardinality({j \in I : <<j, i>> \in R}) = k - 1]

Waits(c, filters) == c.workflowState \notin TerminalStates /\ MatchesFilters(c, filters)

\* The sort is stable; rows is in the order the database gave them.
Ranked(rows, filters) ==
  LET waiting == {i \in DOMAIN rows : Waits(rows[i], filters)}
      ranks == {r \in waiting \X waiting :
                  \/ Precedes(rows[r[1]], rows[r[2]])
                  \/ ~Precedes(rows[r[2]], rows[r[1]]) /\ r[1] < r[2]}
      order == InOrder(waiting, ranks)
  IN  [k \in DOMAIN order |-> rows[order[k]]]

QueuePage(rows, filters, page, pageSize) ==
  LET ranked == Ranked(rows, filters)
      offset == (page - 1) * pageSize
  IN  [items |-> SubSeq(ranked, offset + 1, Min({offset + pageSize, Len(ranked)})),
       total |-> Len(ranked),
       totalPages |-> (Len(ranked) + pageSize - 1) \div pageSize]

-----------------------------------------------------------------------------
(* repository-dashboard.ts *)

IsBlocked(c) ==
  \/ c.workflowState \in BlockedStates
  \/ c.readiness = "NOT_READY" /\ c.nextActor # "MAINTAINER"

\* The actors the dashboard does not count as unknown; a contribution without an
\* evaluation has none of them.
KnownActors == {"AUTHOR", "REVIEWER", "MAINTAINER", "CI", "RELEASE_MANAGER", "SYSTEM", "NONE"}

Dashboard(rows) ==
  LET Count(P(_)) == Cardinality({c \in rows : P(c)})
      Turn(actor) == Count(LAMBDA c : c.nextActor = actor)
  IN  [contributions    |-> Cardinality(rows),
       active           |-> Count(LAMBDA c : c.workflowState \notin TerminalStates),
       terminal         |-> Count(LAMBDA c : c.workflowState \in TerminalStates),
       ambiguous        |-> Count(LAMBDA c : "AMBIGUOUS" \in {c.workflowState, c.readiness}),
       blocked          |-> Count(IsBlocked),
       readyToMerge     |-> Count(LAMBDA c : c.readiness = "READY_TO_MERGE"),
       readyForReview   |-> Count(LAMBDA c : c.readiness = "READY_FOR_REVIEW"),
       maintainerAction |-> Turn("MAINTAINER"),
       authorAction     |-> Turn("AUTHOR"),
       ciAction         |-> Turn("CI"),
       unknownAction    |-> Count(LAMBDA c : c.nextActor \notin KnownActors)]
=============================================================================
