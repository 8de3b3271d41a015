-------------------------- MODULE PullRequestFacts --------------------------
(***************************************************************************)
(* What reconcile-pull-request.ts makes of GitHub's answers: the policy of  *)
(* the branch rules, the review decision of the list of reviews, the check  *)
(* status of the check runs and commit statuses.  The answers are sequences *)
(* in the order of the pages.  A check run's status and conclusion are one  *)
(* value: SUCCESS, FAILURE, PENDING (not completed) or UNKNOWN (a field is  *)
(* missing).  Answers that are not well-formed are left out: the code       *)
(* throws and the run fails.                                                *)
(***************************************************************************)
EXTENDS Naturals, Sequences, FiniteSets, SequencesExt

CONSTANTS
  Logins,    \* reviewers
  RuleSets,  \* the sets of active branch rules considered
  NoLogin,   \* user.login of a review whose author is gone
  NoApp      \* integration_id of a required check that any app may report

\* What the code parses a rule into: a number of approvals and flags, or checks.
ASSUME FactsAssumption ==
  /\ NoLogin \notin Logins
  /\ \A rules \in RuleSets :
       /\ IsFiniteSet(rules)
       /\ \A r \in rules : r.type = "pull_request" =>
            r.approvals \in Nat /\ r.dismissStale \in BOOLEAN /\ r.needsMore \in BOOLEAN

-----------------------------------------------------------------------------
(* derivePullRequestPolicy *)

PullRequestRule(approvals, dismissStale, needsMore) ==
  [type |-> "pull_request", approvals |-> approvals, dismissStale |-> dismissStale,
   needsMore |-> needsMore]
RequiredChecks(checks) == [type |-> "required_status_checks", checks |-> checks]

\* needsMore: one of last-push approval, code-owner review and thread
\* resolution is required, which the reviews cannot prove.
Policy(rules, available) ==
  LET prRules == {r \in rules : r.type = "pull_request"}
  IN  [ available    |-> available,
        approvals    |-> CHOOSE n \in {r.approvals : r \in prRules} \union {0} :
                           \A r \in prRules : r.approvals <= n,
        dismissStale |-> \E r \in prRules : r.dismissStale,
        needsMore    |-> \E r \in prRules : r.needsMore,
        required     |-> UNION {r.checks : r \in rules \ prRules} ]

-----------------------------------------------------------------------------
(* deriveReviewDecision *)

Decisive(review) == review.state \in {"APPROVED", "CHANGES_REQUESTED", "DISMISSED"}

\* A reviewer without a login is taken for a reviewer of its own.
Reviewer(review) == IF review.login = NoLogin THEN <<"reviewer", review.id>>
                    ELSE <<"login", review.login>>

Newer(a, b) == a.time > b.time \/ (a.time = b.time /\ a.id > b.id)

\* The loops over the reviews and over the statuses keep the newest item of each key;
\* what does not count is skipped.
Entry(counts, key, item) == [counts |-> counts, key |-> key, item |-> item]

KeepNewest(latest, entry) ==
  IF ~entry.counts \/ (entry.key \in DOMAIN latest /\ ~Newer(entry.item, latest[entry.key]))
  THEN latest
  ELSE [k \in DOMAIN latest \union {entry.key} |->
          IF k = entry.key THEN entry.item ELSE latest[k]]

NewestPerKey(entries) == Range(FoldLeft(KeepNewest, <<>>, entries))

\* Mutant of CurrentReviews: comments replace an earlier decision.
CurrentReviews_Comments(reviews) ==
  NewestPerKey([i \in DOMAIN reviews |-> Entry(TRUE, Reviewer(reviews[i]), reviews[i])])

CurrentReviews(reviews) ==
  NewestPerKey([i \in DOMAIN reviews |->
                  Entry(Decisive(reviews[i]), Reviewer(reviews[i]), reviews[i])])

ReviewFacts(decision, author, maintainer) ==
  [decision |-> decision, author |-> author, maintainer |-> maintainer]

\* Mutant of Approvals: an approval of an earlier head still counts.
Approvals_Stale(reviews, policy, head) ==
  {r \in CurrentReviews(reviews) : r.state = "APPROVED"}

Approvals(reviews, policy, head) ==
  {r \in CurrentReviews(reviews) : r.state = "APPROVED"
                                    /\ (policy.dismissStale => r.commit = head)}

DeriveReviewDecision(reviews, policy, head) ==
  CASE policy.needsMore -> ReviewFacts("UNKNOWN", FALSE, TRUE)
    [] ~policy.needsMore /\ \E r \in CurrentReviews(reviews) : r.state = "CHANGES_REQUESTED" ->
         ReviewFacts("CHANGES_REQUESTED", TRUE, FALSE)
    [] OTHER -> IF Cardinality(Approvals(reviews, policy, head)) >= policy.approvals
                THEN ReviewFacts("APPROVED", FALSE, FALSE)
                ELSE ReviewFacts("REVIEW_REQUIRED", FALSE, TRUE)

-----------------------------------------------------------------------------
(* deriveCheckStatus *)

Severity == <<"FAILURE", "PENDING", "UNKNOWN", "SUCCESS">>

\* Mutant of Worst: what is still running counts as passed.
Worst_PendingPasses(states) == IF "FAILURE" \in states THEN "FAILURE" ELSE "SUCCESS"

Worst(states) ==
  Severity[CHOOSE i \in 1 .. 4 : /\ Severity[i] \in states \union {"SUCCESS"}
                                 /\ \A j \in 1 .. i - 1 : Severity[j] \notin states]

Reports(run, required) ==
  run.name = required.context /\ required.app \in {NoApp, run.app}

\* Mutant of StateOfRequired: what nobody has reported is not missed.
StateOfRequired_Absent(required, runs, statuses) ==
  LET first == SelectInSeq(runs, LAMBDA run : Reports(run, required))
  IN  IF first # 0 THEN runs[first].state ELSE "SUCCESS"

\* requiredCheckState: the first check run that matches, else the latest commit
\* status of that name; a check nobody has reported is PENDING.
StateOfRequired(required, runs, statuses) ==
  LET first  == SelectInSeq(runs, LAMBDA run : Reports(run, required))
      legacy == {s \in statuses : s.context = required.context}
  IN  CASE first # 0 -> runs[first].state
        [] first = 0 /\ required.app = NoApp /\ legacy # {} ->
             LET s == CHOOSE s \in legacy : TRUE
             IN  CASE s.state = "pending" -> "PENDING"
                   [] s.state = "success" -> "SUCCESS"
                   [] OTHER -> "FAILURE"
        [] OTHER -> "PENDING"

\* Without required checks every check run and every status counts.
StateOfStatus(s) ==
  CASE s.state \in {"failure", "error"} -> "FAILURE"
    [] s.state = "pending" -> "PENDING"
    [] OTHER -> "SUCCESS"

LatestStatuses(items) ==
  NewestPerKey([i \in DOMAIN items |-> Entry(TRUE, items[i].context, items[i])])

DeriveCheckStatus(runs, statusItems, policy) ==
  LET statuses == LatestStatuses(statusItems)
  IN  CASE policy.required # {} ->
             Worst({StateOfRequired(r, runs, statuses) : r \in policy.required})
        [] policy.required = {} /\ runs = <<>> /\ statuses = {} ->
             IF policy.available THEN "NOT_REQUIRED" ELSE "UNKNOWN"
        [] OTHER ->
             Worst({run.state : run \in Range(runs)} \union {StateOfStatus(s) : s \in statuses})
=============================================================================
