--------------------------- MODULE Reconciliation ---------------------------
(***************************************************************************)
(* reconcilePullRequest reads a pull request from GitHub in several requests *)
(* while people push, review, merge and CI reports: poll until mergeability *)
(* is known, read rules, reviews and check runs side by side, read the pull *)
(* request again, conclude or defer.  The executor then evaluates what was  *)
(* concluded, or throws so that the job is tried again.                     *)
(*                                                                          *)
(* Check runs stand for all reports on a commit; commit statuses are read   *)
(* in the same way and their part in the derivation is in Derivation.       *)
(***************************************************************************)
EXTENDS PullRequestFacts, StateEngine

CONSTANTS
  Heads,        \* commits the branch may point to
  FirstHead,
  Attempts,     \* mergeabilityAttempts
  MaxChanges,   \* bound: what people and CI do in a behaviour
  MaxReviews,   \* bound: length of the review list
  Unread        \* an answer not received yet

ASSUME ReconciliationAssumption ==
  /\ FirstHead \in Heads
  /\ Attempts \in Nat \ {0}
  /\ MaxChanges \in Nat /\ MaxReviews \in Nat

VARIABLES
  pr,        \* the pull request on GitHub
  reviews,   \* its reviews
  checks,    \* the check "build" of each commit; "none" if not reported
  rules,     \* the active branch rules and whether the plan has them
  run,       \* the reconciliation under way
  changes,   \* how often the above changed
  touched,   \* history: the pull request changed since the run began
  passed     \* history: commits whose check has succeeded

github == <<pr, reviews, checks, rules>>
vars   == <<pr, reviews, checks, rules, run, changes, touched, passed>>

CheckState == {"none", "PENDING", "SUCCESS", "FAILURE"}

Idle == [at |-> "idle", tries |-> 0, first |-> Unread, rules |-> Unread,
         reviews |-> Unread, checks |-> Unread, result |-> Unread]

\* What GET /pulls answers: mergeable is unknown until GitHub has computed it.
Fetched == [state |-> pr.state, draft |-> pr.draft, head |-> pr.head,
            mergeable |-> IF ~pr.computed THEN "unknown"
                          ELSE IF pr.conflict THEN "no" ELSE "yes"]

-----------------------------------------------------------------------------
(* What people, CI and GitHub do *)

Init ==
  /\ pr \in [state : {"open"}, draft : BOOLEAN, head : {FirstHead},
             conflict : BOOLEAN, computed : {FALSE}]
  /\ reviews = <<>>
  /\ checks = [h \in Heads |-> "none"]
  /\ \E available \in BOOLEAN :
       rules \in [available : {available}, set : IF available THEN RuleSets ELSE {{}}]
  /\ run = Idle
  /\ changes = 0 /\ touched = FALSE /\ passed = {}

Changed ==
  /\ changes < MaxChanges
  /\ changes' = changes + 1
  /\ touched' = TRUE
  /\ UNCHANGED run

Push ==
  /\ Changed
  /\ pr.state = "open"
  /\ \E h \in Heads \ {pr.head}, conflict \in BOOLEAN :
       pr' = [pr EXCEPT !.head = h, !.conflict = conflict, !.computed = FALSE]
  /\ UNCHANGED <<reviews, checks, rules, passed>>

MoveBase ==
  /\ Changed
  /\ \E conflict \in BOOLEAN :
       pr' = [pr EXCEPT !.conflict = conflict, !.computed = FALSE]
  /\ UNCHANGED <<reviews, checks, rules, passed>>

SetDraftOrState ==
  /\ Changed
  /\ \/ pr' = [pr EXCEPT !.draft = ~@]
     \/ pr.state # "merged" /\ \E s \in {"open", "closed", "merged"} \ {pr.state} :
          /\ s = "merged" => pr.state = "open"
          /\ pr' = [pr EXCEPT !.state = s]
  /\ UNCHANGED <<reviews, checks, rules, passed>>

SubmitReview ==
  /\ Changed
  /\ Len(reviews) < MaxReviews
  /\ \E l \in Logins, s \in {"APPROVED", "CHANGES_REQUESTED", "COMMENTED"} :
       reviews' = Append(reviews, [id |-> Len(reviews) + 1, time |-> Len(reviews) + 1,
                                   login |-> l, state |-> s, commit |-> pr.head])
  /\ UNCHANGED <<pr, checks, rules, passed>>

DismissReview ==
  /\ Changed
  /\ \E i \in DOMAIN reviews :
       /\ reviews[i].state # "DISMISSED"
       /\ reviews' = [reviews EXCEPT ![i].state = "DISMISSED"]
  /\ UNCHANGED <<pr, checks, rules, passed>>

ReportCheck ==
  /\ Changed
  /\ \E h \in Heads, s \in CheckState \ {"none"} :
       /\ checks[h] # s
       /\ checks' = [checks EXCEPT ![h] = s]
       /\ passed' = IF s = "SUCCESS" THEN passed \union {h} ELSE passed
  /\ UNCHANGED <<pr, reviews, rules>>

ChangeRules ==
  /\ Changed
  /\ rules.available
  /\ \E set \in RuleSets \ {rules.set} : rules' = [rules EXCEPT !.set = set]
  /\ UNCHANGED <<pr, reviews, checks, passed>>

\* GitHub computes mergeability in the background.
ComputeMergeability ==
  /\ ~pr.computed
  /\ pr' = [pr EXCEPT !.computed = TRUE]
  /\ UNCHANGED <<reviews, checks, rules, run, changes, touched, passed>>

-----------------------------------------------------------------------------
(* reconcilePullRequest *)

Start ==
  /\ run.at \in {"idle", "done"}
  /\ run' = [Idle EXCEPT !.at = "polling"]
  /\ touched' = FALSE
  /\ UNCHANGED <<github, changes, passed>>

Ends(status, reason) ==
  run' = [Idle EXCEPT !.at = "done", !.result = [status |-> status, reason |-> reason]]

\* Mutant of Settled: an unknown mergeability is good enough.
Settled_Always(answer) == answer.state \in {"open", "closed", "merged"}

Settled(answer) == answer.state # "open" \/ answer.mergeable # "unknown"

\* fetchStablePullRequest: Attempts polls with a pause in between, then one
\* more request, whose answer is taken as it is.
Poll ==
  /\ run.at = "polling"
  /\ \/ /\ Settled(Fetched)
        /\ run' = [run EXCEPT !.at = "reading", !.first = Fetched]
     \/ /\ ~Settled(Fetched) /\ run.tries < Attempts
        /\ run' = [run EXCEPT !.tries = @ + 1]
     \/ /\ ~Settled(Fetched) /\ run.tries = Attempts
        /\ Ends("RETRY_REQUIRED", "MERGEABILITY_PENDING")
  /\ UNCHANGED <<github, changes, touched, passed>>

\* Promise.all: the requests are answered in any order.
ReadRules ==
  /\ run.at = "reading" /\ run.rules = Unread
  /\ run' = [run EXCEPT !.rules = Policy(rules.set, rules.available)]
  /\ UNCHANGED <<github, changes, touched, passed>>

ReadReviews ==
  /\ run.at = "reading" /\ run.reviews = Unread
  /\ run' = [run EXCEPT !.reviews = reviews]
  /\ UNCHANGED <<github, changes, touched, passed>>

RunsOf(h) == IF checks[h] = "none" THEN <<>>
             ELSE << [name |-> "build", app |-> NoApp, state |-> checks[h]] >>

ReadChecks ==
  /\ run.at = "reading" /\ run.checks = Unread
  /\ run' = [run EXCEPT !.checks = RunsOf(run.first.head)]
  /\ UNCHANGED <<github, changes, touched, passed>>

\* The record and its snapshot: lifecycle and mergeability from the final
\* answer, reviews and checks as they were read before it.
Snapshot(final, policy, reviewList, runs, head) ==
  LET facts == DeriveReviewDecision(reviewList, policy, head)
  IN  [ isDraft |-> final.draft, isOpen |-> final.state = "open",
        isMerged |-> final.state = "merged",
        hasMergeConflict |-> final.mergeable = "no",
        checkStatus |-> DeriveCheckStatus(runs, <<>>, policy),
        reviewDecision |-> facts.decision,
        authorHasChangesToMake |-> facts.author,
        maintainerReviewRequired |-> facts.maintainer ]

\* Mutant of SameHead: a push during the run is not noticed.
SameHead_Any(first, final) == TRUE

SameHead(first, final) == first.head = final.head

\* The pull request is read once more; the executor evaluates the snapshot.
Conclude ==
  /\ run.at = "reading"
  /\ Unread \notin {run.rules, run.reviews, run.checks}
  /\ \/ /\ ~SameHead(run.first, Fetched)
        /\ Ends("RETRY_REQUIRED", "HEAD_SHA_CHANGED")
     \/ /\ SameHead(run.first, Fetched)
        /\ LET s == Snapshot(Fetched, run.rules, run.reviews, run.checks, run.first.head)
           IN  run' = [run EXCEPT !.at = "done",
                         !.result = [ status  |-> IF run.rules.needsMore THEN "POLICY_UNRESOLVED"
                                                  ELSE "READY",
                                      head    |-> Fetched.head,
                                      mergeable |-> Fetched.mergeable,
                                      verdict |-> Evaluate(s) ]]
  /\ UNCHANGED <<github, changes, touched, passed>>

\* A request or its answer is no good: the function throws.
RequestFails ==
  /\ run.at \in {"polling", "reading"}
  /\ Ends("FAILED", "ERROR")
  /\ UNCHANGED <<github, changes, touched, passed>>

RunStep == Poll \/ ReadRules \/ ReadReviews \/ ReadChecks \/ Conclude

People == Push \/ MoveBase \/ SetDraftOrState \/ SubmitReview \/ DismissReview
          \/ ReportCheck \/ ChangeRules

Next == People \/ ComputeMergeability \/ Start \/ RunStep \/ RequestFails

Spec == Init /\ [][Next]_vars

-----------------------------------------------------------------------------
Concluded == run.at = "done" /\ run.result.status \in {"READY", "POLICY_UNRESOLVED"}
Ready     == Concluded /\ run.result.verdict.readiness = "READY_TO_MERGE"

TypeOK ==
  /\ pr \in [state : {"open", "closed", "merged"}, draft : BOOLEAN, head : Heads,
             conflict : BOOLEAN, computed : BOOLEAN]
  /\ checks \in [Heads -> CheckState]
  /\ run.at \in {"idle", "polling", "reading", "done"}
  /\ run.tries \in 0 .. Attempts
  /\ changes \in 0 .. MaxChanges
  /\ passed \subseteq Heads

\* When nothing happens on GitHub during a run, the staged requests add up to
\* the answer of one look at the whole pull request; a deferral then only means
\* that mergeability is not known.
QuietRunIsExact ==
  run.at = "done" /\ ~touched =>
    /\ Concluded => run.result.verdict =
         Evaluate(Snapshot([Fetched EXCEPT !.mergeable = IF pr.conflict THEN "no" ELSE "yes"],
                           Policy(rules.set, rules.available), reviews, RunsOf(pr.head), pr.head))
    /\ run.result.status = "RETRY_REQUIRED" => run.result.reason = "MERGEABILITY_PENDING"

\* However pushes fall between the requests, a commit is only called ready on what
\* belongs to it: where the rules require the check, that very commit passed it, and
\* where a push dismisses earlier approvals, enough of them are of that commit.
ReadyOnItsOwnEvidence ==
  Ready =>
    /\ run.rules.required # {} => run.result.head \in passed
    /\ run.rules.dismissStale =>
         Cardinality({i \in DOMAIN run.reviews : run.reviews[i].commit = run.result.head})
           >= run.rules.approvals

\* A reconciliation that cannot know the mergeability is deferred, never
\* called ready ("A reconciliation is deferred when: GitHub mergeability remains
\* unknown", docs/product/phase-3-reconciliation.md).
ReadyIsKnownMergeable == Ready => run.result.mergeable = "yes"
=============================================================================
