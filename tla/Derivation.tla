----------------------------- MODULE Derivation -----------------------------
(***************************************************************************)
(* The derivations of PullRequestFacts over every short list GitHub may     *)
(* answer with: reviews, check runs and statuses arrive entry by entry, in  *)
(* any order, with equal times, comments, dismissals, reviews of an earlier *)
(* head, reviewers without a login and reports of other apps.  What is       *)
(* derived is evaluated as the executor does it, for every draft, open,      *)
(* merged and conflict flag GitHub may send along.                           *)
(***************************************************************************)
EXTENDS PullRequestFacts, StateEngine

CONSTANTS
  Commits, HeadCommit,               \* HeadCommit is the head of the pull request
  Contexts, Apps,
  Times,
  MaxEntries,                        \* bound: reviews, and reports, together
  MaxMixed                           \* bound: entries when there are reviews and reports

ASSUME DerivationAssumption ==
  /\ NoApp \notin Apps
  /\ HeadCommit \in Commits
  /\ Times \subseteq Nat
  /\ MaxEntries \in Nat /\ MaxMixed \in Nat

VARIABLES
  policy,      \* derivePullRequestPolicy's result
  reviewItems, checkRuns, statusItems   \* the concatenated pages

answers == <<policy, reviewItems, checkRuns, statusItems>>

\* A dismissed review or a comment of an earlier head is not told apart.
Review ==
  {r \in [id : 1 .. MaxEntries, login : Logins \union {NoLogin}, time : Times,
           state : {"APPROVED", "CHANGES_REQUESTED", "DISMISSED", "COMMENTED"},
           commit : Commits] :
     r.state \in {"DISMISSED", "COMMENTED"} => r.commit = HeadCommit}
CheckRun == [name : Contexts, app : Apps, state : {"SUCCESS", "FAILURE", "PENDING", "UNKNOWN"}]
Status == [id : 1 .. MaxEntries, context : Contexts, time : Times,
           state : {"success", "pending", "failure"}]

DerivationInit ==
  /\ \E rules \in RuleSets, available \in BOOLEAN :
       policy = Policy(IF available THEN rules ELSE {}, available)
  /\ reviewItems = <<>> /\ checkRuns = <<>> /\ statusItems = <<>>

Reported == checkRuns \o statusItems
Room(mixed) ==
  Len(reviewItems) + Len(Reported) < IF mixed THEN MaxMixed ELSE MaxEntries

\* Identifiers are GitHub's: no two entries share one.
Fresh(item, list) == \A i \in DOMAIN list : list[i].id # item.id

AnotherReview ==
  /\ Room(Reported # <<>>)
  /\ \E r \in Review : Fresh(r, reviewItems) /\ reviewItems' = Append(reviewItems, r)
  /\ UNCHANGED <<policy, checkRuns, statusItems>>

AnotherCheckRun ==
  /\ Room(reviewItems # <<>>)
  /\ \E run \in CheckRun : checkRuns' = Append(checkRuns, run)
  /\ UNCHANGED <<policy, reviewItems, statusItems>>

AnotherStatus ==
  /\ Room(reviewItems # <<>>)
  /\ \E s \in Status : Fresh(s, statusItems) /\ statusItems' = Append(statusItems, s)
  /\ UNCHANGED <<policy, reviewItems, checkRuns>>

DerivationNext == AnotherReview \/ AnotherCheckRun \/ AnotherStatus

DerivationSpec == DerivationInit /\ [][DerivationNext]_answers

-----------------------------------------------------------------------------
facts       == DeriveReviewDecision(reviewItems, policy, HeadCommit)
checkStatus == DeriveCheckStatus(checkRuns, statusItems, policy)

\* The flags GitHub may send along: a merged pull request is closed, and only an
\* open one is tested for conflicts.
Lifecycle ==
  {flags \in [isDraft : BOOLEAN, isOpen : BOOLEAN, isMerged : BOOLEAN, hasMergeConflict : BOOLEAN] :
     (flags.isMerged => ~flags.isOpen) /\ (flags.hasMergeConflict => flags.isOpen)}
SnapshotOf(flags, checks, review) ==
  [isDraft |-> flags.isDraft, isOpen |-> flags.isOpen, isMerged |-> flags.isMerged,
   hasMergeConflict |-> flags.hasMergeConflict, checkStatus |-> checks,
   reviewDecision |-> review.decision, authorHasChangesToMake |-> review.author,
   maintainerReviewRequired |-> review.maintainer]

\* Reference definition: a review stands when it is decisive and no other
\* decisive review of the same reviewer is newer.
Standing(r) ==
  /\ Decisive(r)
  /\ \A q \in Range(reviewItems) :
       Decisive(q) /\ Reviewer(q) = Reviewer(r) => q = r \/ Newer(r, q)

\* A change request blocks until its own reviewer approves or it is dismissed,
\* in whatever order the pages list the reviews: comments, approvals of others
\* and late pages do not lift it.
ChangeRequestsStand ==
  facts.decision = "CHANGES_REQUESTED" <=>
    /\ ~policy.needsMore
    /\ \E r \in Range(reviewItems) : Standing(r) /\ r.state = "CHANGES_REQUESTED"

\* APPROVED is earned: the policy can be proved from reviews, and as many
\* standing approvals as the rules ask for are there, of the current head when
\* a push dismisses approvals.
ApprovalIsEarned ==
  facts.decision = "APPROVED" =>
    /\ ~policy.needsMore
    /\ Cardinality({r \in Range(reviewItems) :
                      /\ Standing(r) /\ r.state = "APPROVED"
                      /\ policy.dismissStale => r.commit = HeadCommit}) >= policy.approvals
    /\ ~\E r \in Range(reviewItems) : Standing(r) /\ r.state = "CHANGES_REQUESTED"

\* Missing required checks fail closed (docs/product/phase-3-reconciliation.md):
\* SUCCESS rests on a successful report of every required check, by the app
\* the rule names.
RequiredChecksReported ==
  checkStatus = "SUCCESS" =>
    \A required \in policy.required :
      \/ \E run \in Range(checkRuns) :
           /\ run.name = required.context /\ run.state = "SUCCESS"
           /\ required.app # NoApp => run.app = required.app
      \/ /\ required.app = NoApp
         /\ \E s \in Range(statusItems) :
              /\ s.context = required.context /\ s.state = "success"
              /\ \A t \in Range(statusItems) :
                   t.context = s.context => t = s \/ Newer(s, t)

\* Without required checks, none of the reports is worse than the answer.
NoReportIsIgnored ==
  policy.required = {} /\ checkStatus = "SUCCESS" =>
    /\ \A run \in Range(checkRuns) : run.state = "SUCCESS"
    /\ \A s \in Range(statusItems) :
         s.state = "success" \/ \E t \in Range(statusItems) : t.context = s.context /\ Newer(t, s)

Live(s) == s.isOpen /\ ~s.isMerged /\ ~s.isDraft
ChecksPass(s) == s.checkStatus \in {"SUCCESS", "NOT_REQUIRED"}

\* READY_TO_MERGE is claimed exactly when every fact it rests on is established.
ReadyWhenProven(s, verdict) ==
  verdict.readiness = "READY_TO_MERGE" <=>
    Live(s) /\ ~s.hasMergeConflict /\ ChecksPass(s) /\ s.reviewDecision = "APPROVED"

\* The actor named has something to do, and nobody who comes before it has.
ActorCanAct(s, verdict) ==
  CASE verdict.nextActor = "AUTHOR" ->
         /\ s.isOpen
         /\ \/ s.isDraft \/ s.checkStatus = "FAILURE"
            \/ s.authorHasChangesToMake \/ s.hasMergeConflict
    [] verdict.nextActor = "CI" -> Live(s) /\ s.checkStatus = "PENDING"
    [] verdict.nextActor = "MAINTAINER" ->
         Live(s) /\ ~s.hasMergeConflict /\ ~s.authorHasChangesToMake /\ ChecksPass(s)
    [] verdict.nextActor = "NONE" -> ~s.isOpen \/ s.isMerged
    [] OTHER -> Live(s)

\* Ambiguous because a fact is unknown, never by one of the "inconsistent" rules
\* or NO_MATCHING_RULE.
AmbiguousForCause(s, verdict) ==
  verdict.readiness = "AMBIGUOUS" =>
    /\ s.checkStatus = "UNKNOWN" \/ s.reviewDecision = "UNKNOWN"
    /\ verdict.reasonCode \in {"CI_STATUS_UNKNOWN", "REVIEW_STATUS_UNKNOWN"}

\* Derivations and rules fit together: on whatever the derivations produce the
\* engine claims readiness exactly when it is proven ("does not claim merge
\* readiness when it cannot prove it", docs/product/phase-3-reconciliation.md),
\* sends somebody who can act, and is ambiguous for a cause only.
EvaluationIsSound ==
  LET checks == checkStatus
      review == facts
  IN  \A flags \in Lifecycle :
        LET s == SnapshotOf(flags, checks, review)
            verdict == Evaluate(s)
        IN  ReadyWhenProven(s, verdict) /\ ActorCanAct(s, verdict) /\ AmbiguousForCause(s, verdict)
=============================================================================
