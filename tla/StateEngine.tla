---------------------------- MODULE StateEngine ----------------------------
(***************************************************************************)
(* The deterministic rules of packages/state-engine: evaluatePullRequest    *)
(* maps a snapshot of a pull request to the workflow state, the actor whose *)
(* turn it is, the readiness and the reason shown to maintainers.  The      *)
(* evidence list and the wording are left out.                              *)
(***************************************************************************)
EXTENDS Naturals, Sequences

CheckStatus    == {"PENDING", "SUCCESS", "FAILURE", "NOT_REQUIRED", "UNKNOWN"}
ReviewDecision == {"APPROVED", "CHANGES_REQUESTED", "REVIEW_REQUIRED", "UNKNOWN"}

PullRequestSnapshot ==
  [isDraft : BOOLEAN, isOpen : BOOLEAN, isMerged : BOOLEAN, hasMergeConflict : BOOLEAN,
   checkStatus : CheckStatus, reviewDecision : ReviewDecision,
   authorHasChangesToMake : BOOLEAN, maintainerReviewRequired : BOOLEAN]

Verdict(state, actor, readiness, reason) ==
  [workflowState |-> state, nextActor |-> actor, readiness |-> readiness, reasonCode |-> reason]

Rule(applies, verdict) == [applies |-> applies, verdict |-> verdict]

Ambiguous(reason) == Verdict("AMBIGUOUS", "UNKNOWN", "AMBIGUOUS", reason)
AuthorsTurn(state, reason) == Verdict(state, "AUTHOR", "NOT_READY", reason)

CiSatisfied(s) == s.checkStatus \in {"SUCCESS", "NOT_REQUIRED"}

\* The conditions the READY_TO_MERGE rule lists itself.
ReadyRule(s) ==
  /\ s.reviewDecision = "APPROVED"
  /\ CiSatisfied(s)
  /\ ~s.hasMergeConflict
  /\ ~s.authorHasChangesToMake
  /\ ~s.maintainerReviewRequired

\* Mutant of ChecksRules: running checks are no rule's business.
ChecksRules_NoPending(s) ==
  << Rule(s.checkStatus = "FAILURE", AuthorsTurn("OPEN", "CI_FAILED")),
     Rule(s.checkStatus = "UNKNOWN", Ambiguous("CI_STATUS_UNKNOWN")) >>

ChecksRules(s) ==
  << Rule(s.checkStatus = "FAILURE", AuthorsTurn("OPEN", "CI_FAILED")),
     Rule(s.checkStatus = "PENDING", Verdict("OPEN", "CI", "NOT_READY", "CI_PENDING")),
     Rule(s.checkStatus = "UNKNOWN", Ambiguous("CI_STATUS_UNKNOWN")) >>

\* Mutant of LifecycleRules: a draft is looked at like any other.
LifecycleRules_Drafts(s) ==
  << Rule(s.isMerged, Verdict("MERGED", "NONE", "READY_FOR_RELEASE", "PR_MERGED")),
     Rule(~s.isOpen, Verdict("CLOSED", "NONE", "COMPLETE", "PR_CLOSED")) >>

LifecycleRules(s) ==
  << Rule(s.isMerged, Verdict("MERGED", "NONE", "READY_FOR_RELEASE", "PR_MERGED")),
     Rule(~s.isOpen, Verdict("CLOSED", "NONE", "COMPLETE", "PR_CLOSED")),
     Rule(s.isDraft, AuthorsTurn("DRAFT", "PR_DRAFT")) >>

\* Mutant of ReviewRules: a merge conflict is looked at after the approval.
ReviewRules_ConflictLast(s) ==
  << Rule(s.reviewDecision = "UNKNOWN", Ambiguous("REVIEW_STATUS_UNKNOWN")),
     Rule(s.reviewDecision = "CHANGES_REQUESTED" /\ s.authorHasChangesToMake,
          AuthorsTurn("CHANGES_REQUESTED", "CHANGES_REQUESTED")),
     Rule(s.reviewDecision = "CHANGES_REQUESTED",
          Ambiguous("INCONSISTENT_CHANGE_REQUEST_STATE")),
     Rule(/\ s.reviewDecision = "REVIEW_REQUIRED" /\ CiSatisfied(s)
          /\ ~s.authorHasChangesToMake /\ s.maintainerReviewRequired,
          Verdict("IN_REVIEW", "MAINTAINER", "READY_FOR_REVIEW", "MAINTAINER_REVIEW_REQUIRED")),
     Rule(s.reviewDecision = "APPROVED" /\ s.maintainerReviewRequired,
          Ambiguous("INCONSISTENT_REVIEW_STATE")),
     Rule(ReadyRule(s),
          Verdict("READY_TO_MERGE", "MAINTAINER", "READY_TO_MERGE", "READY_TO_MERGE")),
     Rule(s.hasMergeConflict, AuthorsTurn("OPEN", "MERGE_CONFLICT")),
     Rule(TRUE, Ambiguous("NO_MATCHING_RULE")) >>

ReviewRules(s) ==
  << Rule(s.reviewDecision = "UNKNOWN", Ambiguous("REVIEW_STATUS_UNKNOWN")),
     Rule(s.reviewDecision = "CHANGES_REQUESTED" /\ s.authorHasChangesToMake,
          AuthorsTurn("CHANGES_REQUESTED", "CHANGES_REQUESTED")),
     Rule(s.reviewDecision = "CHANGES_REQUESTED",
          Ambiguous("INCONSISTENT_CHANGE_REQUEST_STATE")),
     Rule(s.hasMergeConflict, AuthorsTurn("OPEN", "MERGE_CONFLICT")),
     Rule(/\ s.reviewDecision = "REVIEW_REQUIRED" /\ CiSatisfied(s)
          /\ ~s.authorHasChangesToMake /\ s.maintainerReviewRequired,
          Verdict("IN_REVIEW", "MAINTAINER", "READY_FOR_REVIEW", "MAINTAINER_REVIEW_REQUIRED")),
     Rule(s.reviewDecision = "APPROVED" /\ s.maintainerReviewRequired,
          Ambiguous("INCONSISTENT_REVIEW_STATE")),
     Rule(ReadyRule(s),
          Verdict("READY_TO_MERGE", "MAINTAINER", "READY_TO_MERGE", "READY_TO_MERGE")),
     Rule(TRUE, Ambiguous("NO_MATCHING_RULE")) >>

Rules(s) == LifecycleRules(s) \o ChecksRules(s) \o ReviewRules(s)

\* The first rule that applies decides; the last one always applies.
Decides(rules, i) == rules[i].applies /\ \A j \in 1 .. i - 1 : ~rules[j].applies
Evaluate(s) ==
  LET rules == Rules(s) IN rules[CHOOSE i \in DOMAIN rules : Decides(rules, i)].verdict
=============================================================================
