------------------------ MODULE MCContributionStore ------------------------
(* Small instance of ContributionStore for TLC. *)
EXTENDS ContributionStore

CONSTANTS o1, o2

\* A pull request that waits for a review, and the same one under branch rules
\* that ask for more than reviews can prove.
Waiting(decision) ==
  [isDraft |-> FALSE, isOpen |-> TRUE, isMerged |-> FALSE, hasMergeConflict |-> FALSE,
   checkStatus |-> "SUCCESS", reviewDecision |-> decision,
   authorHasChangesToMake |-> FALSE, maintainerReviewRequired |-> TRUE]

SomeSnapshots == {Waiting("REVIEW_REQUIRED"), Waiting("UNKNOWN")}

\* Two pull requests of one head commit see its two check runs in any order.
SharedEvidence == {<<o1, o2>>, <<o2, o1>>}
=============================================================================
