----------------------------- MODULE MCWebPages -----------------------------
(* Small instance of WebPages for TLC. *)
EXTENDS WebPages

CONSTANT o1

Waiting(draft) ==
  [isDraft |-> draft, isOpen |-> TRUE, isMerged |-> FALSE, hasMergeConflict |-> FALSE,
   checkStatus |-> "SUCCESS", reviewDecision |-> "REVIEW_REQUIRED",
   authorHasChangesToMake |-> FALSE, maintainerReviewRequired |-> TRUE]

\* A maintainer's turn, an author's, and nobody's.
SomeSnapshots ==
  {Waiting(FALSE), Waiting(TRUE), [Waiting(FALSE) EXCEPT !.isOpen = FALSE, !.isMerged = TRUE]}

OneObject == {<<o1>>}
TwoRounds == {1, 2}
SomeRequests == TwoRounds \X {1, 2}
=============================================================================
