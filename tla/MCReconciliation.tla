-------------------------- MODULE MCReconciliation --------------------------
(* Small instance of Reconciliation for TLC; see ReconciliationMergeability.cfg. *)
EXTENDS Reconciliation

CONSTANTS c1, c2, l1, l2

Build == RequiredChecks({[context |-> "build", app |-> NoApp]})

\* The check and one fresh approval are required, or nothing is, or more than
\* reviews can prove.
AnyRules ==
  {{}, {Build, PullRequestRule(1, TRUE, FALSE)}, {Build, PullRequestRule(1, FALSE, TRUE)}}
=============================================================================
