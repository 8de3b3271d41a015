\* Lists: up to three reviews or three reports, two entries of both (MCReconciler's
\* SmallAnswers names the longest lists).  Runs: pushes back and forth between two commits, two reviewers.
SPECIFICATION ReconcilerSpec
CONSTANTS
  l1 = l1  l2 = l2  c1 = c1  c2 = c2  app1 = app1  app2 = app2
  NoLogin = NoLogin
  NoApp = NoApp
  Unread = Unread
  Logins = {l1, l2}
  Commits = {c1, c2}
  HeadCommit = c2
  Heads = {c1, c2}
  FirstHead = c1
  Contexts = {"build", "test"}
  Apps = {app1, app2}
  Times = {1, 2}
  RuleSets <- SomeRules
  MaxEntries = 3
  MaxMixed = 2
  Attempts = 1
  MaxChanges = 3
  MaxReviews = 2
SYMMETRY Symmetry
INVARIANTS ChangeRequestsStand ApprovalIsEarned RequiredChecksReported NoReportIsIgnored
  EvaluationIsSound ReadyOnItsOwnEvidence QuietRunIsExact
CHECK_DEADLOCK FALSE
