\* As wired: nobody recovers stale claims.
SPECIFICATION FairSpec
CONSTANTS
  j1 = j1  j2 = j2  k1 = k1  k2 = k2  w1 = w1  w2 = w2
  Jobs = {j1, j2}
  Keys = {k1, k2}
  Workers = {w1, w2}
  None = None
  MaxAttempts = 2
  BaseDelay = 1
  MaxDelay = 2
  Overdue = 1
  Faults = {"crash"}
  MaxFaults = 1
  RecoveryWired = FALSE
  TimelyHandlers = TRUE
PROPERTIES AbandonedJobsReturn
