\* Two pull requests of one head commit, whose evidence is one set of rows.
SPECIFICATION FairStoreSpec
CONSTANTS
  o1 = o1  o2 = o2
  None = None
  PullRequests = {1, 2}
  Executors = {e1, e2}
  Snapshots <- SomeSnapshots
  Objects = {o1, o2}
  EvidenceLists <- SharedEvidence
  Stamps = {0, 1, 2}
  MaxTime = 2
INVARIANTS EvidenceIsOwn
CHECK_DEADLOCK FALSE
