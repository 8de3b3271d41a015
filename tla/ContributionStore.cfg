\* Two executors, two pull requests that share evidence, reconciled up to twice.
\* The bound on time stops the model.
SPECIFICATION FairStoreSpec
CONSTANTS
  o1 = o1  o2 = o2
  None = None
  PullRequests = {1, 2}
  Executors = {e1, e2}
  Snapshots <- SomeSnapshots
  Objects = {o1, o2}
  EvidenceLists <- SharedEvidence
  Stamps = {0, 1, 2}
  MaxTime = 2
INVARIANTS RecordIsWhole HistoryIsChain DriftIsAgainstRecord
PROPERTIES ImplementsRecord EveryRunEnds
CHECK_DEADLOCK FALSE
