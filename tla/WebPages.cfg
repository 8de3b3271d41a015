\* Two pull requests with three turns, one row per page of the queue.
SPECIFICATION Spec
CONSTANTS
  o1 = o1
  None = None
  PullRequests = {1, 2}
  Snapshots <- SomeSnapshots
  Objects = {o1}
  EvidenceLists <- OneObject
  Stamps = {1, 2}
  Rounds <- TwoRounds
  Requests <- SomeRequests
  Limit = 1
  PageSize = 1
  MaxCommits = 2
INVARIANTS AnswersAreCurrent PagesAgree PagesPartitionQueue ShownAnswersQuestion
  SignedOutHasNoSession
PROPERTIES EveryQuestionSettles
