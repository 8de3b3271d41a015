\* Lost, copied, delayed webhooks, failed tries, jobs given up; the sweep repairs.
SPECIFICATION FairSpec
CONSTANTS
  p1 = p1  p2 = p2
  PullRequests = {p1, p2}
  Sweep = Sweep
  Unlisted = Unlisted
  MaxAttempts = 2
  MaxVersion = 2
  MaxChanges = 2
  MaxInFlight = 1
  MaxFailures = 2
INVARIANTS WebhooksSuffice
PROPERTIES RecordNeverOlder RecordConverges
