\* Crashes, failing statements, lost acknowledgements; stale claims are recovered
\* after their handlers are done, or not at all.
SPECIFICATION FairSpec
CONSTANTS
  d1 = d1  d2 = d2  d3 = d3  h1 = h1  h2 = h2
  Deliveries = {d1, d2, d3}
  Malformed = {d2}
  Workless = {d3}
  Handlers = {h1, h2}
  None = None
  MaxDeliveryAttempts = 2
  RecoverLimit = 1
  Faults = {"crash", "dbError", "lostAck"}
  MaxFaults = 2
  RecoveryWired = TRUE
  TimelyHandlers = TRUE
INVARIANTS OneHandlerPerDelivery AcceptsBounded HandedOverBeforeProcessed
PROPERTIES RedeliveredConcludesOrParks
