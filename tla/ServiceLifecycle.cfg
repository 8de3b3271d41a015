\* One process from start to end, two connections.
SPECIFICATION FairLifecycle
CONSTANTS
  MaxConnections = 2
INVARIANTS ReadyIsServing DrainedBeforeClose
PROPERTIES StopComesToEnd LoopFailureStops
CHECK_DEADLOCK FALSE
