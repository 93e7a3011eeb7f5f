SPECIFICATION FairSpec
CONSTANTS
  Connections = {c1, c2}
  Consumers <- MCConsumers
  Prefetch = 2
  MaxFaults = 3
INVARIANTS TypeOK OneReconnector DrainedBeforeClosed
PROPERTIES EventuallyConnected ShutdownEnds
CHECK_DEADLOCK FALSE
