SPECIFICATION FairSpec
CONSTANTS
  Connections = {c1, c2}
  Consumers <- MCConsumers
  Prefetch = 1
  MaxFaults = 1
PROPERTY ConsumersComeBack
CHECK_DEADLOCK FALSE
