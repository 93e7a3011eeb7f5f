SPECIFICATION Spec
CONSTANTS
  Connections = {c1, c2}
  Consumers <- MCConsumers
  Prefetch = 1
  MaxFaults = 1
PROPERTY WorkIsFinished
CHECK_DEADLOCK FALSE
