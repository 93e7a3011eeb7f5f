SPECIFICATION Spec
CONSTANTS
  Relays = {r1}
  Rows <- MCRows
  AggregateOf <- MCAggregateOf
  Poison = {}
  BatchSize = 2
  MaxAttempts = 2
  MaxFaults = 1
  MaxStops = 1
INVARIANT OrderPreserved
CHECK_DEADLOCK FALSE
