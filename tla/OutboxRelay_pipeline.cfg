SPECIFICATION FairSpec
CONSTANTS
  Relays = {r1, r2}
  Rows <- MCRows
  AggregateOf <- MCAggregateOf
  Poison = {1}
  BatchSize = 2
  MaxAttempts = 2
  MaxFaults = 1
  MaxStops = 1
INVARIANTS LocksExclude NoLostEvent CopiesAccountedFor AttemptsBounded OvertakingExplained
PROPERTIES ImplementsOutbox EventuallySettled
CHECK_DEADLOCK FALSE
