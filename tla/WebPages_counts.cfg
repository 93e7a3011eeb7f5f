SPECIFICATION Spec
CONSTANTS
  Pages = {"voter"}
  Reviews = {ra}
  Values = {"HELPFUL", "NOT_HELPFUL"}
  SweepsFail = FALSE
  MaxClicks = 1
  MaxCalls = 2
  MaxFaults = 1
  Filed = {ra}
  Flagged = {ra}
  MaxDecisions = 2
  MaxMishaps = 1
  Second = 2
  Lifetime = 2
  Fallback = 4
  MaxTime = 8
INVARIANT ConvergesOnTruth
CHECK_DEADLOCK FALSE
