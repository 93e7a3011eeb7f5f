SPECIFICATION Spec
CONSTANTS
  Pages = {"voter", "author", "moderator", "login"}
  Reviews = {ra, rb}
  Values = {"HELPFUL"}
  SweepsFail = TRUE
  MaxClicks = 2
  MaxCalls = 2
  MaxFaults = 1
  Filed = {ra, rb}
  Flagged = {ra}
  MaxDecisions = 2
  MaxMishaps = 1
  Second = 2
  Lifetime = 2
  Fallback = 4
  MaxTime = 8
INVARIANTS VoteAgrees RestsOnTruth DeletedStaysGone HiddenWasDecided CookieFollowsToken
PROPERTIES EventuallyCounted DraftSurvives SeenInTheEnd PollCatchesUp DecidedLeavesBoth
CHECK_DEADLOCK FALSE
