SPECIFICATION Spec
CONSTANTS
  Authors = {alice}
  Ids <- MCIds1
  Bodies <- MCRejectingBodies
  Says <- MCRejecting
  Sessions = {s1, s2}
  Ops = {"update", "moderate"}
  MaxRequests = 2
  MaxFaults = 0
INVARIANT PublishedAsJudged
CHECK_DEADLOCK FALSE
