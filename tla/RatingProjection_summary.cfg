SPECIFICATION FairSpec
CONSTANTS
  Reviews = {p, q}
  Ratings = {5}
  Handlers = {h1, h2}
  MaxEvents = 2
  MaxFaults = 2
INVARIANTS TypeOK NoDrift
PROPERTIES NeverOverwritesNewer EventuallyReflected
CHECK_DEADLOCK FALSE
