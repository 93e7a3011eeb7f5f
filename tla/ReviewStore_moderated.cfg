SPECIFICATION FairSpec
CONSTANTS
  Authors = {alice}
  Ids <- MCIds2
  Bodies <- MCBodies
  Says <- MCTexts
  Sessions = {s1, s2}
  Ops = {"update", "remove", "decide", "moderate"}
  MaxRequests = 3
  MaxFaults = 1
INVARIANTS TypeOK LogTellsStatus LogIsLegal DefectsNeverHelp
PROPERTIES ImplementsLife EventuallyDecided
CHECK_DEADLOCK FALSE
