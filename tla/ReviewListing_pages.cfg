SPECIFICATION FairSpec
CONSTANTS
  Ids <- MCIds
  Movers = {1, 2}
  Created <- MCCreated
  Mine = {1, 2}
  FirstRows <- MCFirstRows
  Ratings = {5}
  Swings <- MCSwings
  ListKeys <- MCListKeys
  Settings <- MCSettings
  Limits = {2}
  TabLimit = 1
  Clients = {c1}
  MaxPages = 2
INVARIANTS CachedSinceSweep NewestNeverRepeats UnmovedListedOnce
PROPERTIES EventuallyFresh
CHECK_DEADLOCK FALSE
