CONSTANTS
  Roots = 3
  Key <- Keys
  Host = {h1}
  Discoverer = {}
  NoKey = NoKey
  NoHost = NoHost
  Used = {}
  Forgotten = {}
  Budget = 1
  MaxCrashes = 0
SPECIFICATION FairSpec
PROPERTY EveryRootIsReached
CHECK_DEADLOCK FALSE
