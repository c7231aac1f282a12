CONSTANTS
  Roots = 1
  Key <- Keys
  Host = {h1}
  Discoverer = {h1}
  NoKey = NoKey
  NoHost = NoHost
  Used = {1}
  Forgotten = {1}
  Budget = 0
  MaxCrashes = 1
SPECIFICATION FairSpec
PROPERTY RootInUseStays
PROPERTY DeadEntriesGo
CHECK_DEADLOCK FALSE
