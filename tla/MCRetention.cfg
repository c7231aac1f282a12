SPECIFICATION Spec
CONSTANTS
  s1 = s1
  j1 = j1
  r1 = r1
  r2 = r2
  e1 = e1
  NoRun = NoRun
  NoTime = NoTime
  Run = {r1, r2}
  Old = {r1}
  Isolated = {r1}
  Reader = {e1}
  Sweeper = {s1}
  Reclaimer = {j1}
  Lifetime = 1
  TombstoneLife = 1
  Horizon = 2
  MaxCrashes = 1
  RETENTION <- MCLimits
  Inventory <- MCInventory
  Leftover = {0}
INVARIANTS
  TypeOK
  GoneWasAnnounced
  LeaseProtects
  EvictionIsWarranted
PROPERTIES
  BuildKeepsItsCache
CHECK_DEADLOCK FALSE
