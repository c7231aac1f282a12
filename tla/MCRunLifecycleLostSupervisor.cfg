SPECIFICATION Spec
CONSTANTS
  h1 = h1
  h2 = h2
  h3 = h3
  t1 = t1
  t2 = t2
  t3 = t3
  r1 = r1
  r2 = r2
  NoHost = NoHost
  NoRun = NoRun
  Run = {r1, r2}
  Host = {h1, h2}
  Mortal = {h1}
  Task = {t1, t2}
  process <- TwoProcesses
  Unconfirmed = {r1}
  Faults = {"supervisorLost"}
INVARIANTS
  OneAtATime
