\* Two calls from two processes, two run ids, time to wait out a whole budget.
SPECIFICATION FairSpec
CONSTANTS
  h1 = h1
  h2 = h2
  Host = {h1, h2}
  Request = {r1, r2}
  Run = {x1, x2}
  NoRun = NoRun
  Origin <- SkewedOrigin
  WaitBudget = 3
  MaxTime = 4
INVARIANTS
  TypeOK
  ReturnedHoldsNoPlace
  LiveTicketKept
  AdmittedRunsAreDurable
PROPERTIES
  NoOvertaking
  EveryCallReturns
CHECK_DEADLOCK FALSE
