CONSTANTS
  Call = {c1}
  Recoverer = {r1, r2}
  MaxRounds = 2
  Fault = {}
SPECIFICATION FairSpec
INVARIANT TypeOK
INVARIANT AnswerNamesItsRun
PROPERTY AvailableStays
PROPERTY AbortIsAnswered
CHECK_DEADLOCK FALSE
