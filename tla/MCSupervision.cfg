\* Every write of the record may fail.
SPECIFICATION FairSpec
CONSTANTS
  FallibleWrites <- RecordWrites
INVARIANTS
  TypeOK
  ExecOnlyWhenDurable
  TriggerBeforeSignal
  UnquarantinedIsGone
  NoIsWarranted
PROPERTIES
  FirstTriggerStays
  SupervisorEnds
  CancellationStopsTheRun
CHECK_DEADLOCK FALSE
