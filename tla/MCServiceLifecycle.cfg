\* Reloads, signals, crashes and a second start of the program, under the
\* fairness of the processes.
SPECIFICATION FairSpec
CONSTANTS
  MaxInc = 2
  MaxSignal = 2
  MaxLaunch = 2
  SystemProxy = TRUE
INVARIANTS
  TypeOK
  NoServiceBeforeProxy
  OrphanOnlyUnwaited
PROPERTIES
  SignalsOwnOrOrphan
  NoRestartAfterFailure
  WaitEnds
  StopEndsWorker
  FailureEndsMaster
  EndIsNoticed
ACTION_CONSTRAINTS
  FewUserSteps
CHECK_DEADLOCK FALSE
