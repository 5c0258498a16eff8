\* "##### Stopped." is logged with the worker still at work.
SPECIFICATION Spec
CONSTANTS
  MaxInc = 2
  MaxSignal = 1
  MaxLaunch = 1
  SystemProxy = TRUE
INVARIANTS
  StoppedMeansStopped
CHECK_DEADLOCK FALSE
