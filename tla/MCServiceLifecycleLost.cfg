\* A worker that logged "Shutting down." and does not end.
SPECIFICATION FairSpec
CONSTANTS
  MaxInc = 1
  MaxSignal = 1
  MaxLaunch = 1
  SystemProxy = TRUE
PROPERTIES
  ShuttingDownEnds
CHECK_DEADLOCK FALSE
