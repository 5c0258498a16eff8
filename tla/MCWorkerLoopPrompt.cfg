\* A worker that sleeps although it was told to stop.
SPECIFICATION Spec
CONSTANTS
    List = {ads}
    Skew = {0}
    MaxVersion = 1
    MaxTime = 1
    NumServers = 1
    MaxSignal = 1
    MaxWorker = 1
INVARIANTS
    StopIsPrompt
CHECK_DEADLOCK FALSE
