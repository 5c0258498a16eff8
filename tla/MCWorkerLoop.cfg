\* Two servers, a list that is published twice, two workers.
SPECIFICATION FairSpec
CONSTANTS
    List = {ads}
    Skew = {0, 1}
    MaxVersion = 2
    MaxTime = 2
    NumServers = 2
    MaxSignal = 1
    MaxWorker = 2
INVARIANTS
    TypeOK
    NoThreadInDeletedServer
PROPERTIES
    NothingOldIsMissed
    StopReachesEnd
    StepsAreLifecycle
CHECK_DEADLOCK FALSE
