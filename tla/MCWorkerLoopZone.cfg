\* A host to the east of Greenwich passes over what was published.
SPECIFICATION Spec
CONSTANTS
    List = {ads}
    Skew = {1}
    MaxVersion = 2
    MaxTime = 2
    NumServers = 1
    MaxSignal = 0
    MaxWorker = 2
PROPERTIES
    PublishedIsUpdated
CHECK_DEADLOCK FALSE
