CONSTANTS
    service = service
    connections = connections
    updater = updater
    Process = {service}
    Thread = {connections, updater}
    Home <- MCHome
    PoolSize = 2
    Row = {r1, r2}
    r1 = r1
    r2 = r2
    MaxJob = 3
SPECIFICATION Spec
INVARIANTS TypeOK NobodyWaits
PROPERTIES QueryIsStable OperationEnds ImplementsTransactions
CHECK_DEADLOCK FALSE
