\* The lists change, the program reloads, dies and is started again.
SPECIFICATION MCSpec
CONSTANTS
    MaxInc = 2
    MaxSignal = 1
    MaxLaunch = 2
    SystemProxy = TRUE
    Domain = {d1}
    CUSTOM = custom
    WHITELIST = whitelist
    ListName = {custom, whitelist}
INVARIANTS
    ProxyIsCurrent
    StoppedRedirectsNothing
    RedirectsForService
    ReloadApplies
    PidfileFollowsMaster
    ProxyRestored
ACTION_CONSTRAINTS
    ListsStay
CHECK_DEADLOCK FALSE
