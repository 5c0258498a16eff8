\* Expected violation: an unblocked domain is in the generated configuration.
SPECIFICATION ConfigSpec
CONSTANTS
    MaxInc = 1
    MaxSignal = 0
    MaxLaunch = 1
    SystemProxy = TRUE
    Domain = {d1}
    CUSTOM = custom
    WHITELIST = whitelist
    ListName = {custom, whitelist}
PROPERTIES
    UnblockedIsNotRedirected
CHECK_DEADLOCK FALSE
