\* One client at a time: the store implements its abstract policy.
SPECIFICATION Spec
CONSTANTS
  Domain = {d1, d2}
  CUSTOM = CUSTOM
  WHITELIST = WHITELIST
  ListName = {CUSTOM, WHITELIST, ads}
  Client = {a}
  MaxId = 4
  FatalWarnings = TRUE
  d1 = d1
  d2 = d2
  ads = ads
  a = a
PROPERTIES
  ImplementsPolicy
