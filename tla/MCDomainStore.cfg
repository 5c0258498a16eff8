\* Two clients on the shared database: command lines, connections, the updater.
SPECIFICATION Spec
CONSTANTS
  Domain = {d1}
  CUSTOM = CUSTOM
  WHITELIST = WHITELIST
  ListName = {CUSTOM, WHITELIST, ads}
  Client = {a, b}
  MaxId = 3
  FatalWarnings = FALSE
  d1 = d1
  ads = ads
  a = a
  b = b
SYMMETRY Sym
INVARIANTS
  TypeOK
  ReferentialIntegrity
PROPERTIES
  WhitelistOnlySeeded
  WhitelistKept
  NoDomainLost
  ImplementsSharedPolicy
