\* Two requests of every kind, one reload: the gauge and completion.
SPECIFICATION FairSpec
CONSTANTS
  Reqs = {r1, r2}
  p1 = p1
  p2 = p2
  None = None
  Kinds = {"fast", "metrics", "method", "admin", "api"}
  Providers <- MCProviders
  Paths <- MCPaths
  Configs <- MCConfigs
  InitialConfigs <- MCConfigs
  MaxReloads = 1
INVARIANTS
  TypeOK
  GaugeAccounts
PROPERTY Completes
