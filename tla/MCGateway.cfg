\* Three API requests, one reload: breakers, selection, route indices.
SPECIFICATION Spec
CONSTANTS
  Reqs = {r1, r2, r3}
  p1 = p1
  p2 = p2
  None = None
  Kinds = {"api"}
  Providers <- MCProviders
  Paths <- MCPaths
  Configs <- LeanConfigs
  InitialConfigs <- LeanOnly
  MaxReloads = 1
SYMMETRY ReqSymmetry
INVARIANTS
  UnavailableIsEarned
  FallbackIsEarned
  PanicNeedsShrink
