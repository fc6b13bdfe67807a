SPECIFICATION Spec
CONSTANTS
  Requests = {r1, r2}
  None = None
  MaxBegun = 3
  MaxWindows = 1
  Broken = "broken"
  BuiltIn = {"secret"}
  Configs <- MCConfigs
  Clients <- MCClients
  Answers <- MCAnswers
INVARIANTS TypeOK AdmittedByAll LimitHeld CacheSound
SYMMETRY RequestSymmetry
CHECK_DEADLOCK FALSE
