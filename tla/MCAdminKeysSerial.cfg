\* One thread: operations do not overlap, but a store call may fail.
SPECIFICATION Spec
CONSTANTS
  Threads = {t1}
  Keys = {k1, k2}
  Teams = {m1, m2}
  NoTeam = NoTeam
  Unknown = Unknown
  Operations <- AllOperations
  MaxCalls = 6
  ResetDays = 1
  MaxTime = 2
  StoreErrors = TRUE
SYMMETRY AdminSymmetry
INVARIANTS
  CountersMatchLog
  CountersCoverLog
PROPERTY RevokedStaysRevoked
