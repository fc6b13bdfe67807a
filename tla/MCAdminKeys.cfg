\* Two threads, all operations.
SPECIFICATION Spec
CONSTANTS
  Threads = {t1, t2}
  Keys = {k1}
  Teams = {m1}
  NoTeam = NoTeam
  Unknown = Unknown
  Operations <- AllOperations
  MaxCalls = 5
  ResetDays = 1
  MaxTime = 2
  StoreErrors = FALSE
SYMMETRY AdminSymmetry
INVARIANTS
  TypeOK
  NeverOverbilled
PROPERTY RevocationIsFinal
