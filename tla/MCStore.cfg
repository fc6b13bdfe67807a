SPECIFICATION Spec
CONSTANTS
  Threads = {t1, t2}
  KeyIds = {k1}
  TeamIds = {m1}
  Vals = {v1, v2}
  Models = {gpt}
  All = All
  NoOne = NoOne
  MaxCalls = 3
INVARIANTS TypeOK IndexAgrees SpendHasItsKey
PROPERTIES Implements EveryCallReturns
CHECK_DEADLOCK FALSE
