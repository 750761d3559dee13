CONSTANTS
  Calls = {r, w}
  Writes = {w}
  MaxAttempts = 3
SPECIFICATION FairSpec
INVARIANTS
  AppliedAtMostOnce
PROPERTIES
  KeepsPromise
  EveryCallReturns
CHECK_DEADLOCK FALSE
