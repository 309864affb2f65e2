SPECIFICATION DispatchFairSpec
CONSTANTS
  j1 = j1
  j2 = j2
  k1 = k1
  Jobs = {j1, j2}
  Workers = {w1}
  Kinds = {k1}
  NoJob = NoJob
  KindOf <- MCKindOf
  NextTasks <- MCNextTasks
  MaxAttempts <- MCMaxAttempts
  UpdateTargets = {}
  RelayLimit = 2
  MaxPending = 2
  MaxQueued = 1
INVARIANTS
  DispatchTypeOK
PROPERTIES
  RelayKeepsWork
  DeliveryIsFair
