SPECIFICATION FairSpec
CONSTANTS
  j1 = j1
  j2 = j2
  k1 = k1
  Jobs = {j1}
  Workers = {w1, w2, w3}
  Kinds = {k1}
  NoJob = NoJob
  KindOf <- MCKindOf
  NextTasks <- MCNextTasks
  MaxAttempts <- MCThreeAttempts
  UpdateTargets = {}
INVARIANTS
  OneLeaseHolder
  RowsMatchTasks
PROPERTIES
  KeepsPromise
  EveryJobSettles
