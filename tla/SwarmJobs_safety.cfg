SPECIFICATION Spec
CONSTANTS
  j1 = j1
  j2 = j2
  k1 = k1
  Jobs = {j1, j2}
  Workers = {w1, w2}
  Kinds = {k1}
  NoJob = NoJob
  KindOf <- MCKindOf
  NextTasks <- MCNextTasks
  MaxAttempts <- MCMaxAttempts
  UpdateTargets = {"QUEUED", "CLAIMED", "RUNNING", "WAITING_RETRY", "FAILED",
                   "SUCCEEDED", "CANCELLED", "DEAD_LETTER"}
SYMMETRY Symmetry
INVARIANTS
  TypeOK
  AppliedExactlyOnce
  RetriesBounded
  SettledAgree
PROPERTIES
  CancelledNeverApplied
  SettledForGood
