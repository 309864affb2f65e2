SPECIFICATION PublishSpec
CONSTANTS
  j1 = j1
  publish = publish
  Jobs = {j1}
  Workers = {w1, w2}
  Kinds = {publish}
  NoJob = NoJob
  KindOf <- MCKindOf
  NextTasks <- MCNextTasks
  MaxAttempts <- MCMaxAttempts
  UpdateTargets = {"CANCELLED", "FAILED"}
  CompositionTargets = {"REVIEW", "APPROVED", "FAILED", "PUBLISHED"}
  AccountTargets = {"ACTIVE", "PAUSED"}
SYMMETRY Symmetry
INVARIANTS
  PublishTypeOK
  PostedAtMostOnce
  RecordsAgree
PROPERTIES
  PostsWithAuthority
