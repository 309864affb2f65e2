SPECIFICATION PipelineFairSpec
CONSTANTS
  c1 = c1
  c2 = c2
  Candidates = {c1, c2}
  Unknown = {c2}
  Jobs <- MCJobs
  MaxAttempts <- MCMaxAttempts
  AssetOf <- MCAssetOf
  TopicOf <- MCTopicOf
  CandidateTargets = {"HELD"}
  CompositionTargets = {"RENDER_QUEUED"}
INVARIANTS
  PipelineTypeOK
  CompositionGrounded
  SimilarLinked
  TrendCounts
PROPERTIES
  NeverDisappears
CHECK_DEADLOCK FALSE
