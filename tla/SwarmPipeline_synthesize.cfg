SPECIFICATION PipelineSpec
CONSTANTS
  c1 = c1
  c2 = c2
  Candidates = {c1}
  Unknown = {}
  Jobs <- MCJobs
  MaxAttempts <- MCMaxAttempts
  AssetOf <- MCAssetOf
  TopicOf <- MCTopicOf
  CandidateTargets = {"HELD"}
  CompositionTargets = {"RENDER_QUEUED"}
PROPERTIES
  SynthesisEnqueued
CHECK_DEADLOCK FALSE
