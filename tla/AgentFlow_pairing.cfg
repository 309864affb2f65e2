SPECIFICATION FlowSpec
CONSTANTS
  MaxIter = 1
  MaxCalls = 2
  MaxSteps = 1
  MaxMessages = 2
INVARIANT CallsAnswered
CHECK_DEADLOCK FALSE
