SPECIFICATION ChatSpec
CONSTANTS
  Tabs = {c1}
  MaxChats = 2
  FlowKinds = {"event"}
  MaxOut = 1
  MaxRestarts = 1
INVARIANTS
  ChatTypeOK
  SettledStatus
  DrainedStream
PROPERTY StreamsEnd
\* With no frame sent the tabs rest.
CHECK_DEADLOCK FALSE
