SPECIFICATION FairSpec
CONSTANTS
  Writers = {t1, t2}
  Sockets = {c1, c2}
  BatchLimit = 2
  MaxSequence = 3
  MaxBreaks = 2
INVARIANTS
  EventsTypeOK
  NothingMissed
PROPERTIES
  CatchesUp
