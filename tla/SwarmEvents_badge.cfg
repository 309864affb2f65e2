SPECIFICATION FairSpec
CONSTANTS
  Writers = {t1}
  Sockets = {c1, c2}
  BatchLimit = 2
  MaxSequence = 1
  MaxBreaks = 1
PROPERTIES
  BadgeTellsTheTruth
