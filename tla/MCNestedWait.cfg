SPECIFICATION FairSpec
CONSTANTS
  Workers = {w1, w2, w3}
  Parents = 3
  Children = 2
INVARIANTS
  OnePlace
  FreeWorker
PROPERTIES
  DeadlockIsForever
  Ends
