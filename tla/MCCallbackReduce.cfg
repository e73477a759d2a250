SPECIFICATION FairSpec
CONSTANTS
  Workers = {w1, w2}
  N = 4
INVARIANTS
  NoLostWakeup
  Handout
  NobodyOutlives
PROPERTIES
  ComputesSum
  Finishes
