SPECIFICATION FairSpec
CONSTANTS
  Workers = {w1, w2, w3}
  Tasks = {t1, t2, t3}
  Owner = owner
  NoTask = NoTask
INVARIANTS
  TypeOK
  Bookkeeping
  Shutdown
  NoStrandedTask
PROPERTIES
  Progress
  KeepsPromise
