SPECIFICATION FairSpec
CONSTANTS
  Workers = {w1, w2}
  ReduceItems = 3
  Sizes = {1, 2, 3, 4, 5}
  Width = 32
  CoverSizes = {1, 2, 3, 4, 5}
  ThreadNumbers = {0, 1, 2, 3, 4}
  Cores = {0, 2}
  PoolThreads = {p1}
  Helpers = {h1, h2}
  PoolOwner = owner
  PoolTasks = {t1, t2, t3}
  GateThreads = {0, 1, 3}
  TotalTasks = 3
  TotalWork = 4
  Operations = 6
  NumThreads = 2
  BatchSizes = {2}
  Iterations = 2
  Totals = {3, 5}
  Parts = {1, 2, 4}
  Grains = {1, 2}
  StealThreads = {x1, x2, x3}
  Outer = 4
  Inner = 2
INVARIANTS
  PoolsSafe
  PartsAddUp
  CountsExact
  NestedLock
PROPERTIES
  Reduces
  PoolProgress
  GroupKeepsPromise
  BenchmarksEnd
CHECK_DEADLOCK FALSE
