SPECIFICATION FairSpec
CONSTANTS
  A = {a1, a2, a3}
  B = {b1, b2, b3}
  Few = {b1, b2}
  Ops = 1
  Addresses = {x1, x2}
  Freed = freed
  Untagged = untagged
  NoCargo = none
  Dummy = dummy
  Items = 2
  Stock = 2
  Rounds = 3
INVARIANTS
  LockSafe
  ExercisesSafe
  LockFreeSafe
  LessonsSafe
PROPERTIES
  StackIsLifo
  ProgramsFinish
CHECK_DEADLOCK FALSE
