SPECIFICATION FairSpec
CONSTANTS
  NoCoroutine = nobody
  TaskNumbers = {1, 2, 3}
  Lines = 2
INVARIANTS
  FramesSafe
  PrintsRight
  SchedulersSafe
PROPERTIES
  ExamplesEnd
CHECK_DEADLOCK FALSE
