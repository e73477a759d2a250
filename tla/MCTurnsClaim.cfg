SPECIFICATION ReadyQueueSpec
CONSTANTS
  NoCoroutine = nobody
  TaskNumbers = {1, 2}
  Lines = 5
INVARIANT TakeTurns
CHECK_DEADLOCK FALSE
