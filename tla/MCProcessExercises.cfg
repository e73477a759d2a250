SPECIFICATION FairSpec
CONSTANTS
  MsgLen = 2
  BufLen = 3
  Capacity = 5
  Flood = 4
  Tries = 3
  MaxRuns = 3
  Rounds = 3
  Waits = 3
  MaxInterrupts = 1
  Children = {c1, c2, c3}
  Items = 5
  Slots = 2
  Writes = 2
  Repeats = 2
  Programs = {g1, g2, g3}
  Size = 2
  Steps = 3
  Loops = 1
  Few = 2
  Adds = 2
INVARIANTS
  ChannelsSafe
  MemorySafe
  ChildrenSafe
PROPERTY
  ProcessesEnd
CHECK_DEADLOCK FALSE
