SPECIFICATION FairSpec
CONSTANTS
  Capacity = 4
  Total = 7
  Nothing = Nothing
INVARIANTS
  NoSlotRace
  Fifo
PROPERTY
  AllArrive
