CONSTANTS
  Workers = {w1, w2}
SPECIFICATION Spec
INVARIANTS StartDoor
CHECK_DEADLOCK FALSE
