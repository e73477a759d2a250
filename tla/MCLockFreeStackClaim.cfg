SPECIFICATION Spec
CONSTANTS
  Pushers = {p1, p2}
  Poppers = {c1, c2}
  Ops = 1
  Addresses = {a1, a2}
  Null = Null
  Freed = Freed
  Untagged = Untagged
INVARIANT
  NoUseAfterFree
