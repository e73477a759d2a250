SPECIFICATION Spec
CONSTANTS
  Workers = {w1, w2}
  Parents = 2
  Children = 2
INVARIANT
  NeverCompletes
