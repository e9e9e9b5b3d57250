SPECIFICATION BuildSpec
CONSTANTS
  Trees <- MCFlowTrees
  Depth = 3
INVARIANT FrozenThaws
CHECK_DEADLOCK FALSE
