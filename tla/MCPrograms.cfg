SPECIFICATION MCSpec
CONSTANTS
  N = 3
  MaxIter = 2
  Scores = {1, 2}
  Threshold = 2
  TopK = 2
  Concurrency = 2
  Rounds = 1
  a = a
  b = b
  c = c
  first = first
  second = second
  Node <- MCNode
  Root = a
  Children <- MCChildren
  Terminal <- MCTerminal
  Caller <- MCCallers
  MaxTurns = 3
  Script = 1
  p = p
  q = q
  NoValue = NoValue
  Param <- MCParam
  Value = {0, 1}
  Landscapes <- MCLandscapes
  Widths = {1, 2}
  HistoryK = 2
  Retries = 2
  Steps = 3
  Size = 3
  Fitness = {0, 1}
  MutRetries = 1
  Generations = 2
  Lineages = 7
  Strays = 1
  Trees <- MCTrees
  Depth = 3
INVARIANTS AlgorithmsSound ConversationSound SearchSound BuildSound
PROPERTIES RunsComplete SearchStepsSound EvolutionSound
CHECK_DEADLOCK FALSE
