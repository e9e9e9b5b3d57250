\* The parameter of one leaf is restored into the other.
SPECIFICATION ReplaySpec
CONSTANTS
  Owned <- MCTwoLeaves
  Gives <- MCGives
  TapeEpochs = 2
  TapeBatches = 2
  TapeSteps = 2
  Recordings = 1
  Replays = 1
INVARIANTS ReplayRestores
CHECK_DEADLOCK FALSE
