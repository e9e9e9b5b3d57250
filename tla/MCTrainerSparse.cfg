\* A batch may leave a parameter without a gradient.
SPECIFICATION Spec
CONSTANTS
  p1 = p1
  p2 = p2
  Param <- MCTwoParams
  Kinds <- MCOneKind
  Batches = 2
  BatchSize = 1
  Epochs = 1
  Steps = 2
  MaxConcurrent = 2
  MaxFits = 1
  Sparse = TRUE
  Failures = FALSE
SYMMETRY MCSymmetry
INVARIANTS StepCoversWindow
