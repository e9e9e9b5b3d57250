\* Two runs that share a registry of one; two trainings, the second of which
\* may lap a slow client; a file of up to three rows; fits of two epochs.
SPECIFICATION MCSpec
CONSTANTS
  Gone = Gone
  Runs = 2
  Endings <- MCEndings
  RunCapacity = 1
  PerRun = 2
  QueueSize = 2
  Budgets <- MCBudgets
  Client = {c1, c2}
  QueueMax = 5
  Trainings = 2
  RowId = {x, y}
  Unrated = Unrated
  Rating = {1, 5}
  Rows = 3
  Writes = 6
\* Trainer: each batch gives each parameter a gradient, and a fit may follow one that raised.
  p1 = p1
  p2 = p2
  Param <- MCTwoParams
  Kinds <- MCOneKind
  Batches = 3
  BatchSize = 2
  Epochs = 2
  Steps = 2
  MaxConcurrent = 2
  MaxFits = 2
  Sparse = FALSE
  Failures = TRUE
\* Backprop
  TapePaths <- MCTapes
  Up <- MCUp
  Split <- MCSplit
  Selector = {"select"}
  Trained <- MCTrained
  Concurrency = 1
  Backwards = 3
  NoTrace = NoTrace
\* TrainReplay
  Owned <- MCOneLeaf
  Gives <- MCGives
  TapeEpochs = 2
  TapeBatches = 3
  TapeSteps = 2
  Recordings = 2
  Replays = 2
\* Resume
  Schedules <- MCSchedules
  BaseRate = 64
  HistoryK = 2
  EpochBound = 4
  StepBound = 4
  FitEpochs = {1, 3}
  CrashBound = 2
\* Fits
  Dataset = 3
  LoaderSize = 2
  Scores = {0, 1, 2}
  Patience = 1
  FitBound = 2
  FitLength = 2
  Monitored = TRUE
\* Uthereal
  Entries <- MCEntries
  Target = {"reasoner", "conv_talker"}
  PromptTexts = {0, 1}
  Sayings = {"t1"}
  CommandBound = 5
  Missing = Missing
INVARIANTS ArchiveSound StreamsSound RatingsReachLoss StepCoversWindow StepsSound
INVARIANTS GradientsSound ReplayRestores ResumesAsPlanned CallbacksSound LoopSound
CHECK_DEADLOCK FALSE
