\* The same: notes are lost.
SPECIFICATION DashSpec
CONSTANTS
  Gone = Gone
  Runs = 2
  Endings <- MCEndings
  RunCapacity = 1
  PerRun = 2
  QueueSize = 2
  Budgets <- MCBudgets
INVARIANTS NotesSurvive

CHECK_DEADLOCK FALSE
