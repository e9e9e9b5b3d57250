\* Two runs, agents that raise, and cancellations; four operations on one of six
\* trees.
SPECIFICATION MCSpec
CONSTANTS
  Sites <- MCSites
  Root = "root"
  Kids <- MCKids
  Gathers <- MCGathers
  Routers <- MCRouters
  Path <- MCPath
  Runs = 2
  Faults = {"raise", "cancel"}
  None = None
  Families <- MCFamilies
  Edit <- MCEdit
  Compounds <- MCCompounds
  FlagCalls <- MCFlagCalls
  Written = {1, 2}
  Depth = 2
  Configs = 9
  Moves = 4
INVARIANTS TapeSound RunsApart EditsSound
PROPERTY CallsEnd
CHECK_DEADLOCK FALSE
