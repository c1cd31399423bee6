\* Two previews and any number of applies over two fills, one failure, one restart.
SPECIFICATION Spec
CONSTANTS
  Positions <- MCPositions
  Kinds <- MCKinds
  MaxFills = 2
  MaxTasks = 2
  MaxRuns = 2
  MaxFaults = 1
  MaxRestarts = 1
CHECK_DEADLOCK FALSE
INVARIANT TypeOK
INVARIANT ActiveRunIsTrue
INVARIANT CyclesFollowPosition
PROPERTY SlotFreed
