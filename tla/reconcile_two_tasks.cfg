\* a preview whose queries of orders outlive it, and the preview after it
SPECIFICATION Spec
CONSTANTS
  Positions <- MCPositions
  Kinds <- MCKinds
  MaxFills = 2
  MaxTasks = 2
  MaxRuns = 1
  MaxFaults = 1
  MaxRestarts = 0
\* a database without requests to come stands still
CHECK_DEADLOCK FALSE
INVARIANT OneActiveTask
