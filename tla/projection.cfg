\* a position and an order, with every kind of fault and one write past the queue
SPECIFICATION FairSpec
CONSTANTS
  Positions <- MCPositions
  Orders <- MCOrders
  p = p
  o = o
  BufferLimit = 2
  MaxChanges = 2
  MaxFaults = 2
  MaxWrites = 1
INVARIANT TypeOK
INVARIANT OneEventUnapplied
INVARIANT TablesFollowMemory
INVARIANT SettledIsTrue
PROPERTY Converges
\* a dead coordinator task stops the engine: every drain() waits for ever
CHECK_DEADLOCK FALSE
