\* an entry with a target filled in part, an adjustment, a close, and a fault
SPECIFICATION Spec
CONSTANTS
  Reconcilers = {"sync"}
  OrderQty = 2
  Faults <- BookFaults
  StreamFirst = TRUE
  MaxOpens = 1
  MaxAdjusts = 1
  MaxCloses = 1
  MaxCrossings = 0
  MaxForeign = 0
  MaxFaults = 1
INVARIANT TypeOK
INVARIANT NothingDisowned
\* the bounds end every run
CHECK_DEADLOCK FALSE
