\* an entry, a crossed stop, somebody else on the symbol, and any fault
SPECIFICATION Spec
CONSTANTS
  Reconcilers = {"sync"}
  OrderQty = 1
  Faults <- ProtectFaults
  StreamFirst = TRUE
  MaxOpens = 1
  MaxAdjusts = 0
  MaxCloses = 0
  MaxCrossings = 1
  MaxForeign = 1
  MaxFaults = 1
PROPERTY EventuallyProtected
PROPERTY EventuallyClean
\* the bounds end every run
CHECK_DEADLOCK FALSE
