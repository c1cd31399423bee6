\* One call of any kind: three maker attempts and a market order of two lots, two failures.
SPECIFICATION Spec
CONSTANTS
  Size = 2
  MinNotional = 3
  Prices <- MCPrices
  Requotes = 2
  Retries = 1
  Faults = 2
INVARIANT TypeOK
INVARIANT OneLiveOrder
INVARIANT NeverReverses
INVARIANT ExactWhenAnswered
PROPERTY CallEnds
PROPERTY KeepsContract
CHECK_DEADLOCK FALSE
