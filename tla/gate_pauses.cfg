\* mainnet: the restart guard and other pauses under stream faults, margin calls, a
\* full buffer, incomplete readings, a command and a restart
SPECIFICATION Spec
CONSTANTS
  Mainnet = TRUE
  EventKinds = {"MARGIN_CALL", "REVIEW"}
  Commands = {"PAUSE", "FLATTEN", "RESUME", "RESUME_ALL", "RISK", "STOP"}
  BufferLimit = 1
  DropsWhileBooting = TRUE
  MaxEvents = 2
  MaxSessions = 1
  MaxCommands = 1
  MaxRestFailures = 0
  MaxHealthFailures = 1
  MaxRestarts = 1
  MaxDays = 0
  MaxTasks = 1
  Readings <- RoughReadings
INVARIANT TypeOK
INVARIANT RestartGuard
PROPERTY OnlyOperatorLifts
\* a stopped engine does nothing, and the bounds end every run
CHECK_DEADLOCK FALSE
