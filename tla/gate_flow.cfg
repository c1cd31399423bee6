\* transfers, drawdowns and a new day; every balance parses
SPECIFICATION Spec
CONSTANTS
  Mainnet = FALSE
  EventKinds = {"TRANSFER"}
  Commands = {"RISK"}
  Readings <- ValidReadings
  BufferLimit = 1
  DropsWhileBooting = FALSE
  MaxEvents = 1
  MaxSessions = 1
  MaxCommands = 1
  MaxRestFailures = 0
  MaxHealthFailures = 0
  MaxRestarts = 0
  MaxDays = 1
  MaxTasks = 1
PROPERTY DrawdownTripIsAttributed
\* a stopped engine does nothing, and the bounds end every run
CHECK_DEADLOCK FALSE
