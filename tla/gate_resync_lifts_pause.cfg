\* a stream fault, then an operator pause
SPECIFICATION Spec
CONSTANTS
  Mainnet = FALSE
  EventKinds = {}
  Commands = {"PAUSE"}
  Readings <- CalmReadings
  BufferLimit = 2
  DropsWhileBooting = FALSE
  MaxEvents = 0
  MaxSessions = 2
  MaxCommands = 1
  MaxRestFailures = 0
  MaxHealthFailures = 0
  MaxRestarts = 0
  MaxDays = 0
  MaxTasks = 1
PROPERTY ResyncLiftsOnlyStreamPause
\* a stopped engine does nothing, and the bounds end every run
CHECK_DEADLOCK FALSE
