\* events of a running stream across reconnects and failed resyncs: order, pauses
\* that end and events that are applied
SPECIFICATION FairSpec
CONSTANTS
  Mainnet = FALSE
  EventKinds = {"OTHER"}
  Commands = {}
  Readings <- CalmReadings
  BufferLimit = 2
  DropsWhileBooting = FALSE
  MaxEvents = 2
  MaxSessions = 2
  MaxCommands = 0
  MaxRestFailures = 1
  MaxHealthFailures = 0
  MaxRestarts = 0
  MaxDays = 0
  MaxTasks = 2
INVARIANT EventsInOrder
INVARIANT EntriesNeedLiveStream
PROPERTY NoEventOvertakesSnapshot
PROPERTY StreamPauseEnds
PROPERTY EventsApplied
\* a stopped engine does nothing, and the bounds end every run
CHECK_DEADLOCK FALSE
