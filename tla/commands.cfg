\* Three commands over two kinds of settings, two failed calls, two crashes.
SPECIFICATION Spec
CONSTANTS
  Kinds <- MCKinds
  MaxCommands = 3
  MaxFaults = 2
  MaxCrashes = 2
INVARIANT TypeOK
INVARIANT DoneIsStored
INVARIANT AnsweredInOrder
PROPERTY UpdatesStack
PROPERTY EveryCommandAnswered
\* when every command is answered the bounds leave nothing to do
CHECK_DEADLOCK FALSE
