\* One open and one close call beside manual fills, pages of two; one lost event, failure or restart.
SPECIFICATION Spec
CONSTANTS
  MaxFills = 3
  Manual <- ManualFills
  Page = 2
  Overlap = 2
  Fallback = 6
  MaxFaults = 1
INVARIANT TypeOK
INVARIANT ArchivedOnce
INVARIANT OnlyUnreportedEntriesEscape
INVARIANT SyncCoversWindow
PROPERTY UnknownIsResolved
