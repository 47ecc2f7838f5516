CONSTANTS
  Task = {t1}
  Device = {phone}
  Shared = shared
  Key = {k1}
  None = none
  MaxInvites = 1
  MaxEdits = 2
  MaxCrashes = 1
  MaxOthers = 2
  SlowDisk = FALSE
SPECIFICATION FairSpec
CHECK_DEADLOCK FALSE
PROPERTY EditsAreApplied
