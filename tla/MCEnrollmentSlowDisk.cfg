CONSTANTS
  Task = {t1, t2}
  Device = {phone}
  Shared = shared
  Key = {k1}
  None = none
  MaxInvites = 1
  MaxEdits = 2
  MaxCrashes = 0
  MaxOthers = 0
  SlowDisk = TRUE
SPECIFICATION Spec
CHECK_DEADLOCK FALSE
INVARIANT TokenSpentOnce
