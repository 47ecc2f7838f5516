CONSTANTS
  Task = {t1, t2}
  Device = {phone}
  Shared = shared
  Key = {k1}
  None = none
  MaxInvites = 2
  MaxEdits = 3
  MaxCrashes = 0
  MaxOthers = 0
  SlowDisk = FALSE
SPECIFICATION Spec
CHECK_DEADLOCK FALSE
PROPERTY DropsItsOwnToken
