CONSTANTS
  Task = {t1, t2}
  Device = {phone}
  Shared = shared
  Key = {k1}
  None = none
  MaxInvites = 2
  MaxEdits = 3
  MaxCrashes = 1
  MaxOthers = 0
  SlowDisk = FALSE
SPECIFICATION Spec
SYMMETRY Connections
CHECK_DEADLOCK FALSE
INVARIANT TypeOK
INVARIANT TokenSpentOnce
INVARIANT EnrollmentStands
INVARIANT LiveIsOnDisk
