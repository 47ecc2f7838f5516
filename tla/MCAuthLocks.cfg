SPECIFICATION FairSpec
CHECK_DEADLOCK FALSE
CONSTANTS
  Counting = {handshake, watcher}
  Enrolling = {enroll}
  Deadlined = {handshake, enroll}
  None = None
INVARIANTS
  TypeOK
  PersistedIsOnDisk
PROPERTIES
  StateFileNeverGoesBack
  
  CountsReachTheFile
