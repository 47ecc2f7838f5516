SPECIFICATION Spec
CONSTANTS
  Slot = {phone, key}
  Named = {phone, key}
  KeySlot = {key}
  MaxAttempts = 2
  Duration = 2
  Window = 1
  MaxTime = 5
  MaxWrites = 1
  MaxCrashes = 1
INVARIANTS
  TypeOK
  
  LockoutIsDurable
  
PROPERTIES
  StepsOnlyMoveForward
  ExpiredLockoutRenewsBudget
