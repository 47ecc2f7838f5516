SPECIFICATION Spec
CHECK_DEADLOCK FALSE
CONSTANTS
  Conn = {c1, c2}
  a = a
  d = d
  t1 = t1
  t2 = t2
  Client <- MCClient
  Device <- MCDevice
  Target <- MCTarget
  Contents <- MCContents
  NoClient = NoClient
  NoDevice = NoDevice
  MaxEdits = 2
  EditsDuringStartup = FALSE
  SlowBind = FALSE
INVARIANT GateClosesUnauthenticated
