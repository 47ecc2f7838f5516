CONSTANTS
  a = a
  b = b
  Unrestricted = Unrestricted
  Label <- MCLabel
  Port <- MCPort
  Host <- MCHost
  Lists <- MCLists
SPECIFICATION Spec
INVARIANTS
  OpenStaysWithinLive
  CoversIsExact
