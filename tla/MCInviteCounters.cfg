CONSTANTS
  MaxAttempts = 2
  MaxInvites = 3
  MaxGuesses = 3
  SlowDisk = FALSE
SPECIFICATION Spec
INVARIANT TypeOK
INVARIANT GuessesArePaidByTheirToken
