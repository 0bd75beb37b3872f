SPECIFICATION Spec
CONSTANTS
  j1 = j1
  j2 = j2
  j3 = j3
  Jobs = {j1, j2, j3}
  MaxAttempts <- MCMaxAttempts
INVARIANTS AttemptsBounded QueuedHasAttemptLeft
PROPERTY TerminalIsFinal
