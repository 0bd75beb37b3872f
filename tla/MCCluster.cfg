\* Three processes, two of them with the same identifier, and one job.
CONSTANTS
  p1 = p1  p2 = p2  p3 = p3
  a = a  b = b
  Jobs = {j1}
  Processes = {p1, p2, p3}
  Ids = {a, b}
  NoJob = NoJob
  NoId = NoId
  IdOf <- MCIdOf
  MaxAttempts <- MCMaxAttempts
  Slots = 2
  MaxFaults = 1
SPECIFICATION FairSpec
INVARIANTS TypeOK AttemptExecutedOnce
PROPERTIES CompletionIsGenuine ImplementsLifecycle HeldJobsEndUnlessShared QueuedJobIsServed
CHECK_DEADLOCK FALSE
