\* A process is started with the identifier of another one, and one job.
CONSTANTS
  p1 = p1  p2 = p2  p3 = p3
  a = a  b = b
  Jobs = {j1}
  Processes = {p1, p2}
  Ids = {a}
  NoJob = NoJob
  NoId = NoId
  IdOf <- MCIdOf
  MaxAttempts <- MCMaxAttempts
  Slots = 2
  MaxFaults = 0
SPECIFICATION FairSpec
PROPERTIES HeldJobsEnd
CHECK_DEADLOCK FALSE
