SPECIFICATION FairSpec
CONSTANTS
  j1 = j1
  j2 = j2
  w1 = w1
  NoWorker = NoWorker
  Jobs = {j1, j2}
  Workers = {w1}
  Req <- MCReq
  Capacity <- MCCapacity
  Slots <- MCSlots
  Compatible <- MCCompatible
  MaxAttempts <- MCMaxAttempts
  Priority <- MCPriority
  CreationRank <- MCCreationRank
  LeaseDuration = 2
  HeartbeatTimeout = 1
  MaxTime = 3
  MaxInFlight = 0
PROPERTY ExpiredLeaseIsSettled
