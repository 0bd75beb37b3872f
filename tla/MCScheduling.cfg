CONSTANTS
  Jobs <- MCJobs
  Workers <- MCWorkers
  Priority <- MCPriority
  CreatedAt <- MCCreatedAt
  CpuNeed <- MCCpuNeed
  MemNeed <- MCMemNeed
  Compatible <- MCCompatible
  Cpu <- MCCpu
  Mem <- MCMem
  Slots <- MCSlots
SPECIFICATION Spec
INVARIANTS
  TypeOK
  PlanServesFirstDispatchable
  PopTakesHead
  RoundServesEachOnce
PROPERTY LeastLoadedSpreads
