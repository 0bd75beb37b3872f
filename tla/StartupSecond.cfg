\* Two processes and one job on a file of the current version or an older one.
CONSTANTS
  Processes = {p1, p2}
  Jobs = {j1}
  NoProcess = NoProcess
  Current = 4
SPECIFICATION Spec
PROPERTY RecoversAbandonedOnly
