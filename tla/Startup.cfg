\* Two processes, two jobs, and files of versions 0 to 5 with current version 4.
CONSTANTS
  Processes = {p1, p2}
  Jobs = {j1, j2}
  NoProcess = NoProcess
  Current = 4
SPECIFICATION FairSpec
INVARIANTS TypeOK SchemaInv QueueMirrorsRows
PROPERTIES FinishedStaysFinished LoneProcessStarts
