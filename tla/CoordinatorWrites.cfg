\* Three jobs and two workers with two slots each.
CONSTANTS
  Jobs = {j1, j2, j3}
  Workers = {w1, w2}
  NoWorker = NoWorker
  NoJob = NoJob
  Slots = 2
SPECIFICATION Spec
INVARIANTS TypeOK RowsAgree
PROPERTIES CallsAreAtomic
