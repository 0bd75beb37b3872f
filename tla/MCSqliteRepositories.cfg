SPECIFICATION Spec
CONSTANTS
  Workers = {w1}
  Jobs = {j1}
  Values = {v1, v2}
  Tags = {t1, t2}
  Times = {b1, b2}
  None = None
SYMMETRY Alike
INVARIANTS TypeOK NoOrphanTags ReferencesHold
PROPERTY ImplementsRepositories
