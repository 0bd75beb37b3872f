SPECIFICATION FairSpec
CONSTANTS
  WorkBound = 6
  Interval = 4
INVARIANT StopsWithinOnePhase
PROPERTY StopLeadsToJoin
