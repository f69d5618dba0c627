SPECIFICATION FairSpec
CONSTANTS
  Jobs = {j1, j2}
  Tabs = 2
INVARIANTS
  TypeOK
  AloneIsFresh
  CountsAnswers
  FetchedAfterClick
  SolveInv
PROPERTIES
  SolveEnds
