SPECIFICATION FairSpec
CONSTANTS
  MaxCalls = 2
  DialTries = 2
INVARIANTS
  TypeOK
  RightAnswer
  SessionHasTab
PROPERTIES
  CallEnds
  TabClosed
