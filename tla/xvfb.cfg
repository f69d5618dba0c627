SPECIFICATION FairSpec
CONSTANTS
  Services = {s1, s2}
  Pids = {p1, p2, p3}
  Attempts = 2
  NoFile = NoFile
  Unreadable = Unreadable
  NoPid = NoPid
INVARIANTS
  TypeOK
  RunningKeepsFiles
  ReadyMeansUp
  NoXvfbLost
PROPERTIES
  StartEnds
