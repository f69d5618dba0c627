SPECIFICATION Spec
CONSTANTS
  Services = {s1}
  Pids = {p1, p2}
  Attempts = 1
  NoFile = NoFile
  Unreadable = Unreadable
  NoPid = NoPid
PROPERTIES
  CrashNoticed
