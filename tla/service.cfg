SPECIFICATION FairSpec
CONSTANTS
  Unset = Unset
  Blank = Blank
  Junk = Junk
  Noise = Noise
  DurationRange = 2048
  Default <- Defaults
  Requests = {q1, q2}
  Environs <- MCEnvirons
  ReadTimeout = 1
  LookupTimeout = 1
  DrainTimeout = 2
INVARIANTS
  TypeOK
  SettingsRight
  CloseMeetsNoRequest
  DeadlineCoversWait
  StatusTells
PROPERTIES
  ExitsAfterSignal
  RequestsEnd
