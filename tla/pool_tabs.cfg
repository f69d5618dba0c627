SPECIFICATION Spec
CONSTANTS
  j1 = j1
  j2 = j2
  r1 = r1
  r2 = r2
  b1 = b1
  b2 = b2
  b3 = b3
  b4 = b4
  nil = nil
  PoolSize = 1
  TabCap = 2
  MaxSolves = 2
  Jobs <- TwoJobs
  Replacers <- TwoReplacers
  Inst <- TwoInst
  NoInst = nil
SYMMETRY Symmetry
INVARIANTS
  TabsMatchLeases
  LeaseHasBrowser
  OneReplacement
  AdvertisedExact
  NoWorkerForgotten
PROPERTIES
  LeasesRefined
