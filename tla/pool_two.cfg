SPECIFICATION Spec
CONSTANTS
  j1 = j1
  j2 = j2
  r1 = r1
  r2 = r2
  b1 = b1
  b2 = b2
  b3 = b3
  b4 = b4
  nil = nil
  PoolSize = 2
  TabCap = 1
  MaxSolves = 1
  Jobs <- TwoJobs
  Replacers <- TwoReplacers
  Inst <- FourInst
  NoInst = nil
SYMMETRY Symmetry
INVARIANTS
  TypeOK
  SlotConserved
  SendNeverBlocks
  NoBrowserLeak
  PublishedNotClosed
  PoolInv
PROPERTIES
  LeasesRefined
