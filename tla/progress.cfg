SPECIFICATION ModesSpec
CONSTANTS
  f1 = f1
  f2 = f2
  f3 = f3
  d1 = d1
  d2 = d2
  w1 = w1
  w2 = w2
  n1 = n1
  Cleaner = cleaner
  NoActor = none
  Files = {f1, f2, f3}
  Digests = {d1, d2}
  Content <- SharedContent
  Workers = {w1}
  InitStatus <- AnyStatus
  Serial = TRUE
  Faults <- WriteFaults
INVARIANTS LiveHasEntity NoResidue
PROPERTIES EntityReclaimed RacingReturns ReadsSaved
CHECK_DEADLOCK FALSE
