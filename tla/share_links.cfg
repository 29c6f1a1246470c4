SPECIFICATION LinksSpec
CONSTANTS
  n1 = n1
  f1 = f1
  sn = sn
  sf = sf
  Notes = {n1}
  Files = {f1}
  Pads = {}
  Shares = {sn, sf}
  Target <- Targets
  MaxAccess <- Limits
  ReadLimit <- TwoReads
  Clients = {c1, c2}
  Workers = {w1, w2}
  MaxParallel = 2
  MaxUses = 2
  Faults <- AllFaults
SYMMETRY Visitors
INVARIANTS AudienceBounded DeadNeverServed BusyExact SessionsPaid ReadLimitHolds
CHECK_DEADLOCK FALSE
