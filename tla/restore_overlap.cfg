\* Expected to be violated: the cleanup goroutine purges beside a restore.
SPECIFICATION Spec
CONSTANTS
  f1 = f1
  f2 = f2
  c1 = c1
  c2 = c2
  Files = {f1, f2}
  Configs = {c1}
  Invalid = invalid
  Restorers = {r1}
  Nothing = nothing
  Crafted <- NoPackages
  MaxSize = 3
  MetaSize = 1
  MaxFiles = 2
  Overlap = TRUE
  Faults <- NoFaults
INVARIANT OneGeneration
