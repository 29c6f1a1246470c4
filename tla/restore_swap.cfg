SPECIFICATION Spec
CONSTANTS
  f1 = f1
  f2 = f2
  c1 = c1
  c2 = c2
  Files = {f1, f2}
  Configs = {c1, c2}
  Invalid = invalid
  Restorers = {r1}
  Nothing = nothing
  Crafted <- BadPackages
  MaxSize = 3
  MetaSize = 1
  MaxFiles = 2
  Overlap = FALSE
  Faults <- AllFaults
INVARIANTS OneGeneration Salvageable BackupWhole
PROPERTIES Refines
