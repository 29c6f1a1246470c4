SPECIFICATION Spec
CONSTANTS
  Notes = {n1}
  Files = {f1}
  Workers = {w1}
  Limits = {0, 1}
  NoJob = nojob
  MaxReads = 2
  Faults <- AllFaults
INVARIANTS CountsExact BackupExact LimitsHold
CHECK_DEADLOCK FALSE
