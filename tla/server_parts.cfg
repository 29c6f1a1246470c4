SPECIFICATION PartsSpec
CONSTANTS
  Writes = {1, 2, 3}
  Absent = absent
  Faults <- AllFaults
  Keys = {k1, k2}
  NoKey = nokey
  Token = token
  Bare = bare
  Requests = {w1, w2}
  Ips = {i1, i2}
  Tickets = {t1, t2}
  Objects = {o1}
  Nodes = {n1}
  Twins = {f1, f2}
  Bytes = bytes
  Cleaner = cleaner
  NoActor = none
SYMMETRY Symmetric
INVARIANTS Shown Recoverable FallbackCurrent
INVARIANTS AdmittedForReason StaleKeyBounded VerifyBounded CountedOnce ServedIsCounted
INVARIANTS WholeOrError DepartedForgotten RacingKept
PROPERTIES SweepsExact
CHECK_DEADLOCK FALSE
