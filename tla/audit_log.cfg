SPECIFICATION PartsSpec
CONSTANTS
  Every = 3
  Caps <- SmallCaps
  MaxSeq = 10
  NoBase = nobase
  Clients = {c}
  Calls = {w1, w2}
  Edits = {e1, e2}
  MaxVersion = 3
  MaxQueue = 1
  MaxRestores = 0
SYMMETRY Symmetric
INVARIANTS Verifiable NoFalseAlarm Covered TailShort CleanIsStored
PROPERTY NoLostUpdate
CHECK_DEADLOCK FALSE
