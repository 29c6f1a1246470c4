SPECIFICATION PartsSpec
CONSTANTS
  MaxGen = 4
  Absent = absent
  Torn = torn
  Down = down
  Faults <- Everything
  SecondMishap = FALSE
  Clients = {c}
  Calls = {k1}
  Edits = {e1, e2}
  MaxVersion = 3
  MaxQueue = 1
  MaxRestores = 1
SYMMETRY Symmetric
INVARIANT NothingLost
PROPERTIES StoredBeforeSeen Refines NoLostUpdate
CHECK_DEADLOCK FALSE
