\* Expected to be violated: retention removes the newest event, the chain restarts.
SPECIFICATION Spec
CONSTANTS
  Every = 2
  Caps = {1, 5, 10}
  MaxSeq = 6
  NoBase = nobase
INVARIANT AlwaysVerifiable
CHECK_DEADLOCK FALSE
