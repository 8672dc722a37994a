SPECIFICATION Spec
CONSTANTS
  M = 1
  Q = 1
  Free = {}
  AskLimit = 3
  Talks = TRUE
  Faults = {}
INVARIANTS SaidOnce
CHECK_DEADLOCK FALSE
