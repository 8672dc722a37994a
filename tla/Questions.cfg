SPECIFICATION Spec
CONSTANTS
  M = 2
  Q = 2
  Free = {2}
  AskLimit = 1
  Talks = FALSE
  Faults = {"answer", "post"}
INVARIANTS PendingIsAwaited DropGoesOn
PROPERTIES TurnsEnd PausedCallResolved
CHECK_DEADLOCK FALSE
