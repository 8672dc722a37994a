SPECIFICATION Spec
CONSTANTS
  Action = {a1, a2, a3}
  MaxAttempts = 2
  Limit = 2
  MaxMishaps = 1
INVARIANTS OnceUnlessExcused
PROPERTIES KeepsPromise PendingSettles
CHECK_DEADLOCK FALSE
