SPECIFICATION MirrorSpec
CONSTANTS
  N = 2
  Note = {1, 2}
  Unkeyed = {}
  QueueSize = 1
  MaxMishaps = 0
  M = 2
  MaxBreaks = 0
  Low = {}
INVARIANT FailedIsRetried
CHECK_DEADLOCK FALSE
