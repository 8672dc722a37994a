SPECIFICATION MirrorSpec
CONSTANTS
  N = 3
  Note = {1, 2, 3}
  Unkeyed = {}
  QueueSize = 2
  MaxMishaps = 2
  M = 2
  MaxBreaks = 1
  Low = {2}
INVARIANTS OncePerKey ToldTheTruth NoSilentHole
PROPERTIES PostedInOrder EveryMessageMirrored
CHECK_DEADLOCK FALSE
