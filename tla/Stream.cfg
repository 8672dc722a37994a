SPECIFICATION Spec
CONSTANTS
  C = 3
  Subscriber = {d1, d2}
  Modes = {{"edits"}, {"deltas"}}
  MaxBuffered = 1
  MaxAsks = 2
  MaxFails = 1
INVARIANTS TypeOK OneStraggler OncePerRequest
PROPERTIES WindsDown
CHECK_DEADLOCK FALSE
