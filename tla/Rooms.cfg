SPECIFICATION Spec
CONSTANTS
  K = 2
  L = 1
  M = 9
  Tasks = {a}
  Requests = {"reload", "new room", "restart"}
  Asks = 2
  Overlap = TRUE
  Edits = 1
  Faults = {"register", "read", "create", "record", "patch", "put", "forget", "clear"}
  Mishaps = 1
  a = a
INVARIANTS MapsAgree NothingMoreSent OneRoomEach AnnouncedOnce
PROPERTIES ComesUp
CHECK_DEADLOCK FALSE
