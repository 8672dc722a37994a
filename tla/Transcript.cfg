SPECIFICATION Spec
CONSTANTS
  T = 2
  Calls = 2
  Confirm = {2}
  R = 1
  AskLimit = 1
  Reruns = TRUE
  Seeded = TRUE
  Commands = 1
  Faults = {"model", "append", "post", "process"}
  Mishaps = 1
INVARIANTS OnlyAllowed OneRecordEach NamedOnRecord
PROPERTIES UndoTakesNoOther TurnsEnd
CHECK_DEADLOCK FALSE
