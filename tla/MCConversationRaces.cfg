SPECIFICATION Spec
CONSTANTS
  N = 2
  Cmds = {c1, c2}
  MaxTurns = 1
  CarrySummary = FALSE
  NotificationThread = FALSE
  Ops = {"message", "retry", "stop", "redact", "undo", "resume"}
  Faults = {"send"}
  MaxCrashes = 1
  Patient = FALSE
INVARIANT TypeOK
INVARIANT OneLive
INVARIANT RegisteredUnlessRerun
INVARIANT AnswersOnRecord
CHECK_DEADLOCK FALSE
SYMMETRY CmdSymmetry
VIEW RacesView
