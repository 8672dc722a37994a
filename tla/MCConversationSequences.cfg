SPECIFICATION Spec
CONSTANTS
  N = 3
  Cmds = {c1}
  MaxTurns = 2
  CarrySummary = FALSE
  NotificationThread = FALSE
  Ops = {"message", "edit", "retry", "redact", "undo", "new", "idle", "compact", "resume", "purge"}
  Faults = {"new", "post"}
  MaxCrashes = 0
  Patient = TRUE
INVARIANT RewoundStaysOut
INVARIANT HistoryKept
CHECK_DEADLOCK FALSE
VIEW SequencesView
