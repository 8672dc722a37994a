SPECIFICATION OwuiSpec
CONSTANTS
  C = 2
  MaxAsks = 2
  Grace = 2
  Setups = {{"stream"}, {"stream", "features"}, {"stream", "token"}, {"stream", "token", "features"}, {}}
  MaxFaults = 2
INVARIANTS OwuiTypeOK ReplyTellsTheEnd ShownStands AskedOnce
PROPERTIES CallsReturn
CHECK_DEADLOCK FALSE
