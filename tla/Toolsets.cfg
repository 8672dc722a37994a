SPECIFICATION Spec
CONSTANTS
  T = 2
  C = 2
  Overlap = TRUE
  Commands = {"new+", "toggle", "list", "purge"}
  Defaults = {FALSE}
  Idles = {TRUE}
  Restarts = 1
  Faults = {"set", "expire"}
PROPERTIES OwnSwitchOnly IdleIsOff SwitchesOff
CHECK_DEADLOCK FALSE
