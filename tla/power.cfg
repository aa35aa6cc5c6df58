CONSTANTS
  MaxCmds = 3
  MaxSuspends = 3
  MaxFaults = 2
SPECIFICATION Spec
PROPERTIES CommandsBeforeSleep
CHECK_DEADLOCK FALSE
