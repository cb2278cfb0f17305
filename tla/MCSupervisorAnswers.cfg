SPECIFICATION Spec
CONSTANTS
  Ops = {o1, o2}
  Versions = {v1, v2}
  None = None
  Watchdog = Watchdog
  MaxProcesses = 1
  MaxGen = 2
  MaxEpoch = 2
PROPERTIES EveryRequestAnswered
CHECK_DEADLOCK FALSE
