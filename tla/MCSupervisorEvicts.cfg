SPECIFICATION Spec
CONSTANTS
  Ops = {o1, o2}
  Versions = {v1, v2}
  None = None
  Watchdog = Watchdog
  MaxProcesses = 2
  MaxGen = 3
  MaxEpoch = 2
INVARIANTS
  TypeOK
  EveryProcessRegistered
  NothingOutlivesStop
PROPERTIES
  WithinResidency
  RunningGuestKept
  NewestHostOnly
SYMMETRY Symmetry
CHECK_DEADLOCK FALSE
