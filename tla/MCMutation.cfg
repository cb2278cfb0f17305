SPECIFICATION Spec
CONSTANTS
  Calls = {first, retry}
  None = None
  MaxAttempts = 2
INVARIANTS
  LogAgrees
  NothingLeftOpen
PROPERTIES
  KeyPromise
CHECK_DEADLOCK FALSE
SYMMETRY Symmetry
