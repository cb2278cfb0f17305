SPECIFICATION Spec
CONSTANTS
  Tries = {t1, t2, t3}
  Changes <- MCChanges
  None = None
  Lifetime = 3
  Lease = 1
  MaxRun = 1
  Skew = 1
  Rounds = 2
  Horizon = 4
INVARIANTS
  OnceADay
  AnswersItsChange
  HoldsAlone
SYMMETRY Symmetry
CHECK_DEADLOCK FALSE
