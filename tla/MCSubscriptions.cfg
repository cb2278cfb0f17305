SPECIFICATION Spec
CONSTANTS
  Subs = {s1}
  Keys = {"a", "b"}
  Depends <- MCDepends
  None = None
  Slots = 1
  MaxWrites = 2
  MaxCode = 1
INVARIANTS
  TypeOK
  ResultMatchesVector
  StaleIsDue
PROPERTIES
  AnswersCoverRequests
  EveryTurnComes
CHECK_DEADLOCK FALSE
