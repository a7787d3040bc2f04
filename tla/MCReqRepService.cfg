SPECIFICATION Spec
CONSTANTS
  None = None
  Clients = {c1, c2}
  Others = {o1}
  LastRound = 1
  Requests <- MCRequests
  MaxStarts = 2
INVARIANTS
  JamNeedsEmptyLastFrame
  DoneMeansAnswered
PROPERTY
  EveryClientCompletes
CHECK_DEADLOCK FALSE
