SPECIFICATION Spec
CONSTANTS
  Subs = {s1, s2}
  PubRounds = 3
  SubRounds = 2
  Backlog = 2
  MaxFailures = 2
  MaxKills = 1
  Clients = {c1, c2}
  Self = self
  LastJob = 1
  Rounds = 3
  MaxStarts = 2
INVARIANTS
  TypeOK
  HearsAllButMissed
  JobsBalance
  ReceivesInTurn
PROPERTIES
  OnlyFailureChangesStep
  EveryoneGetsOn
CHECK_DEADLOCK FALSE
