SPECIFICATION Spec
CONSTANTS
  Rounds = 3
  ZapPolls = 2
  Guests = {g1, g2}
  Polls = 3
INVARIANTS
  TypeOK
  SocketsFollowScript
  PrintsWhatWasSaid
  OnlyAuthenticatedRead
  JoinSeparates
PROPERTIES
  ScriptsEnd
  AllRoundsIfPrompt
CHECK_DEADLOCK FALSE
