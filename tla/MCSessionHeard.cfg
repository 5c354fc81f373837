SPECIFICATION FairSpec
CONSTANTS
  q1 = q1
  q2 = q2
  q3 = q3
  NoTurn = NoTurn
  NoLimit = NoLimit
  Requests <- Two
  Ops = {"message", "steer", "pause", "interrupt"}
  MaxFoldEvents = 4
  MaxIter = 1
  MaxCalls = 1
  Tiers = 2
  GatewayFails = TRUE
  TurnFails = FALSE
  BaseLimit = NoLimit
  Raises = {3}
INVARIANTS PauseOverrun MessagesHeard SteersHeard
PROPERTY TurnsEnd
CHECK_DEADLOCK FALSE
