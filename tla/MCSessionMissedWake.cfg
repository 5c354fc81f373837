SPECIFICATION Spec
CONSTANTS
  q1 = q1
  q2 = q2
  q3 = q3
  NoTurn = NoTurn
  NoLimit = NoLimit
  Requests <- Three
  Ops = {"message", "pause", "resume"}
  MaxFoldEvents = 4
  MaxIter = 1
  MaxCalls = 0
  Tiers = 1
  GatewayFails = FALSE
  TurnFails = FALSE
  BaseLimit = NoLimit
  Raises = {3}
INVARIANT NoMissedWake
CHECK_DEADLOCK FALSE
