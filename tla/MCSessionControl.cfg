SPECIFICATION Spec
CONSTANTS
  q1 = q1
  q2 = q2
  q3 = q3
  NoTurn = NoTurn
  NoLimit = NoLimit
  Requests <- Two
  Ops = {"message", "steer", "inject", "pause", "resume", "budget", "interrupt"}
  MaxFoldEvents = 4
  MaxIter = 2
  MaxCalls = 1
  Tiers = 1
  GatewayFails = TRUE
  TurnFails = TRUE
  BaseLimit = 2
  Raises = {3}
SYMMETRY TwoSymmetry
INVARIANTS TypeOK SlotLive PauseOverrun CallsAnswered BilledOnce PromptPaired
CHECK_DEADLOCK FALSE
