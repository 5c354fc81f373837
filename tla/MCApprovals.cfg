SPECIFICATION FairSpec
CONSTANTS
  t1 = t1
  s1 = s1
  s2 = s2
  a1 = a1
  a2 = a2
  Tasks <- MCTasks
  Sessions <- MCSessions
  Approvers <- MCApprovers
  MaxCalls = 2
  Verdicts = {"Deny", "Ask", "Auto"}
INVARIANTS TypeOK RunsCleared DecidedOnce DenialHolds ResultsTrue
PROPERTY BatchEnds
CHECK_DEADLOCK FALSE
