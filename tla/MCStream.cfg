CONSTANTS
  Sessions = {s1, s2}
  Tasks = {t1, t2}
  Loads = {l1, l2}
  None = none
  Cap = 1
  MaxEvents = 2
  MaxDeltas = 1
SPECIFICATION FairSpec
CHECK_DEADLOCK FALSE
INVARIANTS TypeOK OneSession TaskOrder
PROPERTY EventuallyShown
