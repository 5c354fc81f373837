CONSTANTS
  ParentTurns = {p1}
  ChildTurns = {c1}
  Restores = {r1}
  Adopts = {1, 2}
  Files = {f1, f2}
  Tracked = {f1}
  Earlier = {"parent", "child"}
  Faults <- AllFaults
  ParentTools = {"terminal", "gate"}
  ChildTools = {"edit"}
  CommandFiles = {f1}
  Calls = 1
  MaxRequests = 2
SPECIFICATION FairSpec
CHECK_DEADLOCK FALSE
INVARIANTS TypeOK Undoable AdoptRepeats
PROPERTIES RestoreReverts AdoptKeepsWork CallsReturn
