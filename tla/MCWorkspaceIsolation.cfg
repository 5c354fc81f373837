CONSTANTS
  ParentTurns = {}
  ChildTurns = {c1, c2}
  Restores = {r1}
  Adopts = {}
  Files = {f1}
  Tracked = {f1}
  Earlier = {}
  Faults = {}
  ParentTools = {}
  ChildTools = {"edit"}
  CommandFiles = {f1}
  Calls = 1
  MaxRequests = 1
SPECIFICATION Spec
CHECK_DEADLOCK FALSE
PROPERTY WorktreeIsolation
