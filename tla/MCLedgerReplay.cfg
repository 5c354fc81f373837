SPECIFICATION Spec
CONSTANTS
  w1 = w1
  w2 = w2
  r1 = r1
  NoWriter = NoWriter
  Writers <- MCWriters
  Readers <- MCReaders
  Faults = {"crash"}
  MaxEvents = 4
SYMMETRY MCSymmetry
INVARIANT ReplayReconstructs
CHECK_DEADLOCK FALSE
