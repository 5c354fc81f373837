SPECIFICATION Spec
CONSTANTS
  w1 = w1
  w2 = w2
  r1 = r1
  NoWriter = NoWriter
  Writers <- MCWriters
  Readers <- MCReaders
  Faults = {"crash", "io"}
  MaxEvents = 4
SYMMETRY MCSymmetry
INVARIANTS TypeOK DenseSeq AckedDurable AcksIncrease ReaderInOrder
PROPERTY ImplementsEventLog
CHECK_DEADLOCK FALSE
