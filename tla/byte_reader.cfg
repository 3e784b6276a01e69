SPECIFICATION Spec
CONSTANTS
  Size = 8
  MaxIn = 8
  MaxSignals = 0
  Options <- ByteReaders
INVARIANT
  CleanMeansComplete
