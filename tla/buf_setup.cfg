SPECIFICATION SetupSpec
CONSTANTS
  Pages <- MCPages
  HugePages <- MCHugePages
  MaxSize = 17
  MaxBlk = 8
  Parts = 8
  SizeBits = 5
CHECK_DEADLOCK FALSE
INVARIANTS
  AcceptsValid
  SharpIsEnough
  BouncesApart
  RejectsCleanly
