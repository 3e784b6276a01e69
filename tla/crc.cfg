SPECIFICATION Spec
CONSTANTS
  Inputs <- MCInputs
  Blocks <- MCBlocks
CHECK_DEADLOCK FALSE
INVARIANTS
  CrcIsRemainder
  CksumIsRemainder
