SPECIFICATION Spec
CONSTANT
  LastPlace = 4
INVARIANTS
  SemaphoresThere
  RingIsContiguous
  CleansUp
PROPERTY
  OthersUntouched
