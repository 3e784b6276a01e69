SPECIFICATION Spec
CONSTANT
  MaxSignals = 2
INVARIANTS
  TypeOK
  UndoesWhatItMade
  NothingPulledAway
  CleanExit
  ReadyToReopen
  LeavesNothing
PROPERTY
  ImplementsSession
