SPECIFICATION CrashSpec
CONSTANTS
  Size = 8
  MaxIn = 10
  MaxSignals = 1
  Options <- Processes
CHECK_DEADLOCK FALSE
INVARIANTS
  OutputFaithful
  CleanDespiteReader
