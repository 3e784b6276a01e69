SPECIFICATION CrashSpec
CONSTANTS
  Size = 8
  MaxIn = 8
  MaxSignals = 0
  Options <- Small
CHECK_DEADLOCK FALSE
INVARIANT
  CleanEvenIfKilled
