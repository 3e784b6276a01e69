SPECIFICATION Spec
CONSTANTS
  Ends <- MCEnds
  MaxLeft = 1
INVARIANTS
  HangOnlyByRace
  OpenLeavesOne
  StalePings
PROPERTY
  EndsOnCtrlC
