SPECIFICATION FairSpec
CONSTANTS
  Size = 8
  MaxIn = 20
  MaxSignals = 1
  Options <- MCOptions
INVARIANTS
  TypeOK
  OutputFaithful
  CleanMeansComplete
  FlushesWhatItRead
PROPERTIES
  ImplementsPipe
  Terminates
