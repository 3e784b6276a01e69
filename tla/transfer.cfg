SPECIFICATION FairSpec
CONSTANTS
  Size = 8
  MaxIn = 12
  MaxSignals = 1
  Options <- MCOptions
INVARIANTS
  TypeOK
  IInv
  ClaimsFit
  NeverBothAsleep
  EpilogueAlone
  OutputFaithful
  CleanMeansComplete
PROPERTIES
  ReadResumes
  WriteResumes
  ImplementsPipe
  Terminates
