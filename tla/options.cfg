SPECIFICATION Spec
CONSTANTS
  Texts <- MCTexts
  UlongSize = 256
  IntSize = 64
  ShortSize = 16
  DEF_PORT = 9
  SOPT_CNT = 16
  MaxArgs = 2
INVARIANTS
  FromLastSpecOrStandard
  SocketAsAsked
