CONSTANTS
  UINT8_MAX = 3
  MaxRounds = 8
  MaxReads = 4
  Programs <- Control
  Inputs <- Booleans
SPECIFICATION FairSpec
INVARIANT TypeOK
INVARIANT ExecutesItsSource
INVARIANT HeightsAgree
INVARIANT RefusesIllFormed
PROPERTY Ends
CHECK_DEADLOCK FALSE
