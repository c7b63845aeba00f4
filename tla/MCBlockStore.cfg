SPECIFICATION StoreSpec
CONSTANTS
  b1 = b1
  b2 = b2
  b3 = b3
  r2 = r2
  Garbage = Garbage
  Blocks <- MCBlocks
  Previous <- MCPrevious
  HeightOf <- MCHeightOf
INVARIANTS
  StoreTypeOK
  TipSurvivesRestart
PROPERTY
  BlocksStay
