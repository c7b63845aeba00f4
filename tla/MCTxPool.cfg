SPECIFICATION FairSpec
CONSTANTS
  LevelNum = 3
  Capacity = 3
  TrNumInBlock = 3
INVARIANTS
  TypeOK
  BlockIsFilled
PROPERTY BlockIsMade
