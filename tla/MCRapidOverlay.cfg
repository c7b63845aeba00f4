SPECIFICATION FairSpec
CONSTANTS
  MaxNodes = 30
  MaxCommittees = 8
  CommitteeF = 2
  xorBigInt <- MCXor
  Configurations <- MCConfigurations
  Gossips <- MCGossips
INVARIANTS
  TypeOK
  DiesOnlyByFlags
  TotalResiliency
  PooledOnce
PROPERTY
  AllPool
CHECK_DEADLOCK FALSE
