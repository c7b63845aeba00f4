SPECIFICATION FairSpec
CONSTANTS
  EndBlockHeight = 2
  L = L
  Followers = {f1}
  OtherLeaders = {b1}
  Nodes <- MCNodes
  ShardOf <- MCShardOf
  IntraLeaders <- MCIntraLeaders
  GlobalLeader = L
INVARIANTS
  TypeOK
  NobodyAheadOfLeader
  RoundsClosedByCommittee
PROPERTIES
  ImplementsRounds
  MiningStops
