SPECIFICATION Spec
CONSTANTS
  EndBlockHeight = 1
  L = L
  Followers = {}
  OtherLeaders = {b1, b2, b3}
  Nodes <- MCNodes
  ShardOf <- MCShardOf
  IntraLeaders <- MCIntraLeaders
  GlobalLeader = L
SYMMETRY Backups
CHECK_DEADLOCK FALSE
INVARIANTS
  AnswersAreDistinct
  StuckOnlyByDisorder
