SPECIFICATION Spec
CONSTANTS
  a1 = a1
  a2 = a2
  a3 = a3
  b1 = b1
  b2 = b2
  b3 = b3
  b4 = b4
  ShardA = {}
  ShardB = {b1, b2, b3, b4}
  Nodes <- MCNodes
  ShardOf <- MCShardOf
  ConsensusType = "Raft"
  MaxCandidates = 2
SYMMETRY Members
\* Elections come to an end.
CHECK_DEADLOCK FALSE
INVARIANTS
  ElectedByHalf
