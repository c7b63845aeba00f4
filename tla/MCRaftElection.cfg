SPECIFICATION Spec
CONSTANTS
  a1 = a1
  a2 = a2
  a3 = a3
  b1 = b1
  b2 = b2
  b3 = b3
  b4 = b4
  ShardA = {a1, a2, a3}
  ShardB = {b1, b2, b3, b4}
  Nodes <- MCNodes
  ShardOf <- MCShardOf
  ConsensusType = "SS-Raft"
  MaxCandidates = 3
SYMMETRY Members
CONSTRAINT Bound
\* Elections come to an end.
CHECK_DEADLOCK FALSE
INVARIANTS
  TypeOK
  TwoLeadersOnlyByRace
  OneVotePerTerm
  OneVoteLost
  EnoughVotesElect
  ElectedByHalf
