SPECIFICATION Spec
CONSTANTS
  EndBlockHeight = 1
  Voters = {v1, v2, v3, v4, v5}
  VoteType = "Prepare"
SYMMETRY VoterSymmetry
CHECK_DEADLOCK FALSE
INVARIANT QuorumOfDistinctNodes
