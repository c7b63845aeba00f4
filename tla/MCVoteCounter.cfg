SPECIFICATION Spec
CONSTANTS
  EndBlockHeight = 2
  Voters = {v1, v2, v3, v4, v5}
  VoteType = "Prepare"
SYMMETRY VoterSymmetry
CHECK_DEADLOCK FALSE
INVARIANTS
  AnnouncedOnce
  CountIsBacked
