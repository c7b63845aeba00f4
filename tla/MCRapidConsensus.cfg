SPECIFICATION FairSpec
CONSTANTS
  m1 = m1
  m2 = m2
  Nodes = {m1, m2}
  Leader <- MCLeader
  CommitteeF = 1
  MaxBlocks = 3
  MaxLateBlocks = 1
\* The network may die when messages are late.
CHECK_DEADLOCK FALSE
INVARIANTS
  TypeOK
  FinalOnlyIfAccepted
  SameSignatures
  TimelyChains
PROPERTY
  EveryBlockFinal
