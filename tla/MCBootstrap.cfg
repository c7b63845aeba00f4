SPECIFICATION Spec
CONSTANTS
  n11 = n11
  n12 = n12
  n21 = n21
  n31 = n31
  Nodes = {n11, n12, n21, n31}
  ShardOf <- MCShardOf
  NumberOf <- MCNumberOf
  SendCap = 4
  Hasty = {n11, n12, n21}
CONSTRAINT Bound
\* The network is down in the end.
CHECK_DEADLOCK FALSE
INVARIANTS
  ReadyAtStart
  
  OneGlobalLeader
