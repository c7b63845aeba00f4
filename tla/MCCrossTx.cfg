SPECIFICATION FairSpec
CONSTANTS
  c1 = c1
  c2 = c2
  c3 = c3
  t1 = t1
  t2 = t2
  Committees = {c1, c2, c3}
  Txs = {t1, t2}
  Home <- MCHome
  NumOuts <- MCNumOuts
  GenesisOuts <- MCGenesisOuts
  MaxIns = 2
  MinPool = 1
  BlockSize = 2
  MaxLate = 1
INVARIANTS
  TypeOK
  DiesOnlyByLateResponse
  NothingLost
  NothingDoubled
  InFlight
PROPERTY
  Quiesces
CHECK_DEADLOCK FALSE
