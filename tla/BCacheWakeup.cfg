CONSTANTS
  p1 = p1
  p2 = p2
  k1 = k1
  k2 = k2
  k3 = k3
  v1 = v1
  v2 = v2
  NoBlock = NoBlock
  Nobody = Nobody
  Procs <- MCProcs
  Blocks <- MCBlocks
  Indirect <- MCIndirect
  Vals <- MCVal
  Killable <- NoneKilled
  NBUF = 2
SPECIFICATION FairSpec
PROPERTY BgetReturns
CHECK_DEADLOCK FALSE
