CONSTANTS
  p1 = p1
  p2 = p2
  b1 = b1
  b2 = b2
  Procs <- MCProcs
  Bytes <- MCBytes
  PIPESIZE = 2
  UMod = 4
  MaxN = 2
SPECIFICATION FairSpec
INVARIANTS ReadersNotMissed FreedMeansUnused
PROPERTIES ImplementsByteStream 
CHECK_DEADLOCK FALSE
