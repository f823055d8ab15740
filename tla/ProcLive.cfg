CONSTANTS
  NPROC = 2
  MaxPid = 3
  MaxSleep = 1
  MaxDepth = 2
SPECIFICATION FairSpec
PROPERTIES RunnableRuns KilledDies 
