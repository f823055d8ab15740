CONSTANTS
  NPROC = 3
  MaxPid = 3
  MaxSleep = 1
  MaxDepth = 3
SPECIFICATION Spec
INVARIANTS NoMissedExit 
PROPERTY ImplementsSleepWakeup
