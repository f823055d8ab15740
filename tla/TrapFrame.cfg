CONSTANTS
  p1 = p1
  p2 = p2
  Scheduler = Scheduler
  ptable = ptable
  tickslock = tickslock
  Procs <- MCProcs
  Locks <- MCLocks
  MaxDepth = 2
SPECIFICATION TSpec
SYMMETRY Symmetry
INVARIANTS OneCriticalSection KeptUnlessSwitched RteComesBack
