SPECIFICATION Spec
CONSTANTS
  Procs = {init, p2}
  InitProc = init
  NPages = 8
  NPT = 2
  NPD = 2
  PGSIZE = 2
  NTLB = 2
  Increments = {1, 3}
  Images = {1, 3}
INVARIANTS   TlbCurrent  
