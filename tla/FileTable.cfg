CONSTANTS
  NPROC = 2
  NFILE = 2
  NOFILE = 2
  Pipes <- MCPipes
  MaxExits = 1
  MaxIref = 4
SPECIFICATION Spec
INVARIANTS RefCountsReferences PipeOutlivesFiles
CHECK_DEADLOCK FALSE
