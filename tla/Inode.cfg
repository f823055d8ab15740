SPECIFICATION Spec
CONSTANTS
  Procs = {p1, p2}
  NInodes = 3
  NINODE = 3
  Names = {"a", "b"}
  Calls <- MCCalls
INVARIANTS RefsExact LinksCovered NoLeak  NoWaitCycle
PROPERTY OpenKeepsInode
SYMMETRY Symmetry
