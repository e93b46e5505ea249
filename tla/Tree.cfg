SPECIFICATION Spec
CONSTANTS
  Procs = {p1, p2}
  Names = {a}
  a = a
  NInodes = 3
  NINODE = 3
  None = None
  Calls <- MCCalls
  Links <- MCLinks
  MaxOpen = 1
SYMMETRY TreeSymmetry
VIEW TreeView
CONSTRAINT Intact
INVARIANTS
  OneEntryPerInode
  TreeShape
  LinkCountCovers
  NoLockCycle
  
