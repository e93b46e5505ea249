SPECIFICATION Spec
CONSTANTS
  Procs = {p1, p2}
  InitProc = p1
  NFILE = 3
  NOFILE = 2
  Pipes = {x}
  None = None
SYMMETRY FtableSymmetry
VIEW FtableView
CHECK_DEADLOCK FALSE
INVARIANTS
  RefExact
  ObjectsReleasedOnce
