SPECIFICATION Spec
CONSTANTS
  Procs = {p1, p2}
  InitProc = p1
  NPages = 17
  PTES = 4
  PGSIZE = 8
  WORD = 2
  USERSTACK = 1
  MAXARG = 3
  Sizes = {4, 12}
  Lens = {3, 8}
  None = None
INVARIANTS
  PagesConserved
  ImageExact
PROPERTIES
  CopiesExact
