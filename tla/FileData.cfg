SPECIFICATION Spec
CONSTANTS
  Procs = {p1, p2}
  Inodes = {1, 2}
  Fds = {1, 3}
  Ino <- MCIno
  NB = 3
  NDIRECT = 1
  BSIZE = 2
  MAXOPBLOCKS = 6
  MaxN = 3
  MaxTorn = 1
  None = None
SYMMETRY ProcSymmetry
VIEW UsedBlocks
INVARIANTS
  BitmapExact
  
