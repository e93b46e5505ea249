SPECIFICATION Spec
CONSTANTS
  Procs = {p1, p2}
  Blocks = {b1, b2, b3, b4}
  Vals = {v0, v1}
  NoBuf = NoBuf
  MAXOPBLOCKS = 3
  LOGSIZE = 6
  NLog = 7
  OpBlocks = 2
SYMMETRY LogSymmetry
INVARIANTS
  
  SleepersHaveWaker
  DurableWhenQuiet
PROPERTY
  CrashAtomic
