SPECIFICATION Spec
CONSTANTS
  Procs = {p1, p2}
  Blocks = {n1, n2, n3, n4}
  Vals = {v0, v1}
  NBUF = 3
  MaxPins = 1
  None = None
SYMMETRY BcacheSymmetry
INVARIANTS
  OneBufferPerBlock

  
