SPECIFICATION Spec
CONSTANTS
  Procs = {p1, p2, p3}
  Sectors = {s1}
  Vals = {v0, v1}
  NUM = 7
  U16 = 14
  None = None
SYMMETRY VirtioSymmetry
INVARIANTS
  DescriptorsConserved
  SleepersHaveCause
PROPERTY
  TransfersOnce
