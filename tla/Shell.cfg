SPECIFICATION Spec
CONSTANTS
  Procs <- MCProcs
  Lines <- MCLines
  NOFILE = 5
  Vals = {a, b}
  PIPESIZE = 2
  UINT = 4
  MaxN = 2
  None = None
VIEW ShellView
SYMMETRY ShellSymmetry
CHECK_DEADLOCK FALSE
INVARIANTS
  NoUseAfterFree
  SleepIsJustifiedUnlessKilled
  NoPipelineStuck
  PromptWhenDone
PROPERTY
  FifoOrder
