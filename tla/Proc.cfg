SPECIFICATION FairSpec
CONSTANTS
  NPROC = 3
  CPUs = {c1, c2}
  MaxPid = 3
  KernelYield = {"exit"}
INVARIANTS
  StackInUseOnce
  OrphansHaveLiveParent
  NoMissedExit
PROPERTY
  OrphansReaped
