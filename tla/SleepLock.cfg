SPECIFICATION FairSpec
CONSTANTS
  NPROC = 4
  None = None
INVARIANTS
  HolderIsOwner
  NoLostWakeup
PROPERTY
  SleepersRetry
