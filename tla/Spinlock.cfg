SPECIFICATION Spec
CONSTANTS
  CPUs = {c1, c2, c3}
  NLocks = 2
  IntrLocks = {1}
  None = None
INVARIANTS
  MutualExclusion
  HandlerFindsNoLockHeld
  NoWaitCycle
