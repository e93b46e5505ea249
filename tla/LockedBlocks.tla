---------------------------- MODULE LockedBlocks ----------------------------
(***************************************************************************)
(* What the buffer cache promises: one copy of every block, used by one    *)
(* process at a time, which changes only under the lock.                   *)
(***************************************************************************)
CONSTANTS Procs, Blocks, Vals, None

VARIABLES
  mem,     \* block -> its one current contents
  holder,  \* block -> the process that has it locked, or None
  cell     \* process -> the contents it sees in the buffer it holds, or None

LInit ==
  /\ mem \in [Blocks -> Vals]
  /\ holder = [b \in Blocks |-> None]
  /\ cell = [p \in Procs |-> None]

LAcquire(p, b) ==
  /\ holder[b] = None /\ cell[p] = None
  /\ holder' = [holder EXCEPT ![b] = p]
  /\ cell' = [cell EXCEPT ![p] = mem[b]]
  /\ UNCHANGED mem

LWrite(p, b, v) ==
  /\ holder[b] = p
  /\ mem' = [mem EXCEPT ![b] = v]
  /\ cell' = [cell EXCEPT ![p] = v]
  /\ UNCHANGED holder

LRelease(p, b) ==
  /\ holder[b] = p
  /\ holder' = [holder EXCEPT ![b] = None]
  /\ cell' = [cell EXCEPT ![p] = None]
  /\ UNCHANGED mem

LNext ==
  \E p \in Procs, b \in Blocks :
    LAcquire(p, b) \/ LRelease(p, b) \/ \E v \in Vals : LWrite(p, b, v)

LSpec == LInit /\ [][LNext]_<<mem, holder, cell>>
=============================================================================
