------------------------------- MODULE Virtio -------------------------------
(***************************************************************************)
(* kernel/virtio_disk.c: requests travel to the device through the avail   *)
(* ring, completions come back, in any order, through the used ring and an *)
(* interrupt.  Each process of the model works on one buffer, which it     *)
(* holds locked (bio.c), so a buffer is named by its process.              *)
(*                                                                         *)
(* The critical sections of virtio_disk_rw() are single steps; the         *)
(* interrupt handler keeps vdisk_lock over several, because the device     *)
(* goes on adding to the used ring meanwhile.  The device is external.     *)
(* What nobody may read again (a ring entry that has been consumed, the    *)
(* header of a request that has returned) is forgotten: it becomes None.   *)
(***************************************************************************)
EXTENDS Naturals, FiniteSets, FiniteSetsExt

CONSTANTS
  Procs, Sectors, Vals,
  NUM,   \* descriptors, and entries of each ring
  U16,   \* number of values of a uint16: 2^16 in the code
  None

ASSUME VirtioAssumption ==
  /\ NUM \in Nat /\ NUM >= 3
  /\ U16 \in Nat /\ U16 % NUM = 0 /\ U16 > NUM

Desc == 0..(NUM - 1)

VARIABLES
  \* shared with the device
  free,                \* descriptor -> disk.free[]
  addr, next, more,    \* descriptor -> its buffer, its successor, F_NEXT
  ops,                 \* descriptor -> disk.ops[]: type and sector
  status, info,        \* descriptor -> disk.info[].status # 0, disk.info[].b
  avail, avail_idx,    \* driver -> device
  used, used_idx,      \* device -> driver
  seen_used,           \* disk.used_idx: how far the driver has looked
  irq,                 \* the device asks for an interrupt
  \* the device
  seen_avail, taken,   \* how far it has looked, chains it is working on
  blocks,              \* contents of the disk
  \* the kernel
  bdisk,               \* process -> b->disk
  buf,                 \* process -> b->data
  pc, head, want,      \* process -> where it is, idx[0], its request
  intr,                \* the interrupt handler is running (holds vdisk_lock)
  panicked

chains == <<free, addr, next, more, ops>>
rings == <<avail, avail_idx, used, used_idx, seen_used, irq>>
device == <<seen_avail, taken, blocks>>
vars == <<free, addr, next, more, ops, status, info, avail, avail_idx, used, used_idx,
          seen_used, irq, seen_avail, taken, blocks, bdisk, buf, pc, head, want, intr, panicked>>

Init ==
  /\ free = [d \in Desc |-> TRUE]
  /\ addr = [d \in Desc |-> None]
  /\ next = [d \in Desc |-> 0]
  /\ more = [d \in Desc |-> FALSE]
  /\ ops = [d \in Desc |-> None]
  /\ status = [d \in Desc |-> FALSE]
  /\ info = [d \in Desc |-> None]
  /\ avail = [d \in Desc |-> None] /\ avail_idx = 0
  /\ used = [d \in Desc |-> None] /\ used_idx = 0 /\ seen_used = 0
  /\ irq = FALSE
  /\ seen_avail = 0 /\ taken = {}
  /\ blocks \in [Sectors -> Vals]
  /\ bdisk = [p \in Procs |-> FALSE]
  /\ buf \in [Procs -> Vals]
  /\ pc = [p \in Procs |-> "idle"]
  /\ head = [p \in Procs |-> None]
  /\ want = [p \in Procs |-> None]
  /\ intr = FALSE
  /\ panicked = FALSE

\* The ring indices are uint16.
Succ16(i) == (i + 1) % U16

\* disk.vdisk_lock can be taken.
Unlocked == ~intr

-----------------------------------------------------------------------------
(* virtio_disk_rw()                                                        *)

\* bread() or bwrite() calls with a locked buffer that holds v.
Call(p, w, s, v) ==
  /\ pc[p] = "idle"
  /\ pc' = [pc EXCEPT ![p] = "alloc"]
  /\ want' = [want EXCEPT ![p] = [write |-> w, sector |-> s]]
  /\ buf' = [buf EXCEPT ![p] = v]
  /\ UNCHANGED <<chains, status, info, rings, device, bdisk, head, intr, panicked>>

\* Mutant: free_desc() does not wake the allocators.
WakeAllocators_None(f) == f

\* wakeup(&disk.free[0])
WakeAllocators(f) == [p \in Procs |-> IF f[p] = "nodesc" THEN "alloc" ELSE f[p]]

FreeDescs == {d \in Desc : free[d]}

\* Mutant: alloc3_desc() does not give back what it took.
AllocSleep_KeepsPartial(p) ==
  /\ pc[p] = "alloc" /\ Unlocked
  /\ Cardinality(FreeDescs) < 3
  /\ free' = [d \in Desc |-> FALSE]
  /\ pc' = [(IF FreeDescs = {} THEN pc ELSE WakeAllocators(pc)) EXCEPT ![p] = "nodesc"]
  /\ UNCHANGED <<addr, next, more, ops, status, info, rings, device, bdisk, buf, head, want, intr, panicked>>

(***************************************************************************)
(* alloc3_desc() fails.  It gives back what it had taken, and free_desc()  *)
(* wakes the others that wait for descriptors; then the caller sleeps.     *)
(***************************************************************************)
AllocSleep(p) ==
  /\ pc[p] = "alloc" /\ Unlocked
  /\ Cardinality(FreeDescs) < 3
  /\ pc' = [(IF FreeDescs = {} THEN pc ELSE WakeAllocators(pc)) EXCEPT ![p] = "nodesc"]
  /\ UNCHANGED <<chains, status, info, rings, device, bdisk, buf, head, want, intr, panicked>>

\* "record struct buf for virtio_disk_intr()"
SetInfo(d, p) == info' = [info EXCEPT ![d] = p]

(***************************************************************************)
(* alloc3_desc() takes the three lowest free descriptors; the chain is     *)
(* formatted, put into the avail ring, and the caller sleeps on its buffer.*)
(***************************************************************************)
Submit(p) ==
  LET i0 == Min(FreeDescs)
      i1 == Min(FreeDescs \ {i0})
      i2 == Min(FreeDescs \ {i0, i1})
  IN
  /\ pc[p] = "alloc" /\ Unlocked
  /\ Cardinality(FreeDescs) >= 3
  /\ free' = [d \in Desc |-> free[d] /\ d \notin {i0, i1, i2}]
  /\ ops' = [ops EXCEPT ![i0] = want[p]]
  /\ addr' = [addr EXCEPT ![i0] = i0, ![i1] = p, ![i2] = i0]
  /\ next' = [next EXCEPT ![i0] = i1, ![i1] = i2, ![i2] = 0]
  /\ more' = [more EXCEPT ![i0] = TRUE, ![i1] = TRUE, ![i2] = FALSE]
  /\ status' = [status EXCEPT ![i0] = TRUE]
  /\ SetInfo(i0, p)
  /\ bdisk' = [bdisk EXCEPT ![p] = TRUE]
  /\ avail' = [avail EXCEPT ![avail_idx % NUM] = i0]
  /\ avail_idx' = Succ16(avail_idx)
  /\ head' = [head EXCEPT ![p] = i0]
  /\ pc' = [pc EXCEPT ![p] = "asleep"]
  /\ UNCHANGED <<used, used_idx, seen_used, irq, device, buf, want, intr, panicked>>

\* Mutant: a sleeper that kill() wakes returns at once.
Done_Always(p) == TRUE

\* b->disk is 0: the interrupt handler has seen the request completed.
Done(p) == ~bdisk[p]

\* while(b->disk == 1) sleep(b): p has been woken, perhaps only by kill().
Recheck(p) ==
  /\ pc[p] = "awake" /\ Unlocked
  /\ ~Done(p)
  /\ pc' = [pc EXCEPT ![p] = "asleep"]
  /\ UNCHANGED <<chains, status, info, rings, device, bdisk, buf, head, want, intr, panicked>>

\* The descriptors that free_chain(i) frees: it follows F_NEXT.
Chain(d) ==
  {d} \cup (IF more[d] THEN {next[d]} ELSE {})
      \cup (IF more[d] /\ more[next[d]] THEN {next[next[d]]} ELSE {})

(***************************************************************************)
(* The request is done: free_chain() and return.  free_desc() panics on a  *)
(* free descriptor and wakes the processes that wait for descriptors.      *)
(***************************************************************************)
Finish(p) ==
  LET c == Chain(head[p]) IN
  /\ pc[p] = "awake" /\ Unlocked
  /\ Done(p)
  /\ info' = [info EXCEPT ![head[p]] = None]
  /\ panicked' = (\E d \in c : free[d])
  /\ free' = [d \in Desc |-> free[d] \/ d \in c]
  /\ addr' = [d \in Desc |-> IF d \in c THEN None ELSE addr[d]]
  /\ ops' = [ops EXCEPT ![head[p]] = None]
  /\ next' = [d \in Desc |-> IF d \in c THEN 0 ELSE next[d]]
  /\ more' = [d \in Desc |-> more[d] /\ d \notin c]
  /\ pc' = WakeAllocators([pc EXCEPT ![p] = "idle"])
  /\ head' = [head EXCEPT ![p] = None]
  /\ want' = [want EXCEPT ![p] = None]
  /\ UNCHANGED <<status, rings, device, bdisk, buf, intr>>

\* kill() wakes a sleeper, which goes round its loop again.
KillWake(p) ==
  /\ pc[p] \in {"asleep", "nodesc"}
  /\ pc' = [pc EXCEPT ![p] = IF @ = "asleep" THEN "awake" ELSE "alloc"]
  /\ UNCHANGED <<chains, status, info, rings, device, bdisk, buf, head, want, intr, panicked>>

-----------------------------------------------------------------------------
(* virtio_disk_intr()                                                      *)

\* devintr() calls it; it takes the lock and acknowledges the interrupt.
IntrAck ==
  /\ irq /\ Unlocked
  /\ intr' = TRUE
  /\ irq' = FALSE
  /\ UNCHANGED <<chains, status, info, avail, avail_idx, used, used_idx, seen_used,
                 device, bdisk, buf, pc, head, want, panicked>>

\* One used entry: b->disk = 0, wakeup(b).
IntrEntry ==
  LET id == used[seen_used % NUM]
      b == info[id]
  IN
  /\ intr
  /\ seen_used # used_idx
  /\ panicked' = (status[id] \/ b = None)
  /\ bdisk' = [p \in Procs |-> bdisk[p] /\ p # b]
  /\ pc' = [p \in Procs |-> IF p = b /\ pc[p] = "asleep" THEN "awake" ELSE pc[p]]
  /\ used' = [used EXCEPT ![seen_used % NUM] = None]
  /\ seen_used' = Succ16(seen_used)
  /\ UNCHANGED <<chains, status, info, avail, avail_idx, used_idx, irq,
                 device, buf, head, want, intr>>

IntrReturn ==
  /\ intr
  /\ seen_used = used_idx
  /\ intr' = FALSE
  /\ UNCHANGED <<chains, status, info, rings, device, bdisk, buf, pc, head, want, panicked>>

-----------------------------------------------------------------------------
(* The device.                                                             *)

DeviceTake ==
  /\ seen_avail # avail_idx
  /\ taken' = taken \cup {avail[seen_avail % NUM]}
  /\ seen_avail' = Succ16(seen_avail)
  /\ avail' = [avail EXCEPT ![seen_avail % NUM] = None]
  /\ UNCHANGED <<chains, status, info, avail_idx, used, used_idx, seen_used, irq, blocks,
                 bdisk, buf, pc, head, want, intr, panicked>>

\* It reads the chain, moves the data, writes the status and the used ring.
DeviceDo(h) ==
  LET b == addr[next[h]]
      stat == addr[next[next[h]]]
  IN
  /\ h \in taken
  /\ taken' = taken \ {h}
  /\ IF ops[h].write
     THEN blocks' = [blocks EXCEPT ![ops[h].sector] = buf[b]] /\ UNCHANGED buf
     ELSE buf' = [buf EXCEPT ![b] = blocks[ops[h].sector]] /\ UNCHANGED blocks
  /\ status' = [status EXCEPT ![stat] = FALSE]
  /\ used' = [used EXCEPT ![used_idx % NUM] = h]
  /\ used_idx' = Succ16(used_idx)
  /\ irq' = TRUE
  /\ UNCHANGED <<chains, info, avail, avail_idx, seen_used, seen_avail, bdisk, pc, head,
                 want, intr, panicked>>

Next ==
  /\ ~panicked
  /\ \/ \E p \in Procs :
          \/ AllocSleep(p) \/ Submit(p) \/ Recheck(p) \/ Finish(p)
          \/ KillWake(p)
          \/ \E w \in BOOLEAN, s \in Sectors, v \in Vals : Call(p, w, s, v)
     \/ IntrAck \/ IntrEntry \/ IntrReturn
     \/ DeviceTake
     \/ \E h \in Desc : DeviceDo(h)

Spec == Init /\ [][Next]_vars

-----------------------------------------------------------------------------
\* Type invariant of the rings, the descriptors and the requests.
TypeOK ==
  /\ free \in [Desc -> BOOLEAN] /\ more \in [Desc -> BOOLEAN] /\ status \in [Desc -> BOOLEAN]
  /\ addr \in [Desc -> Procs \cup Desc \cup {None}] /\ next \in [Desc -> Desc]
  /\ info \in [Desc -> Procs \cup {None}]
  /\ avail \in [Desc -> Desc \cup {None}] /\ used \in [Desc -> Desc \cup {None}]
  /\ {avail_idx, used_idx, seen_used, seen_avail} \subseteq 0..(U16 - 1)
  /\ taken \subseteq Desc
  /\ blocks \in [Sectors -> Vals] /\ buf \in [Procs -> Vals]
  /\ bdisk \in [Procs -> BOOLEAN]
  /\ pc \in [Procs -> {"idle", "alloc", "nodesc", "asleep", "awake"}]
  /\ head \in [Procs -> Desc \cup {None}]
  /\ {irq, intr, panicked} \subseteq BOOLEAN

(***************************************************************************)
(* Descriptors are conserved: the chains of the requests in flight have    *)
(* three descriptors each, share none, and the others are free.  So        *)
(* "free_desc 2" and "virtio_disk_intr status" are not reached, and no     *)
(* null buffer is followed from disk.info[].                               *)
(***************************************************************************)
DescriptorsConserved ==
  LET inflight == {p \in Procs : head[p] # None} IN
  /\ TypeOK /\ ~panicked
  /\ \A p \in inflight : Cardinality(Chain(head[p])) = 3
  /\ \A p, q \in inflight : p # q => Chain(head[p]) \cap Chain(head[q]) = {}
  /\ FreeDescs = Desc \ UNION {Chain(head[p]) : p \in inflight}

(***************************************************************************)
(* Whoever sleeps has a reason to: a process asleep on its buffer has a    *)
(* request in flight, and one asleep for descriptors would still find too  *)
(* few, so neither has missed its wakeup().  No completion is overlooked:  *)
(* while no interrupt is pending or being handled, the driver has seen all *)
(* of the used ring, although it acknowledges before it looks.             *)
(***************************************************************************)
SleepersHaveCause ==
  /\ \A p \in Procs : /\ pc[p] = "asleep" => bdisk[p]
                      /\ pc[p] = "nodesc" => Cardinality(FreeDescs) < 3
  /\ ~irq /\ ~intr => seen_used = used_idx

(***************************************************************************)
(* virtio_disk_rw() implements BlockDevice: each call moves its own buffer *)
(* exactly once, before it returns, whatever the order of completions.     *)
(***************************************************************************)
Completed(p) == head[p] # None /\ ~status[head[p]]
BlockDev == INSTANCE BlockDevice WITH
              req <- [p \in Procs |-> IF want[p] = None THEN None
                                      ELSE [write |-> want[p].write, sector |-> want[p].sector,
                                            done |-> Completed(p)]]
TransfersOnce == BlockDev!BSpec
=============================================================================
