------------------------------- MODULE Bcache -------------------------------
(***************************************************************************)
(* kernel/bio.c: the buffer cache.  bcache.lock is held for one step at a  *)
(* time; between bget()'s release of it and acquiresleep() other processes *)
(* may run, and only the reference count protects the buffer.  Each        *)
(* process uses one buffer at a time, and does not lose modifications: it  *)
(* has the log pin the buffer (bpin) or writes it (bwrite) before brelse.  *)
(***************************************************************************)
EXTENDS Integers, FiniteSets

CONSTANTS
  Procs, Blocks, Vals,
  NBUF,     \* number of buffers
  MaxPins,  \* bound: most buffers the log has pinned at a time
  None

ASSUME BcacheAssumption ==
  /\ NBUF \in Nat \ {0} /\ MaxPins \in Nat
  /\ IsFiniteSet(Procs)
  /\ Cardinality(Procs) + MaxPins <= NBUF
  /\ None \notin Nat /\ None \notin Procs \cup Blocks \cup Vals

Bufs == 1..NBUF

VARIABLES
  lru,      \* the list from bcache.head.next to bcache.head.prev
  blockno, refcnt, valid, data,  \* struct buf
  lock,     \* holder of b->lock, or None
  disk,     \* block -> contents
  pinned,   \* blocks that the log has pinned
  pc, mine, \* process -> where it is, the buffer it uses
  dirty     \* process -> it has changed its buffer and neither pinned nor written it

vars == <<lru, blockno, refcnt, valid, data, lock, disk, pinned, pc, mine, dirty>>
bufs == <<lru, blockno, refcnt, valid, data>>

\* binit() inserts each buffer at the front.
Init ==
  /\ lru = [k \in Bufs |-> NBUF + 1 - k]
  /\ blockno = [b \in Bufs |-> None]
  /\ refcnt = [b \in Bufs |-> 0]
  /\ valid = [b \in Bufs |-> FALSE]
  /\ data = [b \in Bufs |-> None]
  /\ lock = [b \in Bufs |-> None]
  /\ disk \in [Blocks -> Vals]
  /\ pinned = {}
  /\ pc = [p \in Procs |-> "idle"]
  /\ mine = [p \in Procs |-> None]
  /\ dirty = [p \in Procs |-> FALSE]

Cached(n) == {b \in Bufs : blockno[b] = n}
Unused == {k \in Bufs : refcnt[lru[k]] = 0}

\* bget() finds the block: it takes the first such buffer of the list.
BgetHit(p, n) ==
  LET b == lru[CHOOSE k \in Bufs : /\ lru[k] \in Cached(n)
                                   /\ \A m \in 1..(k - 1) : lru[m] \notin Cached(n)] IN
  /\ pc[p] = "idle"
  /\ Cached(n) # {}
  /\ refcnt' = [refcnt EXCEPT ![b] = @ + 1]
  /\ pc' = [pc EXCEPT ![p] = "lock"]
  /\ mine' = [mine EXCEPT ![p] = b]
  /\ UNCHANGED <<lru, blockno, valid, data, lock, disk, pinned, dirty>>

\* Mutant: the search and the recycling are not one critical section.
BgetMiss_NotUnderLock(p, n) ==
  LET b == lru[CHOOSE k \in Unused : \A m \in Unused : m <= k] IN
  /\ pc[p] = "idle"
  /\ Unused # {}
  /\ blockno' = [blockno EXCEPT ![b] = n]
  /\ valid' = [valid EXCEPT ![b] = FALSE]
  /\ refcnt' = [refcnt EXCEPT ![b] = 1]
  /\ pc' = [pc EXCEPT ![p] = "lock"]
  /\ mine' = [mine EXCEPT ![p] = b]
  /\ UNCHANGED <<lru, data, lock, disk, pinned, dirty>>

\* It does not: it recycles the last unreferenced buffer of the list.
BgetMiss(p, n) ==
  LET b == lru[CHOOSE k \in Unused : \A m \in Unused : m <= k] IN
  /\ pc[p] = "idle"
  /\ Cached(n) = {}
  /\ Unused # {}
  /\ blockno' = [blockno EXCEPT ![b] = n]
  /\ valid' = [valid EXCEPT ![b] = FALSE]
  /\ refcnt' = [refcnt EXCEPT ![b] = 1]
  /\ pc' = [pc EXCEPT ![p] = "lock"]
  /\ mine' = [mine EXCEPT ![p] = b]
  /\ UNCHANGED <<lru, data, lock, disk, pinned, dirty>>

\* acquiresleep(&b->lock)
Lock(p) ==
  /\ pc[p] = "lock"
  /\ lock[mine[p]] = None
  /\ lock' = [lock EXCEPT ![mine[p]] = p]
  /\ pc' = [pc EXCEPT ![p] = "read"]
  /\ UNCHANGED <<bufs, disk, pinned, mine, dirty>>

\* Mutant: bread() ignores b->valid.
Read_Always(p) ==
  LET b == mine[p] IN
  /\ pc[p] = "read"
  /\ data' = [data EXCEPT ![b] = disk[blockno[b]]]
  /\ valid' = [valid EXCEPT ![b] = TRUE]
  /\ pc' = [pc EXCEPT ![p] = "use"]
  /\ UNCHANGED <<lru, blockno, refcnt, lock, disk, pinned, mine, dirty>>

\* The rest of bread(): read the block unless the buffer has it.
Read(p) ==
  LET b == mine[p] IN
  /\ pc[p] = "read"
  /\ data' = IF valid[b] THEN data ELSE [data EXCEPT ![b] = disk[blockno[b]]]
  /\ valid' = [valid EXCEPT ![b] = TRUE]
  /\ pc' = [pc EXCEPT ![p] = "use"]
  /\ UNCHANGED <<lru, blockno, refcnt, lock, disk, pinned, mine, dirty>>

\* The owner of the locked buffer changes b->data.
Modify(p, v) ==
  /\ pc[p] = "use"
  /\ data' = [data EXCEPT ![mine[p]] = v]
  /\ dirty' = [dirty EXCEPT ![p] = TRUE]
  /\ UNCHANGED <<lru, blockno, refcnt, valid, lock, disk, pinned, pc, mine>>

\* bwrite()
Bwrite(p) ==
  /\ pc[p] = "use"
  /\ disk' = [disk EXCEPT ![blockno[mine[p]]] = data[mine[p]]]
  /\ dirty' = [dirty EXCEPT ![p] = FALSE]
  /\ UNCHANGED <<bufs, lock, pinned, pc, mine>>

\* log_write() of a block that is new to the log: bpin().
Bpin(p) ==
  /\ pc[p] = "use"
  /\ blockno[mine[p]] \notin pinned
  /\ Cardinality(pinned) < MaxPins
  /\ refcnt' = [refcnt EXCEPT ![mine[p]] = @ + 1]
  /\ pinned' = pinned \cup {blockno[mine[p]]}
  /\ dirty' = [dirty EXCEPT ![p] = FALSE]
  /\ UNCHANGED <<lru, blockno, valid, data, lock, disk, pc, mine>>

\* install_trans(): bwrite(dbuf), bunpin(dbuf).
Bunpin(p) ==
  /\ pc[p] = "use"
  /\ blockno[mine[p]] \in pinned
  /\ disk' = [disk EXCEPT ![blockno[mine[p]]] = data[mine[p]]]
  /\ refcnt' = [refcnt EXCEPT ![mine[p]] = @ - 1]
  /\ pinned' = pinned \ {blockno[mine[p]]}
  /\ dirty' = [dirty EXCEPT ![p] = FALSE]
  /\ UNCHANGED <<lru, blockno, valid, data, lock, pc, mine>>

\* brelse() up to acquire(&bcache.lock).
BrelseUnlock(p) ==
  /\ pc[p] = "use"
  /\ dirty[p] => blockno[mine[p]] \in pinned
  /\ lock' = [lock EXCEPT ![mine[p]] = None]
  /\ dirty' = [dirty EXCEPT ![p] = FALSE]
  /\ pc' = [pc EXCEPT ![p] = "brelse"]
  /\ UNCHANGED <<bufs, disk, pinned, mine>>

\* The list with b taken out and inserted again at the front.
ToFront(b) ==
  LET at == CHOOSE k \in Bufs : lru[k] = b
  IN  [k \in Bufs |-> IF k = 1 THEN b ELSE IF k <= at THEN lru[k - 1] ELSE lru[k]]

\* The rest of brelse(): an unreferenced buffer goes to the front.
Brelse(p) ==
  LET b == mine[p] IN
  /\ pc[p] = "brelse"
  /\ refcnt' = [refcnt EXCEPT ![b] = @ - 1]
  /\ lru' = IF refcnt[b] = 1 THEN ToFront(b) ELSE lru
  /\ pc' = [pc EXCEPT ![p] = "idle"]
  /\ mine' = [mine EXCEPT ![p] = None]
  /\ UNCHANGED <<blockno, valid, data, lock, disk, pinned, dirty>>

Kernel(p) == Lock(p) \/ Read(p) \/ BrelseUnlock(p) \/ Brelse(p)

Next ==
  \E p \in Procs :
    \/ Kernel(p)
    \/ \E n \in Blocks : BgetHit(p, n) \/ BgetMiss(p, n)
    \/ \E v \in Vals : Modify(p, v)
    \/ Bwrite(p) \/ Bpin(p) \/ Bunpin(p)

Spec == Init /\ [][Next]_vars

-----------------------------------------------------------------------------
\* Type invariant of the buffers and their users.
TypeOK ==
  /\ lru \in [Bufs -> Bufs] /\ {lru[k] : k \in Bufs} = Bufs
  /\ blockno \in [Bufs -> Blocks \cup {None}]
  /\ refcnt \in [Bufs -> Nat]
  /\ valid \in [Bufs -> BOOLEAN]
  /\ data \in [Bufs -> Vals \cup {None}]
  /\ lock \in [Bufs -> Procs \cup {None}]
  /\ disk \in [Blocks -> Vals]
  /\ pinned \subseteq Blocks
  /\ pc \in [Procs -> {"idle", "lock", "read", "use", "brelse"}]
  /\ mine \in [Procs -> Bufs \cup {None}]
  /\ dirty \in [Procs -> BOOLEAN]

(***************************************************************************)
(* bget() never makes a second buffer for a block, although it gives up    *)
(* bcache.lock before it has the buffer's lock; b->refcnt counts the       *)
(* processes that use the buffer or wait for it, and the log's pin, so a   *)
(* buffer that somebody is about to lock is not recycled under them.       *)
(* "bget: no buffers" is not reached as long as the pins of the log and    *)
(* the buffers in use fit into NBUF.                                       *)
(***************************************************************************)
OneBufferPerBlock ==
  /\ TypeOK
  /\ \A a, b \in Bufs : blockno[a] = blockno[b] /\ blockno[a] # None => a = b
  /\ \A b \in Bufs :
       refcnt[b] = Cardinality({p \in Procs : mine[p] = b})
                   + (IF blockno[b] \in pinned THEN 1 ELSE 0)
  /\ (\E p \in Procs : pc[p] = "idle") => Unused # {}

(***************************************************************************)
(* The cache implements LockedBlocks: recycling, pinning and re-reading    *)
(* never lose or revive contents, and what bread() returns is current.     *)
(***************************************************************************)
Current(n) ==
  LET c == {b \in Cached(n) : valid[b]}
  IN  IF c = {} THEN disk[n] ELSE data[CHOOSE b \in c : TRUE]
Holder(n) ==
  LET h == {p \in Procs : pc[p] = "use" /\ blockno[mine[p]] = n}
  IN  IF h = {} THEN None ELSE CHOOSE p \in h : TRUE
LB == INSTANCE LockedBlocks WITH
        mem <- [n \in Blocks |-> Current(n)],
        holder <- [n \in Blocks |-> Holder(n)],
        cell <- [p \in Procs |-> IF pc[p] = "use" THEN data[mine[p]] ELSE None]
CacheIsCoherent == LB!LSpec
=============================================================================
