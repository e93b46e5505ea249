-------------------------------- MODULE Log --------------------------------
(***************************************************************************)
(* kernel/log.c: the redo log that makes file-system system calls atomic   *)
(* with respect to crashes, with the part of the buffer cache it relies on *)
(* (kernel/bio.c: a pinned buffer is not recycled).                        *)
(*                                                                         *)
(* log.lock is held only for the length of an action, so every critical    *)
(* section is one atomic step; each disk write is a step of its own and a  *)
(* crash may come between any two of them.  The write of one block is      *)
(* atomic: that is what log.c assumes of the disk when it calls the header *)
(* write "the true point at which the current transaction commits".        *)
(***************************************************************************)
EXTENDS Integers, Sequences, FiniteSets

CONSTANTS
  Procs,        \* processes that run file-system system calls
  Blocks,       \* home block numbers (outside the log area)
  Vals,         \* contents of a block
  NoBuf,        \* "not in the buffer cache"
  MAXOPBLOCKS,  \* param.h: log space that begin_op() reserves for one call
  LOGSIZE,      \* param.h: capacity of struct logheader
  NLog,         \* superblock nlog: log blocks on disk, header included
  OpBlocks      \* most distinct blocks that one system call really writes

ASSUME LogAssumption ==
  /\ MAXOPBLOCKS \in Nat \ {0}
  /\ LOGSIZE \in Nat \ {0}
  /\ NLog \in Nat \ {0}
  /\ OpBlocks \in 0..MAXOPBLOCKS /\ MAXOPBLOCKS <= LOGSIZE
  /\ NoBuf \notin Vals
  /\ IsFiniteSet(Procs)

(***************************************************************************)
(* The space that begin_op() reserves but a call does not use covers the   *)
(* header block and makes room for the tests "n >= LOGSIZE" and            *)
(* "n >= log.size - 1", which log_write() makes before it looks for an     *)
(* entry to absorb the block in.                                           *)
(***************************************************************************)
SlackAssumption ==
  /\ OpBlocks < MAXOPBLOCKS
  /\ LOGSIZE - (MAXOPBLOCKS - OpBlocks) < NLog - 1

VARIABLES
  \* on disk
  home,         \* block -> contents at its home location
  logd,         \* log slot -> contents
  hdr,          \* the header block: block numbers of a committed transaction
  \* in memory
  cache,        \* block -> contents in the buffer cache, or NoBuf
  pin,          \* block -> references held by the log (bpin/bunpin)
  lh,           \* log.lh: block numbers of the current transaction
  outstanding,  \* log.outstanding
  committing,   \* log.committing
  phase,        \* where the recovering or the committing thread is
  tail,         \* its loop variable (from 1)
  pc,           \* process -> where it is with respect to the log
  written,      \* process -> blocks its current call has modified
  panicked

disk == <<home, logd, hdr>>
mem == <<cache, pin, lh, outstanding, committing>>
vars == <<home, logd, hdr, cache, pin, lh, outstanding, committing, phase,
          tail, pc, written, panicked>>

Slots == 1..(NLog - 1)
InLog(b) == \E i \in 1..Len(lh) : lh[i] = b
Recovering == phase \in {"read_head", "reinstall", "reerase"}

\* The contents that bread(b) returns.
Bread(b) == IF cache[b] = NoBuf THEN home[b] ELSE cache[b]

\* wakeup(&log): every process asleep in begin_op() tests again.
Wakeup(f) == [q \in Procs |-> IF f[q] = "asleep" THEN "begin" ELSE f[q]]

\* An empty file system from mkfs, and a machine about to run initlog().
Init ==
  /\ home \in [Blocks -> Vals]
  /\ logd \in [Slots -> Vals]
  /\ \A i, j \in Slots : logd[i] = logd[j]
  /\ hdr = << >>
  /\ cache = [b \in Blocks |-> NoBuf]
  /\ pin = [b \in Blocks |-> 0]
  /\ lh = << >>
  /\ outstanding = 0
  /\ committing = FALSE
  /\ phase = "read_head"
  /\ tail = 1
  /\ pc = [p \in Procs |-> "idle"]
  /\ written = [p \in Procs |-> {}]
  /\ panicked = FALSE

-----------------------------------------------------------------------------
(* initlog() -> recover_from_log(), run by the first process alone.        *)

ReadHead ==
  /\ phase = "read_head"
  /\ lh' = hdr
  /\ tail' = 1
  /\ phase' = IF hdr = << >> THEN "reerase" ELSE "reinstall"
  /\ UNCHANGED <<disk, cache, pin, outstanding, committing, pc, written, panicked>>

\* One iteration of install_trans(1): as below, but nothing is pinned.
Reinstall ==
  /\ phase = "reinstall"
  /\ home' = [home EXCEPT ![lh[tail]] = logd[tail]]
  /\ cache' = [cache EXCEPT ![lh[tail]] = logd[tail]]
  /\ tail' = tail + 1
  /\ phase' = IF tail = Len(lh) THEN "reerase" ELSE "reinstall"
  /\ UNCHANGED <<logd, hdr, pin, lh, outstanding, committing, pc, written, panicked>>

Reerase ==
  /\ phase = "reerase"
  /\ lh' = << >>
  /\ hdr' = << >>
  /\ tail' = 1
  /\ phase' = "run"
  /\ UNCHANGED <<home, logd, cache, pin, outstanding, committing, pc, written, panicked>>

-----------------------------------------------------------------------------
(* The system-call side.                                                   *)

\* A system call is about to call begin_op().
StartOp(p) ==
  /\ ~Recovering
  /\ pc[p] = "idle"
  /\ pc' = [pc EXCEPT ![p] = "begin"]
  /\ UNCHANGED <<disk, mem, phase, tail, written, panicked>>

\* Mutant: begin_op() does not test log.committing.
MustWait_Commit == Len(lh) + (outstanding + 1) * MAXOPBLOCKS > LOGSIZE

\* begin_op() would have to wait: a commit runs, or space might run out.
MustWait == committing \/ Len(lh) + (outstanding + 1) * MAXOPBLOCKS > LOGSIZE

\* One turn of the loop in begin_op(), under log.lock.
BeginOp(p) ==
  /\ pc[p] = "begin"
  /\ pc' = [pc EXCEPT ![p] = IF MustWait THEN "asleep" ELSE "op"]
  /\ outstanding' = IF MustWait THEN outstanding ELSE outstanding + 1
  /\ UNCHANGED <<disk, cache, pin, lh, committing, phase, tail, written, panicked>>

(***************************************************************************)
(* bread(); modify; log_write(); brelse(): the buffer is locked throughout *)
(* and the transaction cannot commit while this call is outstanding.       *)
(***************************************************************************)
LogWrite(p, b, v) ==
  /\ pc[p] = "op"
  /\ Cardinality(written[p] \cup {b}) <= OpBlocks
  /\ cache' = [cache EXCEPT ![b] = v]
  /\ panicked' = (Len(lh) >= LOGSIZE \/ Len(lh) >= NLog - 1 \/ outstanding < 1)
  /\ lh' = IF InLog(b) THEN lh ELSE Append(lh, b)
  /\ pin' = IF InLog(b) THEN pin ELSE [pin EXCEPT ![b] = @ + 1]
  /\ written' = [written EXCEPT ![p] = @ \cup {b}]
  /\ UNCHANGED <<disk, outstanding, committing, phase, tail, pc>>

\* end_op() up to its release(&log.lock) when other calls are outstanding.
EndOp(p) ==
  /\ pc[p] = "op"
  /\ outstanding # 1
  /\ outstanding' = outstanding - 1
  /\ panicked' = committing
  /\ pc' = Wakeup([pc EXCEPT ![p] = "idle"])
  /\ written' = [written EXCEPT ![p] = {}]
  /\ UNCHANGED <<disk, cache, pin, lh, committing, phase, tail>>

\* Mutant: commit() tests n > 1.
EndLastOp_SkipsSmall(p) ==
  /\ pc[p] = "op"
  /\ outstanding = 1
  /\ outstanding' = 0
  /\ panicked' = committing
  /\ committing' = TRUE
  /\ pc' = [pc EXCEPT ![p] = "commit"]
  /\ phase' = IF Len(lh) < 2 THEN "committed" ELSE "write_log"
  /\ tail' = 1
  /\ written' = [written EXCEPT ![p] = {}]
  /\ UNCHANGED <<disk, cache, pin, lh>>

\* The same for the last outstanding call, which goes on to commit().
EndLastOp(p) ==
  /\ pc[p] = "op"
  /\ outstanding = 1
  /\ outstanding' = 0
  /\ panicked' = committing
  /\ committing' = TRUE
  /\ pc' = [pc EXCEPT ![p] = "commit"]
  /\ phase' = IF lh = << >> THEN "committed" ELSE "write_log"
  /\ tail' = 1
  /\ written' = [written EXCEPT ![p] = {}]
  /\ UNCHANGED <<disk, cache, pin, lh>>

-----------------------------------------------------------------------------
(* commit(), run by the process whose end_op() was the last.               *)

\* One iteration of write_log(): copy a modified block to its log slot.
WriteLog ==
  /\ phase = "write_log"
  /\ logd' = [logd EXCEPT ![tail] = Bread(lh[tail])]
  /\ cache' = [cache EXCEPT ![lh[tail]] = Bread(lh[tail])]
  /\ tail' = tail + 1
  /\ phase' = IF tail = Len(lh) THEN "write_head" ELSE "write_log"
  /\ UNCHANGED <<home, hdr, pin, lh, outstanding, committing, pc, written, panicked>>

WriteHead ==
  /\ phase = "write_head"
  /\ hdr' = lh
  /\ tail' = 1
  /\ phase' = "install"
  /\ UNCHANGED <<home, logd, mem, pc, written, panicked>>

\* Mutant: install_trans() forgets bwrite(dbuf).
Install_NotWritten ==
  /\ phase = "install"
  /\ UNCHANGED home
  /\ cache' = [cache EXCEPT ![lh[tail]] = logd[tail]]
  /\ pin' = [pin EXCEPT ![lh[tail]] = @ - 1]
  /\ tail' = tail + 1
  /\ phase' = IF tail = Len(lh) THEN "erase" ELSE "install"
  /\ UNCHANGED <<logd, hdr, lh, outstanding, committing, pc, written, panicked>>

\* One iteration of install_trans(0).
Install ==
  /\ phase = "install"
  /\ home' = [home EXCEPT ![lh[tail]] = logd[tail]]
  /\ cache' = [cache EXCEPT ![lh[tail]] = logd[tail]]
  /\ pin' = [pin EXCEPT ![lh[tail]] = @ - 1]
  /\ tail' = tail + 1
  /\ phase' = IF tail = Len(lh) THEN "erase" ELSE "install"
  /\ UNCHANGED <<logd, hdr, lh, outstanding, committing, pc, written, panicked>>

\* log.lh.n = 0; write_head().
Erase ==
  /\ phase = "erase"
  /\ lh' = << >>
  /\ hdr' = << >>
  /\ tail' = 1
  /\ phase' = "committed"
  /\ UNCHANGED <<home, logd, cache, pin, outstanding, committing, pc, written, panicked>>

\* Mutant: end_op() does not wake after the commit.
CommitDone_NoWakeup ==
  /\ phase = "committed"
  /\ committing' = FALSE
  /\ pc' = [p \in Procs |-> IF pc[p] = "commit" THEN "idle" ELSE pc[p]]
  /\ phase' = "run"
  /\ UNCHANGED <<disk, cache, pin, lh, outstanding, tail, written, panicked>>

\* end_op() after commit().
CommitDone ==
  /\ phase = "committed"
  /\ committing' = FALSE
  /\ pc' = Wakeup([p \in Procs |-> IF pc[p] = "commit" THEN "idle" ELSE pc[p]])
  /\ phase' = "run"
  /\ UNCHANGED <<disk, cache, pin, lh, outstanding, tail, written, panicked>>

-----------------------------------------------------------------------------
(* The buffer cache and the machine.                                       *)

\* A read of a block that is not cached (bread() missing in the cache).
Load(b) ==
  /\ ~Recovering
  /\ cache[b] = NoBuf
  /\ cache' = [cache EXCEPT ![b] = home[b]]
  /\ UNCHANGED <<disk, pin, lh, outstanding, committing, phase, tail, pc, written, panicked>>

\* bget() recycles a buffer that nobody references.
Evict(b) ==
  /\ cache[b] # NoBuf
  /\ pin[b] = 0
  /\ cache' = [cache EXCEPT ![b] = NoBuf]
  /\ UNCHANGED <<disk, pin, lh, outstanding, committing, phase, tail, pc, written, panicked>>

\* Power failure: memory is lost, the disk is not, and initlog() runs again.
Crash ==
  /\ cache' = [b \in Blocks |-> NoBuf]
  /\ pin' = [b \in Blocks |-> 0]
  /\ lh' = << >>
  /\ outstanding' = 0
  /\ committing' = FALSE
  /\ phase' = "read_head"
  /\ tail' = 1
  /\ pc' = [p \in Procs |-> "idle"]
  /\ written' = [p \in Procs |-> {}]
  /\ UNCHANGED <<disk, panicked>>

Recover == ReadHead \/ Reinstall \/ Reerase
Commit == WriteLog \/ WriteHead \/ Install \/ Erase \/ CommitDone
Op(p) ==
  \/ StartOp(p)
  \/ BeginOp(p)
  \/ \E b \in Blocks, v \in Vals : LogWrite(p, b, v)
  \/ EndOp(p)
  \/ EndLastOp(p)

Next ==
  /\ ~panicked
  /\ \/ Recover
     \/ Commit
     \/ \E p \in Procs : Op(p)
     \/ \E b \in Blocks : Load(b) \/ Evict(b)
     \/ Crash

Spec == Init /\ [][Next]_vars

-----------------------------------------------------------------------------
(* Properties.                                                             *)

\* Type invariant of the log's variables.
TypeOK ==
  /\ home \in [Blocks -> Vals]
  /\ logd \in [Slots -> Vals]
  /\ hdr \in Seq(Blocks)
  /\ cache \in [Blocks -> Vals \cup {NoBuf}]
  /\ pin \in [Blocks -> Nat]
  /\ lh \in Seq(Blocks)
  /\ outstanding \in Nat
  /\ committing \in BOOLEAN
  /\ phase \in {"read_head", "reinstall", "reerase", "run", "write_log",
                "write_head", "install", "erase", "committed"}
  /\ tail \in Nat \ {0}
  /\ pc \in [Procs -> {"idle", "begin", "asleep", "op", "commit"}]
  /\ written \in [Procs -> SUBSET Blocks]
  /\ panicked \in BOOLEAN

\* b is in the transaction, and install_trans() has not written it home yet.
NotInstalled(b) ==
  \E i \in 1..Len(lh) : lh[i] = b /\ ~Recovering /\ phase # "erase"
                        /\ (phase = "install" => i >= tail)

(***************************************************************************)
(* What begin_op() reserves is enough for every log_write() of the calls   *)
(* it admits: the panics "too big a transaction", "log_write outside of    *)
(* trans" and "log.committing" are not reached.  A block is pinned exactly *)
(* once from the log_write() that adds it until install_trans() has        *)
(* written it home, however often it is written and whoever writes it.     *)
(***************************************************************************)
LogFits ==
  /\ TypeOK /\ ~panicked
  /\ \A b \in Blocks : pin[b] = IF NotInstalled(b) THEN 1 ELSE 0

(***************************************************************************)
(* A process sleeping in begin_op() always has somebody who will call      *)
(* wakeup(&log): a committer, or an outstanding call.                      *)
(***************************************************************************)
SleepersHaveWaker ==
  (\E p \in Procs : pc[p] = "asleep") => committing \/ outstanding > 0

\* What the disk holds after a crash now and a complete recovery.
Recovered ==
  [b \in Blocks |-> IF \E i \in 1..Len(hdr) : hdr[i] = b
                    THEN logd[CHOOSE i \in 1..Len(hdr) : hdr[i] = b]
                    ELSE home[b]]

\* What the running kernel reads; while it recovers, what it will read.
Visible == [b \in Blocks |-> IF Recovering THEN Recovered[b] ELSE Bread(b)]

(***************************************************************************)
(* log.c implements StableDisk: whatever the interleaving and wherever the *)
(* crashes, recovery's own included, the disk recovers to the state the    *)
(* kernel saw at a moment when no system call was in progress.             *)
(***************************************************************************)
Stable == INSTANCE StableDisk WITH
            vol <- Visible, stable <- Recovered,
            active <- {p \in Procs : pc[p] = "op"}
CrashAtomic == Stable!SSpec

(***************************************************************************)
(* Once the last outstanding end_op() has committed and nobody has begun   *)
(* another call, everything written is durable.                            *)
(***************************************************************************)
DurableWhenQuiet ==
  ~Recovering /\ ~committing /\ outstanding = 0 => Visible = Recovered
=============================================================================
