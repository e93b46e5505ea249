-------------------------------- MODULE Pipe --------------------------------
(***************************************************************************)
(* kernel/pipe.c: one pipe and the processes that have descriptors for its *)
(* ends, with pipe(), dup() and close() as far as they change who has one  *)
(* (the rest of kernel/file.c is in Ftable).  Programs read from           *)
(* descriptor 0 and write to descriptor 1.                                 *)
(*                                                                         *)
(* pi->lock is explicit because kill() does not take it: it may come       *)
(* between any two bytes that a writer copies.  sleep() and wakeup() are   *)
(* called under pi->lock and are atomic (see SleepLock), except that kill  *)
(* may also come between the test of killed() and the sleep().             *)
(***************************************************************************)
EXTENDS Naturals, Sequences, FiniteSets

CONSTANTS
  Procs,
  NOFILE,    \* descriptors of a process
  Vals,      \* bytes
  PIPESIZE,
  UINT,      \* number of values of a uint: 2^32 in the code
  MaxN,      \* bound: most bytes one call asks for
  None

ASSUME PipeAssumption ==
  /\ PIPESIZE \in Nat \ {0}
  /\ UINT \in Nat /\ UINT % PIPESIZE = 0 /\ UINT > PIPESIZE
  /\ NOFILE \in Nat /\ NOFILE >= 3
  /\ None \notin Procs

Fds == 0..(NOFILE - 1)

VARIABLES
  data, nread, nwrite, readopen, writeopen,  \* struct pipe
  live,       \* pi is allocated: between pipealloc() and kfree(pi)
  lock,       \* holder of pi->lock
  ofile,      \* process -> p->ofile[]: "r", "w", another file or None
  killed,
  pc, n,      \* process -> what it does next, bytes left to copy
  out         \* bytes delivered by the latest read

vars == <<data, nread, nwrite, readopen, writeopen, live, lock, ofile, killed, pc, n, out>>
pipe == <<data, nread, nwrite, readopen, writeopen>>

PipeInit ==
  /\ data \in [0..(PIPESIZE - 1) -> Vals]
  /\ \A a, b \in DOMAIN data : data[a] = data[b]
  /\ nread = 0 /\ nwrite = 0
  /\ readopen = FALSE /\ writeopen = FALSE
  /\ live = FALSE
  /\ lock = None
  /\ killed = [p \in Procs |-> FALSE]
  /\ pc = [p \in Procs |-> "user"]
  /\ n = [p \in Procs |-> 0]
  /\ out = << >>

Goto(p, l) == pc' = [pc EXCEPT ![p] = l]
\* Where a process asleep in s goes on: acquire() at the end of sleep().
Relock(s) == IF s = "rasleep" THEN "rlock" ELSE "wlock"
\* p goes to l, and the processes asleep in state s are woken.
GotoWaking(p, l, s) ==
  pc' = [r \in Procs |-> IF r = p THEN l ELSE IF pc[r] = s THEN Relock(s) ELSE pc[r]]

Used == (nwrite + UINT - nread) % UINT
Full == nwrite = (nread + PIPESIZE) % UINT

-----------------------------------------------------------------------------
\* read(0, ..., k) and write(1, ..., k).
Read(p, k) ==
  /\ pc[p] = "user" /\ ofile[p][0] = "r"
  /\ Goto(p, "rlock")
  /\ n' = [n EXCEPT ![p] = k]
  /\ UNCHANGED <<pipe, lock, live, ofile, killed, out>>

Write(p, k) ==
  /\ pc[p] = "user" /\ ofile[p][1] = "w"
  /\ Goto(p, "wlock")
  /\ n' = [n EXCEPT ![p] = k]
  /\ UNCHANGED <<pipe, lock, live, ofile, killed, out>>

\* acquire(&pi->lock): on entry, and at the end of sleep().
Acquire(p) ==
  /\ pc[p] \in {"rlock", "wlock"}
  /\ lock = None
  /\ lock' = p
  /\ Goto(p, IF pc[p] = "rlock" THEN "rloop" ELSE "wloop")
  /\ UNCHANGED <<pipe, live, ofile, killed, n, out>>

-----------------------------------------------------------------------------
(* pipewrite()                                                             *)

WriteFail(p) ==
  /\ pc[p] = "wloop" /\ n[p] > 0
  /\ ~readopen \/ killed[p]
  /\ lock' = None
  /\ Goto(p, "user")
  /\ n' = [n EXCEPT ![p] = 0]
  /\ UNCHANGED <<pipe, live, ofile, killed, out>>

\* The head of the loop: neither closed nor killed.
WriteOn(p) ==
  /\ pc[p] = "wloop" /\ n[p] > 0
  /\ readopen /\ ~killed[p]
  /\ IF Full THEN GotoWaking(p, "wsleep", "rasleep") ELSE Goto(p, "wbyte")
  /\ UNCHANGED <<pipe, lock, live, ofile, killed, n, out>>

WriteByte(p, v) ==
  /\ pc[p] = "wbyte"
  /\ data' = [data EXCEPT ![nwrite % PIPESIZE] = v]
  /\ nwrite' = (nwrite + 1) % UINT
  /\ n' = [n EXCEPT ![p] = @ - 1]
  /\ Goto(p, "wloop")
  /\ UNCHANGED <<nread, readopen, writeopen, lock, live, ofile, killed, out>>

WriteSleep(p) ==
  /\ pc[p] = "wsleep"
  /\ lock' = None
  /\ Goto(p, "wasleep")
  /\ UNCHANGED <<pipe, live, ofile, killed, n, out>>

\* Mutant: pipewrite() returns without wakeup(&pi->nread).
WriteDone_NoWakeup(p) ==
  /\ (pc[p] = "wloop" /\ n[p] = 0) \/ pc[p] = "wbyte"
  /\ lock' = None
  /\ Goto(p, "user")
  /\ n' = [n EXCEPT ![p] = 0]
  /\ UNCHANGED <<pipe, live, ofile, killed, out>>

\* All written, or copyin() has failed: wakeup(&pi->nread) and return.
WriteDone(p) ==
  /\ (pc[p] = "wloop" /\ n[p] = 0) \/ pc[p] = "wbyte"
  /\ lock' = None
  /\ GotoWaking(p, "user", "rasleep")
  /\ n' = [n EXCEPT ![p] = 0]
  /\ UNCHANGED <<pipe, live, ofile, killed, out>>

-----------------------------------------------------------------------------
(* piperead()                                                              *)

Empty == nread = nwrite

ReadWait(p) ==
  /\ pc[p] = "rloop"
  /\ Empty /\ writeopen
  /\ IF killed[p] THEN Goto(p, "user") /\ lock' = None /\ n' = [n EXCEPT ![p] = 0]
                  ELSE Goto(p, "rsleep") /\ UNCHANGED <<lock, n>>
  /\ UNCHANGED <<pipe, live, ofile, killed, out>>

ReadSleep(p) ==
  /\ pc[p] = "rsleep"
  /\ lock' = None
  /\ Goto(p, "rasleep")
  /\ UNCHANGED <<pipe, live, ofile, killed, n, out>>

\* Mutant: piperead() indexes with ++pi->nread.
ReadCopy_PreIncrement(p, k, lost) ==
  /\ pc[p] = "rloop"
  /\ ~(Empty /\ writeopen)
  /\ IF lost = 0 THEN k = (IF n[p] < Used THEN n[p] ELSE Used)
                 ELSE k < n[p] /\ k < Used
  /\ out' = [m \in 1..k |-> data[((nread + m) % UINT) % PIPESIZE]]
  /\ nread' = (nread + k + lost) % UINT
  /\ lock' = None
  /\ GotoWaking(p, "user", "wasleep")
  /\ n' = [n EXCEPT ![p] = 0]
  /\ UNCHANGED <<data, nwrite, readopen, writeopen, live, ofile, killed>>

(***************************************************************************)
(* The copy loop, wakeup(&pi->nwrite), release and return.  copyout() may  *)
(* fail on the last byte taken (lost = 1), which is then not delivered.    *)
(***************************************************************************)
ReadCopy(p, k, lost) ==
  /\ pc[p] = "rloop"
  /\ ~(Empty /\ writeopen)
  /\ IF lost = 0 THEN k = (IF n[p] < Used THEN n[p] ELSE Used)
                 ELSE k < n[p] /\ k < Used
  /\ out' = [m \in 1..k |-> data[((nread + m - 1) % UINT) % PIPESIZE]]
  /\ nread' = (nread + k + lost) % UINT
  /\ lock' = None
  /\ GotoWaking(p, "user", "wasleep")
  /\ n' = [n EXCEPT ![p] = 0]
  /\ UNCHANGED <<data, nwrite, readopen, writeopen, live, ofile, killed>>

-----------------------------------------------------------------------------
(* pipe(), dup(), close(), kill()                                          *)

FreeFds(p) == {f \in Fds : ofile[p][f] = None}
\* fdalloc() takes the lowest free descriptor.
Fdalloc(free) == CHOOSE f \in free : \A g \in free : f <= g

\* sys_pipe(), when it does not fail.
Pipealloc(p) ==
  LET fd0 == Fdalloc(FreeFds(p))
      fd1 == Fdalloc(FreeFds(p) \ {fd0})
  IN
  /\ pc[p] = "user" /\ ~live
  /\ live' = TRUE /\ readopen' = TRUE /\ writeopen' = TRUE
  /\ nread' = 0 /\ nwrite' = 0
  /\ ofile' = [ofile EXCEPT ![p][fd0] = "r", ![p][fd1] = "w"]
  /\ UNCHANGED <<data, lock, killed, pc, n, out>>

Dup(p, fd) ==
  /\ pc[p] = "user"
  /\ ofile' = [ofile EXCEPT ![p][Fdalloc(FreeFds(p))] = ofile[p][fd]]
  /\ UNCHANGED <<pipe, live, lock, killed, pc, n, out>>

Refs(e) == {r \in Procs \X Fds : ofile[r[1]][r[2]] = e}

\* close(): the last reference to an end goes on to pipeclose().
Close(p, fd) ==
  LET e == ofile[p][fd] IN
  /\ pc[p] = "user" /\ e # None
  /\ ofile' = [ofile EXCEPT ![p][fd] = None]
  /\ Goto(p, IF e \in {"r", "w"} /\ Refs(e) = {<<p, fd>>}
              THEN (IF e = "r" THEN "rclose" ELSE "wclose") ELSE "user")
  /\ UNCHANGED <<pipe, lock, live, killed, n, out>>

\* Mutant: pipeclose() frees when either end is closed.
PipeClose_EitherFrees(p) ==
  /\ pc[p] \in {"rclose", "wclose"}
  /\ lock = None
  /\ IF pc[p] = "wclose"
     THEN writeopen' = FALSE /\ UNCHANGED readopen /\ GotoWaking(p, "user", "rasleep")
     ELSE readopen' = FALSE /\ UNCHANGED writeopen /\ GotoWaking(p, "user", "wasleep")
  /\ live' = (readopen' /\ writeopen')
  /\ UNCHANGED <<data, nread, nwrite, lock, ofile, killed, n, out>>

PipeClose(p) ==
  /\ pc[p] \in {"rclose", "wclose"}
  /\ lock = None
  /\ IF pc[p] = "wclose"
     THEN writeopen' = FALSE /\ UNCHANGED readopen /\ GotoWaking(p, "user", "rasleep")
     ELSE readopen' = FALSE /\ UNCHANGED writeopen /\ GotoWaking(p, "user", "wasleep")
  /\ live' = (readopen' \/ writeopen')
  /\ UNCHANGED <<data, nread, nwrite, lock, ofile, killed, n, out>>

\* kill(): sets p->killed and wakes p if it is asleep.
Kill(p) ==
  /\ ~killed[p]
  /\ killed' = [killed EXCEPT ![p] = TRUE]
  /\ pc' = [pc EXCEPT ![p] = IF @ \in {"rasleep", "wasleep"} THEN Relock(@) ELSE @]
  /\ UNCHANGED <<pipe, lock, live, ofile, n, out>>

\* What a process does once it is inside a call.
Kernel(p) ==
  \/ Acquire(p)
  \/ WriteFail(p) \/ WriteOn(p) \/ WriteSleep(p) \/ WriteDone(p)
  \/ \E v \in Vals : WriteByte(p, v)
  \/ ReadWait(p) \/ ReadSleep(p)
  \/ \E k \in 0..MaxN, lost \in 0..1 : ReadCopy(p, k, lost)
  \/ PipeClose(p)

-----------------------------------------------------------------------------
\* Type invariant; the pipe never holds more than PIPESIZE bytes.
PipeTypeOK ==
  /\ data \in [0..(PIPESIZE - 1) -> Vals]
  /\ nread \in 0..(UINT - 1) /\ nwrite \in 0..(UINT - 1)
  /\ Used <= PIPESIZE
  /\ readopen \in BOOLEAN /\ writeopen \in BOOLEAN /\ live \in BOOLEAN
  /\ lock \in Procs \cup {None}
  /\ ofile \in [Procs -> [Fds -> {"r", "w", "console", "file", None}]]
  /\ killed \in [Procs -> BOOLEAN]
  /\ pc \in [Procs -> {"user", "rlock", "wlock", "wloop", "wbyte", "wsleep", "wasleep",
                       "rloop", "rsleep", "rasleep", "rclose", "wclose"}]
  /\ n \in [Procs -> 0..MaxN]

(***************************************************************************)
(* Bytes come out once and in order, across the wrap of the uint indices   *)
(* and whatever readers, writers, closes and kills do.                     *)
(***************************************************************************)
Queue == [m \in 1..Used |-> data[((nread + m - 1) % UINT) % PIPESIZE]]
PipeFifo == INSTANCE Fifo WITH Capacity <- PIPESIZE, q <- Queue, out <- out
FifoOrder == PipeFifo!FSpec

(***************************************************************************)
(* pipeclose() frees the pipe only when nobody is left inside piperead()   *)
(* or pipewrite(), asleep ones included, and nobody has a descriptor for   *)
(* it.                                                                     *)
(***************************************************************************)
NoUseAfterFree ==
  /\ PipeTypeOK
  /\ ~live => /\ \A p \in Procs : pc[p] = "user"
              /\ Refs("r") = {} /\ Refs("w") = {}

(***************************************************************************)
(* A reader sleeps only while the pipe is empty and has a writer, a writer *)
(* only while it is full and has a reader.                                 *)
(***************************************************************************)
SleepIsJustified ==
  lock = None => \A p \in Procs : /\ pc[p] = "rasleep" => Empty /\ writeopen
                                  /\ pc[p] = "wasleep" => Full /\ readopen
=============================================================================
