-------------------------------- MODULE Proc --------------------------------
(***************************************************************************)
(* kernel/proc.c: the life of a process - fork, exit, wait, kill, yield,   *)
(* sleep, wakeup - and the per-CPU schedulers, with the part of            *)
(* kernel/trap.c that decides when a process looks at p->killed.           *)
(*                                                                         *)
(* The steps are as fine as the locks make them.  wait_lock and p->lock    *)
(* are held across steps wherever the code holds them while it takes       *)
(* another lock or switches stacks; a critical section under one lock that *)
(* does neither is one step.  A step belongs to a CPU: stk[c] says whose   *)
(* kernel stack CPU c is on, 0 being its scheduler's.                      *)
(***************************************************************************)
EXTENDS Integers, FiniteSets

CONSTANTS
  NPROC,   \* slots of the process table
  CPUs,
  MaxPid,  \* bound: no pid above it is handed out
  KernelYield \* bound: where in the kernel a timer interrupt may come

ASSUME ProcAssumption ==
  /\ NPROC \in Nat \ {0}
  /\ MaxPid \in Nat \ {0}
  /\ 0 \notin CPUs
  /\ KernelYield \subseteq {"sysret", "fork", "fork_parent", "fork_run", "exit", "wait", "kill"}

Slots == 1..NPROC
initproc == 1

VARIABLES
  \* struct proc
  pstate,    \* p->state
  chan,      \* p->chan: 0 or a slot (wait() sleeps on its own proc)
  killed,    \* p->killed
  parent,    \* p->parent: 0 or a slot
  pid,       \* p->pid
  plock,     \* holder of p->lock: 0 or a CPU
  \* globals
  wait_lock, \* holder: 0 or a CPU
  nextpid,
  \* kernel threads
  pc,        \* slot -> what its thread does next
  ret,       \* slot -> where it resumes after swtch()
  i,         \* slot -> loop variable of the call it is in
  j,         \* slot -> loop variable of wakeup()
  havekids,  \* slot -> local of wait()
  arg,       \* slot -> np of fork(), pid of kill()
  \* CPUs
  stk,       \* whose kernel stack: 0 (scheduler) or a slot
  cproc,     \* c->proc
  si         \* loop variable of scheduler()

procs == <<pstate, chan, killed, parent, pid, plock>>
locals == <<i, j, havekids, arg>>
cpus == <<stk, cproc, si>>
vars == <<pstate, chan, killed, parent, pid, plock, wait_lock, nextpid, pc,
          ret, i, j, havekids, arg, stk, cproc, si>>

\* After userinit(): init is RUNNABLE and every CPU enters scheduler().
Init ==
  /\ pstate = [p \in Slots |-> IF p = initproc THEN "RUNNABLE" ELSE "UNUSED"]
  /\ chan = [p \in Slots |-> 0]
  /\ killed = [p \in Slots |-> FALSE]
  /\ parent = [p \in Slots |-> 0]
  /\ pid = [p \in Slots |-> IF p = initproc THEN 1 ELSE 0]
  /\ plock = [p \in Slots |-> 0]
  /\ wait_lock = 0
  /\ nextpid = 2
  /\ pc = [p \in Slots |-> "swtch"]
  /\ ret = [p \in Slots |-> "user"]
  /\ i = [p \in Slots |-> 1]
  /\ j = [p \in Slots |-> 1]
  /\ havekids = [p \in Slots |-> FALSE]
  /\ arg = [p \in Slots |-> 0]
  /\ stk = [c \in CPUs |-> 0]
  /\ cproc = [c \in CPUs |-> 0]
  /\ si = [c \in CPUs |-> 1]

At(c, p, l) == stk[c] = p /\ pc[p] = l
Goto(p, l) == pc' = [pc EXCEPT ![p] = l]
Free(p) == plock[p] = 0

\* A system call returns to usertrap(); its locals die.
Return(p) ==
  /\ Goto(p, "sysret")
  /\ i' = [i EXCEPT ![p] = 1]
  /\ arg' = [arg EXCEPT ![p] = 0]
  /\ havekids' = [havekids EXCEPT ![p] = FALSE]
  /\ UNCHANGED j

-----------------------------------------------------------------------------
(* scheduler(), sched(), yield()                                           *)

Succ(k) == IF k = NPROC THEN 1 ELSE k + 1

\* One iteration of the scheduler's loop on a slot that is not RUNNABLE.
SchedSkip(c) ==
  /\ stk[c] = 0
  /\ Free(si[c])
  /\ pstate[si[c]] # "RUNNABLE"
  /\ si' = [si EXCEPT ![c] = Succ(@)]
  /\ UNCHANGED <<procs, wait_lock, nextpid, pc, ret, locals, stk, cproc>>

(***************************************************************************)
(* The scheduler takes p->lock and switches to p; p releases the lock as   *)
(* soon as it is back in sleep(), yield() or forkret().  sleep() clears    *)
(* p->chan before it does.                                                 *)
(***************************************************************************)
SchedRun(c) ==
  LET p == si[c] IN
  /\ stk[c] = 0
  /\ Free(p)
  /\ pstate[p] = "RUNNABLE"
  /\ pstate' = [pstate EXCEPT ![p] = "RUNNING"]
  /\ cproc' = [cproc EXCEPT ![c] = p]
  /\ stk' = [stk EXCEPT ![c] = p]
  /\ chan' = [chan EXCEPT ![p] = IF ret[p] = "wait" THEN 0 ELSE @]
  /\ Goto(p, ret[p])
  /\ UNCHANGED <<killed, parent, pid, plock, wait_lock, nextpid, ret, locals, si>>

\* swtch() in sched(), then the rest of the scheduler's loop body.
Swtch(c, p) ==
  /\ At(c, p, "swtch")
  /\ stk' = [stk EXCEPT ![c] = 0]
  /\ cproc' = [cproc EXCEPT ![c] = 0]
  /\ plock' = [plock EXCEPT ![p] = 0]
  /\ si' = [si EXCEPT ![c] = Succ(@)]
  /\ UNCHANGED <<pstate, chan, killed, parent, pid, wait_lock, nextpid, pc, ret, locals>>

(***************************************************************************)
(* yield() up to swtch(): from usertrap() after its test of p->killed, or  *)
(* from kerneltrap() wherever the thread holds no spinlock.                *)
(***************************************************************************)
Yield(c, p) ==
  /\ stk[c] = p
  /\ pc[p] \in KernelYield \cup {"usertimer"}
  /\ Free(p)
  /\ plock' = [plock EXCEPT ![p] = c]
  /\ pstate' = [pstate EXCEPT ![p] = "RUNNABLE"]
  /\ ret' = [ret EXCEPT ![p] = IF pc[p] = "usertimer" THEN "user" ELSE pc[p]]
  /\ Goto(p, "swtch")
  /\ UNCHANGED <<chan, killed, parent, pid, wait_lock, nextpid, locals, cpus>>

-----------------------------------------------------------------------------
(* usertrap()                                                              *)

\* A timer interrupt in user mode: killed(p) comes before yield().
UserTimer(c, p) ==
  /\ At(c, p, "user")
  /\ Free(p)
  /\ Goto(p, IF killed[p] THEN "exit" ELSE "usertimer")
  /\ UNCHANGED <<procs, wait_lock, nextpid, ret, locals, cpus>>

(***************************************************************************)
(* The entry of a system call, with its test of p->killed.  init only      *)
(* forks and waits (user/init.c); nobody kills init.                       *)
(***************************************************************************)
UserCall(c, p, call, a) ==
  /\ At(c, p, "user")
  /\ Free(p)
  /\ p = initproc => call \in {"fork", "wait"}
  /\ Goto(p, IF killed[p] THEN "exit" ELSE call)
  /\ arg' = [arg EXCEPT ![p] = IF killed[p] THEN 0 ELSE a]
  /\ UNCHANGED <<procs, wait_lock, nextpid, ret, i, j, havekids, cpus>>

\* After the system call: killed(p) again, then usertrapret().
SysRet(c, p) ==
  /\ At(c, p, "sysret")
  /\ Free(p)
  /\ Goto(p, IF killed[p] THEN "exit" ELSE "user")
  /\ UNCHANGED <<procs, wait_lock, nextpid, ret, locals, cpus>>

-----------------------------------------------------------------------------
(* fork()                                                                  *)

\* One iteration of allocproc()'s loop on a slot in use; -1 after the last.
AllocSkip(c, p) ==
  /\ At(c, p, "fork")
  /\ Free(i[p])
  /\ pstate[i[p]] # "UNUSED"
  /\ IF i[p] = NPROC THEN Return(p)
     ELSE i' = [i EXCEPT ![p] = @ + 1] /\ UNCHANGED <<pc, j, havekids, arg>>
  /\ UNCHANGED <<procs, wait_lock, nextpid, ret, cpus>>

(***************************************************************************)
(* allocproc() takes a slot and fork() fills it, all under np->lock.  The  *)
(* new thread will start in forkret(), which goes to user space.           *)
(***************************************************************************)
AllocProc(c, p) ==
  LET np == i[p] IN
  /\ At(c, p, "fork")
  /\ Free(np)
  /\ pstate[np] = "UNUSED"
  /\ nextpid <= MaxPid
  /\ pid' = [pid EXCEPT ![np] = nextpid]
  /\ nextpid' = nextpid + 1
  /\ pstate' = [pstate EXCEPT ![np] = "USED"]
  /\ pc' = [pc EXCEPT ![np] = "swtch", ![p] = "fork_parent"]
  /\ ret' = [ret EXCEPT ![np] = "user"]
  /\ arg' = [arg EXCEPT ![p] = np]
  /\ i' = [i EXCEPT ![p] = 1]
  /\ UNCHANGED <<chan, killed, parent, plock, wait_lock, j, havekids, cpus>>

(***************************************************************************)
(* Out of memory in allocproc() or uvmcopy(): freeproc(np); the pid is     *)
(* spent, unless the bound MaxPid stands for the memory that is missing.   *)
(***************************************************************************)
AllocFail(c, p) ==
  /\ At(c, p, "fork")
  /\ Free(i[p])
  /\ pstate[i[p]] = "UNUSED"
  /\ nextpid' = IF nextpid <= MaxPid THEN nextpid + 1 ELSE nextpid
  /\ Return(p)
  /\ UNCHANGED <<procs, wait_lock, ret, cpus>>

ForkParent(c, p) ==
  /\ At(c, p, "fork_parent")
  /\ wait_lock = 0
  /\ parent' = [parent EXCEPT ![arg[p]] = p]
  /\ Goto(p, "fork_run")
  /\ UNCHANGED <<pstate, chan, killed, pid, plock, wait_lock, nextpid, ret, locals, cpus>>

ForkRun(c, p) ==
  /\ At(c, p, "fork_run")
  /\ Free(arg[p])
  /\ pstate' = [pstate EXCEPT ![arg[p]] = "RUNNABLE"]
  /\ Return(p)
  /\ UNCHANGED <<chan, killed, parent, pid, plock, wait_lock, nextpid, ret, cpus>>

-----------------------------------------------------------------------------
(* exit().  Closing files and dropping cwd only delays it.                 *)

ExitLock(c, p) ==
  /\ At(c, p, "exit")
  /\ p # initproc
  /\ wait_lock = 0
  /\ wait_lock' = c
  /\ i' = [i EXCEPT ![p] = 1]
  /\ arg' = [arg EXCEPT ![p] = 0]
  /\ Goto(p, "reparent")
  /\ UNCHANGED <<procs, nextpid, ret, j, havekids, cpus>>

\* Mutant: reparent() stops one slot early.
Reparent_SkipsLast(c, p) ==
  /\ At(c, p, "reparent")
  /\ IF parent[i[p]] = p /\ i[p] < NPROC
     THEN /\ parent' = [parent EXCEPT ![i[p]] = initproc]
          /\ Goto(p, "wakeup_init")
          /\ UNCHANGED i
     ELSE /\ IF i[p] = NPROC THEN Goto(p, "wakeup_parent") ELSE UNCHANGED pc
          /\ i' = [i EXCEPT ![p] = IF @ = NPROC THEN 1 ELSE @ + 1]
          /\ UNCHANGED parent
  /\ UNCHANGED <<pstate, chan, killed, pid, plock, wait_lock, nextpid, ret,
                 j, havekids, arg, cpus>>

\* One iteration of reparent(); a child is handed over, then init is woken.
Reparent(c, p) ==
  /\ At(c, p, "reparent")
  /\ IF parent[i[p]] = p
     THEN /\ parent' = [parent EXCEPT ![i[p]] = initproc]
          /\ Goto(p, "wakeup_init")
          /\ UNCHANGED i
     ELSE /\ IF i[p] = NPROC THEN Goto(p, "wakeup_parent") ELSE UNCHANGED pc
          /\ i' = [i EXCEPT ![p] = IF @ = NPROC THEN 1 ELSE @ + 1]
          /\ UNCHANGED parent
  /\ UNCHANGED <<pstate, chan, killed, pid, plock, wait_lock, nextpid, ret,
                 j, havekids, arg, cpus>>

\* One iteration of wakeup(ch) by p, on a slot other than its own.
WakeupSlot(c, p, ch) ==
  /\ j[p] # p => Free(j[p])
  /\ pstate' = [pstate EXCEPT ![j[p]] =
                  IF j[p] # p /\ @ = "SLEEPING" /\ chan[j[p]] = ch THEN "RUNNABLE" ELSE @]
  /\ j' = [j EXCEPT ![p] = Succ(@)]
  /\ UNCHANGED <<chan, killed, parent, pid, plock, wait_lock, nextpid, ret, i, havekids, arg, cpus>>

WakeupInit(c, p) ==
  /\ At(c, p, "wakeup_init")
  /\ WakeupSlot(c, p, initproc)
  /\ IF j[p] = NPROC THEN Goto(p, "reparent") ELSE UNCHANGED pc

\* Mutant: exit() calls wakeup(p) for wakeup(p->parent).
WakeupParent_WrongChan(c, p) ==
  /\ At(c, p, "wakeup_parent")
  /\ WakeupSlot(c, p, p)
  /\ IF j[p] = NPROC THEN Goto(p, "zombie") ELSE UNCHANGED pc

WakeupParent(c, p) ==
  /\ At(c, p, "wakeup_parent")
  /\ WakeupSlot(c, p, parent[p])
  /\ IF j[p] = NPROC THEN Goto(p, "zombie") ELSE UNCHANGED pc

\* Mutant: exit() gives up p->lock before sched().
Zombie_Unlocked(c, p) ==
  /\ At(c, p, "zombie")
  /\ Free(p)
  /\ pstate' = [pstate EXCEPT ![p] = "ZOMBIE"]
  /\ wait_lock' = 0
  /\ Goto(p, "swtch")
  /\ UNCHANGED <<chan, killed, parent, pid, plock, nextpid, ret, locals, cpus>>

\* p->lock is kept for sched(); wait_lock is released before it.
Zombie(c, p) ==
  /\ At(c, p, "zombie")
  /\ Free(p)
  /\ plock' = [plock EXCEPT ![p] = c]
  /\ pstate' = [pstate EXCEPT ![p] = "ZOMBIE"]
  /\ wait_lock' = 0
  /\ Goto(p, "swtch")
  /\ UNCHANGED <<chan, killed, parent, pid, nextpid, ret, locals, cpus>>

-----------------------------------------------------------------------------
(* wait()                                                                  *)

\* acquire(&wait_lock): at the start of wait(), and at the end of sleep().
WaitLock(c, p) ==
  /\ At(c, p, "wait")
  /\ wait_lock = 0
  /\ wait_lock' = c
  /\ i' = [i EXCEPT ![p] = 1]
  /\ havekids' = [havekids EXCEPT ![p] = FALSE]
  /\ Goto(p, "scan")
  /\ UNCHANGED <<procs, nextpid, ret, j, arg, cpus>>

\* One iteration of the scan on a slot that is not an exited child.
ScanSkip(c, p) ==
  LET mine == parent[i[p]] = p IN
  /\ At(c, p, "scan")
  /\ mine => Free(i[p]) /\ pstate[i[p]] # "ZOMBIE"
  /\ havekids' = [havekids EXCEPT ![p] = @ \/ mine]
  /\ i' = [i EXCEPT ![p] = Succ(@)]
  /\ IF i[p] = NPROC THEN Goto(p, "waitcheck") ELSE UNCHANGED pc
  /\ UNCHANGED <<procs, wait_lock, nextpid, ret, j, arg, cpus>>

\* Mutant: wait() returns the pid and does not free the slot.
Reap_StaysZombie(c, p) ==
  LET pp == i[p] IN
  /\ At(c, p, "scan")
  /\ parent[pp] = p
  /\ Free(pp)
  /\ pstate[pp] = "ZOMBIE"
  /\ wait_lock' = 0
  /\ Return(p)
  /\ UNCHANGED <<procs, nextpid, ret, cpus>>

\* An exited child: freeproc(pp), or -1 when copyout() of its status fails.
Reap(c, p) ==
  LET pp == i[p] IN
  /\ At(c, p, "scan")
  /\ parent[pp] = p
  /\ Free(pp)
  /\ pstate[pp] = "ZOMBIE"
  /\ pstate' = [pstate EXCEPT ![pp] = "UNUSED"]
  /\ pid' = [pid EXCEPT ![pp] = 0]
  /\ parent' = [parent EXCEPT ![pp] = 0]
  /\ chan' = [chan EXCEPT ![pp] = 0]
  /\ killed' = [killed EXCEPT ![pp] = FALSE]
  /\ wait_lock' = 0
  /\ Return(p)
  /\ UNCHANGED <<plock, nextpid, ret, cpus>>

CopyoutFail(c, p) ==
  /\ At(c, p, "scan")
  /\ p # initproc
  /\ parent[i[p]] = p
  /\ Free(i[p])
  /\ pstate[i[p]] = "ZOMBIE"
  /\ wait_lock' = 0
  /\ Return(p)
  /\ UNCHANGED <<procs, nextpid, ret, cpus>>

\* if(!havekids || killed(p)) return -1.
WaitCheck(c, p) ==
  /\ At(c, p, "waitcheck")
  /\ havekids[p] => Free(p)
  /\ IF ~havekids[p] \/ killed[p]
     THEN wait_lock' = 0 /\ Return(p)
     ELSE Goto(p, "sleep") /\ UNCHANGED <<wait_lock, locals>>
  /\ UNCHANGED <<procs, nextpid, ret, cpus>>

\* sleep(p, &wait_lock) up to swtch().
Sleep(c, p) ==
  /\ At(c, p, "sleep")
  /\ Free(p)
  /\ plock' = [plock EXCEPT ![p] = c]
  /\ wait_lock' = 0
  /\ chan' = [chan EXCEPT ![p] = p]
  /\ pstate' = [pstate EXCEPT ![p] = "SLEEPING"]
  /\ ret' = [ret EXCEPT ![p] = "wait"]
  /\ havekids' = [havekids EXCEPT ![p] = FALSE]
  /\ Goto(p, "swtch")
  /\ UNCHANGED <<killed, parent, pid, nextpid, i, j, arg, cpus>>

-----------------------------------------------------------------------------
(* kill()                                                                  *)

KillSkip(c, p) ==
  /\ At(c, p, "kill")
  /\ Free(i[p])
  /\ pid[i[p]] # arg[p]
  /\ IF i[p] = NPROC THEN Return(p)
     ELSE i' = [i EXCEPT ![p] = @ + 1] /\ UNCHANGED <<pc, j, havekids, arg>>
  /\ UNCHANGED <<procs, wait_lock, nextpid, ret, cpus>>

KillFound(c, p) ==
  /\ At(c, p, "kill")
  /\ Free(i[p])
  /\ pid[i[p]] = arg[p]
  /\ killed' = [killed EXCEPT ![i[p]] = TRUE]
  /\ pstate' = [pstate EXCEPT ![i[p]] = IF @ = "SLEEPING" THEN "RUNNABLE" ELSE @]
  /\ Return(p)
  /\ UNCHANGED <<chan, parent, pid, plock, wait_lock, nextpid, ret, cpus>>

-----------------------------------------------------------------------------
Scheduler(c) == SchedSkip(c) \/ SchedRun(c)

\* What the kernel does for p; it does not depend on what p's program wants.
Kernel(c, p) ==
  \/ Swtch(c, p) \/ UserTimer(c, p) \/ SysRet(c, p)
  \/ AllocSkip(c, p) \/ AllocProc(c, p) \/ AllocFail(c, p)
  \/ ForkParent(c, p) \/ ForkRun(c, p)
  \/ ExitLock(c, p) \/ Reparent(c, p) \/ WakeupInit(c, p) \/ WakeupParent(c, p) \/ Zombie(c, p)
  \/ WaitLock(c, p) \/ ScanSkip(c, p) \/ Reap(c, p) \/ CopyoutFail(c, p)
  \/ WaitCheck(c, p) \/ Sleep(c, p)
  \/ KillSkip(c, p) \/ KillFound(c, p)

Next ==
  \E c \in CPUs :
    \/ Scheduler(c)
    \/ \E p \in Slots :
         \/ Kernel(c, p)
         \/ Yield(c, p)
         \/ \E call \in {"fork", "wait", "exit"} : UserCall(c, p, call, 0)
         \/ \E a \in 2..MaxPid : UserCall(c, p, "kill", a)

Spec == Init /\ [][Next]_vars

(***************************************************************************)
(* Every CPU keeps executing, and wins a contended spinlock in the end     *)
(* (strong fairness: acquire() is a test-and-set loop without a queue).    *)
(* init, being scheduled again and again, gets to call wait() (init.c).    *)
(***************************************************************************)
Fairness ==
  /\ \A c \in CPUs : SF_vars(Scheduler(c) \/ \E p \in Slots : Kernel(c, p) \/ Yield(c, p))
  /\ SF_vars(\E c \in CPUs : UserCall(c, initproc, "wait", 0))

FairSpec == Spec /\ Fairness

-----------------------------------------------------------------------------
(* Properties.                                                             *)

\* Type invariant of the process table and the kernel threads.
TypeOK ==
  /\ pstate \in [Slots -> {"UNUSED", "USED", "SLEEPING", "RUNNABLE", "RUNNING", "ZOMBIE"}]
  /\ chan \in [Slots -> {0} \cup Slots]
  /\ killed \in [Slots -> BOOLEAN]
  /\ parent \in [Slots -> {0} \cup Slots]
  /\ pid \in [Slots -> 0..MaxPid]
  /\ plock \in [Slots -> {0} \cup CPUs]
  /\ wait_lock \in {0} \cup CPUs
  /\ nextpid \in 2..(MaxPid + 1)
  /\ pc \in [Slots -> {"user", "usertimer", "sysret", "fork", "fork_parent", "fork_run",
                       "exit", "reparent", "wakeup_init", "wakeup_parent", "zombie",
                       "wait", "scan", "waitcheck", "sleep", "kill", "swtch"}]
  /\ ret \in [Slots -> {"user", "wait"} \cup KernelYield]
  /\ i \in [Slots -> Slots]
  /\ j \in [Slots -> Slots]
  /\ havekids \in [Slots -> BOOLEAN]
  /\ arg \in [Slots -> 0..(NPROC + MaxPid)]
  /\ stk \in [CPUs -> {0} \cup Slots]
  /\ cproc \in [CPUs -> {0} \cup Slots]
  /\ si \in [CPUs -> Slots]

(***************************************************************************)
(* The panics of sched(): a thread enters it holding its p->lock and no    *)
(* other spinlock, and no longer RUNNING.                                  *)
(***************************************************************************)
SchedHoldsOnlyOwnLock ==
  \A c \in CPUs : stk[c] # 0 /\ pc[stk[c]] = "swtch" =>
    /\ {p \in Slots : plock[p] = c} = {stk[c]}
    /\ wait_lock # c
    /\ pstate[stk[c]] # "RUNNING"

(***************************************************************************)
(* A kernel stack is in use by at most one CPU, and while a CPU is on it   *)
(* its process is RUNNING or that CPU holds p->lock: no other CPU can run, *)
(* reap or reuse the slot of a process that is still in exit() or swtch(). *)
(* The checks of sched() all succeed.                                      *)
(***************************************************************************)
StackInUseOnce ==
  /\ TypeOK
  /\ SchedHoldsOnlyOwnLock
  /\ \A c \in CPUs : stk[c] # 0 =>
       /\ \A d \in CPUs : stk[d] = stk[c] => d = c
       /\ cproc[c] = stk[c]
       /\ pstate[stk[c]] # "RUNNING" => plock[stk[c]] = c

(***************************************************************************)
(* exit()/reparent(): every process that fork() has made runnable, zombies *)
(* included, has a parent that has not itself exited, so that somebody can *)
(* always reap it.                                                         *)
(***************************************************************************)
OrphansHaveLiveParent ==
  \A p \in Slots \ {initproc} :
    pstate[p] \in {"SLEEPING", "RUNNABLE", "RUNNING", "ZOMBIE"} =>
      /\ parent[p] # 0
      /\ pstate[parent[p]] \notin {"UNUSED", "USED", "ZOMBIE"}

(***************************************************************************)
(* No exit is missed: whenever wait_lock is free, a process asleep in      *)
(* wait() has no zombie child.                                             *)
(***************************************************************************)
NoMissedExit ==
  wait_lock = 0 =>
    \A p, q \in Slots : pstate[q] = "ZOMBIE" /\ parent[q] = p => pstate[p] # "SLEEPING"

(***************************************************************************)
(* init adopts and reaps: a zombie whose parent has exited before it, or   *)
(* that init forked itself, does not stay in the table for ever.           *)
(***************************************************************************)
OrphansReaped ==
  \A q \in Slots :
    pstate[q] = "ZOMBIE" /\ parent[q] = initproc ~> pstate[q] = "UNUSED"

=============================================================================
