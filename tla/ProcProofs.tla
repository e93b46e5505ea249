----------------------------- MODULE ProcProofs -----------------------------
(***************************************************************************)
(* The life of a process for any number of slots and CPUs, and with a      *)
(* timer interrupt anywhere in the kernel: a kernel stack is in use once,  *)
(* every process has a living parent, and no exit() is missed by wait().   *)
(*                                                                         *)
(* The three properties speak of states in which locks are free or stacks  *)
(* are in use; Inv adds what holds on the way there: who is on which       *)
(* stack, who holds wait_lock, what a fork(), exit(), wait() or wakeup()   *)
(* under way has already done.                                             *)
(***************************************************************************)
EXTENDS Proc, TLAPS

Alive == {"SLEEPING", "RUNNABLE", "RUNNING"}

\* The thread of p is at l, or will go on there when it is scheduled.
Will(p, l) ==
  \/ pc[p] = l
  \/ pc[p] = "swtch" /\ ret[p] = l /\ pstate[p] \in {"SLEEPING", "RUNNABLE"}

\* Between allocproc() and the end of fork().
Forking(p) == Will(p, "fork_parent") \/ Will(p, "fork_run")

Exiting == {"exit", "reparent", "wakeup_init", "wakeup_parent", "zombie"}

\* Where a thread holds wait_lock.
WaitLocked == {"reparent", "wakeup_init", "wakeup_parent", "zombie", "scan", "waitcheck", "sleep"}

\* Who is on which stack: a process on a CPU is RUNNING, or in swtch() with
\* its p->lock held by that CPU; a process on no CPU has left in swtch().
StackInv ==
  /\ \A c, d \in CPUs : stk[c] # 0 /\ stk[c] = stk[d] => c = d
  /\ \A c \in CPUs : stk[c] # 0 =>
       /\ cproc[c] = stk[c]
       /\ pc[stk[c]] # "swtch" => pstate[stk[c]] = "RUNNING"
       /\ pc[stk[c]] = "swtch" => /\ plock[stk[c]] = c
                                  /\ pstate[stk[c]] \in {"RUNNABLE", "SLEEPING", "ZOMBIE"}
  /\ \A p \in Slots : plock[p] # 0 => stk[plock[p]] = p /\ pc[p] = "swtch"
  /\ \A p \in Slots : (\A c \in CPUs : stk[c] # p) => pc[p] = "swtch" /\ pstate[p] # "RUNNING"

\* wait_lock is held from acquire() to release() and by nobody else.
LockInv ==
  /\ wait_lock # 0 => stk[wait_lock] # 0 /\ pc[stk[wait_lock]] \in WaitLocked
  /\ \A c \in CPUs : stk[c] # 0 /\ pc[stk[c]] \in WaitLocked => wait_lock = c

\* What the locals of a thread are worth outside the loops that use them.
ThreadInv ==
  /\ \A p \in Slots : pc[p] \notin {"wakeup_init", "wakeup_parent"} => j[p] = 1
  /\ \A p \in Slots : pstate[p] = "USED" => pc[p] = "swtch" /\ ret[p] = "user"
  /\ \A p \in Slots : pstate[p] = "SLEEPING" => pc[p] = "swtch" /\ ret[p] = "wait" /\ chan[p] = p
  /\ \A p \in Slots : Will(p, "kill") => arg[p] >= 2

\* init is never killed and never exits.
InitprocInv ==
  /\ pid[initproc] = 1 /\ ~killed[initproc] /\ pstate[initproc] \in Alive
  /\ \A l \in Exiting : ~Will(initproc, l)

\* A fork() in progress has its child to itself.
ForkInv ==
  /\ \A p \in Slots : Forking(p) => arg[p] \in Slots /\ pstate[arg[p]] = "USED"
  /\ \A p \in Slots : Will(p, "fork_run") => parent[arg[p]] = p
  /\ \A p, q \in Slots : Forking(p) /\ Forking(q) /\ arg[p] = arg[q] => p = q

\* Parents are alive, and a process that exits hands over its children first.
ParentInv ==
  /\ \A x \in Slots : parent[x] # 0 => pstate[parent[x]] \in Alive
  /\ \A x \in Slots \ {initproc} : pstate[x] \in Alive \cup {"ZOMBIE"} => parent[x] # 0
  /\ \A p, x \in Slots : pc[p] \in {"reparent", "wakeup_init"} /\ x < i[p] => parent[x] # p
  /\ \A p, x \in Slots : pc[p] \in {"wakeup_parent", "zombie"} => parent[x] # p

\* A process about to sleep in wait() has seen every child; one about to be a
\* zombie has woken its parent; init is woken for the zombies it is handed.
WaitInv ==
  /\ \A p, x \in Slots : parent[x] = p /\ pstate[x] = "ZOMBIE" =>
       /\ pc[p] = "scan" => x >= i[p]
       /\ pc[p] \notin {"waitcheck", "sleep"}
  /\ \A q \in Slots : parent[q] # 0 /\ pstate[parent[q]] = "SLEEPING" =>
       /\ pc[q] = "wakeup_parent" => parent[q] >= j[q]
       /\ pc[q] # "zombie"
  /\ \A p, q \in Slots : pstate[q] = "ZOMBIE" /\ parent[q] = p /\ pstate[p] = "SLEEPING" =>
       p = initproc /\ \E r \in Slots : pc[r] = "wakeup_init" /\ j[r] = 1

Inv ==
  /\ TypeOK
  /\ StackInv /\ LockInv /\ ThreadInv /\ InitprocInv /\ ForkInv /\ ParentInv /\ WaitInv

\* g is f with the value v at x.
Sets(g, f, S, x, v) == g[x] = v /\ \A y \in S \ {x} : g[y] = f[y]

\* What the proofs need of the types.
Ranges ==
  /\ \A c \in CPUs : stk[c] \in {0} \cup Slots
  /\ \A p \in Slots : /\ parent[p] \in {0} \cup Slots /\ plock[p] \in {0} \cup CPUs
                      /\ i[p] \in Slots /\ j[p] \in Slots
  /\ wait_lock \in {0} \cup CPUs

-----------------------------------------------------------------------------
\* Slot 1 is in the table, slot 0 is not; 0 is no CPU.
LEMMA SlotFacts == initproc \in Slots /\ 1 \in Slots /\ 0 \notin Slots /\ 0 \notin CPUs
  BY ProcAssumption DEF Slots, initproc

\* Slots are numbers, and the loops over them stay in the table.
LEMMA SlotNumbers ==
  /\ \A k \in Slots : k \in Nat /\ 1 <= k /\ k <= NPROC /\ k \in 0..(NPROC + MaxPid)
  /\ \A k \in Slots : Succ(k) \in Slots /\ (k # NPROC => k + 1 \in Slots)
  /\ 0 \in 0..(NPROC + MaxPid)
  BY ProcAssumption DEF Slots, Succ

\* A thread that executes in the kernel is RUNNING, alone on its stack, and
\* nobody holds its p->lock.
Executing(c, p) ==
  pstate[p] = "RUNNING" /\ plock[p] = 0 /\ \A d \in CPUs : stk[d] = p => d = c

\* A CPU that runs kernel code of p runs it as cpu->proc, alone.
LEMMA OnCpu ==
  ASSUME Inv
  PROVE  /\ Ranges
         /\ \A c \in CPUs, p \in Slots : stk[c] = p /\ pc[p] # "swtch" => Executing(c, p)
<1>1. Ranges
  BY Zenon DEF Inv, TypeOK, Ranges
<1>2. QED
  BY <1>1, SlotFacts DEF Inv, Ranges, StackInv, Executing

\* A process on no CPU is parked in swtch(); p->lock free and not RUNNING says so.
LEMMA OffCpu ==
  ASSUME Inv, NEW p \in Slots, plock[p] = 0, pstate[p] # "RUNNING"
  PROVE  pc[p] = "swtch" /\ \A d \in CPUs : stk[d] # p
<1>1. \A d \in CPUs : stk[d] # p
  BY SlotFacts DEF Inv, StackInv
<1>2. QED
  BY <1>1, Zenon DEF Inv, StackInv

\* One thread at a time is where wait_lock is held.
LEMMA WaitLockedOnce ==
  ASSUME Inv, NEW p \in Slots, NEW q \in Slots, pc[p] \in WaitLocked, pc[q] \in WaitLocked
  PROVE  p = q /\ wait_lock # 0
<1>1. PICK c \in CPUs : stk[c] = p
  BY Zenon DEF Inv, StackInv, WaitLocked
<1>2. PICK d \in CPUs : stk[d] = q
  BY Zenon DEF Inv, StackInv, WaitLocked
<1>3. QED
  BY <1>1, <1>2, SlotFacts, Zenon DEF Inv, LockInv

\* What one iteration of wakeup(ch) does to the table.
Woken(p, ch) ==
  /\ Sets(j', j, Slots, p, IF j[p] = NPROC THEN 1 ELSE j[p] + 1)
  /\ \A q \in Slots : \/ pstate'[q] = pstate[q]
                      \/ pstate[q] = "SLEEPING" /\ pstate'[q] = "RUNNABLE" /\ plock[q] = 0
  /\ j[p] # p /\ pstate[j[p]] = "SLEEPING" /\ chan[j[p]] = ch => pstate'[j[p]] = "RUNNABLE"

\* One iteration of wakeup() makes at most the slot it looks at RUNNABLE.
LEMMA WakeupSlotDoes ==
  ASSUME Inv, NEW c, NEW p \in Slots, NEW ch, WakeupSlot(c, p, ch)
  PROVE  /\ Woken(p, ch)
         /\ pstate' \in [Slots -> {"UNUSED", "USED", "SLEEPING", "RUNNABLE", "RUNNING", "ZOMBIE"}]
         /\ j' \in [Slots -> Slots]
<1> DEFINE k == j[p]
           wakes == k # p /\ pstate[k] = "SLEEPING" /\ chan[k] = ch
<1>1. k \in Slots /\ Succ(k) \in Slots
  BY SlotNumbers, Zenon DEF Inv, TypeOK
<1>2. pstate' = [pstate EXCEPT ![k] = IF wakes THEN "RUNNABLE" ELSE pstate[k]]
  BY Zenon DEF WakeupSlot
<1>3. j' = [j EXCEPT ![p] = Succ(k)] /\ (k # p => plock[k] = 0)
  BY Zenon DEF WakeupSlot, Free
<1>4. j' \in [Slots -> Slots] /\ Sets(j', j, Slots, p, Succ(k))
  BY <1>1, <1>3, Zenon DEF Inv, TypeOK, Sets
<1>5. /\ pstate' \in [Slots -> {"UNUSED", "USED", "SLEEPING", "RUNNABLE", "RUNNING", "ZOMBIE"}]
      /\ Sets(pstate', pstate, Slots, k, IF wakes THEN "RUNNABLE" ELSE pstate[k])
  BY <1>1, <1>2, Zenon DEF Inv, TypeOK, Sets
<1>6. QED
  BY <1>1, <1>3, <1>4, <1>5, Zenon DEF Woken, Sets, Succ

\* A step that starts no fork() and leaves the children of the others alone.
LEMMA ForkFrame ==
  ASSUME Inv,
         \A q \in Slots : /\ Will(q, "fork_run")' => Will(q, "fork_run")
                          /\ Forking(q)' => Forking(q) /\ arg'[q] = arg[q],
         \A x \in Slots : pstate[x] = "USED" => pstate'[x] = "USED" /\ parent'[x] = parent[x]
  PROVE  ForkInv'
  BY DEF Inv, ForkInv, Forking

-----------------------------------------------------------------------------
(***************************************************************************)
(* What a step must leave alone for a part of the invariant to survive.    *)
(* Most steps satisfy most of these.                                       *)
(***************************************************************************)

\* The places that the invariant asks about with Will.
Marks == Exiting \cup {"kill", "fork_parent", "fork_run"}

\* No stack is entered or left, and no process on a CPU changes its state.
LEMMA StackFrame ==
  ASSUME StackInv, Ranges, UNCHANGED <<stk, cproc, plock>>,
         \A q \in Slots : pc'[q] = "swtch" <=> pc[q] = "swtch",
         \A q \in Slots : \/ pstate'[q] = pstate[q]
                          \/ pstate'[q] # "RUNNING" /\ \A d \in CPUs : stk[d] # q
  PROVE  StackInv'
  BY SlotFacts DEF StackInv, Ranges

\* wait_lock is neither taken nor given up.
LEMMA LockFrame ==
  ASSUME LockInv, Ranges, UNCHANGED <<stk, wait_lock>>,
         \A q \in Slots : pc'[q] \in WaitLocked <=> pc[q] \in WaitLocked
  PROVE  LockInv'
  BY SlotFacts, Zenon DEF LockInv, Ranges

\* wait_lock is taken by p on CPU c.
LEMMA LockTaken ==
  ASSUME LockInv, Ranges, NEW c \in CPUs, NEW p \in Slots,
         wait_lock = 0, wait_lock' = c, stk' = stk, stk[c] = p, pc'[p] \in WaitLocked,
         \A d \in CPUs : stk[d] = p => d = c,
         \A q \in Slots \ {p} : pc'[q] = pc[q]
  PROVE  LockInv'
  BY SlotFacts, Zenon DEF LockInv, Ranges

\* wait_lock is given up by p on CPU c.
LEMMA LockGiven ==
  ASSUME LockInv, Ranges, NEW c \in CPUs, NEW p \in Slots,
         wait_lock' = 0, stk' = stk, stk[c] = p,
         pc[p] \in WaitLocked, pc'[p] \notin WaitLocked,
         \A q \in Slots \ {p} : pc'[q] = pc[q]
  PROVE  LockInv'
  BY SlotFacts, Zenon DEF LockInv, Ranges

\* No process starts to sleep, is allocated or enters kill(), and no loop of
\* wakeup() goes on.
LEMMA ThreadFrame ==
  ASSUME ThreadInv, j' = j,
         \A q \in Slots :
           /\ pc[q] \in {"wakeup_init", "wakeup_parent"} => pc'[q] \in {"wakeup_init", "wakeup_parent"}
           /\ pstate'[q] \in {"USED", "SLEEPING"} =>
                pstate'[q] = pstate[q] /\ pc'[q] = pc[q] /\ ret'[q] = ret[q] /\ chan'[q] = chan[q]
           /\ Will(q, "kill")' => Will(q, "kill") /\ arg'[q] = arg[q]
  PROVE  ThreadInv'
  BY DEF ThreadInv

\* Nothing happens to init that its exit would need.
LEMMA InitprocFrame ==
  ASSUME InitprocInv, pid'[initproc] = pid[initproc], killed'[initproc] = killed[initproc],
         pstate'[initproc] \in Alive,
         \A l \in Exiting : Will(initproc, l)' => Will(initproc, l)
  PROVE  InitprocInv'
  BY Zenon DEF InitprocInv

\* No process is born, dies, changes its parent or starts to exit.
LEMMA ParentFrame ==
  ASSUME ParentInv, Ranges, parent' = parent,
         \A q \in Slots :
           /\ pstate'[q] \in Alive <=> pstate[q] \in Alive
           /\ pstate'[q] = "ZOMBIE" <=> pstate[q] = "ZOMBIE"
           /\ pc'[q] \in {"reparent", "wakeup_init"} =>
                pc[q] \in {"reparent", "wakeup_init"} /\ i'[q] = i[q]
           /\ pc'[q] \in {"wakeup_parent", "zombie"} => pc[q] \in {"wakeup_parent", "zombie"}
  PROVE  ParentInv'
  BY Zenon DEF ParentInv, Ranges

\* No process becomes a zombie or goes to sleep, and the loops of wait() and
\* wakeup() stand still.
LEMMA WaitFrame ==
  ASSUME WaitInv, Ranges,
         \A q \in Slots :
           /\ \/ parent'[q] = parent[q]
              \/ pstate'[q] # "ZOMBIE" /\ pc'[q] \notin {"wakeup_parent", "zombie"}
           /\ pstate'[q] = "ZOMBIE" => pstate[q] = "ZOMBIE"
           /\ pstate'[q] = "SLEEPING" => pstate[q] = "SLEEPING"
           /\ pc'[q] = "scan" => pc[q] = "scan" /\ i'[q] = i[q]
           /\ pc'[q] \in {"waitcheck", "sleep"} => pc[q] \in {"waitcheck", "sleep"}
           /\ pc'[q] = "wakeup_parent" => pc[q] = "wakeup_parent" /\ j'[q] = j[q]
           /\ pc'[q] = "zombie" => pc[q] = "zombie"
           /\ pc[q] = "wakeup_init" => pc'[q] = "wakeup_init" /\ j'[q] = j[q]
  PROVE  WaitInv'
<1>1. \A p, x \in Slots : parent'[x] = p /\ pstate'[x] = "ZOMBIE" =>
        /\ pc'[p] = "scan" => x >= i'[p]
        /\ pc'[p] \notin {"waitcheck", "sleep"}
  BY DEF WaitInv
<1>2. \A q \in Slots : parent'[q] # 0 /\ pstate'[parent'[q]] = "SLEEPING" =>
        /\ pc'[q] = "wakeup_parent" => parent'[q] >= j'[q]
        /\ pc'[q] # "zombie"
  BY DEF WaitInv, Ranges
<1>3. \A p, q \in Slots : pstate'[q] = "ZOMBIE" /\ parent'[q] = p /\ pstate'[p] = "SLEEPING" =>
        p = initproc /\ \E r \in Slots : pc'[r] = "wakeup_init" /\ j'[r] = 1
  BY DEF WaitInv
<1>4. QED
  BY <1>1, <1>2, <1>3, Zenon DEF WaitInv

\* userinit(): the invariant holds when the schedulers start.
LEMMA InitInv == Init => Inv
  BY SlotFacts, SlotNumbers, ProcAssumption
     DEF Init, Inv, TypeOK, StackInv, LockInv, ThreadInv, InitprocInv, ForkInv, ParentInv,
         WaitInv, Alive, Will, Forking, Exiting, WaitLocked, initproc

\* Steps of the rest of the system leave the invariant alone.
LEMMA StutterInv == ASSUME Inv, UNCHANGED vars PROVE Inv'
<1>1. (TypeOK /\ StackInv /\ LockInv)'
  BY DEF vars, Inv, TypeOK, StackInv, LockInv
<1>2. (ThreadInv /\ InitprocInv /\ ForkInv)'
  BY DEF vars, Inv, ThreadInv, InitprocInv, ForkInv, Will, Forking
<1>3. QED
  BY <1>1, <1>2, Zenon DEF vars, Inv, ParentInv, WaitInv

-----------------------------------------------------------------------------
(***************************************************************************)
(* A step of p alone, from one place of the kernel where it does not hold  *)
(* wait_lock, or gives it up, to another: most returns and tests are such. *)
(***************************************************************************)
Moves(c, p, l) ==
  /\ stk[c] = p /\ pc[p] \notin {"swtch", "fork_parent", "fork_run", "wakeup_init", "wakeup_parent"}
  /\ Sets(pc', pc, Slots, p, l)
  /\ l \in {"user", "usertimer", "sysret", "fork", "exit", "wait", "kill"}
  /\ l = "exit" => p # initproc
  /\ l = "kill" => arg'[p] >= 2
  /\ \A q \in Slots \ {p} : arg'[q] = arg[q] /\ i'[q] = i[q]
  /\ wait_lock' = IF pc[p] \in WaitLocked THEN 0 ELSE wait_lock
  /\ UNCHANGED <<pstate, chan, killed, parent, pid, plock, ret, j, stk, cproc>>

\* Such a step keeps the invariant.
LEMMA MovesInv ==
  ASSUME Inv, NEW c \in CPUs, NEW p \in Slots, NEW l, Moves(c, p, l), TypeOK'
  PROVE  Inv'
<1> USE SlotFacts DEF Inv, Moves, Sets
<1>1. Executing(c, p) /\ Ranges
  BY OnCpu, Zenon
<1> USE <1>1 DEF Executing
<1>2. StackInv'
  BY DEF StackInv, Ranges
<1>3. LockInv'
  BY DEF LockInv, Ranges, WaitLocked
<1>4. ThreadInv' /\ InitprocInv'
  <2>1. ThreadInv'
    BY DEF ThreadInv, Will
  <2>2. InitprocInv'
    BY DEF InitprocInv, Will, Exiting
  <2>3. QED
    BY <2>1, <2>2, Zenon
<1>5. ForkInv'
  <2>1. \A q \in Slots : /\ Will(q, "fork_run")' => Will(q, "fork_run")
                         /\ Forking(q)' => Forking(q) /\ arg'[q] = arg[q]
    BY Zenon DEF Forking, Will
  <2>2. QED
    BY <2>1, ForkFrame, Zenon
<1>6. ParentInv' /\ WaitInv'
  BY DEF ParentInv, WaitInv
<1>7. QED
  BY <1>2, <1>3, <1>4, <1>5, <1>6, Zenon

\* usertrap(): a timer interrupt, and the way back from a system call.
LEMMA UserTimerInv ==
  ASSUME Inv, NEW c \in CPUs, NEW p \in Slots, UserTimer(c, p) \/ SysRet(c, p)
  PROVE  Inv'
<1> USE DEF UserTimer, SysRet, At, Goto, procs, locals, cpus
<1>1. TypeOK'
  BY DEF Inv, TypeOK
<1>2. p = initproc => ~killed[p]
  BY Zenon DEF Inv, InitprocInv
<1>3. \E l : Moves(c, p, l)
  BY <1>2, SlotFacts DEF Moves, WaitLocked, Inv, TypeOK, Sets
<1>4. QED
  BY <1>1, <1>3, MovesInv, Zenon

\* The entry of a system call: init makes none that ends it, nobody kills init.
LEMMA UserCallInv ==
  ASSUME Inv, NEW c \in CPUs, NEW p \in Slots,
         NEW call \in {"fork", "wait", "exit", "kill"}, NEW a \in Nat, UserCall(c, p, call, a),
         IF call = "kill" THEN a \in 2..MaxPid ELSE a = 0
  PROVE  Inv'
<1> USE DEF UserCall, At, Goto, procs, cpus
<1>1. TypeOK'
  <2>1. (IF killed[p] THEN 0 ELSE a) \in 0..(NPROC + MaxPid)
    BY ProcAssumption, SlotNumbers DEF Inv, TypeOK
  <2>2. QED
    BY <2>1, Zenon DEF Inv, TypeOK
<1>2. p = initproc => ~killed[p]
  BY Zenon DEF Inv, InitprocInv
<1>3. \E l : Moves(c, p, l)
  <2>1. Moves(c, p, IF killed[p] THEN "exit" ELSE call)
    BY <1>2, SlotFacts DEF Moves, WaitLocked, Inv, TypeOK, Sets
  <2>2. QED
    BY <2>1, Zenon
<1>4. QED
  BY <1>1, <1>3, MovesInv, Zenon

\* The loops of allocproc() and kill() on a slot they pass over, and fork()
\* without a slot or without memory.
LEMMA LoopInv ==
  ASSUME Inv, NEW c \in CPUs, NEW p \in Slots,
         AllocSkip(c, p) \/ AllocFail(c, p) \/ KillSkip(c, p)
  PROVE  Inv'
<1> USE DEF AllocSkip, AllocFail, KillSkip, At, Return, Goto, procs, cpus
<1>1. TypeOK'
  <2>1. i[p] \in Slots /\ (i[p] # NPROC => i[p] + 1 \in Slots)
    BY SlotNumbers, Zenon DEF Inv, TypeOK
  <2>2. CASE AllocSkip(c, p) \/ KillSkip(c, p)
    <3>1. CASE i[p] = NPROC
      <4>1. Return(p) /\ UNCHANGED <<procs, wait_lock, nextpid, ret, cpus>>
        BY <2>2, <3>1, Zenon
      <4> HIDE DEF AllocSkip, AllocFail, KillSkip
      <4>2. QED
        BY <4>1, SlotFacts, SlotNumbers, Zenon DEF Inv, TypeOK
    <3>2. CASE i[p] # NPROC
      BY <2>1, <2>2, <3>2 DEF Inv, TypeOK
    <3>3. QED
      BY <3>1, <3>2, Zenon
  <2>3. CASE AllocFail(c, p)
    BY <2>3, SlotFacts, SlotNumbers, ProcAssumption DEF Inv, TypeOK
  <2>4. QED
    BY <2>2, <2>3, Zenon
<1>2. \E l : Moves(c, p, l)
  <2>1. pc[p] = "kill" => arg[p] >= 2
    BY Zenon DEF Inv, ThreadInv, Will
  <2>2. CASE pc' = pc
    <3>1. Moves(c, p, pc[p])
      BY <2>1, <2>2, SlotFacts DEF Moves, WaitLocked, Inv, TypeOK, Sets
    <3>2. QED
      BY <3>1, Zenon
  <2>3. CASE pc' # pc
    <3>1. Moves(c, p, "sysret")
      BY <2>3, SlotFacts DEF Moves, WaitLocked, Inv, TypeOK, Sets
    <3>2. QED
      BY <3>1, Zenon
  <2>4. QED
    BY <2>2, <2>3, Zenon
<1>3. QED
  BY <1>1, <1>2, MovesInv, Zenon

\* wait() returns -1: copyout() failed, or there is nothing to wait for.
LEMMA WaitFailsInv ==
  ASSUME Inv, NEW c \in CPUs, NEW p \in Slots,
         CopyoutFail(c, p) \/ (WaitCheck(c, p) /\ wait_lock' = 0)
  PROVE  Inv'
<1> USE DEF CopyoutFail, WaitCheck, At, Return, Goto, procs, cpus
<1>1. wait_lock = c
  BY SlotFacts, Zenon DEF Inv, LockInv, WaitLocked
<1>2. wait_lock' = 0 /\ Return(p) /\ UNCHANGED <<procs, nextpid, ret, cpus>>
  BY <1>1, SlotFacts, Zenon
<1>3. TypeOK'
  BY <1>2, SlotFacts, SlotNumbers, Zenon DEF Inv, TypeOK
<1>4. Moves(c, p, "sysret")
  BY <1>2, Zenon DEF Moves, WaitLocked, Inv, TypeOK, Sets
<1>5. QED
  BY <1>3, <1>4, MovesInv, Zenon

\* wait() has children and goes to sleep.
LEMMA WaitSleepsInv ==
  ASSUME Inv, NEW c \in CPUs, NEW p \in Slots, WaitCheck(c, p), wait_lock' # 0
  PROVE  Inv'
<1> USE SlotFacts DEF Inv
<1>0. Executing(c, p) /\ Ranges
  BY OnCpu, Zenon DEF WaitCheck, At
<1>1. /\ pc[p] = "waitcheck" /\ stk[c] = p /\ pc' = [pc EXCEPT ![p] = "sleep"]
      /\ Sets(pc', pc, Slots, p, "sleep")
      /\ UNCHANGED <<pstate, chan, killed, parent, pid, plock, wait_lock, nextpid, ret, i, j,
                     havekids, arg, stk, cproc, si>>
  BY DEF WaitCheck, At, Goto, Return, procs, locals, cpus, TypeOK, Sets
<1>a. TypeOK'
  BY <1>1, Zenon DEF TypeOK
<1>2. StackInv' /\ LockInv'
  BY <1>0, <1>1 DEF StackInv, LockInv, WaitLocked, Ranges, Sets, Executing
<1>3. ThreadInv' /\ InitprocInv'
  <2>1. ThreadInv'
    BY <1>0, <1>1 DEF ThreadInv, Will, Sets, Executing
  <2>2. InitprocInv'
    BY <1>0, <1>1, Zenon DEF InitprocInv, Will, Exiting, Sets, Executing
  <2>3. QED
    BY <2>1, <2>2, Zenon
<1>4. ForkInv'
  BY <1>1, ForkFrame, Zenon DEF Forking, Will, Sets
<1>5. ParentInv' /\ WaitInv'
  BY <1>1 DEF ParentInv, WaitInv, Sets
<1>6. QED
  BY <1>a, <1>2, <1>3, <1>4, <1>5, Zenon

\* scheduler(): a slot that is not RUNNABLE.
LEMMA SchedSkipInv ==
  ASSUME Inv, NEW c \in CPUs, SchedSkip(c)
  PROVE  Inv'
<1> USE SlotFacts DEF Inv
<1>1. TypeOK'
  BY SlotNumbers, Zenon DEF TypeOK, SchedSkip, Free, procs, locals
<1>2. /\ UNCHANGED <<stk, pc, pstate, chan, killed, parent, pid, plock, wait_lock, nextpid, ret, i,
                  j, havekids, arg, cproc>>
  BY Zenon DEF SchedSkip, procs, locals
<1>3. Ranges
  BY OnCpu, Zenon
<1>4. StackInv'
  BY <1>2, <1>3, StackFrame, Zenon
<1>5. LockInv'
  BY <1>2, <1>3, LockFrame, Zenon
<1>6. ThreadInv'
  BY <1>2, Zenon DEF ThreadInv, Will
<1>7. InitprocInv'
  BY <1>2, Zenon DEF InitprocInv, Will
<1>8. ForkInv'
  BY <1>2, ForkFrame, Zenon DEF Forking, Will
<1>9. ParentInv'
  BY <1>2, <1>3, ParentFrame, Zenon
<1>10. WaitInv'
  BY <1>2, <1>3, WaitFrame, Zenon
<1>11. QED
  BY <1>1, <1>4, <1>5, <1>6, <1>7, <1>8, <1>9, <1>10, Zenon

\* scheduler(): the process it finds RUNNABLE is on no CPU, since p->lock is free.
LEMMA SchedRunInv ==
  ASSUME Inv, NEW c \in CPUs, SchedRun(c)
  PROVE  Inv'
<1> USE SlotFacts DEF Inv
<1> DEFINE p == si[c]
<1>1. TypeOK'
  BY ProcAssumption, Zenon DEF TypeOK, SchedRun, Free, Goto, locals
<1>2. /\ p \in Slots /\ plock[p] = 0 /\ pstate[p] = "RUNNABLE" /\ stk[c] = 0
      /\ Sets(pc', pc, Slots, p, ret[p]) /\ Sets(pstate', pstate, Slots, p, "RUNNING")
      /\ Sets(stk', stk, CPUs, c, p) /\ Sets(cproc', cproc, CPUs, c, p)
      /\ \A q \in Slots \ {p} : chan'[q] = chan[q]
      /\ ret[p] \in {"user", "sysret", "fork", "fork_parent", "fork_run", "exit", "wait", "kill"}
      /\ UNCHANGED <<killed, parent, pid, plock, wait_lock, nextpid, ret, i, j, havekids,
                  arg, si>>
  BY ProcAssumption, Zenon DEF TypeOK, SchedRun, Free, Goto, locals, Sets
<1> HIDE DEF p
<1>3. Ranges /\ pc[p] = "swtch" /\ \A d \in CPUs : stk[d] # p
  BY <1>2, OnCpu, OffCpu, Zenon
<1>w. \A q \in Slots, l \in Marks : Will(q, l)' => Will(q, l)
  BY <1>2, <1>3, Zenon DEF Sets, Will, Marks, Exiting
<1>4. StackInv'
  BY <1>2, <1>3 DEF StackInv, Ranges, Sets
<1>5. LockInv'
  BY <1>2, <1>3 DEF LockInv, Ranges, WaitLocked, Sets
<1>6. ThreadInv'
  BY <1>2, <1>3, <1>w, ThreadFrame, Zenon DEF Sets, Executing, Marks
<1>7. InitprocInv'
  BY <1>2, <1>3, <1>w, InitprocFrame, Zenon DEF Sets, Executing, Marks, Exiting, InitprocInv, Alive
<1>8. ForkInv'
  BY <1>2, <1>3, <1>w, ForkFrame, Zenon DEF Sets, Executing, Marks, Forking
<1>9. ParentInv'
  BY <1>2, <1>3, ParentFrame, Zenon DEF Sets, Executing, Alive
<1>10. WaitInv'
  BY <1>2, <1>3, WaitFrame, Zenon DEF Sets, Executing
<1>11. QED
  BY <1>1, <1>4, <1>5, <1>6, <1>7, <1>8, <1>9, <1>10, Zenon

\* sched(), scheduler(): back on the stack of the scheduler, which frees p->lock.
LEMMA SwtchInv ==
  ASSUME Inv, NEW c \in CPUs, NEW p \in Slots, Swtch(c, p)
  PROVE  Inv'
<1> USE SlotFacts DEF Inv
<1>1. TypeOK'
  BY SlotNumbers, Zenon DEF TypeOK, Swtch, At, locals
<1>2. /\ stk[c] = p /\ pc[p] = "swtch"
      /\ Sets(stk', stk, CPUs, c, 0) /\ Sets(cproc', cproc, CPUs, c, 0) /\ Sets(plock', plock, Slots, p, 0)
      /\ UNCHANGED <<pstate, chan, killed, parent, pid, wait_lock, nextpid, pc, ret, i, j,
                  havekids, arg>>
  BY Zenon DEF TypeOK, Swtch, At, locals, Sets
<1>3. /\ Ranges /\ plock[p] = c /\ pstate[p] # "RUNNING"
      /\ \A d \in CPUs : stk[d] = p => d = c
  BY <1>2, OnCpu DEF StackInv
<1>w. \A q \in Slots, l \in Marks : Will(q, l)' => Will(q, l)
  BY <1>2, <1>3, Zenon DEF Sets, Will, Marks, Exiting
<1>4. StackInv'
  BY <1>2, <1>3 DEF StackInv, Ranges, Sets
<1>5. LockInv'
  BY <1>2, <1>3 DEF LockInv, Ranges, WaitLocked, Sets
<1>6. ThreadInv'
  BY <1>2, <1>3, <1>w, ThreadFrame, Zenon DEF Sets, Executing, Marks
<1>7. InitprocInv'
  BY <1>2, <1>3, <1>w, InitprocFrame, Zenon DEF Sets, Executing, Marks, Exiting, InitprocInv, Alive
<1>8. ForkInv'
  BY <1>2, <1>3, <1>w, ForkFrame, Zenon DEF Sets, Executing, Marks, Forking
<1>9. ParentInv'
  BY <1>2, <1>3, ParentFrame, Zenon DEF Sets, Executing, Alive
<1>10. WaitInv'
  BY <1>2, <1>3, WaitFrame, Zenon DEF Sets, Executing
<1>11. QED
  BY <1>1, <1>4, <1>5, <1>6, <1>7, <1>8, <1>9, <1>10, Zenon

\* yield(): p->lock is held from here to the scheduler.
LEMMA YieldInv ==
  ASSUME Inv, NEW c \in CPUs, NEW p \in Slots, Yield(c, p)
  PROVE  Inv'
<1> USE SlotFacts DEF Inv
<1>1. TypeOK'
  BY ProcAssumption, Zenon DEF TypeOK, Yield, Free, Goto, locals, cpus
<1>2. /\ stk[c] = p /\ pc[p] \in {"usertimer", "sysret", "fork", "fork_parent", "fork_run", "exit", "wait", "kill"}
      /\ Sets(plock', plock, Slots, p, c) /\ Sets(pstate', pstate, Slots, p, "RUNNABLE")
      /\ Sets(pc', pc, Slots, p, "swtch")
      /\ Sets(ret', ret, Slots, p, IF pc[p] = "usertimer" THEN "user" ELSE pc[p])
      /\ UNCHANGED <<chan, killed, parent, pid, wait_lock, nextpid, i, j, havekids, arg,
                  stk, cproc, si>>
  BY ProcAssumption DEF TypeOK, Yield, Free, Goto, locals, cpus, Sets
<1>3. Executing(c, p) /\ Ranges
  BY <1>2, OnCpu, Zenon
<1>w. \A q \in Slots, l \in Marks : Will(q, l)' => Will(q, l)
  BY <1>2, <1>3 DEF Sets, Will, Marks, Exiting
<1>4. StackInv'
  BY <1>2, <1>3 DEF StackInv, Ranges, Sets, Executing
<1>5. LockInv'
  BY <1>2, <1>3, LockFrame, Zenon DEF Sets, WaitLocked
<1>6. ThreadInv'
  BY <1>2, <1>3, <1>w, ThreadFrame, Zenon DEF Sets, Executing, Marks
<1>7. InitprocInv'
  BY <1>2, <1>3, <1>w, InitprocFrame, Zenon DEF Sets, Executing, Marks, Exiting, InitprocInv, Alive
<1>8. ForkInv'
  BY <1>2, <1>3, <1>w, ForkFrame, Zenon DEF Sets, Executing, Marks, Forking
<1>9. ParentInv'
  BY <1>2, <1>3, ParentFrame, Zenon DEF Sets, Executing, Alive
<1>10. WaitInv'
  BY <1>2, <1>3, WaitFrame, Zenon DEF Sets, Executing
<1>11. QED
  BY <1>1, <1>4, <1>5, <1>6, <1>7, <1>8, <1>9, <1>10, Zenon

\* allocproc(): the slot it takes is on no CPU and in no other fork().
LEMMA AllocProcInv ==
  ASSUME Inv, NEW c \in CPUs, NEW p \in Slots, AllocProc(c, p)
  PROVE  Inv'
<1> USE SlotFacts DEF Inv
<1> DEFINE np == i[p]
<1>b. /\ stk[c] = p /\ pc[p] = "fork" /\ np \in Slots /\ plock[np] = 0 /\ pstate[np] = "UNUSED"
      /\ nextpid <= MaxPid
  BY Zenon DEF TypeOK, AllocProc, At, Free
<1>c. np # p /\ pc[np] = "swtch" /\ \A d \in CPUs : stk[d] # np
  BY <1>b, OnCpu, OffCpu, Zenon DEF Executing
<1>d. pc' = [q \in Slots |-> IF q = p THEN "fork_parent" ELSE pc[q]]
  BY <1>b, <1>c, Zenon DEF TypeOK, AllocProc
<1>1. TypeOK'
  <2>1. nextpid \in 0..MaxPid /\ nextpid + 1 \in 2..(MaxPid + 1) /\ 1 \in Slots /\ np \in 0..(NPROC + MaxPid)
    BY <1>b, SlotNumbers, ProcAssumption DEF TypeOK
  <2>2. /\ pid' = [pid EXCEPT ![np] = nextpid] /\ nextpid' = nextpid + 1
        /\ pstate' = [pstate EXCEPT ![np] = "USED"] /\ ret' = [ret EXCEPT ![np] = "user"]
        /\ arg' = [arg EXCEPT ![p] = np] /\ i' = [i EXCEPT ![p] = 1]
        /\ UNCHANGED <<chan, killed, parent, plock, wait_lock, j, havekids, stk, cproc, si>>
    BY Zenon DEF AllocProc, cpus
  <2>3. pc' \in [Slots -> {"user", "usertimer", "sysret", "fork", "fork_parent", "fork_run",
                           "exit", "reparent", "wakeup_init", "wakeup_parent", "zombie",
                           "wait", "scan", "waitcheck", "sleep", "kill", "swtch"}]
    BY <1>d, Zenon DEF TypeOK
  <2>4. QED
    BY <1>b, <2>1, <2>2, <2>3, Zenon DEF TypeOK
<1>2. /\ stk[c] = p /\ pc[p] = "fork" /\ np \in Slots /\ np # p /\ pstate[np] = "UNUSED" /\ pc[np] = "swtch"
      /\ \A d \in CPUs : stk[d] # np
      /\ Sets(pc', pc, Slots, p, "fork_parent") /\ Sets(pstate', pstate, Slots, np, "USED")
      /\ Sets(ret', ret, Slots, np, "user") /\ Sets(arg', arg, Slots, p, np) /\ Sets(i', i, Slots, p, 1)
      /\ \A q \in Slots \ {np} : pid'[q] = pid[q]
      /\ UNCHANGED <<chan, killed, parent, plock, wait_lock, j, havekids, stk, cproc, si>>
  BY <1>b, <1>c, <1>d DEF TypeOK, AllocProc, cpus, Sets
<1> HIDE DEF np
<1>3. Executing(c, p) /\ Ranges
  BY <1>2, OnCpu, Zenon
<1>e. /\ pc[p] = "fork" /\ pc'[p] = "fork_parent" /\ pc[np] = "swtch" /\ np # p /\ np \in Slots
      /\ pstate[np] = "UNUSED" /\ pstate'[np] = "USED" /\ ret'[np] = "user" /\ arg'[p] = np
      /\ \A q \in Slots : q # p => pc'[q] = pc[q] /\ arg'[q] = arg[q] /\ i'[q] = i[q]
      /\ \A q \in Slots : q # np => pstate'[q] = pstate[q] /\ ret'[q] = ret[q] /\ pid'[q] = pid[q]
      /\ \A d \in CPUs : stk[d] # np
      /\ UNCHANGED <<chan, killed, parent, plock, wait_lock, j, stk, cproc>>
  BY <1>2, Zenon DEF Sets
<1>w. \A q \in Slots, l \in Marks : Will(q, l)' => IF q = p THEN l = "fork_parent" ELSE Will(q, l)
  <2>1. \A l : Will(p, l)' => l = "fork_parent"
    BY <1>e, Zenon DEF Will
  <2>2. \A q \in Slots, l \in Marks : q = np => ~Will(q, l)'
    BY <1>e DEF Will, Marks, Exiting
  <2>3. \A q \in Slots : q # p /\ q # np => \A l : Will(q, l)' => Will(q, l)
    BY <1>e, Zenon DEF Will
  <2>4. QED
    BY <2>1, <2>2, <2>3, Zenon
<1>4. StackInv'
  BY ZenonT(30), <1>3, <1>e, StackFrame
<1>5. LockInv'
  BY <1>3, <1>e, LockFrame, Zenon DEF WaitLocked
<1>6. ThreadInv'
  BY <1>e, <1>w DEF ThreadInv, Marks
<1>7. InitprocInv'
  BY <1>e, <1>w, InitprocFrame, Zenon DEF Marks, Exiting, InitprocInv, Alive
<1>8. ForkInv'
  <2>1. \A q \in Slots : Forking(q) => arg[q] # np
    BY <1>2, Zenon DEF ForkInv
  <2>2. Forking(p)' /\ ~Will(p, "fork_run")' /\ arg'[p] = np /\ pstate'[np] = "USED"
    BY <1>e, Zenon DEF Will, Forking
  <2>3. \A q \in Slots : q # p => /\ Forking(q)' => Forking(q)
                                  /\ Will(q, "fork_run")' => Will(q, "fork_run")
                                  /\ arg'[q] = arg[q]
    BY <1>e, <1>w, Zenon DEF Forking, Marks
  <2>4. parent' = parent /\ np \in Slots /\ \A x \in Slots : x # np => pstate'[x] = pstate[x]
    BY <1>e, Zenon
  <2>5. \A q \in Slots : Will(q, "fork_run") => Forking(q)
    BY Zenon DEF Forking
  <2>6. QED
    BY <2>1, <2>2, <2>3, <2>4, <2>5 DEF ForkInv
<1>9. ParentInv'
  BY <1>3, <1>e, ParentFrame, Zenon DEF Alive
<1>10. WaitInv'
  BY <1>3, <1>e, WaitFrame, Zenon
<1>11. QED
  BY <1>1, <1>4, <1>5, <1>6, <1>7, <1>8, <1>9, <1>10, Zenon

\* fork(): np->parent = p, under wait_lock.
LEMMA ForkParentInv ==
  ASSUME Inv, NEW c \in CPUs, NEW p \in Slots, ForkParent(c, p)
  PROVE  Inv'
<1> USE SlotFacts DEF Inv
<1>1. TypeOK'
  BY Zenon DEF TypeOK, ForkParent, At, Goto, locals, cpus
<1>b. arg[p] \in Slots /\ pstate[arg[p]] = "USED"
  BY Zenon DEF ForkParent, At, ForkInv, Forking, Will
<1>2. /\ stk[c] = p /\ pc[p] = "fork_parent" /\ wait_lock = 0
      /\ arg[p] \in Slots /\ pstate[arg[p]] = "USED"
      /\ Sets(pc', pc, Slots, p, "fork_run")
      /\ Sets(parent', parent, Slots, arg[p], p)
      /\ UNCHANGED <<pstate, chan, killed, pid, plock, wait_lock, nextpid, ret, i, j,
                  havekids, arg, stk, cproc, si>>
  BY <1>b, Zenon DEF TypeOK, ForkParent, At, Goto, locals, cpus, Sets
<1>3. Executing(c, p) /\ Ranges
  BY <1>2, OnCpu, Zenon
<1>w. \A q \in Slots, l \in Marks : Will(q, l)' => IF q = p THEN l = "fork_run" ELSE Will(q, l)
  BY <1>2, <1>3, Zenon DEF Sets, Will, Marks, Exiting
<1>4. StackInv'
  BY <1>2, <1>3, StackFrame, Zenon DEF Sets, Executing
<1>5. LockInv'
  BY <1>2, <1>3, LockFrame, Zenon DEF Sets, WaitLocked
<1>6. ThreadInv'
  BY <1>2, <1>3, <1>w, ThreadFrame DEF Sets, Executing, Marks
<1>7. InitprocInv'
  BY <1>2, <1>3, <1>w, InitprocFrame, Zenon DEF Sets, Executing, Marks, Exiting, InitprocInv, Alive
<1>8. ForkInv'
  <2>1. Forking(p) /\ ~Will(p, "fork_run") /\ arg' = arg /\ pstate' = pstate
    BY <1>2, Zenon DEF Forking, Will
  <2>2. \A q \in Slots : /\ Forking(q)' => Forking(q)
                         /\ Will(q, "fork_run")' => q = p \/ Will(q, "fork_run")
    BY <1>w, <2>1, Zenon DEF Forking, Marks
  <2>3. \A q \in Slots : Forking(q) /\ q # p => parent'[arg[q]] = parent[arg[q]]
    BY <1>2, <2>1, Zenon DEF ForkInv, Sets
  <2>4. parent'[arg[p]] = p
    BY <1>2, Zenon DEF Sets
  <2>5. \A q \in Slots : Will(q, "fork_run") => Forking(q)
    BY Zenon DEF Forking
  <2>6. QED
    BY <2>1, <2>2, <2>3, <2>4, <2>5, Zenon DEF ForkInv
<1>9. ParentInv'
  <2>1. /\ \A x \in Slots : parent'[x] = IF x = arg[p] THEN p ELSE parent[x]
        /\ pstate' = pstate /\ pstate[p] \in Alive /\ i' = i
        /\ \A q \in Slots : pc'[q] \in {"reparent", "wakeup_init", "wakeup_parent", "zombie"} =>
                              q # p /\ pc'[q] = pc[q]
    BY <1>2, <1>3, Zenon DEF Sets, Executing, Alive
  <2>2. QED
    BY <1>3, <2>1 DEF ParentInv, Ranges
<1>10. WaitInv'
  <2>1. pc[arg[p]] \notin {"wakeup_parent", "zombie"}
    BY <1>2, Zenon DEF ThreadInv
  <2>2. QED
    BY <1>2, <1>3, <2>1, WaitFrame DEF Sets, Executing
<1>11. QED
  BY <1>1, <1>4, <1>5, <1>6, <1>7, <1>8, <1>9, <1>10, Zenon

\* fork(): the child becomes RUNNABLE; nobody has touched it since allocproc().
LEMMA ForkRunInv ==
  ASSUME Inv, NEW c \in CPUs, NEW p \in Slots, ForkRun(c, p)
  PROVE  Inv'
<1> USE SlotFacts DEF Inv
<1> DEFINE np == arg[p]
<1>b. /\ stk[c] = p /\ pc[p] = "fork_run" /\ np \in Slots /\ pstate[np] = "USED" /\ plock[np] = 0
      /\ parent[np] = p
  BY Zenon DEF ForkRun, At, Free, ForkInv, Forking, Will
<1>c. /\ np # p /\ np # initproc /\ pc[np] = "swtch" /\ ret[np] = "user"
      /\ \A d \in CPUs : stk[d] # np
  BY <1>b, OnCpu, OffCpu, Zenon DEF Executing, ThreadInv, InitprocInv, Alive
<1>1. TypeOK'
  BY <1>b, SlotNumbers, Zenon DEF TypeOK, ForkRun, Return, Goto, cpus
<1>2. /\ stk[c] = p /\ pc[p] = "fork_run" /\ np \in Slots /\ pstate[np] = "USED" /\ parent[np] = p
      /\ pc[np] = "swtch" /\ ret[np] = "user" /\ \A d \in CPUs : stk[d] # np
      /\ np # p /\ np # initproc
      /\ Sets(pc', pc, Slots, p, "sysret") /\ Sets(pstate', pstate, Slots, np, "RUNNABLE")
      /\ Sets(arg', arg, Slots, p, 0) /\ Sets(i', i, Slots, p, 1)
      /\ UNCHANGED <<chan, killed, parent, pid, plock, wait_lock, nextpid, ret, j, stk,
                  cproc, si>>
  BY <1>b, <1>c, Zenon DEF TypeOK, ForkRun, Return, Goto, cpus, Sets
<1>3. Executing(c, p) /\ Ranges
  BY <1>2, OnCpu, Zenon
<1> HIDE DEF np
<1>w. \A q \in Slots, l \in Marks : Will(q, l)' => q # p /\ Will(q, l)
  BY <1>2, <1>3, Zenon DEF Sets, Will, Marks, Exiting
<1>4. StackInv'
  BY <1>2, <1>3, StackFrame, Zenon DEF Sets, Executing
<1>5. LockInv'
  BY <1>2, <1>3, LockFrame, Zenon DEF Sets, WaitLocked
<1>6. ThreadInv'
  BY <1>2, <1>3, <1>w, ThreadFrame DEF Sets, Executing, Marks
<1>7. InitprocInv'
  BY <1>2, <1>3, <1>w, InitprocFrame, Zenon DEF Sets, Executing, Marks, Exiting, InitprocInv, Alive
<1>8. ForkInv'
  <2>1. \A q \in Slots \ {p} : /\ Will(q, "fork_run")' => Will(q, "fork_run")
                               /\ Forking(q)' => Forking(q)
    BY <1>w, Zenon DEF Forking, Marks
  <2>2. ~Forking(p)' /\ ~Will(p, "fork_run")' /\ Forking(p)
    BY <1>2, <1>w, Zenon DEF Forking, Will, Marks
  <2>3. \A q \in Slots \ {p} : Forking(q) => arg[q] # np
    BY <1>2, <2>2, Zenon DEF ForkInv, np
  <2>4. \A q \in Slots \ {p} : Will(q, "fork_run") => Forking(q)
    BY Zenon DEF Forking
  <2>5. QED
    BY <1>2, <2>1, <2>2, <2>3, <2>4 DEF ForkInv, Sets
<1>9. ParentInv'
  <2>1. /\ parent' = parent /\ parent[np] = p
        /\ \A q \in Slots : q # np => pstate'[q] = pstate[q]
        /\ pstate'[np] = "RUNNABLE" /\ pstate[np] = "USED"
        /\ \A q \in Slots : pc'[q] \in {"reparent", "wakeup_init", "wakeup_parent", "zombie"} =>
                              pc'[q] = pc[q] /\ i'[q] = i[q]
    BY <1>2, Zenon DEF Sets
  <2>2. QED
    BY <1>2, <1>3, <2>1 DEF ParentInv, Ranges, Alive
<1>10. WaitInv'
  BY <1>2, <1>3, WaitFrame, Zenon DEF Sets, Executing
<1>11. QED
  BY <1>1, <1>4, <1>5, <1>6, <1>7, <1>8, <1>9, <1>10, Zenon

\* kill(): a sleeper is made RUNNABLE; the victim is not init.
LEMMA KillFoundInv ==
  ASSUME Inv, NEW c \in CPUs, NEW p \in Slots, KillFound(c, p)
  PROVE  Inv'
<1> USE SlotFacts DEF Inv
<1>a. i[p] \in Slots
  BY Zenon DEF TypeOK
<1>p. PICK v \in Slots : v = i[p]
  BY <1>a, Zenon
<1>b. stk[c] = p /\ pc[p] = "kill" /\ v \in Slots /\ v # initproc /\ plock[v] = 0
  BY <1>p DEF TypeOK, KillFound, At, Free, ThreadInv, InitprocInv, Will
<1>1. TypeOK'
  BY <1>p, <1>b, SlotNumbers, Zenon DEF TypeOK, KillFound, Return, Goto, cpus
<1>2. /\ stk[c] = p /\ pc[p] = "kill" /\ v \in Slots /\ v # initproc /\ plock[v] = 0
      /\ \A q \in Slots : \/ pstate'[q] = pstate[q]
                          \/ q = v /\ pstate[q] = "SLEEPING" /\ pstate'[q] = "RUNNABLE"
      /\ \A q \in Slots \ {v} : killed'[q] = killed[q]
      /\ Sets(pc', pc, Slots, p, "sysret") /\ Sets(arg', arg, Slots, p, 0)
      /\ \A q \in Slots \ {p} : i'[q] = i[q]
      /\ UNCHANGED <<chan, parent, pid, plock, wait_lock, nextpid, ret, j, stk, cproc, si>>
  BY ZenonT(30), <1>p, <1>b DEF TypeOK, KillFound, Return, Goto, cpus, Sets
<1>3. Executing(c, p) /\ Ranges
  BY <1>2, OnCpu, Zenon
<1>w. \A q \in Slots, l \in Marks : Will(q, l)' => q # p /\ Will(q, l)
  BY <1>2, <1>3, Zenon DEF Sets, Will, Marks, Exiting
<1>4. StackInv'
  <2>1. \A q \in Slots : \/ pstate'[q] = pstate[q]
                         \/ pstate'[q] # "RUNNING" /\ \A d \in CPUs : stk[d] # q
    BY <1>2, OffCpu, Zenon
  <2>2. QED
    BY <1>2, <1>3, <2>1, StackFrame, Zenon DEF Sets
<1>5. LockInv'
  BY <1>2, <1>3, LockFrame, Zenon DEF Sets, WaitLocked
<1>6. ThreadInv'
  BY <1>2, <1>3, <1>w, ThreadFrame DEF Sets, Executing, Marks
<1>7. InitprocInv'
  BY <1>2, <1>3, <1>w, InitprocFrame, Zenon DEF Sets, Executing, Marks, Exiting, InitprocInv, Alive
<1>8. ForkInv'
  BY <1>2, <1>3, <1>w, ForkFrame, Zenon DEF Sets, Executing, Marks, Forking
<1>9. ParentInv'
  BY <1>2, <1>3, ParentFrame, Zenon DEF Sets, Executing, Alive
<1>10. WaitInv'
  BY <1>2, <1>3, WaitFrame, Zenon DEF Sets, Executing
<1>11. QED
  BY <1>1, <1>4, <1>5, <1>6, <1>7, <1>8, <1>9, <1>10, Zenon

-----------------------------------------------------------------------------
(* exit() and wait()                                                       *)

\* exit(): acquire(&wait_lock).
LEMMA ExitLockInv ==
  ASSUME Inv, NEW c \in CPUs, NEW p \in Slots, ExitLock(c, p)
  PROVE  Inv'
<1> USE SlotFacts DEF Inv
<1>1. TypeOK'
  BY SlotNumbers, Zenon DEF TypeOK, ExitLock, At, Goto, procs, cpus
<1>2. /\ stk[c] = p /\ pc[p] = "exit" /\ p # initproc /\ wait_lock = 0 /\ wait_lock' = c
      /\ Sets(pc', pc, Slots, p, "reparent") /\ Sets(i', i, Slots, p, 1) /\ Sets(arg', arg, Slots, p, 0)
      /\ UNCHANGED <<pstate, chan, killed, parent, pid, plock, nextpid, ret, j, havekids,
                  stk, cproc, si>>
  BY Zenon DEF TypeOK, ExitLock, At, Goto, procs, cpus, Sets
<1>3. Executing(c, p) /\ Ranges
  BY <1>2, OnCpu, Zenon
<1>w. \A q \in Slots, l \in Marks : Will(q, l)' => IF q = p THEN l = "reparent" ELSE Will(q, l)
  BY <1>2, <1>3, Zenon DEF Sets, Will, Marks, Exiting
<1>4. StackInv'
  BY <1>2, <1>3, StackFrame, Zenon DEF Sets, Executing
<1>5. LockInv'
  BY <1>2, <1>3, LockTaken, Zenon DEF Sets, Executing, WaitLocked
<1>6. ThreadInv'
  BY <1>2, <1>3, <1>w, ThreadFrame DEF Sets, Executing, Marks
<1>7. InitprocInv'
  BY <1>2, <1>3, <1>w, InitprocFrame, Zenon DEF Sets, Executing, Marks, Exiting, InitprocInv, Alive
<1>8. ForkInv'
  BY <1>2, <1>3, <1>w, ForkFrame DEF Sets, Executing, Marks, Forking
<1>9. ParentInv'
  <2>1. /\ parent' = parent /\ pstate' = pstate /\ i'[p] = 1
        /\ \A q \in Slots \ {p} : pc'[q] = pc[q] /\ i'[q] = i[q]
        /\ pc'[p] = "reparent"
    BY <1>2, Zenon DEF Sets
  <2>2. QED
    BY <2>1, SlotNumbers DEF ParentInv
<1>10. WaitInv'
  BY <1>2, <1>3, WaitFrame, Zenon DEF Sets, Executing
<1>11. QED
  BY <1>1, <1>4, <1>5, <1>6, <1>7, <1>8, <1>9, <1>10, Zenon

\* reparent(): a child is handed to init, or the loop goes on.
LEMMA ReparentInv ==
  ASSUME Inv, NEW c \in CPUs, NEW p \in Slots, Reparent(c, p)
  PROVE  Inv'
<1> USE SlotFacts DEF Inv
<1> DEFINE HandOver == /\ parent[i[p]] = p /\ Sets(parent', parent, Slots, i[p], initproc)
                       /\ Sets(pc', pc, Slots, p, "wakeup_init") /\ i' = i
           Advance == /\ parent[i[p]] # p /\ parent' = parent
                      /\ Sets(pc', pc, Slots, p, IF i[p] = NPROC THEN "wakeup_parent" ELSE "reparent")
                      /\ Sets(i', i, Slots, p, IF i[p] = NPROC THEN 1 ELSE i[p] + 1)
<1>b. i[p] \in Slots /\ stk[c] = p /\ pc[p] = "reparent"
  BY Zenon DEF TypeOK, Reparent, At
<1>u. UNCHANGED <<pstate, chan, killed, pid, plock, wait_lock, nextpid, ret, j, havekids, arg, stk,
                  cproc, si>>
  BY Zenon DEF Reparent, cpus
<1>c. TypeOK' /\ (HandOver \/ Advance)
  <2>1. CASE parent[i[p]] = p
    <3>1. /\ parent' = [parent EXCEPT ![i[p]] = initproc] /\ pc' = [pc EXCEPT ![p] = "wakeup_init"]
          /\ i' = i
      BY <2>1, Zenon DEF Reparent, Goto
    <3>2. TypeOK'
      BY <1>b, <1>u, <3>1, Zenon DEF TypeOK
    <3>3. HandOver
      BY <1>b, <2>1, <3>1, Zenon DEF TypeOK, Sets
    <3>4. QED
      BY <3>2, <3>3, Zenon
  <2>2. CASE parent[i[p]] # p
    <3> DEFINE l == IF i[p] = NPROC THEN "wakeup_parent" ELSE "reparent"
               k == IF i[p] = NPROC THEN 1 ELSE i[p] + 1
    <3>1. k \in Slots
      BY <1>b, SlotNumbers, Zenon
    <3>2. parent' = parent /\ i' = [i EXCEPT ![p] = k]
      BY <2>2, Zenon DEF Reparent
    <3>3. pc' = [pc EXCEPT ![p] = l]
      <4>1. CASE i[p] = NPROC
        BY <2>2, <4>1, Zenon DEF Reparent, Goto
      <4>2. CASE i[p] # NPROC
        BY <1>b, <2>2, <4>2 DEF Reparent, TypeOK
      <4>3. QED
        BY <4>1, <4>2, Zenon
    <3>4. TypeOK'
      BY <1>u, <3>1, <3>2, <3>3, Zenon DEF TypeOK
    <3>5. Advance
      BY <2>2, <3>2, <3>3, Zenon DEF TypeOK, Sets
    <3>6. QED
      BY <3>4, <3>5, Zenon
  <2>3. QED
    BY <2>1, <2>2, Zenon
<1>1. TypeOK'
  BY <1>c, Zenon
<1>2. /\ stk[c] = p /\ pc[p] = "reparent" /\ p # initproc /\ j[p] = 1
      /\ HandOver \/ Advance
      /\ UNCHANGED <<pstate, chan, killed, pid, plock, wait_lock, nextpid, ret, j,
                  havekids, arg, stk, cproc, si>>
  BY <1>b, <1>c, Zenon DEF Reparent, cpus, InitprocInv, ThreadInv, Exiting, Will
<1>3. Executing(c, p) /\ Ranges /\ \A q \in Slots : pc[q] \in WaitLocked => q = p
  BY <1>2, OnCpu, WaitLockedOnce, Zenon DEF WaitLocked
<1>e. /\ pc[p] = "reparent" /\ pc'[p] \in {"reparent", "wakeup_init", "wakeup_parent"}
      /\ \A q \in Slots \ {p} : pc'[q] = pc[q] /\ i'[q] = i[q]
      /\ \A x \in Slots : parent[x] # p => parent'[x] = parent[x]
  BY <1>b, <1>2, Zenon DEF Sets
<1>f. UNCHANGED <<pstate, chan, killed, pid, plock, wait_lock, ret, j, arg, stk, cproc>> /\ p # initproc
  BY <1>2, Zenon
<1> HIDE DEF HandOver, Advance
<1>w. \A q \in Slots, l \in Marks : Will(q, l)' => Will(q, l) \/ (q = p /\ l \in Exiting)
  BY <1>e, <1>f, Zenon DEF Will, Marks, Exiting
<1>4. StackInv'
  BY <1>3, <1>e, <1>f, StackFrame, Zenon
<1>5. LockInv'
  BY <1>3, <1>e, <1>f, LockFrame, Zenon DEF WaitLocked
<1>6. ThreadInv'
  BY <1>e, <1>f, <1>w, ThreadFrame DEF Marks, Exiting, ThreadInv
<1>7. InitprocInv'
  BY <1>f, <1>w, InitprocFrame, Zenon DEF Marks, InitprocInv
<1>8. ForkInv'
  <2>1. \A q \in Slots : /\ Will(q, "fork_run")' => Will(q, "fork_run")
                         /\ Forking(q)' => Forking(q)
    BY <1>w DEF Forking, Marks, Exiting
  <2>2. ~Forking(p)
    BY <1>e, Zenon DEF Forking, Will
  <2>3. \A q \in Slots : Will(q, "fork_run") => Forking(q)
    BY Zenon DEF Forking
  <2>4. \A q \in Slots : Forking(q)' => arg'[q] \in Slots /\ pstate'[arg'[q]] = "USED"
    BY <1>f, <2>1, Zenon DEF ForkInv
  <2>5. \A q \in Slots : Will(q, "fork_run")' => parent'[arg'[q]] = q
    <3>1. \A q \in Slots : Will(q, "fork_run")' => q # p /\ arg[q] \in Slots /\ parent[arg[q]] = q
      BY ZenonT(30), <2>1, <2>2, <2>3 DEF ForkInv
    <3>2. QED
      BY <1>e, <1>f, <3>1, Zenon
  <2>6. \A q, r \in Slots : Forking(q)' /\ Forking(r)' /\ arg'[q] = arg'[r] => q = r
    BY <1>f, <2>1, Zenon DEF ForkInv
  <2>7. QED
    BY <2>4, <2>5, <2>6, Zenon DEF ForkInv
<1>9. ParentInv'
  <2>1. CASE HandOver
    BY <1>3, <1>b, <1>e, <1>f, <2>1 DEF ParentInv, InitprocInv, WaitLocked, HandOver, Sets
  <2>2. CASE Advance
    <3>1. \A x \in Slots : parent[x] = p => ~(x < i[p]) /\ x # i[p]
      BY <1>e, <2>2, Zenon DEF ParentInv, Advance
    <3>2. \A x \in Slots : parent[x] = p => i[p] # NPROC /\ ~(x < i[p] + 1)
      BY <1>b, <3>1, SlotNumbers
    <3>3. QED
      BY <1>3, <1>e, <1>f, <2>2, <3>2 DEF ParentInv, WaitLocked, Advance, Sets
  <2>3. QED
    BY <1>2, <2>1, <2>2, Zenon
<1>10. WaitInv'
  <2>1. \A q \in Slots : /\ pc[q] \notin {"wakeup_init", "scan", "waitcheck", "sleep"}
                         /\ pc'[q] \notin {"scan", "waitcheck", "sleep", "zombie"}
                         /\ pc'[q] = "wakeup_parent" => j[q] = 1
    <3>1. \A q \in Slots : q # p => pc[q] \notin WaitLocked /\ pc'[q] = pc[q]
      BY <1>3, <1>e, Zenon
    <3>2. j[p] = 1
      BY <1>2, Zenon
    <3>3. QED
      BY ZenonT(30), <1>e, <3>1, <3>2 DEF WaitLocked
  <2>2. CASE HandOver
    <3>1. /\ \A x \in Slots : parent'[x] = IF x = i[p] THEN initproc ELSE parent[x]
          /\ pc'[p] = "wakeup_init" /\ j[p] = 1
          /\ \A q \in Slots : pc'[q] # "wakeup_parent"
      BY <1>2, <1>3, <1>b, <2>2, Zenon DEF HandOver, Sets, WaitLocked
    <3>2. QED
      BY <1>f, <2>1, <3>1 DEF WaitInv
  <2>3. CASE Advance
    <3>1. \A q \in Slots : parent[q] # 0 => parent[q] >= 1
      BY <1>3, SlotNumbers, Zenon DEF Ranges
    <3>2. parent' = parent
      BY <2>3, Zenon DEF Advance
    <3>3. QED
      BY <1>f, <2>1, <3>1, <3>2, Zenon DEF WaitInv
  <2>4. QED
    BY <1>2, <2>2, <2>3, Zenon
<1>11. QED
  BY <1>1, <1>4, <1>5, <1>6, <1>7, <1>8, <1>9, <1>10, Zenon

\* reparent(): wakeup(initproc) for the child just handed over.
LEMMA WakeupInitInv ==
  ASSUME Inv, NEW c \in CPUs, NEW p \in Slots, WakeupInit(c, p)
  PROVE  Inv'
<1> USE SlotFacts DEF Inv
<1>b. /\ stk[c] = p /\ pc[p] = "wakeup_init" /\ WakeupSlot(c, p, initproc)
      /\ IF j[p] = NPROC THEN pc' = [pc EXCEPT ![p] = "reparent"] ELSE pc' = pc
  BY Zenon DEF WakeupInit, At, Goto
<1>c. UNCHANGED <<chan, killed, parent, pid, plock, wait_lock, nextpid, ret, i, havekids, arg,
                  stk, cproc, si>>
  BY <1>b, Zenon DEF WakeupSlot, cpus
<1>d. /\ Woken(p, initproc) /\ j' \in [Slots -> Slots]
      /\ pstate' \in [Slots -> {"UNUSED", "USED", "SLEEPING", "RUNNABLE", "RUNNING", "ZOMBIE"}]
  BY <1>b, WakeupSlotDoes, Zenon
<1>1. TypeOK'
  <2>1. pc' \in [Slots -> {"user", "usertimer", "sysret", "fork", "fork_parent", "fork_run",
                           "exit", "reparent", "wakeup_init", "wakeup_parent", "zombie",
                           "wait", "scan", "waitcheck", "sleep", "kill", "swtch"}]
    BY <1>b DEF TypeOK
  <2>2. QED
    BY <1>c, <1>d, <2>1, Zenon DEF TypeOK
<1>2. /\ stk[c] = p /\ pc[p] = "wakeup_init" /\ p # initproc /\ j[p] \in Slots
      /\ Sets(pc', pc, Slots, p, IF j[p] = NPROC THEN "reparent" ELSE "wakeup_init")
      /\ Woken(p, initproc)
      /\ UNCHANGED <<chan, killed, parent, pid, plock, wait_lock, nextpid, ret, i,
                  havekids, arg, stk, cproc, si>>
  BY <1>b, <1>c, <1>d, Zenon DEF TypeOK, InitprocInv, Exiting, Will, Sets
<1>3. Executing(c, p) /\ Ranges /\ \A q \in Slots : pc[q] \in WaitLocked => q = p
  BY <1>2, OnCpu, WaitLockedOnce, Zenon DEF WaitLocked
<1>e. /\ pc[p] = "wakeup_init" /\ p # initproc
      /\ pc'[p] = IF j[p] = NPROC THEN "reparent" ELSE "wakeup_init"
      /\ j'[p] = IF j[p] = NPROC THEN 1 ELSE j[p] + 1
      /\ \A q \in Slots \ {p} : pc'[q] = pc[q] /\ j'[q] = j[q]
      /\ \A q \in Slots : \/ pstate'[q] = pstate[q]
                          \/ pstate[q] = "SLEEPING" /\ pstate'[q] = "RUNNABLE" /\ plock[q] = 0
      /\ UNCHANGED <<chan, killed, parent, pid, plock, wait_lock, ret, i, arg, stk, cproc>>
  BY <1>2, Zenon DEF Sets, Woken
<1>w. \A q \in Slots, l \in Marks : Will(q, l)' => Will(q, l) \/ (q = p /\ l \in Exiting)
  BY <1>e, Zenon DEF Will, Marks, Exiting
<1>4. StackInv'
  <2>1. \A q \in Slots : \/ pstate'[q] = pstate[q]
                         \/ pstate'[q] # "RUNNING" /\ \A d \in CPUs : stk[d] # q
    BY <1>e, OffCpu, Zenon
  <2>2. \A q \in Slots : pc'[q] = "swtch" <=> pc[q] = "swtch"
    BY <1>e, Zenon
  <2>3. QED
    BY <1>3, <1>e, <2>1, <2>2, StackFrame, Zenon
<1>5. LockInv'
  BY <1>3, <1>e, LockFrame, Zenon DEF WaitLocked
<1>6. ThreadInv'
  BY <1>e, <1>w DEF ThreadInv, Marks, Exiting
<1>7. InitprocInv'
  BY <1>e, <1>w, InitprocFrame, Zenon DEF Marks, InitprocInv, Alive
<1>8. ForkInv'
  BY <1>e, <1>w, ForkFrame DEF Marks, Forking, Exiting
<1>9. ParentInv'
  BY <1>3, <1>e, ParentFrame, Zenon DEF Alive
<1>10. WaitInv'
  <2>1. \A q \in Slots : /\ pstate'[q] = "SLEEPING" => pstate[q] = "SLEEPING"
                         /\ pstate'[q] = "ZOMBIE" <=> pstate[q] = "ZOMBIE"
    BY <1>2, Zenon DEF Woken
  <2>2. j[p] = initproc => pstate'[initproc] # "SLEEPING"
    BY <1>2, <1>3 DEF ThreadInv, Woken
  <2>3. \A q \in Slots : pc'[q] \notin {"wakeup_parent", "zombie", "scan", "waitcheck", "sleep"}
    BY ZenonT(30), <1>3, <1>e DEF WaitLocked
  <2>4. \A r \in Slots : pc[r] = "wakeup_init" => r = p
    BY <1>3, <1>e, Zenon DEF WaitLocked
  <2>5. QED
    BY <2>1, <2>2, <2>3, <2>4, <1>e DEF WaitInv, initproc
<1>11. QED
  BY <1>1, <1>4, <1>5, <1>6, <1>7, <1>8, <1>9, <1>10, Zenon

\* exit(): wakeup(p->parent), before the process is a zombie.
LEMMA WakeupParentInv ==
  ASSUME Inv, NEW c \in CPUs, NEW p \in Slots, WakeupParent(c, p)
  PROVE  Inv'
<1> USE SlotFacts DEF Inv
<1>b. /\ stk[c] = p /\ pc[p] = "wakeup_parent" /\ WakeupSlot(c, p, parent[p])
      /\ IF j[p] = NPROC THEN pc' = [pc EXCEPT ![p] = "zombie"] ELSE pc' = pc
  BY Zenon DEF WakeupParent, At, Goto
<1>c. UNCHANGED <<chan, killed, parent, pid, plock, wait_lock, nextpid, ret, i, havekids, arg,
                  stk, cproc, si>>
  BY <1>b, Zenon DEF WakeupSlot, cpus
<1>d. /\ Woken(p, parent[p]) /\ j' \in [Slots -> Slots]
      /\ pstate' \in [Slots -> {"UNUSED", "USED", "SLEEPING", "RUNNABLE", "RUNNING", "ZOMBIE"}]
  BY <1>b, WakeupSlotDoes, Zenon
<1>1. TypeOK'
  <2>1. pc' \in [Slots -> {"user", "usertimer", "sysret", "fork", "fork_parent", "fork_run",
                           "exit", "reparent", "wakeup_init", "wakeup_parent", "zombie",
                           "wait", "scan", "waitcheck", "sleep", "kill", "swtch"}]
    BY <1>b DEF TypeOK
  <2>2. QED
    BY <1>c, <1>d, <2>1, Zenon DEF TypeOK
<1>2. /\ stk[c] = p /\ pc[p] = "wakeup_parent" /\ p # initproc /\ j[p] \in Slots
      /\ Sets(pc', pc, Slots, p, IF j[p] = NPROC THEN "zombie" ELSE "wakeup_parent")
      /\ Woken(p, parent[p])
      /\ UNCHANGED <<chan, killed, parent, pid, plock, wait_lock, nextpid, ret, i,
                  havekids, arg, stk, cproc, si>>
  BY <1>b, <1>c, <1>d, Zenon DEF TypeOK, InitprocInv, Exiting, Will, Sets
<1>3. Executing(c, p) /\ Ranges /\ \A q \in Slots : pc[q] \in WaitLocked => q = p
  BY <1>2, OnCpu, WaitLockedOnce, Zenon DEF WaitLocked
<1>e. /\ pc[p] = "wakeup_parent" /\ p # initproc
      /\ pc'[p] = IF j[p] = NPROC THEN "zombie" ELSE "wakeup_parent"
      /\ j'[p] = IF j[p] = NPROC THEN 1 ELSE j[p] + 1
      /\ \A q \in Slots \ {p} : pc'[q] = pc[q] /\ j'[q] = j[q]
      /\ \A q \in Slots : \/ pstate'[q] = pstate[q]
                          \/ pstate[q] = "SLEEPING" /\ pstate'[q] = "RUNNABLE" /\ plock[q] = 0
      /\ UNCHANGED <<chan, killed, parent, pid, plock, wait_lock, ret, i, arg, stk, cproc>>
  BY <1>2, Zenon DEF Sets, Woken
<1>w. \A q \in Slots, l \in Marks : Will(q, l)' => Will(q, l) \/ (q = p /\ l \in Exiting)
  BY <1>e, Zenon DEF Will, Marks, Exiting
<1>4. StackInv'
  <2>1. \A q \in Slots : \/ pstate'[q] = pstate[q]
                         \/ pstate'[q] # "RUNNING" /\ \A d \in CPUs : stk[d] # q
    BY <1>e, OffCpu, Zenon
  <2>2. \A q \in Slots : pc'[q] = "swtch" <=> pc[q] = "swtch"
    BY <1>e, Zenon
  <2>3. QED
    BY <1>3, <1>e, <2>1, <2>2, StackFrame, Zenon
<1>5. LockInv'
  BY <1>3, <1>e, LockFrame, Zenon DEF WaitLocked
<1>6. ThreadInv'
  BY <1>e, <1>w DEF ThreadInv, Marks, Exiting
<1>7. InitprocInv'
  BY <1>e, <1>w, InitprocFrame, Zenon DEF Marks, InitprocInv, Alive
<1>8. ForkInv'
  BY <1>e, <1>w, ForkFrame DEF Marks, Forking, Exiting
<1>9. ParentInv'
  BY <1>3, <1>e, ParentFrame, Zenon DEF Alive
<1>10. WaitInv'
  <2>1. \A q \in Slots : /\ pstate'[q] = "SLEEPING" => pstate[q] = "SLEEPING" /\ chan[q] = q /\ q # p
                         /\ pstate'[q] = "ZOMBIE" <=> pstate[q] = "ZOMBIE"
    BY <1>3, <1>e DEF ThreadInv, Executing
  <2>2. ASSUME parent[p] # 0, pstate'[parent[p]] = "SLEEPING"
        PROVE  parent[p] >= j[p] /\ parent[p] # j[p] /\ parent[p] \in Slots
    <3>1. parent[p] \in Slots
      BY <1>3, <2>2, Zenon DEF Ranges
    <3>2. pstate[parent[p]] = "SLEEPING" /\ chan[parent[p]] = parent[p] /\ parent[p] # p
      BY <2>1, <2>2, <3>1, Zenon
    <3>3. QED
      BY <2>2, <3>1, <3>2, <1>2, Zenon DEF WaitInv, Woken
  <2>3. ASSUME parent[p] # 0, pstate'[parent[p]] = "SLEEPING"
        PROVE  j[p] # NPROC /\ parent[p] >= j[p] + 1
    BY <2>2, <2>3, <1>2, SlotNumbers
  <2>o. \A q \in Slots : q # p => pc'[q] = pc[q] /\ pc[q] \notin WaitLocked
    BY <1>3, <1>e, Zenon
  <2>4. \A q \in Slots : q # p => pc'[q] \notin {"wakeup_parent", "zombie"}
    BY <2>o, Zenon DEF WaitLocked
  <2>5. \A q \in Slots : pc[q] # "wakeup_init" /\ pc'[q] \notin {"scan", "waitcheck", "sleep"}
    BY <1>e, <2>o DEF WaitLocked
  <2>6. QED
    BY <2>1, <2>3, <2>4, <2>5, <1>e DEF WaitInv
<1>11. QED
  BY <1>1, <1>4, <1>5, <1>6, <1>7, <1>8, <1>9, <1>10, Zenon

\* exit(): the process is a zombie; its parent is awake and it has no child.
LEMMA ZombieInv ==
  ASSUME Inv, NEW c \in CPUs, NEW p \in Slots, Zombie(c, p)
  PROVE  Inv'
<1> USE SlotFacts DEF Inv
<1>1. TypeOK'
  BY Zenon DEF TypeOK, Zombie, At, Free, Goto, locals, cpus
<1>2. /\ stk[c] = p /\ pc[p] = "zombie" /\ wait_lock' = 0 /\ p # initproc
      /\ Sets(plock', plock, Slots, p, c) /\ Sets(pstate', pstate, Slots, p, "ZOMBIE")
      /\ Sets(pc', pc, Slots, p, "swtch")
      /\ UNCHANGED <<chan, killed, parent, pid, nextpid, ret, i, j, havekids, arg, stk,
                  cproc, si>>
  BY Zenon DEF TypeOK, Zombie, At, Free, Goto, locals, cpus, Sets, InitprocInv, Exiting, Will
<1>3. Executing(c, p) /\ Ranges /\ \A q \in Slots : pc[q] \in WaitLocked => q = p
  BY <1>2, OnCpu, WaitLockedOnce, Zenon DEF WaitLocked
<1>w. \A q \in Slots, l \in Marks : Will(q, l)' => Will(q, l)
  BY <1>2, <1>3, Zenon DEF Sets, Will, Marks, Exiting
<1>4. StackInv'
  BY <1>2, <1>3 DEF StackInv, Ranges, Sets, Executing
<1>5. LockInv'
  BY <1>2, <1>3, LockGiven, Zenon DEF Sets, Executing, WaitLocked
<1>6. ThreadInv'
  BY <1>2, <1>3, <1>w, ThreadFrame, Zenon DEF Sets, Executing, Marks
<1>7. InitprocInv'
  BY <1>2, <1>3, <1>w, InitprocFrame, Zenon DEF Sets, Executing, Marks, Exiting, InitprocInv, Alive
<1>8. ForkInv'
  BY <1>2, <1>3, <1>w, ForkFrame, Zenon DEF Sets, Executing, Marks, Forking
<1>9. ParentInv'
  <2>1. /\ parent' = parent /\ i' = i /\ pstate'[p] = "ZOMBIE" /\ pstate[p] = "RUNNING"
        /\ \A q \in Slots : /\ q # p => pstate'[q] = pstate[q]
                            /\ pc'[q] \notin {"reparent", "wakeup_init", "wakeup_parent", "zombie"}
    BY ZenonT(30), <1>2, <1>3 DEF Sets, WaitLocked, Executing
  <2>2. \A x \in Slots : parent[x] # p
    BY <1>2, Zenon DEF ParentInv
  <2>3. QED
    BY <1>3, <2>1, <2>2, Zenon DEF ParentInv, Ranges, Alive
<1>10. WaitInv'
  <2>1. /\ parent' = parent /\ pstate'[p] = "ZOMBIE" /\ pstate[p] = "RUNNING"
        /\ \A q \in Slots : /\ q # p => pstate'[q] = pstate[q]
                            /\ pc'[q] \notin WaitLocked /\ pc[q] # "wakeup_init"
    BY <1>2, <1>3, Zenon DEF Sets, WaitLocked, Executing
  <2>2. parent[p] # 0 => pstate[parent[p]] # "SLEEPING"
    BY <1>2, Zenon DEF WaitInv
  <2>3. QED
    BY <1>3, <2>1, <2>2 DEF WaitInv, WaitLocked, Ranges
<1>11. QED
  BY <1>1, <1>4, <1>5, <1>6, <1>7, <1>8, <1>9, <1>10, Zenon

\* wait(): acquire(&wait_lock).
LEMMA WaitLockInv ==
  ASSUME Inv, NEW c \in CPUs, NEW p \in Slots, WaitLock(c, p)
  PROVE  Inv'
<1> USE SlotFacts DEF Inv
<1>1. TypeOK'
  BY SlotNumbers, Zenon DEF TypeOK, WaitLock, At, Goto, procs, cpus
<1>2. /\ stk[c] = p /\ pc[p] = "wait" /\ wait_lock = 0 /\ wait_lock' = c
      /\ Sets(pc', pc, Slots, p, "scan") /\ Sets(i', i, Slots, p, 1)
      /\ UNCHANGED <<pstate, chan, killed, parent, pid, plock, nextpid, ret, j, arg, stk,
                  cproc, si>>
  BY Zenon DEF TypeOK, WaitLock, At, Goto, procs, cpus, Sets
<1>3. Executing(c, p) /\ Ranges
  BY <1>2, OnCpu, Zenon
<1>w. \A q \in Slots, l \in Marks : Will(q, l)' => Will(q, l)
  BY <1>2, <1>3, Zenon DEF Sets, Will, Marks, Exiting
<1>4. StackInv'
  BY <1>2, <1>3, StackFrame, Zenon DEF Sets, Executing
<1>5. LockInv'
  BY <1>2, <1>3, LockTaken, Zenon DEF Sets, Executing, WaitLocked
<1>6. ThreadInv'
  BY <1>2, <1>3, <1>w, ThreadFrame, Zenon DEF Sets, Executing, Marks
<1>7. InitprocInv'
  BY <1>2, <1>3, <1>w, InitprocFrame, Zenon DEF Sets, Executing, Marks, Exiting, InitprocInv, Alive
<1>8. ForkInv'
  BY <1>2, <1>3, <1>w, ForkFrame, Zenon DEF Sets, Executing, Marks, Forking
<1>9. ParentInv'
  BY <1>2, <1>3, ParentFrame, Zenon DEF Sets, Executing, Alive
<1>10. WaitInv'
  <2>1. /\ parent' = parent /\ pstate' = pstate /\ j' = j /\ i'[p] = 1 /\ pc'[p] = "scan" /\ pc[p] = "wait"
        /\ \A q \in Slots \ {p} : pc'[q] = pc[q] /\ i'[q] = i[q]
    BY <1>2, Zenon DEF Sets
  <2>2. QED
    BY <2>1, SlotNumbers DEF WaitInv
<1>11. QED
  BY <1>1, <1>4, <1>5, <1>6, <1>7, <1>8, <1>9, <1>10, Zenon

\* wait(): a slot that is not a zombie child; no child becomes one behind the scan.
LEMMA ScanSkipInv ==
  ASSUME Inv, NEW c \in CPUs, NEW p \in Slots, ScanSkip(c, p)
  PROVE  Inv'
<1> USE SlotFacts DEF Inv
<1>t. /\ i[p] \in Slots /\ i' = [i EXCEPT ![p] = Succ(i[p])]
      /\ havekids' = [havekids EXCEPT ![p] = havekids[p] \/ parent[i[p]] = p]
      /\ UNCHANGED <<pstate, chan, killed, parent, pid, plock, wait_lock, nextpid, ret, j,
                     arg, stk, cproc, si>>
  BY Zenon DEF TypeOK, ScanSkip, procs, cpus
<1>u. /\ pc[p] = "scan"
      /\ pc' = [pc EXCEPT ![p] = IF i[p] = NPROC THEN "waitcheck" ELSE "scan"]
  <2>1. CASE i[p] = NPROC
    BY <2>1, Zenon DEF ScanSkip, At, Goto
  <2>2. CASE i[p] # NPROC
    BY <2>2 DEF ScanSkip, At, TypeOK
  <2>3. QED
    BY <2>1, <2>2, Zenon
<1>1. TypeOK'
  BY <1>t, <1>u, SlotNumbers, Zenon DEF TypeOK
<1>2. /\ stk[c] = p /\ pc[p] = "scan" /\ i[p] \in Slots /\ (parent[i[p]] = p => pstate[i[p]] # "ZOMBIE")
      /\ Sets(pc', pc, Slots, p, IF i[p] = NPROC THEN "waitcheck" ELSE "scan")
      /\ Sets(i', i, Slots, p, IF i[p] = NPROC THEN 1 ELSE i[p] + 1)
      /\ UNCHANGED <<pstate, chan, killed, parent, pid, plock, wait_lock, nextpid, ret, j,
                  arg, stk, cproc, si>>
  <2>1. stk[c] = p /\ (parent[i[p]] = p => pstate[i[p]] # "ZOMBIE")
    BY Zenon DEF ScanSkip, At
  <2>2. Sets(pc', pc, Slots, p, IF i[p] = NPROC THEN "waitcheck" ELSE "scan")
    BY <1>u, Zenon DEF TypeOK, Sets
  <2>3. Sets(i', i, Slots, p, IF i[p] = NPROC THEN 1 ELSE i[p] + 1)
    BY <1>t, Zenon DEF TypeOK, Sets, Succ
  <2>4. QED
    BY <1>t, <1>u, <2>1, <2>2, <2>3, Zenon
<1>3. Executing(c, p) /\ Ranges /\ \A q \in Slots : pc[q] \in WaitLocked => q = p
  BY <1>2, OnCpu, WaitLockedOnce, Zenon DEF WaitLocked
<1>e. /\ pc[p] = "scan" /\ pc'[p] = IF i[p] = NPROC THEN "waitcheck" ELSE "scan"
      /\ i'[p] = IF i[p] = NPROC THEN 1 ELSE i[p] + 1
      /\ \A q \in Slots \ {p} : pc'[q] = pc[q] /\ i'[q] = i[q]
      /\ UNCHANGED <<pstate, chan, killed, parent, pid, plock, wait_lock, ret, j, arg, stk, cproc>>
  BY <1>2, Zenon DEF Sets
<1>w. \A q \in Slots, l \in Marks : Will(q, l)' => Will(q, l)
  BY <1>e, Zenon DEF Will, Marks, Exiting
<1>4. StackInv'
  BY <1>3, <1>e, StackFrame, Zenon
<1>5. LockInv'
  BY <1>3, <1>e, LockFrame, Zenon DEF WaitLocked
<1>6. ThreadInv'
  BY <1>3, <1>e, <1>w, ThreadFrame, Zenon DEF Marks, Executing
<1>7. InitprocInv'
  BY <1>e, <1>w, InitprocFrame, Zenon DEF Marks, InitprocInv
<1>8. ForkInv'
  BY <1>e, <1>w, ForkFrame, Zenon DEF Marks, Forking
<1>9. ParentInv'
  BY <1>3, <1>e, ParentFrame, Zenon
<1>10. WaitInv'
  <2>1. \A x \in Slots : parent[x] = p /\ pstate[x] = "ZOMBIE" => x >= i[p] /\ x # i[p]
    BY <1>2, Zenon DEF WaitInv
  <2>2. \A x \in Slots : parent[x] = p /\ pstate[x] = "ZOMBIE" => i[p] # NPROC /\ x >= i[p] + 1
    <3>1. i[p] \in Slots
      BY <1>2, Zenon
    <3>2. QED
      BY <2>1, <3>1, SlotNumbers
  <2>3. \A q \in Slots : pc[q] # "wakeup_init" /\ pc'[q] \notin {"wakeup_parent", "zombie"}
    BY <1>3, <1>e, Zenon DEF WaitLocked
  <2>4. \A q \in Slots : q # p => pc'[q] \notin {"scan", "waitcheck", "sleep"}
    BY <1>3, <1>e, Zenon DEF WaitLocked
  <2>5. \A x \in Slots : parent'[x] = p /\ pstate'[x] = "ZOMBIE" =>
          /\ pc'[p] = "scan" => x >= i'[p]
          /\ pc'[p] \notin {"waitcheck", "sleep"}
    BY <1>e, <2>2
  <2>6. \A r, x \in Slots : parent'[x] = r /\ pstate'[x] = "ZOMBIE" =>
          /\ pc'[r] = "scan" => x >= i'[r]
          /\ pc'[r] \notin {"waitcheck", "sleep"}
    BY <2>4, <2>5, Zenon
  <2>7. \A r, x \in Slots : pstate'[x] = "ZOMBIE" /\ parent'[x] = r => pstate'[r] # "SLEEPING"
    BY <1>e, <2>3, Zenon DEF WaitInv
  <2>8. QED
    BY <2>3, <2>6, <2>7, Zenon DEF WaitInv
<1>11. QED
  BY <1>1, <1>4, <1>5, <1>6, <1>7, <1>8, <1>9, <1>10, Zenon

\* wait(), freeproc(): the slot of a zombie child is free again.
LEMMA ReapInv ==
  ASSUME Inv, NEW c \in CPUs, NEW p \in Slots, Reap(c, p)
  PROVE  Inv'
<1> USE SlotFacts DEF Inv
<1> DEFINE pp == i[p]
<1>b. /\ stk[c] = p /\ pc[p] = "scan" /\ pp \in Slots /\ parent[pp] = p /\ plock[pp] = 0
      /\ pstate[pp] = "ZOMBIE"
  BY Zenon DEF TypeOK, Reap, At, Free
<1>c. pp # p /\ pp # initproc /\ \A d \in CPUs : stk[d] # pp
  BY <1>b, OnCpu, OffCpu, Zenon DEF Executing, InitprocInv, Alive
<1>d. \A x \in Slots : parent[x] # pp
  BY <1>b, Zenon DEF ParentInv, Alive
<1>1. TypeOK'
  <2>1. 0 \in 0..MaxPid /\ 0 \in 0..(NPROC + MaxPid)
    BY ProcAssumption
  <2>2. /\ pstate' = [pstate EXCEPT ![pp] = "UNUSED"] /\ pid' = [pid EXCEPT ![pp] = 0]
        /\ parent' = [parent EXCEPT ![pp] = 0] /\ chan' = [chan EXCEPT ![pp] = 0]
        /\ killed' = [killed EXCEPT ![pp] = FALSE] /\ wait_lock' = 0 /\ Return(p)
        /\ UNCHANGED <<plock, nextpid, ret, stk, cproc, si>>
    BY Zenon DEF Reap, cpus
  <2>3. QED
    BY <1>b, <2>1, <2>2, Zenon DEF TypeOK, Return, Goto
<1>2. /\ stk[c] = p /\ pc[p] = "scan" /\ pp \in Slots /\ pp # p /\ parent[pp] = p /\ pstate[pp] = "ZOMBIE"
      /\ plock[pp] = 0 /\ wait_lock' = 0 /\ pp # initproc
      /\ Sets(pc', pc, Slots, p, "sysret") /\ Sets(pstate', pstate, Slots, pp, "UNUSED")
      /\ Sets(parent', parent, Slots, pp, 0) /\ Sets(arg', arg, Slots, p, 0)
      /\ \A q \in Slots \ {pp} : killed'[q] = killed[q] /\ chan'[q] = chan[q] /\ pid'[q] = pid[q]
      /\ \A q \in Slots \ {p} : i'[q] = i[q]
      /\ \A d \in CPUs : stk[d] # pp
      /\ \A x \in Slots : parent[x] # pp
      /\ UNCHANGED <<plock, nextpid, ret, j, stk, cproc, si>>
  BY ZenonT(30), <1>b, <1>c, <1>d DEF TypeOK, Reap, Return, Goto, cpus, Sets
<1> HIDE DEF pp
<1>3. Executing(c, p) /\ Ranges
  BY <1>2, OnCpu, Zenon
<1>e. /\ \A q \in Slots : q # p => pc'[q] = pc[q] /\ i'[q] = i[q] /\ arg'[q] = arg[q]
      /\ \A q \in Slots : q # pp => /\ pstate'[q] = pstate[q] /\ parent'[q] = parent[q]
                                    /\ killed'[q] = killed[q] /\ chan'[q] = chan[q] /\ pid'[q] = pid[q]
      /\ pc[p] = "scan" /\ pc'[p] = "sysret" /\ pstate[pp] = "ZOMBIE" /\ pstate'[pp] = "UNUSED"
      /\ parent'[pp] = 0 /\ ret' = ret /\ j' = j /\ pp # initproc /\ pp # p
      /\ stk' = stk /\ cproc' = cproc /\ plock' = plock /\ stk[c] = p /\ wait_lock' = 0
      /\ \A d \in CPUs : stk[d] # pp
  BY <1>2, Zenon DEF Sets
<1>w. \A q \in Slots, l \in Marks : Will(q, l)' => q # p /\ Will(q, l)
  BY <1>e, Zenon DEF Will, Marks, Exiting
<1>4. StackInv'
  BY <1>3, <1>e, StackFrame
<1>5. LockInv'
  BY <1>3, <1>e, LockGiven, Zenon DEF WaitLocked
<1>6. ThreadInv'
  BY <1>3, <1>e, <1>w, ThreadFrame DEF Marks, Executing
<1>7. InitprocInv'
  BY <1>e, <1>w, InitprocFrame, Zenon DEF Marks, InitprocInv
<1>8. ForkInv'
  BY <1>e, <1>w, ForkFrame, Zenon DEF Marks, Forking
<1>9. ParentInv'
  <2>1. pp \in Slots /\ \A x \in Slots : parent[x] # pp
    BY <1>2, Zenon
  <2>a. /\ \A x \in Slots : x # pp => pstate'[x] = pstate[x] /\ parent'[x] = parent[x]
        /\ pstate'[pp] = "UNUSED" /\ parent'[pp] = 0
    BY <1>e, Zenon
  <2>b. pc'[p] = "sysret" /\ \A r \in Slots : r # p => pc'[r] = pc[r] /\ i'[r] = i[r]
    BY <1>e, Zenon
  <2>2. \A x \in Slots : parent'[x] # 0 => pstate'[parent'[x]] \in Alive
    BY <1>3, <2>1, <2>a DEF ParentInv, Ranges
  <2>3. \A x \in Slots \ {initproc} : pstate'[x] \in Alive \cup {"ZOMBIE"} => parent'[x] # 0
    BY <2>1, <2>a DEF ParentInv, Alive
  <2>4. \A r, x \in Slots : parent'[x] = r => parent[x] = r
    BY <2>a
  <2>5. \A r \in Slots : pc'[r] \in {"reparent", "wakeup_init", "wakeup_parent", "zombie"} =>
                           pc'[r] = pc[r] /\ i'[r] = i[r]
    BY <2>b
  <2>6. QED
    BY <2>2, <2>3, <2>4, <2>5, Zenon DEF ParentInv
<1>10. WaitInv'
  <2>1. pc[pp] = "swtch"
    BY <1>2, OffCpu, Zenon
  <2>2. \A q \in Slots :
          /\ \/ parent'[q] = parent[q]
             \/ pstate'[q] # "ZOMBIE" /\ pc'[q] \notin {"wakeup_parent", "zombie"}
          /\ pstate'[q] = "ZOMBIE" => pstate[q] = "ZOMBIE"
          /\ pstate'[q] = "SLEEPING" => pstate[q] = "SLEEPING"
    <3>1. /\ \A x \in Slots : x # pp => pstate'[x] = pstate[x] /\ parent'[x] = parent[x]
          /\ pstate'[pp] = "UNUSED" /\ pc'[pp] = "swtch"
      BY <1>e, <1>2, <2>1, Zenon
    <3>2. QED
      BY <3>1
  <2>3. \A q \in Slots :
          /\ pc'[q] \in {"scan", "waitcheck", "sleep", "wakeup_parent", "zombie"} => q # p
          /\ pc[q] = "wakeup_init" => q # p
    <3>1. pc[p] = "scan" /\ pc'[p] = "sysret"
      BY <1>e, Zenon
    <3>2. QED
      BY <3>1
  <2>4. QED
    BY <1>3, <1>e, <2>2, <2>3, WaitFrame, Zenon
<1>11. QED
  BY <1>1, <1>4, <1>5, <1>6, <1>7, <1>8, <1>9, <1>10, Zenon

\* sleep(): all children have been seen, wait_lock is given up under p->lock.
LEMMA SleepInv ==
  ASSUME Inv, NEW c \in CPUs, NEW p \in Slots, Sleep(c, p)
  PROVE  Inv'
<1> USE SlotFacts DEF Inv
<1>1. TypeOK'
  BY SlotNumbers, Zenon DEF TypeOK, Sleep, At, Free, Goto, cpus
<1>t. /\ stk[c] = p /\ pc[p] = "sleep" /\ wait_lock' = 0
      /\ plock' = [plock EXCEPT ![p] = c] /\ chan' = [chan EXCEPT ![p] = p]
      /\ pstate' = [pstate EXCEPT ![p] = "SLEEPING"] /\ ret' = [ret EXCEPT ![p] = "wait"]
      /\ pc' = [pc EXCEPT ![p] = "swtch"]
      /\ UNCHANGED <<killed, parent, pid, nextpid, i, j, arg, stk, cproc, si>>
  BY Zenon DEF Sleep, At, Goto, cpus
<1>2. /\ stk[c] = p /\ pc[p] = "sleep" /\ wait_lock' = 0
      /\ Sets(plock', plock, Slots, p, c) /\ Sets(chan', chan, Slots, p, p)
      /\ Sets(pstate', pstate, Slots, p, "SLEEPING") /\ Sets(ret', ret, Slots, p, "wait")
      /\ Sets(pc', pc, Slots, p, "swtch")
      /\ UNCHANGED <<killed, parent, pid, nextpid, i, j, arg, stk, cproc, si>>
  BY <1>t, Zenon DEF TypeOK, Sets
<1>3. Executing(c, p) /\ Ranges /\ \A q \in Slots : pc[q] \in WaitLocked => q = p
  BY <1>2, OnCpu, WaitLockedOnce, Zenon DEF WaitLocked
<1>w. \A q \in Slots, l \in Marks : Will(q, l)' => Will(q, l)
  BY <1>2, <1>3, Zenon DEF Sets, Will, Marks, Exiting
<1>4. StackInv'
  BY <1>2, <1>3 DEF StackInv, Ranges, Sets, Executing
<1>5. LockInv'
  BY <1>2, <1>3, LockGiven, Zenon DEF Sets, Executing, WaitLocked
<1>6. ThreadInv'
  BY <1>2, <1>3, <1>w DEF ThreadInv, Sets, Executing, Marks
<1>7. InitprocInv'
  BY <1>2, <1>3, <1>w, InitprocFrame, Zenon DEF Sets, Executing, Marks, Exiting, InitprocInv, Alive
<1>8. ForkInv'
  BY <1>2, <1>3, <1>w, ForkFrame, Zenon DEF Sets, Executing, Marks, Forking
<1>9. ParentInv'
  BY <1>2, <1>3, ParentFrame, Zenon DEF Sets, Executing, Alive
<1>10. WaitInv'
  <2>1. /\ parent' = parent /\ pstate'[p] = "SLEEPING" /\ pstate[p] = "RUNNING"
        /\ \A q \in Slots : /\ q # p => pstate'[q] = pstate[q]
                            /\ pc'[q] \notin WaitLocked /\ pc[q] # "wakeup_init"
    BY <1>2, <1>3, Zenon DEF Sets, WaitLocked, Executing
  <2>2. \A x \in Slots : parent[x] = p => pstate[x] # "ZOMBIE"
    BY <1>2, Zenon DEF WaitInv
  <2>3. QED
    BY <1>3, <2>1, <2>2 DEF WaitInv, WaitLocked, Ranges
<1>11. QED
  BY <1>1, <1>4, <1>5, <1>6, <1>7, <1>8, <1>9, <1>10, Zenon

-----------------------------------------------------------------------------
\* Every step of the kernel keeps the invariant.
LEMMA NextInv == Inv /\ [Next]_vars => Inv'
<1> SUFFICES ASSUME Inv, [Next]_vars PROVE Inv'
  OBVIOUS
<1>1. ASSUME NEW c \in CPUs, Scheduler(c) PROVE Inv'
  BY <1>1, SchedSkipInv, SchedRunInv, Zenon DEF Scheduler
<1>2. ASSUME NEW c \in CPUs, NEW p \in Slots, Kernel(c, p) PROVE Inv'
  <2>1. CASE Swtch(c, p) \/ UserTimer(c, p) \/ SysRet(c, p)
    BY <2>1, SwtchInv, UserTimerInv, Zenon
  <2>2. CASE AllocSkip(c, p) \/ AllocProc(c, p) \/ AllocFail(c, p) \/ ForkParent(c, p) \/ ForkRun(c, p)
    BY <2>2, LoopInv, AllocProcInv, ForkParentInv, ForkRunInv, Zenon
  <2>3. CASE ExitLock(c, p) \/ Reparent(c, p) \/ WakeupInit(c, p) \/ WakeupParent(c, p) \/ Zombie(c, p)
    BY <2>3, ExitLockInv, ReparentInv, WakeupInitInv, WakeupParentInv, ZombieInv, Zenon
  <2>4. CASE WaitLock(c, p) \/ ScanSkip(c, p) \/ Reap(c, p) \/ CopyoutFail(c, p)
    <3>1. CASE CopyoutFail(c, p)
      <4>1. CopyoutFail(c, p) \/ (WaitCheck(c, p) /\ wait_lock' = 0)
        BY <3>1, Zenon
      <4>2. QED
        BY <4>1, WaitFailsInv, Zenon
    <3>2. QED
      BY <2>4, <3>1, WaitLockInv, ScanSkipInv, ReapInv, Zenon
  <2>5. CASE WaitCheck(c, p) \/ Sleep(c, p) \/ KillSkip(c, p) \/ KillFound(c, p)
    BY <2>5, WaitFailsInv, WaitSleepsInv, SleepInv, LoopInv, KillFoundInv, Zenon
  <2>6. QED
    BY <1>2, <2>1, <2>2, <2>3, <2>4, <2>5, Zenon DEF Kernel
<1>3. ASSUME NEW c \in CPUs, NEW p \in Slots, NEW call \in {"fork", "wait", "exit"},
             UserCall(c, p, call, 0)
      PROVE  Inv'
  BY <1>3, UserCallInv, Zenon
<1>4. ASSUME NEW c \in CPUs, NEW p \in Slots, NEW a \in 2..MaxPid, UserCall(c, p, "kill", a)
      PROVE  Inv'
  BY <1>4, UserCallInv, ProcAssumption
<1>5. CASE UNCHANGED vars
  BY <1>5, StutterInv, Zenon
<1>6. QED
  BY <1>1, <1>2, <1>3, <1>4, <1>5, YieldInv, Zenon DEF Next

\* Inv holds in every reachable state.
LEMMA ProcInv == Spec => []Inv
<1>1. Inv /\ [Next]_vars => Inv'
  BY NextInv, Zenon
<1>2. QED
  BY InitInv, <1>1, PTL DEF Spec

(***************************************************************************)
(* A kernel stack is on at most one CPU, which runs its process or holds   *)
(* p->lock, and the checks of sched() succeed: for any number of slots and *)
(* CPUs, and with timer interrupts wherever the kernel allows them.        *)
(***************************************************************************)
THEOREM ProcStacks == Spec => []StackInUseOnce
<1>1. Inv => StackInUseOnce
  <2> SUFFICES ASSUME Inv PROVE StackInUseOnce
    OBVIOUS
  <2>1. TypeOK
    BY Zenon DEF Inv
  <2>2. ASSUME NEW c \in CPUs, stk[c] # 0, pc[stk[c]] = "swtch"
        PROVE  /\ {p \in Slots : plock[p] = c} = {stk[c]}
               /\ wait_lock # c
               /\ pstate[stk[c]] # "RUNNING"
    <3>1. stk[c] \in Slots /\ plock[stk[c]] = c /\ pstate[stk[c]] # "RUNNING"
      BY <2>2, Zenon DEF Inv, TypeOK, StackInv
    <3>2. \A p \in Slots : plock[p] = c => p = stk[c]
      BY <2>2, ProcAssumption DEF Inv, StackInv
    <3>3. wait_lock # c
      BY <2>2, ProcAssumption, Zenon DEF Inv, LockInv, WaitLocked
    <3>4. QED
      BY <3>1, <3>2, <3>3
  <2>3. SchedHoldsOnlyOwnLock
    BY <2>2, Zenon DEF SchedHoldsOnlyOwnLock
  <2>4. QED
    BY <2>1, <2>3 DEF StackInUseOnce, Inv, StackInv
<1>2. QED
  BY ProcInv, <1>1, PTL

(***************************************************************************)
(* Every process fork() has made runnable, zombies included, has a parent  *)
(* that has not exited: reparent() misses no child.                        *)
(***************************************************************************)
THEOREM ProcOrphans == Spec => []OrphansHaveLiveParent
<1>1. Inv => OrphansHaveLiveParent
  BY Zenon DEF Inv, ParentInv, Alive, OrphansHaveLiveParent
<1>2. QED
  BY ProcInv, <1>1, PTL

(***************************************************************************)
(* wait() misses no exit(): whenever wait_lock is free, a process asleep   *)
(* in wait() has no zombie child.                                          *)
(***************************************************************************)
THEOREM ProcNoMissedExit == Spec => []NoMissedExit
<1>1. Inv => NoMissedExit
  <2> SUFFICES ASSUME Inv, wait_lock = 0, NEW p \in Slots, NEW q \in Slots,
                      pstate[q] = "ZOMBIE", parent[q] = p, pstate[p] = "SLEEPING"
               PROVE  FALSE
    BY Zenon DEF NoMissedExit
  <2>1. PICK r \in Slots : pc[r] = "wakeup_init"
    BY Zenon DEF Inv, WaitInv
  <2>2. QED
    BY <2>1, WaitLockedOnce, Zenon DEF WaitLocked
<1>2. QED
  BY ProcInv, <1>1, PTL

=============================================================================
