----------------------------- MODULE SleepLock -----------------------------
(***************************************************************************)
(* kernel/sleeplock.c on top of sleep() and wakeup() of kernel/proc.c.     *)
(*                                                                         *)
(* sleep() and wakeup() are taken apart into the sections that p->lock     *)
(* delimits, which is where a wakeup could get lost; a process may also be *)
(* woken by kill() for no reason the lock knows of.  The other modules     *)
(* treat sleep() and wakeup(), called under the lock of the condition, as  *)
(* atomic; this one shows why that is right.                               *)
(***************************************************************************)
EXTENDS Naturals, FiniteSets

CONSTANTS
  NPROC,  \* slots of the process table, scanned by wakeup() in order
  None    \* nobody

ASSUME SleepLockAssumption == NPROC \in Nat \ {0} /\ None \notin Nat

Procs == 1..NPROC

VARIABLES
  lk,      \* holder of the spinlock inside the sleep lock
  locked,  \* lk->locked
  owner,   \* lk->pid
  plock,   \* p -> holder of p->lock
  pstate,  \* p -> p->state
  onchan,  \* p -> p->chan is this sleep lock
  pc,      \* p -> what its kernel thread does next
  k        \* p -> loop variable of wakeup()

vars == <<lk, locked, owner, plock, pstate, onchan, pc, k>>

Init ==
  /\ lk = None
  /\ locked = FALSE
  /\ owner = None
  /\ plock = [p \in Procs |-> None]
  /\ pstate = [p \in Procs |-> "RUNNING"]
  /\ onchan = [p \in Procs |-> FALSE]
  /\ pc = [p \in Procs |-> "idle"]
  /\ k = [p \in Procs |-> 1]

Step(p, l1, l2) ==
  /\ pstate[p] = "RUNNING"
  /\ pc[p] = l1
  /\ pc' = [pc EXCEPT ![p] = l2]

\* acquire(&lk->lk), in acquiresleep() and at the end of sleep().
Lock(p) ==
  /\ Step(p, "idle", "test")
  /\ lk = None
  /\ lk' = p
  /\ UNCHANGED <<locked, owner, plock, pstate, onchan, k>>

\* Mutant: acquiresleep() tests with if, not while.
Take_Untested(p) ==
  /\ Step(p, "test", "critical")
  /\ locked' = TRUE
  /\ owner' = p
  /\ lk' = None
  /\ UNCHANGED <<plock, pstate, onchan, k>>

\* The while loop of acquiresleep() ends: the lock is ours.
Take(p) ==
  /\ Step(p, "test", "critical")
  /\ ~locked
  /\ locked' = TRUE
  /\ owner' = p
  /\ lk' = None
  /\ UNCHANGED <<plock, pstate, onchan, k>>

\* Mutant: sleep() does without p->lock.
SleepLockP_NoLock(p) ==
  /\ Step(p, "test", "sleep")
  /\ locked
  /\ UNCHANGED <<lk, locked, owner, plock, pstate, onchan, k>>

\* It does not: sleep(lk, &lk->lk) takes p->lock ...
SleepLockP(p) ==
  /\ Step(p, "test", "sleep")
  /\ locked
  /\ plock[p] = None
  /\ plock' = [plock EXCEPT ![p] = p]
  /\ UNCHANGED <<lk, locked, owner, pstate, onchan, k>>

\* ... releases the condition's lock ...
SleepRelease(p) ==
  /\ Step(p, "sleep", "sched")
  /\ lk' = None
  /\ UNCHANGED <<locked, owner, plock, pstate, onchan, k>>

\* ... goes to sleep, and the scheduler it switches to releases p->lock.
SleepSched(p) ==
  /\ Step(p, "sched", "asleep")
  /\ onchan' = [onchan EXCEPT ![p] = TRUE]
  /\ pstate' = [pstate EXCEPT ![p] = "SLEEPING"]
  /\ plock' = [plock EXCEPT ![p] = None]
  /\ UNCHANGED <<lk, locked, owner, k>>

\* A scheduler runs p again; sleep() clears p->chan and drops p->lock.
Resume(p) ==
  /\ pstate[p] = "RUNNABLE"
  /\ plock[p] = None
  /\ pstate' = [pstate EXCEPT ![p] = "RUNNING"]
  /\ onchan' = [onchan EXCEPT ![p] = FALSE]
  /\ pc' = [pc EXCEPT ![p] = "idle"]
  /\ UNCHANGED <<lk, locked, owner, plock, k>>

\* releasesleep() up to its wakeup().
Unlock(p) ==
  /\ Step(p, "critical", "wakeup")
  /\ lk = None
  /\ lk' = p
  /\ locked' = FALSE
  /\ owner' = None
  /\ k' = [k EXCEPT ![p] = 1]
  /\ UNCHANGED <<plock, pstate, onchan>>

\* Mutant: wakeup() starts over at the end of the table.
Wakeup_StartsOver(p) ==
  LET q == k[p] IN
  /\ pstate[p] = "RUNNING" /\ pc[p] = "wakeup"
  /\ q # p => plock[q] = None
  /\ pstate' = [pstate EXCEPT ![q] =
                  IF q # p /\ @ = "SLEEPING" /\ onchan[q] THEN "RUNNABLE" ELSE @]
  /\ k' = [k EXCEPT ![p] = IF q = NPROC THEN 1 ELSE q + 1]
  /\ UNCHANGED <<lk, locked, owner, plock, onchan, pc>>

\* One iteration of wakeup(lk); after the last, release(&lk->lk).
Wakeup(p) ==
  LET q == k[p] IN
  /\ pstate[p] = "RUNNING" /\ pc[p] = "wakeup"
  /\ q # p => plock[q] = None
  /\ pstate' = [pstate EXCEPT ![q] =
                  IF q # p /\ @ = "SLEEPING" /\ onchan[q] THEN "RUNNABLE" ELSE @]
  /\ k' = [k EXCEPT ![p] = IF q = NPROC THEN 1 ELSE q + 1]
  /\ pc' = [pc EXCEPT ![p] = IF q = NPROC THEN "done" ELSE "wakeup"]
  /\ lk' = IF q = NPROC THEN None ELSE lk
  /\ UNCHANGED <<locked, owner, plock, onchan>>

\* The process goes on and will want the lock again.
Again(p) ==
  /\ Step(p, "done", "idle")
  /\ UNCHANGED <<lk, locked, owner, plock, pstate, onchan, k>>

\* kill() makes a sleeping victim RUNNABLE, whatever it waits for.
KillWake(p) ==
  /\ pstate[p] = "SLEEPING"
  /\ plock[p] = None
  /\ pstate' = [pstate EXCEPT ![p] = "RUNNABLE"]
  /\ UNCHANGED <<lk, locked, owner, plock, onchan, pc, k>>

Thread(p) ==
  \/ Lock(p) \/ Take(p) \/ SleepLockP(p) \/ SleepRelease(p) \/ SleepSched(p)
  \/ Resume(p) \/ Unlock(p) \/ Wakeup(p)

Next == \E p \in Procs : Thread(p) \/ Again(p) \/ KillWake(p)

Spec == Init /\ [][Next]_vars

(***************************************************************************)
(* Every RUNNABLE thread is scheduled, wins a contended spinlock in the    *)
(* end, and leaves the critical section; Again and KillWake need not come. *)
(***************************************************************************)
FairSpec == Spec /\ \A p \in Procs : SF_vars(Thread(p))

-----------------------------------------------------------------------------
\* Type invariant of the sleep lock and the threads.
TypeOK ==
  /\ lk \in Procs \cup {None}
  /\ locked \in BOOLEAN
  /\ owner \in Procs \cup {None}
  /\ plock \in [Procs -> Procs \cup {None}]
  /\ pstate \in [Procs -> {"RUNNING", "RUNNABLE", "SLEEPING"}]
  /\ onchan \in [Procs -> BOOLEAN]
  /\ pc \in [Procs -> {"idle", "test", "critical", "sleep", "sched", "asleep", "wakeup", "done"}]
  /\ k \in [Procs -> Procs]

(***************************************************************************)
(* holdingsleep() tells the truth: locked and pid name the one process     *)
(* between acquiresleep() and releasesleep().                              *)
(***************************************************************************)
HolderIsOwner ==
  \A p \in Procs : pc[p] = "critical" <=> locked /\ owner = p

(***************************************************************************)
(* No wakeup is lost: once the sleep lock is free and releasesleep() has   *)
(* finished its scan, nobody sleeps on it, nor is about to.                *)
(***************************************************************************)
NoLostWakeup ==
  ~locked /\ lk = None => \A p \in Procs : pstate[p] # "SLEEPING" /\ pc[p] # "sched"

(***************************************************************************)
(* Everybody asleep on the lock gets to try again, and the lock is taken   *)
(* over when somebody wants it: sleeping threads cannot block each other.  *)
(***************************************************************************)
SleepersRetry ==
  \A p \in Procs :
    /\ pstate[p] = "SLEEPING" ~> pstate[p] = "RUNNING"
    /\ pc[p] \in {"idle", "test", "asleep"} ~> locked
=============================================================================
