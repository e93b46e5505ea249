-------------------------- MODULE SleepLockProofs --------------------------
(***************************************************************************)
(* Sleep locks, and with them the sleep/wakeup protocol of kernel/proc.c,  *)
(* for any number of processes: type correctness, that the holder is the   *)
(* owner, and that no wakeup is lost.                                      *)
(*                                                                         *)
(* NoLostWakeup is not inductive: it speaks only of states in which the    *)
(* spinlock is free.  Inv says what covers a sleeper at any time - the     *)
(* lock being taken, or a releasesleep() whose scan has not come to its    *)
(* slot yet - and what p->lock protects between release(lk) and sched().   *)
(*                                                                         *)
(* sys_sleep(), a user of sleep() and wakeup(), follows as the instance C  *)
(* of Clock, whose constants and variables get names of their own here.    *)
(***************************************************************************)
EXTENDS SleepLock, Integers, TLAPS

\* p sleeps on the lock, or can no longer be kept from it.
Waiting(p) == pstate[p] = "SLEEPING" \/ pc[p] = "sched"

\* releasesleep() holds the spinlock and will still look at slot p.
WillBeScanned(p) == \E w \in Procs : pc[w] = "wakeup" /\ k[w] <= p

Inv ==
  /\ TypeOK
  /\ HolderIsOwner
  /\ \A p \in Procs : lk = p <=> pc[p] \in {"test", "sleep", "wakeup"}
  /\ \A p \in Procs : pc[p] \in {"sleep", "sched"} => plock[p] = p
  /\ \A p \in Procs : pc[p] = "sleep" => locked
  /\ \A p \in Procs : pstate[p] # "RUNNING" <=> pc[p] = "asleep"
  /\ \A p \in Procs : pc[p] = "asleep" => onchan[p]
  /\ \A p \in Procs : Waiting(p) => locked \/ WillBeScanned(p)

-----------------------------------------------------------------------------
\* A free lock (None) is held by no process, and slot 1 is in the table.
LEMMA ProcsFacts == None \notin Procs /\ 1 \in Procs
  BY SleepLockAssumption DEF Procs

\* procinit(), initsleeplock(): the invariant holds when the kernel starts.
LEMMA InitInv == Init => Inv
<1> SUFFICES ASSUME Init PROVE Inv
  OBVIOUS
<1>1. TypeOK /\ HolderIsOwner
  BY ProcsFacts, Zenon DEF Init, TypeOK, HolderIsOwner
<1>2. QED
  BY <1>1, ProcsFacts, Zenon DEF Init, Inv, Waiting, WillBeScanned

(***************************************************************************)
(* What every step but those of releasesleep() leaves alone: the sleepers  *)
(* are still covered if nobody has joined them, the lock has not been      *)
(* given up, and no scan has advanced.                                     *)
(***************************************************************************)
LEMMA StillCovered ==
  ASSUME Inv,
         locked => locked',
         \A p \in Procs : Waiting(p)' => Waiting(p) \/ locked',
         \A w \in Procs : pc[w] = "wakeup" => pc'[w] = "wakeup" /\ k'[w] = k[w]
  PROVE  \A p \in Procs : Waiting(p)' => locked' \/ WillBeScanned(p)'
  BY Zenon DEF Inv, WillBeScanned

\* Every step of acquiresleep(), releasesleep(), the scheduler and kill() keeps it.
LEMMA NextInv == Inv /\ [Next]_vars => Inv'
<1> SUFFICES ASSUME Inv, [Next]_vars PROVE Inv'
  OBVIOUS
<1> USE ProcsFacts
<1>1. ASSUME NEW p \in Procs, Lock(p) PROVE Inv'
  <2>1. \A q \in Procs : Waiting(q)' => locked' \/ WillBeScanned(q)'
    BY <1>1, StillCovered DEF Lock, Step, Inv, TypeOK, Waiting
  <2>2. QED
    BY <1>1, <2>1 DEF Lock, Step, Inv, TypeOK, HolderIsOwner
<1>2. ASSUME NEW p \in Procs, Take(p) PROVE Inv'
  <2>1. \A q \in Procs : Waiting(q)' => locked' \/ WillBeScanned(q)'
    BY <1>2, Zenon DEF Take
  <2>2. QED
    BY <1>2, <2>1 DEF Take, Step, Inv, TypeOK, HolderIsOwner
<1>3. ASSUME NEW p \in Procs, SleepLockP(p) PROVE Inv'
  <2>1. \A q \in Procs : Waiting(q)' => locked' \/ WillBeScanned(q)'
    BY <1>3, Zenon DEF SleepLockP
  <2>2. QED
    BY <1>3, <2>1 DEF SleepLockP, Step, Inv, TypeOK, HolderIsOwner
<1>4. ASSUME NEW p \in Procs, SleepRelease(p) PROVE Inv'
  <2>1. \A q \in Procs : Waiting(q)' => locked' \/ WillBeScanned(q)'
    BY <1>4, Zenon DEF SleepRelease, Step, Inv
  <2>2. QED
    BY <1>4, <2>1 DEF SleepRelease, Step, Inv, TypeOK, HolderIsOwner
<1>5. ASSUME NEW p \in Procs, SleepSched(p) PROVE Inv'
  <2>1. \A q \in Procs : Waiting(q)' => locked' \/ WillBeScanned(q)'
    BY <1>5, StillCovered DEF SleepSched, Step, Inv, TypeOK, Waiting
  <2>2. QED
    BY <1>5, <2>1 DEF SleepSched, Step, Inv, TypeOK, HolderIsOwner
<1>6. ASSUME NEW p \in Procs, Resume(p) PROVE Inv'
  <2>1. \A q \in Procs : Waiting(q)' => locked' \/ WillBeScanned(q)'
    BY <1>6, StillCovered DEF Resume, Inv, TypeOK, Waiting
  <2>2. QED
    BY <1>6, <2>1 DEF Resume, Inv, TypeOK, HolderIsOwner
<1>7. ASSUME NEW p \in Procs, Unlock(p) PROVE Inv'
  <2>1. \A q \in Procs : Waiting(q)' => locked' \/ WillBeScanned(q)'
    BY <1>7 DEF Unlock, Step, Inv, TypeOK, WillBeScanned, Procs
  <2>2. \A q \in Procs : pc[q] \notin {"test", "sleep", "wakeup"}
    BY <1>7, Zenon DEF Unlock, Inv
  <2>3. TypeOK'
    BY <1>7, Zenon DEF Unlock, Step, Inv, TypeOK
  <2>4. HolderIsOwner'
    BY <1>7 DEF Unlock, Step, Inv, TypeOK, HolderIsOwner
  <2>5. QED
    BY <1>7, <2>1, <2>2, <2>3, <2>4 DEF Unlock, Step, Inv, TypeOK
<1>8. ASSUME NEW p \in Procs, Wakeup(p) PROVE Inv'
  <2>1. /\ k[p] \in Procs
        /\ k' = [k EXCEPT ![p] = IF k[p] = NPROC THEN 1 ELSE k[p] + 1]
        /\ pc' = [pc EXCEPT ![p] = IF k[p] = NPROC THEN "done" ELSE "wakeup"]
        /\ (IF k[p] = NPROC THEN 1 ELSE k[p] + 1) \in Procs
        /\ locked' = locked
    <3>1. k[p] \in Procs
      BY Zenon DEF Inv, TypeOK
    <3>2. (IF k[p] = NPROC THEN 1 ELSE k[p] + 1) \in Procs
      BY <3>1, SleepLockAssumption DEF Procs
    <3>3. QED
      BY <1>8, <3>1, <3>2, Zenon DEF Wakeup
  <2>2. ASSUME NEW q \in Procs, Waiting(q)' PROVE Waiting(q) /\ k[p] # q
    <3>1. Waiting(q)
      BY <1>8, <2>1, <2>2 DEF Wakeup, Inv, TypeOK, Waiting
    <3>2. CASE pc[q] = "sched"
      BY <1>8, <3>1, <3>2 DEF Wakeup, Inv, TypeOK
    <3>3. CASE pstate[q] = "SLEEPING"
      BY <1>8, <2>1, <2>2, <3>3 DEF Wakeup, Inv, TypeOK, Waiting
    <3>4. QED
      BY <3>1, <3>2, <3>3, Zenon DEF Waiting
  <2>3. ASSUME NEW q \in Procs, Waiting(q)', ~locked PROVE WillBeScanned(q)'
    <3>1. PICK w \in Procs : pc[w] = "wakeup" /\ k[w] <= q
      BY <2>2, <2>3, Zenon DEF Inv, WillBeScanned
    <3>2. w = p
      BY <1>8, <3>1, Zenon DEF Wakeup, Inv
    <3>3. k[p] < q /\ q <= NPROC
      BY <2>1, <2>2, <2>3, <3>1, <3>2, SleepLockAssumption DEF Procs
    <3>4. pc'[p] = "wakeup" /\ k'[p] <= q
      <4>1. k[p] # NPROC /\ k[p] + 1 <= q
        BY <2>1, <3>3, SleepLockAssumption DEF Procs
      <4>2. pc'[p] = "wakeup" /\ k'[p] = k[p] + 1
        BY <2>1, <4>1 DEF Inv, TypeOK
      <4>3. QED
        BY <4>1, <4>2, Zenon
    <3>5. QED
      BY <3>4, Zenon DEF WillBeScanned
  <2>4. QED
    BY <1>8, <2>1, <2>3 DEF Wakeup, Inv, TypeOK, HolderIsOwner
<1>9. ASSUME NEW p \in Procs, Again(p) PROVE Inv'
  <2>1. \A q \in Procs : Waiting(q)' => locked' \/ WillBeScanned(q)'
    BY <1>9, StillCovered, Zenon DEF Again, Step, Inv, TypeOK, Waiting
  <2>2. QED
    BY <1>9, <2>1 DEF Again, Step, Inv, TypeOK, HolderIsOwner
<1>10. ASSUME NEW p \in Procs, KillWake(p) PROVE Inv'
  <2>1. \A q \in Procs : Waiting(q)' => locked' \/ WillBeScanned(q)'
    BY <1>10, StillCovered, Zenon DEF KillWake, Inv, TypeOK, Waiting
  <2>2. QED
    BY <1>10, <2>1, Zenon DEF KillWake, Inv, TypeOK, HolderIsOwner
<1>11. CASE UNCHANGED vars
  BY <1>11, Zenon DEF vars, Inv, TypeOK, HolderIsOwner, Waiting, WillBeScanned
<1>12. QED
  BY <1>1, <1>2, <1>3, <1>4, <1>5, <1>6, <1>7, <1>8, <1>9, <1>10, <1>11, Zenon DEF Next, Thread

\* Inv holds in every reachable state.
LEMMA Invariance == Spec => []Inv
  BY InitInv, NextInv, PTL DEF Spec

(***************************************************************************)
(* The variables of sleep locks, sleep() and wakeup() keep their types.    *)
(***************************************************************************)
THEOREM SleepLockTyped == Spec => []TypeOK
<1>1. Inv => TypeOK
  BY Zenon DEF Inv
<1>2. QED
  BY <1>1, Invariance, PTL

(***************************************************************************)
(* acquiresleep() excludes: whatever the number of processes, and whoever  *)
(* is woken when, locked and pid name the one process that holds the lock. *)
(***************************************************************************)
THEOREM SleepLockExcludes == Spec => []HolderIsOwner
<1>1. Inv => HolderIsOwner
  BY Zenon DEF Inv
<1>2. QED
  BY <1>1, Invariance, PTL

(***************************************************************************)
(* sleep() and wakeup() lose no wakeup: once the lock is free and the scan *)
(* is over nobody sleeps on it, for every number of processes.             *)
(***************************************************************************)
THEOREM SleepLockNoLostWakeup == Spec => []NoLostWakeup
<1>1. Inv => NoLostWakeup
  BY ProcsFacts DEF Inv, NoLostWakeup, Waiting, WillBeScanned, TypeOK
<1>2. QED
  BY <1>1, Invariance, PTL

-----------------------------------------------------------------------------
(***************************************************************************)
(* sys_sleep() and clockintr() for any number of processes and for uints   *)
(* and ints of any width: sleep() is never cut short and never overslept   *)
(* by a tick, across the wrap of ticks.                                    *)
(*                                                                         *)
(* The strengthening is that ticks - ticks0, in uints, is the number of    *)
(* ticks counted since the call.                                           *)
(***************************************************************************)
CONSTANTS Callers, UINT, INT
VARIABLES ticks, tickslock, killed, sys, ticks0, wait, age

C == INSTANCE Clock WITH Procs <- Callers, pc <- sys, n <- wait

Elapsed(p) == C!Sleeping(p) => C!Minus(ticks, ticks0[p]) = age[p]

ClockInv ==
  /\ C!TypeOK
  /\ \A p \in Callers : Elapsed(p)
  /\ \A p \in Callers : sys[p] \in {"sleep", "asleep"} => age[p] < wait[p]

-----------------------------------------------------------------------------
\* uint arithmetic: the difference stays in range, is 0 from a value to
\* itself, and grows by one with ticks++ until it would wrap.
LEMMA MinusTicks ==
  ASSUME UINT \in Nat, NEW a \in C!Uints, NEW b \in C!Uints
  PROVE  /\ C!Minus(a, b) \in C!Uints
         /\ C!Minus(a, a) = 0
         /\ C!Plus1(a) \in C!Uints
         /\ C!Minus(a, b) < UINT - 1 => C!Minus(C!Plus1(a), b) = C!Minus(a, b) + 1
  BY DEF C!Uints, C!Minus, C!Plus1

\* The invariant holds when the kernel starts; ticks is 0.
LEMMA ClockInitInv == ASSUME C!ClockAssumption PROVE C!Init => ClockInv
  BY DEF C!ClockAssumption, C!Init, ClockInv, C!TypeOK, C!Uints, Elapsed, C!Sleeping

\* Every step of sys_sleep(), clockintr() and kill() keeps it.
LEMMA ClockNextInv == ASSUME C!ClockAssumption PROVE ClockInv /\ [C!Next]_(C!vars) => ClockInv'
<1> SUFFICES ASSUME ClockInv, [C!Next]_(C!vars) PROVE ClockInv'
  OBVIOUS
<1> USE DEF C!ClockAssumption
<1>1. ASSUME NEW p \in Callers, NEW arg \in (-INT)..INT, C!SysSleep(p, arg) PROVE ClockInv'
  <2>1. C!TypeOK'
    BY <1>1 DEF C!SysSleep, C!Goto, ClockInv, C!TypeOK, C!Uints
  <2>2. \A q \in Callers : Elapsed(q)'
    <3>1. C!Minus(ticks, ticks) = 0
      BY MinusTicks, Zenon DEF ClockInv, C!TypeOK
    <3>2. QED
      BY <1>1, <3>1, Zenon DEF C!SysSleep, C!Goto, ClockInv, C!TypeOK, Elapsed, C!Sleeping
  <2>3. QED
    BY <1>1, <2>1, <2>2, Zenon DEF C!SysSleep, C!Goto, ClockInv, C!TypeOK
<1>2. ASSUME NEW p \in Callers, C!Loop(p) PROVE ClockInv'
  BY <1>2, Zenon DEF C!Loop, C!MustWait, C!Goto, ClockInv, C!TypeOK, Elapsed, C!Sleeping
<1>3. ASSUME NEW p \in Callers, C!Return(p) PROVE ClockInv'
  BY <1>3, Zenon DEF C!Return, C!Goto, ClockInv, C!TypeOK, Elapsed, C!Sleeping
<1>4. ASSUME NEW p \in Callers, C!Fail(p) PROVE ClockInv'
  BY <1>4, Zenon DEF C!Fail, C!Goto, ClockInv, C!TypeOK, Elapsed, C!Sleeping
<1>5. ASSUME NEW p \in Callers, C!Sleep(p) PROVE ClockInv'
  BY <1>5, Zenon DEF C!Sleep, C!Goto, ClockInv, C!TypeOK, Elapsed, C!Sleeping
<1>6. ASSUME NEW p \in Callers, C!Relock(p) PROVE ClockInv'
  BY <1>6, Zenon DEF C!Relock, C!Goto, ClockInv, C!TypeOK, Elapsed, C!Sleeping
<1>7. ASSUME NEW p \in Callers, C!Kill(p) PROVE ClockInv'
  BY <1>7, Zenon DEF C!Kill, C!Goto, ClockInv, C!TypeOK, Elapsed, C!Sleeping
<1>8. ASSUME C!Clockintr PROVE ClockInv'
  <2>1. C!Plus1(ticks) \in C!Uints
    BY MinusTicks, Zenon DEF ClockInv, C!TypeOK
  <2>2. ASSUME NEW q \in Callers PROVE Elapsed(q)' /\ age'[q] \in C!Uints
    <3>1. /\ age[q] \in C!Uints /\ ticks \in C!Uints /\ ticks0[q] \in C!Uints
          /\ C!Sleeping(q) => age[q] < UINT - 1 /\ C!Minus(ticks, ticks0[q]) = age[q]
      BY <1>8, Zenon DEF C!Clockintr, ClockInv, C!TypeOK, Elapsed
    <3>2. /\ ticks' = C!Plus1(ticks) /\ ticks0' = ticks0
          /\ age'[q] = IF C!Sleeping(q) THEN age[q] + 1 ELSE age[q]
          /\ C!Sleeping(q)' <=> C!Sleeping(q)
      BY <1>8, Zenon DEF C!Clockintr, C!Woken, C!Sleeping
    <3>3. C!Sleeping(q) => C!Minus(ticks', ticks0'[q]) = age'[q]
      BY <3>1, <3>2, MinusTicks
    <3>4. age'[q] \in C!Uints
      BY <3>1, <3>2 DEF C!Uints
    <3>5. QED
      BY <3>2, <3>3, <3>4, Zenon DEF Elapsed
  <2>3. C!TypeOK'
    BY <1>8, <2>1, <2>2, Zenon DEF C!Clockintr, C!Woken, ClockInv, C!TypeOK, C!Sleeping
  <2>4. \A q \in Callers : sys'[q] \notin {"sleep", "asleep"}
    BY <1>8, Zenon DEF C!Clockintr, C!Woken, ClockInv, C!TypeOK
  <2>5. QED
    BY <2>2, <2>3, <2>4, Zenon DEF ClockInv
<1>9. CASE UNCHANGED C!vars
  BY <1>9, Zenon DEF C!vars, ClockInv, C!TypeOK, Elapsed, C!Sleeping
<1>10. QED
  BY <1>1, <1>2, <1>3, <1>4, <1>5, <1>6, <1>7, <1>8, <1>9, Zenon DEF C!Next

-----------------------------------------------------------------------------
\* A process asleep on &ticks still has ticks to wait for.
THEOREM ClockDueIsAwake == ASSUME C!ClockAssumption PROVE C!Spec => []C!DueIsAwake
<1>1. ClockInv => C!DueIsAwake
  BY Zenon DEF ClockInv, C!DueIsAwake
<1>2. QED
  BY <1>1, ClockInitInv, ClockNextInv, PTL DEF C!Spec

\* sys_sleep(n) does not return 0 before n ticks.
THEOREM ClockNeverEarly == ASSUME C!ClockAssumption PROVE C!Spec => C!NeverEarly
<1>1. ClockInv => [\A p \in Callers : C!Return(p) => age[p] >= wait[p]]_(C!vars)
  <2> SUFFICES ASSUME ClockInv, NEW p \in Callers, C!Return(p) PROVE age[p] >= wait[p]
    OBVIOUS
  <2>1. C!Minus(ticks, ticks0[p]) = age[p] /\ ~(age[p] < wait[p])
    BY Zenon DEF C!Return, C!MustWait, ClockInv, Elapsed, C!Sleeping
  <2>2. QED
    BY <2>1, C!ClockAssumption DEF C!ClockAssumption, ClockInv, C!TypeOK, C!Uints
<1>2. QED
  BY <1>1, ClockInitInv, ClockNextInv, PTL DEF C!Spec, C!NeverEarly
=============================================================================
