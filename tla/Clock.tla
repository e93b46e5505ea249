------------------------------- MODULE Clock --------------------------------
(***************************************************************************)
(* kernel/trap.c clockintr() and kernel/sysproc.c sys_sleep().             *)
(*                                                                         *)
(* tickslock is explicit because kill() does not take it: it may come      *)
(* between the test of killed() and the sleep().  sleep() and wakeup() on  *)
(* &ticks are called under tickslock and are atomic (see SleepLock).       *)
(***************************************************************************)
EXTENDS Integers

CONSTANTS
  Procs,
  UINT,      \* number of values of a uint: 2^32 in the code
  INT,       \* the largest int: 2^31 - 1 in the code
  None

\* An int that is not negative is a uint.
ClockAssumption ==
  /\ UINT \in Nat /\ INT \in Nat /\ INT < UINT
  /\ None \notin Procs

VARIABLES
  ticks,
  tickslock,       \* holder: None or a process
  killed,
  pc, ticks0, n,   \* process -> what it does next, its locals in sys_sleep()
  age              \* ghost: process -> ticks counted since it has set ticks0

vars == <<ticks, tickslock, killed, pc, ticks0, n, age>>

Uints == 0..(UINT - 1)

Init ==
  /\ ticks = 0
  /\ tickslock = None
  /\ killed = [p \in Procs |-> FALSE]
  /\ pc = [p \in Procs |-> "user"]
  /\ ticks0 = [p \in Procs |-> 0]
  /\ n = [p \in Procs |-> 0]
  /\ age = [p \in Procs |-> 0]

Goto(p, l) == pc' = [pc EXCEPT ![p] = l]

\* a + 1 and a - b of uints.
Plus1(a) == IF a = UINT - 1 THEN 0 ELSE a + 1
Minus(a, b) == IF a >= b THEN a - b ELSE a + UINT - b

-----------------------------------------------------------------------------
(* sys_sleep()                                                             *)

\* A negative argument counts as 0.
SysSleep(p, arg) ==
  /\ pc[p] = "user"
  /\ tickslock = None
  /\ tickslock' = p
  /\ n' = [n EXCEPT ![p] = IF arg < 0 THEN 0 ELSE arg]
  /\ ticks0' = [ticks0 EXCEPT ![p] = ticks]
  /\ age' = [age EXCEPT ![p] = 0]
  /\ Goto(p, "loop")
  /\ UNCHANGED <<ticks, killed>>

MustWait(p) == Minus(ticks, ticks0[p]) < n[p]

\* The test of killed(); what follows it is the release() or the sleep().
Loop(p) ==
  /\ pc[p] = "loop"
  /\ MustWait(p)
  /\ Goto(p, IF killed[p] THEN "fail" ELSE "sleep")
  /\ UNCHANGED <<ticks, tickslock, killed, ticks0, n, age>>

Return(p) ==
  /\ pc[p] = "loop"
  /\ ~MustWait(p)
  /\ tickslock' = None
  /\ Goto(p, "user")
  /\ UNCHANGED <<ticks, killed, ticks0, n, age>>

Fail(p) ==
  /\ pc[p] = "fail"
  /\ tickslock' = None
  /\ Goto(p, "user")
  /\ UNCHANGED <<ticks, killed, ticks0, n, age>>

Sleep(p) ==
  /\ pc[p] = "sleep"
  /\ tickslock' = None
  /\ Goto(p, "asleep")
  /\ UNCHANGED <<ticks, killed, ticks0, n, age>>

\* The end of sleep() takes tickslock again.
Relock(p) ==
  /\ pc[p] = "woken"
  /\ tickslock = None
  /\ tickslock' = p
  /\ Goto(p, "loop")
  /\ UNCHANGED <<ticks, killed, ticks0, n, age>>

-----------------------------------------------------------------------------
Sleeping(p) == pc[p] # "user"
Woken == [p \in Procs |-> IF pc[p] = "asleep" THEN "woken" ELSE pc[p]]

(***************************************************************************)
(* clockintr() on CPU 0.  Bound: a process in sys_sleep() gets the CPU     *)
(* before ticks has gone once around (13 years, at ten ticks a second).    *)
(***************************************************************************)
Clockintr ==
  /\ tickslock = None
  /\ \A p \in Procs : Sleeping(p) => age[p] < UINT - 1
  /\ ticks' = Plus1(ticks)
  /\ pc' = Woken
  /\ age' = [p \in Procs |-> IF Sleeping(p) THEN age[p] + 1 ELSE age[p]]
  /\ UNCHANGED <<tickslock, killed, ticks0, n>>

\* kill() by another process: it wakes a sleeping process.
Kill(p) ==
  /\ killed' = [killed EXCEPT ![p] = TRUE]
  /\ Goto(p, IF pc[p] = "asleep" THEN "woken" ELSE pc[p])
  /\ UNCHANGED <<ticks, tickslock, ticks0, n, age>>

Next ==
  \/ \E p \in Procs :
       \/ \E arg \in (-INT)..INT : SysSleep(p, arg)
       \/ Loop(p) \/ Return(p) \/ Fail(p) \/ Sleep(p) \/ Relock(p)
       \/ Kill(p)
  \/ Clockintr

Spec == Init /\ [][Next]_vars

-----------------------------------------------------------------------------
\* Type invariant; tickslock is held between acquire() and release().
TypeOK ==
  /\ ticks \in Uints
  /\ killed \in [Procs -> BOOLEAN]
  /\ pc \in [Procs -> {"user", "loop", "fail", "sleep", "asleep", "woken"}]
  /\ ticks0 \in [Procs -> Uints]
  /\ n \in [Procs -> 0..INT]
  /\ age \in [Procs -> Uints]
  /\ tickslock \in Procs \cup {None}
  /\ \A p \in Procs : tickslock = p <=> pc[p] \in {"loop", "fail", "sleep"}

\* A process is asleep on &ticks only while its time is not up: the tick that
\* ends its time also wakes it, also when ticks has wrapped around meanwhile.
DueIsAwake == \A p \in Procs : pc[p] = "asleep" => age[p] < n[p]

\* sys_sleep(n) returns 0 only when n ticks have been counted since the call,
\* whatever kill() and the wrap of ticks do.
NeverEarly ==
  [][\A p \in Procs : Return(p) => age[p] >= n[p]]_vars
=============================================================================
