------------------------------ MODULE Spinlock ------------------------------
(***************************************************************************)
(* kernel/spinlock.c: acquire(), release() and the nesting of interrupt    *)
(* disabling, step by step.  Each CPU runs kernel code that takes locks in *)
(* a fixed order, and is interrupted, whenever interrupts are on, by a     *)
(* handler that takes a lock itself (kernelvec enters it with interrupts   *)
(* off and sret puts them back on).                                        *)
(*                                                                         *)
(* That acquire() excludes other CPUs, and the handler of its own CPU, is  *)
(* what lets the other modules treat critical sections as single steps.    *)
(***************************************************************************)
EXTENDS Integers, FiniteSets

CONSTANTS
  CPUs,
  NLocks,     \* locks 1..NLocks, which kernel code takes in increasing order
  IntrLocks,  \* the locks that interrupt handlers take
  None

ASSUME SpinlockAssumption ==
  /\ NLocks \in Nat
  /\ IntrLocks \subseteq 1..NLocks
  /\ None \notin CPUs \cup Nat

Locks == 1..NLocks
\* A context is the kernel code of a CPU or the handler that interrupts it.
Ctx == CPUs \X {"code", "intr"}

VARIABLES
  locked, lcpu,      \* struct spinlock: lk->locked, lk->cpu
  ie, noff, intena,  \* CPU -> interrupts on, c->noff, c->intena
  inintr,            \* CPU -> it runs its interrupt handler
  pc, lk, old, held, \* context -> next step, lock it works on, local of
                     \*            push_off(), locks it holds
  panicked

vars == <<locked, lcpu, ie, noff, intena, inintr, pc, lk, old, held, panicked>>
cpuvars == <<ie, noff, intena, inintr>>

Init ==
  /\ locked = [l \in Locks |-> FALSE]
  /\ lcpu = [l \in Locks |-> None]
  /\ ie = [c \in CPUs |-> TRUE]
  /\ noff = [c \in CPUs |-> 0]
  /\ intena = [c \in CPUs |-> FALSE]
  /\ inintr = [c \in CPUs |-> FALSE]
  /\ pc = [x \in Ctx |-> IF x[2] = "code" THEN "run" ELSE "off"]
  /\ lk = [x \in Ctx |-> None]
  /\ old = [x \in Ctx |-> FALSE]
  /\ held = [x \in Ctx |-> {}]
  /\ panicked = FALSE

\* x is what its CPU executes, and is at l1.
Step(x, l1, l2) ==
  /\ (x[2] = "intr") = inintr[x[1]]
  /\ pc[x] = l1
  /\ pc' = [pc EXCEPT ![x] = l2]

Holding(c, l) == locked[l] /\ lcpu[l] = c

-----------------------------------------------------------------------------
(* acquire(): push_off() in three steps, the test for a double acquire,    *)
(* the atomic swap, and the note of who holds the lock.                    *)

\* Mutant: kernel code takes the locks in any order.
Acquire_AnyOrder(x, l) ==
  /\ Step(x, "run", "intr_off")
  /\ IF x[2] = "intr" THEN l \in IntrLocks /\ held[x] = {}
                      ELSE l \notin held[x]
  /\ lk' = [lk EXCEPT ![x] = l]
  /\ old' = [old EXCEPT ![x] = ie[x[1]]]
  /\ UNCHANGED <<locked, lcpu, cpuvars, held, panicked>>

Acquire(x, l) ==
  /\ Step(x, "run", "intr_off")
  /\ IF x[2] = "intr" THEN l \in IntrLocks /\ held[x] = {}
                      ELSE \A m \in held[x] : m < l
  /\ lk' = [lk EXCEPT ![x] = l]
  /\ old' = [old EXCEPT ![x] = ie[x[1]]]
  /\ UNCHANGED <<locked, lcpu, cpuvars, held, panicked>>

\* Mutant: push_off() leaves interrupts on.
IntrOff_Forgotten(x) ==
  /\ Step(x, "intr_off", "count")
  /\ UNCHANGED ie
  /\ UNCHANGED <<locked, lcpu, noff, intena, inintr, lk, old, held, panicked>>

IntrOff(x) ==
  /\ Step(x, "intr_off", "count")
  /\ ie' = [ie EXCEPT ![x[1]] = FALSE]
  /\ UNCHANGED <<locked, lcpu, noff, intena, inintr, lk, old, held, panicked>>

Count(x) ==
  /\ Step(x, "count", "swap")
  /\ intena' = [intena EXCEPT ![x[1]] = IF noff[x[1]] = 0 THEN old[x] ELSE @]
  /\ noff' = [noff EXCEPT ![x[1]] = @ + 1]
  /\ old' = [old EXCEPT ![x] = FALSE]
  /\ panicked' = Holding(x[1], lk[x])
  /\ UNCHANGED <<locked, lcpu, ie, inintr, lk, held>>

\* Mutant: the test and the set are not one instruction.
Swap_NotAtomic(x) ==
  /\ Step(x, "swap", "note")
  /\ locked' = [locked EXCEPT ![lk[x]] = TRUE]
  /\ UNCHANGED <<lcpu, cpuvars, lk, old, held, panicked>>

Swap(x) ==
  /\ Step(x, "swap", "note")
  /\ ~locked[lk[x]]
  /\ locked' = [locked EXCEPT ![lk[x]] = TRUE]
  /\ UNCHANGED <<lcpu, cpuvars, lk, old, held, panicked>>

Note(x) ==
  /\ Step(x, "note", "run")
  /\ lcpu' = [lcpu EXCEPT ![lk[x]] = x[1]]
  /\ held' = [held EXCEPT ![x] = @ \cup {lk[x]}]
  /\ lk' = [lk EXCEPT ![x] = None]
  /\ UNCHANGED <<locked, cpuvars, old, panicked>>

-----------------------------------------------------------------------------
(* release(): forget the holder, then the atomic store, then pop_off().    *)

Release(x, l) ==
  /\ Step(x, "run", "unlock")
  /\ l \in held[x]
  /\ panicked' = ~Holding(x[1], l)
  /\ lcpu' = [lcpu EXCEPT ![l] = None]
  /\ held' = [held EXCEPT ![x] = @ \ {l}]
  /\ lk' = [lk EXCEPT ![x] = l]
  /\ UNCHANGED <<locked, cpuvars, old>>

Unlock(x) ==
  /\ Step(x, "unlock", "pop_off")
  /\ locked' = [locked EXCEPT ![lk[x]] = FALSE]
  /\ lk' = [lk EXCEPT ![x] = None]
  /\ UNCHANGED <<lcpu, cpuvars, old, held, panicked>>

PopOff(x) ==
  LET c == x[1] IN
  /\ Step(x, "pop_off", "run")
  /\ panicked' = (ie[c] \/ noff[c] < 1)
  /\ noff' = [noff EXCEPT ![c] = @ - 1]
  /\ ie' = [ie EXCEPT ![c] = @ \/ (noff[c] = 1 /\ intena[c])]
  /\ UNCHANGED <<locked, lcpu, intena, inintr, lk, old, held>>

-----------------------------------------------------------------------------
(* Interrupts, delivered between any two steps while they are on.          *)

Interrupt(c) ==
  /\ ie[c] /\ ~inintr[c]
  /\ inintr' = [inintr EXCEPT ![c] = TRUE]
  /\ ie' = [ie EXCEPT ![c] = FALSE]
  /\ pc' = [pc EXCEPT ![<<c, "intr">>] = "run"]
  /\ UNCHANGED <<locked, lcpu, noff, intena, lk, old, held, panicked>>

Sret(c) ==
  /\ Step(<<c, "intr">>, "run", "off")
  /\ held[<<c, "intr">>] = {}
  /\ inintr' = [inintr EXCEPT ![c] = FALSE]
  /\ ie' = [ie EXCEPT ![c] = TRUE]
  /\ UNCHANGED <<locked, lcpu, noff, intena, lk, old, held, panicked>>

\* What a context does without being asked: it finishes what it has begun.
Progress(x) ==
  \/ IntrOff(x) \/ Count(x) \/ Swap(x) \/ Note(x)
  \/ \E l \in Locks : Release(x, l)
  \/ Unlock(x) \/ PopOff(x)

Next ==
  /\ ~panicked
  /\ \/ \E x \in Ctx : Progress(x) \/ \E l \in Locks : Acquire(x, l)
     \/ \E c \in CPUs : Interrupt(c) \/ Sret(c)

Spec == Init /\ [][Next]_vars

-----------------------------------------------------------------------------
\* Type invariant of the locks and the CPUs.
TypeOK ==
  /\ locked \in [Locks -> BOOLEAN]
  /\ lcpu \in [Locks -> CPUs \cup {None}]
  /\ ie \in [CPUs -> BOOLEAN] /\ intena \in [CPUs -> BOOLEAN] /\ inintr \in [CPUs -> BOOLEAN]
  /\ noff \in [CPUs -> Nat]
  /\ pc \in [Ctx -> {"off", "run", "intr_off", "count", "swap", "note", "unlock", "pop_off"}]
  /\ lk \in [Ctx -> Locks \cup {None}]
  /\ old \in [Ctx -> BOOLEAN]
  /\ held \in [Ctx -> SUBSET Locks]
  /\ panicked \in BOOLEAN

\* x owns l: from the swap in acquire() to the store in release().
Owns(x, l) == l \in held[x] \/ (lk[x] = l /\ pc[x] \in {"note", "unlock"})

(***************************************************************************)
(* At most one context owns a lock, and the lock is marked locked exactly  *)
(* while one does.  The panics "acquire", "release", "pop_off" and         *)
(* "pop_off - interruptible" are not reached: holding(), which reads       *)
(* lk->cpu without owning the lock, is never misled by a value left or     *)
(* being written by another CPU.                                           *)
(***************************************************************************)
MutualExclusion ==
  /\ TypeOK /\ ~panicked
  /\ \A l \in Locks :
       /\ \A x, y \in Ctx : Owns(x, l) /\ Owns(y, l) => x = y
       /\ locked[l] <=> \E x \in Ctx : Owns(x, l)

(***************************************************************************)
(* push_off()/pop_off() are matched: c->noff counts the locks the CPU owns *)
(* or is taking, and interrupts come back when it drops to zero in code    *)
(* that had them on.                                                       *)
(***************************************************************************)
OffCount(x) ==
  Cardinality(held[x]) + (IF pc[x] \in {"swap", "note", "unlock", "pop_off"} THEN 1 ELSE 0)
InterruptsMatched ==
  \A c \in CPUs :
    /\ noff[c] = OffCount(<<c, "code">>) + OffCount(<<c, "intr">>)
    /\ (~inintr[c] /\ noff[c] = 0 /\ pc[<<c, "code">>] # "count") => ie[c]

(***************************************************************************)
(* "disable interrupts to avoid deadlock": a handler never runs on a CPU   *)
(* whose interrupted code owns a lock, so it cannot spin on that lock; and *)
(* push_off()/pop_off() stay matched, so that interrupts do come back.     *)
(***************************************************************************)
HandlerFindsNoLockHeld ==
  /\ \A c \in CPUs : inintr[c] => \A l \in Locks : ~Owns(<<c, "code">>, l)
  /\ InterruptsMatched

\* x cannot go on before a context of S does: it spins on a lock that one of
\* them owns, or is interrupted by a handler among them.
WaitsFor(x, S) ==
  \/ pc[x] = "swap" /\ \E y \in S : Owns(y, lk[x])
  \/ x[2] = "code" /\ inintr[x[1]] /\ <<x[1], "intr">> \in S

(***************************************************************************)
(* No deadlock in acquire(): in every set of contexts, CPUs and handlers,  *)
(* there is one that waits for no other of the set.                        *)
(***************************************************************************)
NoWaitCycle ==
  \A S \in (SUBSET Ctx) \ {{}} : \E x \in S : ~WaitsFor(x, S)
=============================================================================
