--------------------------- MODULE SpinlockProofs ---------------------------
(***************************************************************************)
(* Spinlocks for any number of CPUs and of locks: acquire() and release()  *)
(* exclude, no handler meets a lock of the code it has interrupted, and    *)
(* nobody waits in a circle.  None of the three is inductive.  Exclusion   *)
(* needs to know what lk->cpu says of a lock that somebody else owns       *)
(* (holding() reads it), and that a context acquires in order; the handler *)
(* needs the account of push_off() and pop_off(), with what they have      *)
(* stored in c->intena on the way.                                         *)
(***************************************************************************)
EXTENDS Spinlock, FiniteSetTheorems, WellFoundedInduction, TLAPS

Code(c) == <<c, "code">>
Intr(c) == <<c, "intr">>

Acquiring == {"intr_off", "count", "swap", "note"}

\* What a context works on: in acquire() a lock above those it holds.
LocalsOK(x) ==
  /\ lk[x] \in Locks <=> pc[x] \in Acquiring \cup {"unlock"}
  /\ pc[x] \in Acquiring => \A m \in held[x] : x[2] = "code" /\ m < lk[x]
  /\ pc[x] = "unlock" => lk[x] \notin held[x]

\* lk->locked, lk->cpu and the owners of a lock.
LockOK(l) ==
  /\ \A x, y \in Ctx : Owns(x, l) /\ Owns(y, l) => x = y
  /\ locked[l] <=> \E x \in Ctx : Owns(x, l)
  /\ \A x \in Ctx : l \in held[x] => lcpu[l] = x[1]
  /\ lcpu[l] # None => \E x \in Ctx : l \in held[x] /\ lcpu[l] = x[1]

\* A CPU, the code it runs and the handler that interrupts it: c->intena is
\* what interrupts were when c->noff left 0, on in the code, off in the handler.
CpuOK(c) ==
  /\ inintr[c] <=> pc[Intr(c)] # "off"
  /\ pc[Code(c)] # "off"
  /\ ~inintr[c] => held[Intr(c)] = {}
  /\ inintr[c] \/ ie[c] => held[Code(c)] = {} /\ pc[Code(c)] \in {"run", "intr_off"}
  /\ inintr[c] => ~ie[c]
  /\ noff[c] > 0 => (intena[c] <=> ~inintr[c])
  /\ ~inintr[c] /\ noff[c] = 0 /\ pc[Code(c)] # "count" => ie[c]
  /\ pc[Code(c)] \in {"intr_off", "count"} /\ held[Code(c)] = {} => old[Code(c)]
  /\ pc[Intr(c)] \in {"intr_off", "count"} => ~old[Intr(c)]

Counted(c) == noff[c] = OffCount(Code(c)) + OffCount(Intr(c))

Inv ==
  /\ TypeOK /\ ~panicked
  /\ \A x \in Ctx : LocalsOK(x)
  /\ \A l \in Locks : LockOK(l)
  /\ \A c \in CPUs : CpuOK(c) /\ Counted(c)

-----------------------------------------------------------------------------
\* Contexts are pairs, None is no lock and no CPU.
LEMMA CtxFacts ==
  /\ \A x \in Ctx : x[1] \in CPUs /\ ((x = Code(x[1]) /\ x[2] = "code") \/ (x = Intr(x[1]) /\ x[2] = "intr"))
  /\ \A c \in CPUs : Code(c) \in Ctx /\ Intr(c) \in Ctx /\ Code(c) # Intr(c)
  /\ \A c \in CPUs : Code(c)[1] = c /\ Code(c)[2] = "code" /\ Intr(c)[1] = c /\ Intr(c)[2] = "intr"
  /\ \A c, d \in CPUs : c # d => Code(c) # Code(d) /\ Code(c) # Intr(d) /\ Intr(c) # Intr(d)
  /\ None \notin Locks /\ None \notin CPUs
  BY SpinlockAssumption DEF Ctx, Code, Intr, Locks

\* The locks a context holds are finitely many, so that they can be counted.
LEMMA HeldFinite ==
  ASSUME TypeOK, NEW x \in Ctx
  PROVE  IsFiniteSet(held[x]) /\ Cardinality(held[x]) \in Nat
<1>1. IsFiniteSet(Locks)
  BY SpinlockAssumption, FS_Interval DEF Locks
<1>2. held[x] \in SUBSET Locks
  BY Zenon DEF TypeOK
<1>3. IsFiniteSet(held[x])
  BY <1>1, <1>2, FS_Subset, Zenon
<1>4. QED
  BY <1>3, FS_CardinalityType, Zenon

\* OffCount is a natural number, and 0 just for a context outside any lock.
LEMMA OffCountZero ==
  ASSUME TypeOK, NEW x \in Ctx
  PROVE  /\ OffCount(x) \in Nat
         /\ OffCount(x) = 0 <=> held[x] = {} /\ pc[x] \notin {"swap", "note", "unlock", "pop_off"}
  BY HeldFinite, FS_EmptySet DEF OffCount

\* After main() has set the locks up.
LEMMA InitInv == Init => Inv
<1> SUFFICES ASSUME Init PROVE Inv
  OBVIOUS
<1> USE CtxFacts
<1>1. TypeOK /\ ~panicked
  BY Zenon DEF Init, TypeOK
<1>2. ASSUME NEW x \in Ctx PROVE LocalsOK(x)
  BY Zenon DEF Init, LocalsOK, Acquiring
<1>3. ASSUME NEW l \in Locks PROVE LockOK(l)
  BY Zenon DEF Init, LockOK, Owns
<1>4. ASSUME NEW c \in CPUs PROVE CpuOK(c)
  BY DEF Init, CpuOK
<1>5. ASSUME NEW c \in CPUs PROVE Counted(c)
  BY <1>1, OffCountZero DEF Init, Counted
<1>6. QED
  BY <1>1, <1>2, <1>3, <1>4, <1>5, Zenon DEF Inv

-----------------------------------------------------------------------------
(* What a step of a context leaves alone.                                  *)

\* Locks that x does not touch, and whose owners stay the same.
LEMMA LockFrame ==
  ASSUME NEW l \in Locks, LockOK(l),
         locked'[l] = locked[l], lcpu'[l] = lcpu[l],
         \A y \in Ctx : Owns(y, l)' = Owns(y, l),
         \A y \in Ctx : l \in held'[y] <=> l \in held[y]
  PROVE  LockOK(l)'
  BY Zenon DEF LockOK

\* CPUs other than the one that takes the step.
LEMMA CpuFrame ==
  ASSUME NEW c \in CPUs, CpuOK(c), Counted(c),
         noff'[c] = noff[c], ie'[c] = ie[c], intena'[c] = intena[c], inintr'[c] = inintr[c],
         \A y \in {Code(c), Intr(c)} : pc'[y] = pc[y] /\ held'[y] = held[y] /\ old'[y] = old[y]
  PROVE  CpuOK(c)' /\ Counted(c)'
  BY Zenon DEF CpuOK, Counted, OffCount

\* acquire(): push_off() has saved the interrupt flag in its local.
LEMMA AcquireInv ==
  ASSUME Inv, NEW x \in Ctx, NEW l \in Locks, Acquire(x, l)
  PROVE  Inv'
<1> USE CtxFacts
<1>1. TypeOK' /\ ~panicked'
  BY Zenon DEF Acquire, Step, Inv, TypeOK, cpuvars
<1>2. ASSUME NEW y \in Ctx PROVE LocalsOK(y)'
  BY DEF Acquire, Step, Inv, TypeOK, LocalsOK, Acquiring
<1>3. ASSUME NEW m \in Locks PROVE LockOK(m)'
  <2>1. \A y \in Ctx : Owns(y, m)' = Owns(y, m)
    BY DEF Acquire, Step, Inv, TypeOK, LocalsOK, Acquiring, Owns
  <2>2. QED
    BY <2>1, LockFrame, Zenon DEF Acquire, Inv
<1>4. ASSUME NEW c \in CPUs PROVE CpuOK(c)' /\ Counted(c)'
  <2>1. CASE c # x[1]
    BY <2>1, CpuFrame DEF Acquire, Step, Inv, TypeOK, cpuvars
  <2>2. CASE c = x[1]
    <3>1. OffCount(Code(c))' = OffCount(Code(c)) /\ OffCount(Intr(c))' = OffCount(Intr(c))
      BY DEF Acquire, Step, Inv, TypeOK, OffCount
    <3>2. Counted(c)'
      BY <3>1 DEF Acquire, Inv, cpuvars, Counted
    <3>3. OffCount(Intr(c)) \in Nat /\ OffCount(Code(c)) \in Nat
      BY OffCountZero, Zenon DEF Inv
    <3>4. /\ pc[x] = "run" /\ \A y \in Ctx : pc'[y] = IF y = x THEN "intr_off" ELSE pc[y]
          /\ \A y \in Ctx : old'[y] = IF y = x THEN ie[c] ELSE old[y]
          /\ (x[2] = "intr") = inintr[c]
          /\ UNCHANGED <<ie, noff, intena, inintr, held>>
      BY <2>2 DEF Acquire, Step, Inv, TypeOK, cpuvars
    <3>5. CpuOK(c) /\ Counted(c) /\ ie[c] \in BOOLEAN /\ inintr[c] \in BOOLEAN
      BY Zenon DEF Inv, TypeOK
    <3>6. held[Code(c)] = {} /\ pc[Code(c)] = "run" /\ ~inintr[c] => noff[c] = 0
      BY <3>5, OffCountZero DEF Inv, CpuOK, Counted
    <3>7. CpuOK(c)'
      BY <2>2, <3>4, <3>5, <3>6 DEF CpuOK
    <3>8. QED
      BY <3>2, <3>7, Zenon
  <2>3. QED
    BY <2>1, <2>2, Zenon
<1>5. QED
  BY <1>1, <1>2, <1>3, <1>4, Zenon DEF Inv

\* push_off() turns interrupts off.
LEMMA IntrOffInv ==
  ASSUME Inv, NEW x \in Ctx, IntrOff(x)
  PROVE  Inv'
<1> USE CtxFacts
<1>1. TypeOK' /\ ~panicked'
  BY Zenon DEF IntrOff, Step, Inv, TypeOK
<1>2. ASSUME NEW y \in Ctx PROVE LocalsOK(y)'
  BY DEF IntrOff, Step, Inv, TypeOK, LocalsOK, Acquiring
<1>3. ASSUME NEW m \in Locks PROVE LockOK(m)'
  <2>1. \A y \in Ctx : Owns(y, m)' = Owns(y, m)
    BY DEF IntrOff, Step, Inv, TypeOK, Owns
  <2>2. QED
    BY <2>1, LockFrame, Zenon DEF IntrOff, Inv
<1>4. ASSUME NEW c \in CPUs PROVE CpuOK(c)' /\ Counted(c)'
  <2>1. CASE c # x[1]
    <3>1. Code(c) # x /\ Intr(c) # x
      BY <2>1, Zenon
    <3>2. /\ \A y \in {Code(c), Intr(c)} : pc'[y] = pc[y] /\ held'[y] = held[y] /\ old'[y] = old[y]
          /\ noff'[c] = noff[c] /\ ie'[c] = ie[c] /\ intena'[c] = intena[c] /\ inintr'[c] = inintr[c]
      BY <2>1, <3>1 DEF IntrOff, Step, Inv, TypeOK
    <3>3. QED
      BY <3>2, CpuFrame, Zenon DEF Inv
  <2>2. CASE c = x[1]
    <3>1. OffCount(Code(c))' = OffCount(Code(c)) /\ OffCount(Intr(c))' = OffCount(Intr(c))
      BY DEF IntrOff, Step, Inv, TypeOK, OffCount
    <3>2. Counted(c)'
      BY <3>1 DEF IntrOff, Inv, Counted
    <3>3. CpuOK(c)'
      BY <2>2, OffCountZero DEF IntrOff, Step, Inv, TypeOK, CpuOK, Counted
    <3>4. QED
      BY <3>2, <3>3, Zenon
  <2>3. QED
    BY <2>1, <2>2, Zenon
<1>5. QED
  BY <1>1, <1>2, <1>3, <1>4, Zenon DEF Inv

(***************************************************************************)
(* push_off() counts, and acquire() tests holding(): the lock it wants is  *)
(* held neither by its own context, which acquires in order, nor by the    *)
(* other one of its CPU, which holds none.                                 *)
(***************************************************************************)
LEMMA CountInv ==
  ASSUME Inv, NEW x \in Ctx, Count(x)
  PROVE  Inv'
<1> USE CtxFacts
<1>t. TypeOK
  BY Zenon DEF Inv
<1>1. TypeOK'
  BY <1>t DEF Count, Step, TypeOK, Holding
<1>2. ~Holding(x[1], lk[x])
  <2> SUFFICES ASSUME Holding(x[1], lk[x]) PROVE FALSE
    OBVIOUS
  <2>1. lk[x] \in Locks
    BY Zenon DEF Count, Step, Inv, LocalsOK, Acquiring
  <2>2. PICK y \in Ctx : lk[x] \in held[y] /\ y[1] = x[1]
    BY <2>1 DEF Inv, LockOK, Holding
  <2>3. y # x
    BY <2>1, <2>2 DEF Count, Step, Inv, LocalsOK, Acquiring, Locks
  <2>4. held[y] = {}
    BY <2>2, <2>3 DEF Count, Step, Inv, CpuOK
  <2>5. QED
    BY <2>2, <2>4, Zenon
<1>3. ASSUME NEW y \in Ctx PROVE LocalsOK(y)'
  BY DEF Count, Step, Inv, TypeOK, LocalsOK, Acquiring
<1>4. ASSUME NEW m \in Locks PROVE LockOK(m)'
  <2>1. \A y \in Ctx : Owns(y, m)' = Owns(y, m)
    BY <1>t DEF Count, Step, TypeOK, Owns
  <2>2. QED
    BY <2>1, LockFrame, Zenon DEF Count, Inv
<1>5. ASSUME NEW c \in CPUs PROVE CpuOK(c)' /\ Counted(c)'
  <2>1. CASE c # x[1]
    <3>1. Code(c) # x /\ Intr(c) # x
      BY <2>1, Zenon
    <3>2. /\ \A y \in {Code(c), Intr(c)} : pc'[y] = pc[y] /\ held'[y] = held[y] /\ old'[y] = old[y]
          /\ noff'[c] = noff[c] /\ ie'[c] = ie[c] /\ intena'[c] = intena[c] /\ inintr'[c] = inintr[c]
      BY <2>1, <3>1, <1>t DEF Count, Step, TypeOK
    <3>3. QED
      BY <3>2, CpuFrame, Zenon DEF Inv
  <2>2. CASE c = x[1]
    <3>1. OffCount(x)' = OffCount(x) + 1 /\ \A y \in Ctx \ {x} : OffCount(y)' = OffCount(y)
      BY HeldFinite, <1>t DEF Count, Step, TypeOK, OffCount
    <3>2. OffCount(Code(c)) \in Nat /\ OffCount(Intr(c)) \in Nat
      BY OffCountZero, Zenon DEF Inv
    <3>3. Counted(c)'
      BY <2>2, <3>1, <3>2 DEF Count, Inv, TypeOK, Counted
    <3>4. CpuOK(c)'
      BY <2>2, <3>2, OffCountZero DEF Count, Step, Inv, TypeOK, CpuOK, Counted
    <3>5. QED
      BY <3>3, <3>4, Zenon
  <2>3. QED
    BY <2>1, <2>2, Zenon
<1>6. ~panicked'
  BY <1>2, Zenon DEF Count
<1>7. QED
  BY <1>1, <1>3, <1>4, <1>5, <1>6, Zenon DEF Inv

\* The atomic swap finds the lock free, so that x is its first owner.
LEMMA SwapInv ==
  ASSUME Inv, NEW x \in Ctx, Swap(x)
  PROVE  Inv'
<1> USE CtxFacts
<1>t. TypeOK
  BY Zenon DEF Inv
<1>1. lk[x] \in Locks
  BY Zenon DEF Swap, Step, Inv, LocalsOK, Acquiring
<1>2. TypeOK' /\ ~panicked'
  BY <1>1, Zenon DEF Swap, Step, Inv, TypeOK, cpuvars
<1>3. ASSUME NEW y \in Ctx PROVE LocalsOK(y)'
  BY DEF Swap, Step, Inv, TypeOK, LocalsOK, Acquiring
<1>4. ASSUME NEW m \in Locks PROVE LockOK(m)'
  <2>1. CASE m # lk[x]
    <3>1. \A y \in Ctx : Owns(y, m)' = Owns(y, m)
      BY <2>1, <1>t DEF Swap, Step, TypeOK, Owns
    <3>2. locked'[m] = locked[m] /\ lcpu' = lcpu /\ held' = held
      BY <1>1, <2>1, Zenon DEF Swap, Inv, TypeOK
    <3>3. LockOK(m)
      BY Zenon DEF Inv
    <3>4. QED
      BY <3>1, <3>2, <3>3, LockFrame, Zenon
  <2>2. CASE m = lk[x]
    <3>1. \A y \in Ctx : ~Owns(y, m)
      BY <2>2, Zenon DEF Swap, Inv, LockOK
    <3>2. \A y \in Ctx : Owns(y, m)' <=> y = x
      BY <2>2, <3>1, <1>t DEF Swap, Step, TypeOK, Owns
    <3>3. locked'[m] /\ lcpu' = lcpu /\ held' = held
      BY <1>1, <2>2, <1>t DEF Swap, TypeOK
    <3>4. QED
      BY <3>2, <3>3 DEF LockOK, Inv
  <2>3. QED
    BY <2>1, <2>2, Zenon
<1>5. ASSUME NEW c \in CPUs PROVE CpuOK(c)' /\ Counted(c)'
  <2>1. OffCount(Code(c))' = OffCount(Code(c)) /\ OffCount(Intr(c))' = OffCount(Intr(c))
    BY <1>t DEF Swap, Step, TypeOK, OffCount
  <2>2. Counted(c)'
    <3>1. Counted(c) /\ noff' = noff
      BY Zenon DEF Swap, Inv, cpuvars
    <3>2. OffCount(Code(c))' = OffCount(Code(c)) /\ OffCount(Intr(c))' = OffCount(Intr(c))
      BY <2>1, Zenon
    <3>3. QED
      BY <3>1, <3>2, Zenon DEF Counted
  <2>3. CpuOK(c)'
    BY DEF Swap, Step, Inv, TypeOK, CpuOK, cpuvars
  <2>4. QED
    BY <2>2, <2>3, Zenon
<1>6. QED
  BY <1>2, <1>3, <1>4, <1>5, Zenon DEF Inv

\* x notes that it holds the lock.
LEMMA NoteInv ==
  ASSUME Inv, NEW x \in Ctx, Note(x)
  PROVE  Inv'
<1> USE CtxFacts
<1>t. TypeOK
  BY Zenon DEF Inv
<1>1. lk[x] \in Locks /\ lk[x] \notin held[x]
  BY DEF Note, Step, Inv, LocalsOK, Acquiring, Locks
<1>2. TypeOK' /\ ~panicked'
  BY <1>1 DEF Note, Step, Inv, TypeOK, cpuvars
<1>3. ASSUME NEW y \in Ctx PROVE LocalsOK(y)'
  BY DEF Note, Step, Inv, TypeOK, LocalsOK, Acquiring
<1>4. ASSUME NEW m \in Locks PROVE LockOK(m)'
  <2>1. \A y \in Ctx : Owns(y, m)' = Owns(y, m)
    BY <1>1, <1>t DEF Note, Step, TypeOK, Owns
  <2>2. CASE m # lk[x]
    <3>1. /\ locked'[m] = locked[m] /\ lcpu'[m] = lcpu[m]
          /\ \A y \in Ctx : m \in held'[y] <=> m \in held[y]
      BY <2>2, <1>t DEF Note, TypeOK
    <3>2. LockOK(m)
      BY Zenon DEF Inv
    <3>3. QED
      BY <2>1, <3>1, <3>2, LockFrame, Zenon
  <2>3. CASE m = lk[x]
    <3>1. \A y \in Ctx : Owns(y, m) => y = x
      BY <1>1, <2>3 DEF Note, Step, Inv, LockOK, Owns
    <3>2. /\ locked' = locked /\ lcpu'[m] = x[1] /\ m \in held'[x]
          /\ \A y \in Ctx : m \in held'[y] => y = x
      BY <1>1, <2>3, <3>1, <1>t DEF Note, TypeOK, Owns
    <3>3. QED
      BY <2>1, <3>1, <3>2, Zenon DEF LockOK, Inv
  <2>4. QED
    BY <2>2, <2>3, Zenon
<1>5. ASSUME NEW c \in CPUs PROVE CpuOK(c)' /\ Counted(c)'
  <2>1. Cardinality(held[x] \cup {lk[x]}) = Cardinality(held[x]) + 1
    BY <1>1, HeldFinite, FS_AddElement, Zenon DEF Inv
  <2>2. held'[x] = held[x] \cup {lk[x]} /\ \A y \in Ctx \ {x} : held'[y] = held[y] /\ pc'[y] = pc[y]
    BY <1>t DEF Note, Step, TypeOK
  <2>3. OffCount(x)' = OffCount(x)
    BY <2>1, <2>2, HeldFinite, <1>t DEF Note, Step, TypeOK, OffCount
  <2>4. \A y \in Ctx \ {x} : OffCount(y)' = OffCount(y)
    BY <2>2, Zenon DEF OffCount
  <2>5. Counted(c)'
    <3>1. Counted(c) /\ noff' = noff
      BY Zenon DEF Note, Inv, cpuvars
    <3>2. OffCount(Code(c))' = OffCount(Code(c)) /\ OffCount(Intr(c))' = OffCount(Intr(c))
      BY <2>3, <2>4, Zenon
    <3>3. QED
      BY <3>1, <3>2, Zenon DEF Counted
  <2>6. CpuOK(c)'
    <3>1. /\ pc[x] = "note" /\ pc'[x] = "run" /\ (x[2] = "intr") = inintr[x[1]]
          /\ UNCHANGED <<ie, noff, intena, inintr, old>>
      BY <1>t DEF Note, Step, TypeOK, cpuvars
    <3>2. CpuOK(c)
      BY Zenon DEF Inv
    <3>3. QED
      BY <2>2, <3>1, <3>2, Zenon DEF CpuOK
  <2>7. QED
    BY <2>5, <2>6, Zenon
<1>6. QED
  BY <1>2, <1>3, <1>4, <1>5, Zenon DEF Inv

\* release() forgets the holder; the lock is still x's.
LEMMA ReleaseInv ==
  ASSUME Inv, NEW x \in Ctx, NEW l \in Locks, Release(x, l)
  PROVE  Inv'
<1> USE CtxFacts
<1>t. TypeOK
  BY Zenon DEF Inv
<1>1. Holding(x[1], l)
  BY DEF Release, Inv, LockOK, Owns, Holding
<1>2. TypeOK' /\ ~panicked'
  BY <1>1, Zenon DEF Release, Step, Inv, TypeOK, cpuvars
<1>3. ASSUME NEW y \in Ctx PROVE LocalsOK(y)'
  BY DEF Release, Step, Inv, TypeOK, LocalsOK, Acquiring
<1>4. ASSUME NEW m \in Locks PROVE LockOK(m)'
  <2>1. \A y \in Ctx : Owns(y, m)' = Owns(y, m)
    BY DEF Release, Step, Inv, TypeOK, LocalsOK, Acquiring, Owns
  <2>2. CASE m # l
    <3>1. /\ locked'[m] = locked[m] /\ lcpu'[m] = lcpu[m]
          /\ \A y \in Ctx : m \in held'[y] <=> m \in held[y]
      BY <1>t, <2>2 DEF Release, TypeOK, cpuvars
    <3>2. LockOK(m)
      BY Zenon DEF Inv
    <3>3. QED
      BY <2>1, <3>1, <3>2, LockFrame, Zenon
  <2>3. CASE m = l
    <3>1. \A y \in Ctx : Owns(y, m) => y = x
      BY <2>3, Zenon DEF Release, Inv, LockOK, Owns
    <3>2. locked' = locked /\ lcpu'[m] = None /\ \A y \in Ctx : m \notin held'[y]
      BY <2>3, <3>1, <1>t DEF Release, TypeOK, Owns
    <3>3. QED
      BY <2>1, <3>2, Zenon DEF LockOK, Inv
  <2>4. QED
    BY <2>2, <2>3, Zenon
<1>5. ASSUME NEW c \in CPUs PROVE CpuOK(c)' /\ Counted(c)'
  <2>1. Cardinality(held[x] \ {l}) = Cardinality(held[x]) - 1
    BY HeldFinite, FS_RemoveElement, Zenon DEF Inv, Release
  <2>2. held'[x] = held[x] \ {l} /\ \A y \in Ctx \ {x} : held'[y] = held[y] /\ pc'[y] = pc[y]
    BY <1>t DEF Release, Step, TypeOK
  <2>3. OffCount(x)' = OffCount(x)
    BY <2>1, <2>2, HeldFinite, <1>t DEF Release, Step, TypeOK, OffCount
  <2>4. \A y \in Ctx \ {x} : OffCount(y)' = OffCount(y)
    BY <2>2, Zenon DEF OffCount
  <2>5. Counted(c)'
    <3>1. Counted(c) /\ noff' = noff
      BY Zenon DEF Release, Inv, cpuvars
    <3>2. OffCount(Code(c))' = OffCount(Code(c)) /\ OffCount(Intr(c))' = OffCount(Intr(c))
      BY <2>3, <2>4, Zenon
    <3>3. QED
      BY <3>1, <3>2, Zenon DEF Counted
  <2>6. CpuOK(c)'
    BY <2>2 DEF Release, Step, Inv, TypeOK, CpuOK, cpuvars
  <2>7. QED
    BY <2>5, <2>6, Zenon
<1>6. QED
  BY <1>2, <1>3, <1>4, <1>5, Zenon DEF Inv

\* The store that frees the lock: x was its only owner.
LEMMA UnlockInv ==
  ASSUME Inv, NEW x \in Ctx, Unlock(x)
  PROVE  Inv'
<1> USE CtxFacts
<1>t. TypeOK
  BY Zenon DEF Inv
<1>1. lk[x] \in Locks /\ lk[x] \notin held[x]
  BY Zenon DEF Unlock, Step, Inv, LocalsOK
<1>2. TypeOK' /\ ~panicked'
  BY <1>1, Zenon DEF Unlock, Step, Inv, TypeOK, cpuvars
<1>3. ASSUME NEW y \in Ctx PROVE LocalsOK(y)'
  BY DEF Unlock, Step, Inv, TypeOK, LocalsOK, Acquiring
<1>4. ASSUME NEW m \in Locks PROVE LockOK(m)'
  <2>1. CASE m # lk[x]
    <3>1. \A y \in Ctx : Owns(y, m)' = Owns(y, m)
      BY <2>1, <1>t DEF Unlock, Step, TypeOK, Owns
    <3>2. locked'[m] = locked[m] /\ lcpu' = lcpu /\ held' = held
      BY <1>1, <2>1, <1>t DEF Unlock, TypeOK
    <3>3. LockOK(m)
      BY Zenon DEF Inv
    <3>4. QED
      BY <3>1, <3>2, <3>3, LockFrame, Zenon
  <2>2. CASE m = lk[x]
    <3>1. \A y \in Ctx : Owns(y, m) => y = x
      BY <1>1, <2>2 DEF Unlock, Step, Inv, LockOK, Owns
    <3>2. \A y \in Ctx : ~Owns(y, m)'
      BY <1>1, <2>2, <3>1, <1>t DEF Unlock, Step, TypeOK, Owns
    <3>3. ~locked'[m] /\ lcpu' = lcpu /\ held' = held
      BY <1>1, <2>2, <1>t DEF Unlock, TypeOK
    <3>4. QED
      BY <3>2, <3>3 DEF LockOK, Inv
  <2>3. QED
    BY <2>1, <2>2, Zenon
<1>5. ASSUME NEW c \in CPUs PROVE CpuOK(c)' /\ Counted(c)'
  <2>1. OffCount(Code(c))' = OffCount(Code(c)) /\ OffCount(Intr(c))' = OffCount(Intr(c))
    BY <1>t DEF Unlock, Step, TypeOK, OffCount
  <2>2. Counted(c)'
    <3>1. Counted(c) /\ noff' = noff
      BY Zenon DEF Unlock, Inv, cpuvars
    <3>2. OffCount(Code(c))' = OffCount(Code(c)) /\ OffCount(Intr(c))' = OffCount(Intr(c))
      BY <2>1, Zenon
    <3>3. QED
      BY <3>1, <3>2, Zenon DEF Counted
  <2>3. CpuOK(c)'
    BY DEF Unlock, Step, Inv, TypeOK, CpuOK, cpuvars
  <2>4. QED
    BY <2>2, <2>3, Zenon
<1>6. QED
  BY <1>2, <1>3, <1>4, <1>5, Zenon DEF Inv

(***************************************************************************)
(* pop_off() finds interrupts off and a count of at least one, and turns   *)
(* them on just when the count drops to zero outside a handler.            *)
(***************************************************************************)
LEMMA PopOffInv ==
  ASSUME Inv, NEW x \in Ctx, PopOff(x)
  PROVE  Inv'
<1> USE CtxFacts
<1>t. TypeOK
  BY Zenon DEF Inv
<1>1. OffCount(x) \in Nat /\ OffCount(x) # 0
  BY OffCountZero, Zenon DEF PopOff, Step, Inv
<1>2. noff[x[1]] \in Nat /\ noff[x[1]] >= 1
  <2>1. OffCount(Code(x[1])) \in Nat /\ OffCount(Intr(x[1])) \in Nat
    BY OffCountZero, Zenon DEF Inv
  <2>2. noff[x[1]] = OffCount(Code(x[1])) + OffCount(Intr(x[1]))
    BY Zenon DEF Inv, Counted
  <2>3. OffCount(Code(x[1])) # 0 \/ OffCount(Intr(x[1])) # 0
    BY <1>1, Zenon
  <2>4. QED
    BY <2>1, <2>2, <2>3
<1>3. ~ie[x[1]]
  BY Zenon DEF PopOff, Step, Inv, CpuOK
<1>4. TypeOK' /\ ~panicked'
  BY <1>2, <1>3, <1>t DEF PopOff, Step, TypeOK
<1>5. ASSUME NEW y \in Ctx PROVE LocalsOK(y)'
  BY DEF PopOff, Step, Inv, TypeOK, LocalsOK, Acquiring
<1>6. ASSUME NEW m \in Locks PROVE LockOK(m)'
  <2>1. \A y \in Ctx : Owns(y, m)' = Owns(y, m)
    BY <1>t DEF PopOff, Step, TypeOK, Owns
  <2>2. QED
    BY <2>1, LockFrame, Zenon DEF PopOff, Inv
<1>7. ASSUME NEW c \in CPUs PROVE CpuOK(c)' /\ Counted(c)'
  <2>1. CASE c # x[1]
    <3>1. Code(c) # x /\ Intr(c) # x
      BY <2>1, Zenon
    <3>2. /\ \A y \in {Code(c), Intr(c)} : pc'[y] = pc[y] /\ held'[y] = held[y] /\ old'[y] = old[y]
          /\ noff'[c] = noff[c] /\ ie'[c] = ie[c] /\ intena'[c] = intena[c] /\ inintr'[c] = inintr[c]
      BY <2>1, <3>1, <1>t DEF PopOff, Step, TypeOK
    <3>3. QED
      BY <3>2, CpuFrame, Zenon DEF Inv
  <2>2. CASE c = x[1]
    <3>1. OffCount(x)' = OffCount(x) - 1 /\ \A y \in Ctx \ {x} : OffCount(y)' = OffCount(y)
      BY HeldFinite, <1>t DEF PopOff, Step, TypeOK, OffCount
    <3>2. OffCount(Code(c)) \in Nat /\ OffCount(Intr(c)) \in Nat
      BY OffCountZero, Zenon DEF Inv
    <3>3. Counted(c)'
      BY <2>2, <3>1, <3>2 DEF PopOff, Inv, TypeOK, Counted
    <3>4. noff'[c] = noff[c] - 1 /\ (noff[c] = 1 => held[Code(c)] = {})
      <4>1. noff'[c] = noff[c] - 1
        BY <2>2, Zenon DEF PopOff, Inv, TypeOK
      <4>2. noff[c] = 1 => OffCount(x) = 1
        BY <1>1, <2>2, <3>2 DEF Inv, Counted
      <4>3. OffCount(x) = Cardinality(held[x]) + 1
        BY Zenon DEF PopOff, Step, OffCount
      <4>4. OffCount(x) = 1 => held[x] = {}
        BY <4>3, HeldFinite, FS_EmptySet DEF Inv
      <4>5. x # Code(c) => held[Code(c)] = {}
        BY <2>2, Zenon DEF PopOff, Step, Inv, CpuOK
      <4>6. QED
        BY <4>1, <4>2, <4>4, <4>5, Zenon
    <3>5. /\ pc[x] = "pop_off" /\ pc'[x] = "run" /\ \A y \in Ctx \ {x} : pc'[y] = pc[y]
          /\ held' = held /\ old' = old /\ inintr' = inintr /\ intena' = intena
          /\ (x[2] = "intr") = inintr[c]
          /\ ie'[c] = (noff[c] = 1 /\ intena[c])
      BY <1>3, <2>2, <1>t DEF PopOff, Step, TypeOK
    <3>6. CpuOK(c)
      BY Zenon DEF Inv
    <3>7. CASE x = Code(c)
      <4>1. ~inintr[c] /\ intena[c]
        BY <1>2, <2>2, <3>5, <3>6, <3>7 DEF CpuOK
      <4>2. /\ pc'[Code(c)] = "run" /\ pc'[Intr(c)] = pc[Intr(c)]
            /\ (ie'[c] <=> noff[c] = 1) /\ (noff'[c] = 0 <=> noff[c] = 1)
        <5>1. pc'[Code(c)] = "run" /\ pc'[Intr(c)] = pc[Intr(c)]
          BY <3>5, <3>7, Zenon
        <5>2. noff'[c] = 0 <=> noff[c] = 1
          BY <1>2, <2>2, <3>4
        <5>3. ie'[c] <=> noff[c] = 1
          BY <3>5, <4>1, Zenon
        <5>4. QED
          BY <5>1, <5>2, <5>3, Zenon
      <4>3. CpuOK(c)'
        BY <3>4, <3>5, <3>6, <4>1, <4>2, Zenon DEF CpuOK
      <4>4. QED
        BY <3>3, <4>3, Zenon
    <3>8. CASE x = Intr(c)
      <4>1. inintr[c] /\ ~intena[c] /\ ~ie'[c]
        <5>1. inintr[c]
          BY <2>2, <3>5, <3>8, Zenon
        <5>2. noff[c] > 0
          BY <1>2, <2>2
        <5>3. ~intena[c]
          BY <3>6, <5>1, <5>2, Zenon DEF CpuOK
        <5>4. QED
          BY <3>5, <5>1, <5>3, Zenon
      <4>2. CpuOK(c)'
        BY <1>2, <2>2, <3>4, <3>5, <3>6, <3>8, <4>1, Zenon DEF CpuOK
      <4>3. QED
        BY <3>3, <4>2, Zenon
    <3>9. QED
      BY <2>2, <3>3, <3>7, <3>8, Zenon
  <2>3. QED
    BY <2>1, <2>2, Zenon
<1>8. QED
  BY <1>4, <1>5, <1>6, <1>7, Zenon DEF Inv

\* An interrupt comes only where the code of the CPU owns nothing.
LEMMA InterruptInv ==
  ASSUME Inv, NEW c \in CPUs, Interrupt(c)
  PROVE  Inv'
<1> USE CtxFacts
<1>t. TypeOK
  BY Zenon DEF Inv
<1>1. TypeOK' /\ ~panicked'
  BY Zenon DEF Interrupt, Inv, TypeOK, Intr
<1>2. pc' = [pc EXCEPT ![Intr(c)] = "run"] /\ pc[Intr(c)] = "off"
  BY Zenon DEF Interrupt, Inv, CpuOK, Intr
<1>3. ASSUME NEW y \in Ctx PROVE LocalsOK(y)'
  BY <1>2 DEF Interrupt, Inv, TypeOK, LocalsOK, Acquiring
<1>4. ASSUME NEW m \in Locks PROVE LockOK(m)'
  <2>1. \A y \in Ctx : Owns(y, m)' = Owns(y, m)
    BY <1>2, <1>t DEF Interrupt, TypeOK, Owns
  <2>2. QED
    BY <2>1, LockFrame, Zenon DEF Interrupt, Inv
<1>5. ASSUME NEW d \in CPUs PROVE CpuOK(d)' /\ Counted(d)'
  <2>1. OffCount(Code(d))' = OffCount(Code(d)) /\ OffCount(Intr(d))' = OffCount(Intr(d))
    BY <1>2, <1>t DEF Interrupt, TypeOK, OffCount
  <2>2. Counted(d)'
    <3>1. Counted(d) /\ noff' = noff
      BY Zenon DEF Interrupt, Inv
    <3>2. OffCount(Code(d))' = OffCount(Code(d)) /\ OffCount(Intr(d))' = OffCount(Intr(d))
      BY <2>1, Zenon
    <3>3. QED
      BY <3>1, <3>2, Zenon DEF Counted
  <2>3. noff[c] = 0
    <3>1. CpuOK(c) /\ Counted(c) /\ ie[c] /\ ~inintr[c]
      BY Zenon DEF Interrupt, Inv
    <3>2. OffCount(Intr(c)) = 0 /\ OffCount(Code(c)) = 0
      <4>1. /\ held[Intr(c)] = {} /\ pc[Intr(c)] = "off"
            /\ held[Code(c)] = {} /\ pc[Code(c)] \in {"run", "intr_off"}
        BY <1>2, <3>1, Zenon DEF CpuOK
      <4>2. QED
        BY <1>t, <4>1, OffCountZero
    <3>3. QED
      BY <3>1, <3>2 DEF Counted
  <2>4. CpuOK(d)'
    BY <1>2, <2>3 DEF Interrupt, Inv, TypeOK, CpuOK
  <2>5. QED
    BY <2>2, <2>4, Zenon
<1>6. QED
  BY <1>1, <1>3, <1>4, <1>5, Zenon DEF Inv

\* The handler returns without locks, and interrupts are on again.
LEMMA SretInv ==
  ASSUME Inv, NEW c \in CPUs, Sret(c)
  PROVE  Inv'
<1> USE CtxFacts
<1>t. TypeOK
  BY Zenon DEF Inv
<1>1. /\ pc' = [pc EXCEPT ![Intr(c)] = "off"] /\ pc[Intr(c)] = "run" /\ inintr[c]
      /\ held[Intr(c)] = {}
  BY Zenon DEF Sret, Step, Inv, TypeOK, Intr
<1>2. TypeOK' /\ ~panicked'
  BY <1>1, Zenon DEF Sret, Inv, TypeOK
<1>3. ASSUME NEW y \in Ctx PROVE LocalsOK(y)'
  BY <1>1 DEF Sret, Inv, TypeOK, LocalsOK, Acquiring
<1>4. ASSUME NEW m \in Locks PROVE LockOK(m)'
  <2>1. \A y \in Ctx : Owns(y, m)' = Owns(y, m)
    BY <1>1, <1>t DEF Sret, TypeOK, Owns
  <2>2. QED
    BY <2>1, LockFrame, Zenon DEF Sret, Inv
<1>5. ASSUME NEW d \in CPUs PROVE CpuOK(d)' /\ Counted(d)'
  <2>1. OffCount(Code(d))' = OffCount(Code(d)) /\ OffCount(Intr(d))' = OffCount(Intr(d))
    <3>1. /\ held' = held
          /\ \A y \in Ctx : y # Intr(c) => pc'[y] = pc[y]
      BY <1>1, <1>t DEF Sret, TypeOK
    <3>2. pc'[Intr(c)] = "off"
      BY <1>1, Zenon DEF Inv, TypeOK
    <3>3. \A y \in Ctx : OffCount(y)' = OffCount(y)
      BY <1>1, <3>1, <3>2 DEF OffCount
    <3>4. QED
      BY <3>3, Zenon
  <2>2. Counted(d)'
    <3>1. Counted(d) /\ noff' = noff
      BY Zenon DEF Sret, Inv
    <3>2. OffCount(Code(d))' = OffCount(Code(d)) /\ OffCount(Intr(d))' = OffCount(Intr(d))
      BY <2>1, Zenon
    <3>3. QED
      BY <3>1, <3>2, Zenon DEF Counted
  <2>3. noff[c] = 0
    <3>1. CpuOK(c) /\ Counted(c) /\ TypeOK
      BY Zenon DEF Inv
    <3>2. OffCount(Intr(c)) = 0 /\ OffCount(Code(c)) = 0
      BY <1>1, <3>1, OffCountZero, Zenon DEF CpuOK
    <3>3. QED
      BY <3>1, <3>2 DEF Counted
  <2>4. CpuOK(d)'
    BY <1>1, <2>3 DEF Sret, Inv, TypeOK, CpuOK
  <2>5. QED
    BY <2>2, <2>4, Zenon
<1>6. QED
  BY <1>2, <1>3, <1>4, <1>5, Zenon DEF Inv

\* Every step of a context and every interrupt keeps the invariant.
LEMMA NextInv == Inv /\ [Next]_vars => Inv'
<1> SUFFICES ASSUME Inv, [Next]_vars PROVE Inv'
  BY Zenon
<1>1. CASE UNCHANGED vars
  BY <1>1 DEF vars, Inv, TypeOK, LocalsOK, LockOK, Owns, CpuOK, Counted, OffCount
<1>2. CASE Next
  BY <1>2, AcquireInv, IntrOffInv, CountInv, SwapInv, NoteInv, ReleaseInv, UnlockInv, PopOffInv,
     InterruptInv, SretInv, Zenon DEF Next, Progress
<1>3. QED
  BY <1>1, <1>2, Zenon

\* The invariant holds in every reachable state.
LEMMA SpinlockInv == Spec => []Inv
  BY InitInv, NextInv, PTL DEF Spec

-----------------------------------------------------------------------------
(***************************************************************************)
(* acquire() and release() exclude: at most one context, CPU or handler,   *)
(* owns a lock, lk->locked says so, and none of the panics of spinlock.c   *)
(* is reached, for any number of CPUs and of locks taken in order.         *)
(***************************************************************************)
THEOREM SpinlockExcludes == Spec => []MutualExclusion
<1>1. Inv => MutualExclusion
  BY Zenon DEF Inv, MutualExclusion, LockOK
<1>2. QED
  BY <1>1, SpinlockInv, PTL

\* The account of push_off() and pop_off(), and what it means for a handler.
LEMMA InvHandler == Inv => HandlerFindsNoLockHeld
<1> SUFFICES ASSUME Inv, NEW c \in CPUs
             PROVE  /\ inintr[c] => \A l \in Locks : ~Owns(Code(c), l)
                    /\ noff[c] = OffCount(Code(c)) + OffCount(Intr(c))
                    /\ (~inintr[c] /\ noff[c] = 0 /\ pc[Code(c)] # "count") => ie[c]
  BY Zenon DEF HandlerFindsNoLockHeld, InterruptsMatched, Code, Intr
<1>1. QED
  BY CtxFacts, Zenon DEF Inv, CpuOK, Counted, Owns

(***************************************************************************)
(* push_off() and pop_off(): interrupt handlers run only on CPUs whose     *)
(* code owns no lock, and interrupts come back when the last lock of the   *)
(* code is released, for any number of CPUs and of locks.                  *)
(***************************************************************************)
THEOREM SpinlockHandlerSafe == Spec => []HandlerFindsNoLockHeld
  BY InvHandler, SpinlockInv, PTL

\* A set of locks that is not empty has a highest one.
LEMMA HighestLock ==
  ASSUME NEW T, T \subseteq Locks, T # {}
  PROVE  \E m \in T : \A k \in T : k <= m
<1> DEFINE D == {NLocks - k : k \in T}
<1>1. D \subseteq Nat /\ D # {}
  <2>1. \A k \in T : k \in Nat /\ NLocks - k \in Nat
    BY SpinlockAssumption DEF Locks
  <2>2. D # {}
    OBVIOUS
  <2>3. QED
    BY <2>1, <2>2, Zenon
<1>2. PICK d \in D : \A e \in D : <<e, d>> \notin OpToRel(<, Nat)
  BY <1>1, WFMin, NatLessThanWellFounded, Zenon
<1>3. \A e \in D : ~(e < d)
  BY <1>1, <1>2, Zenon DEF OpToRel
<1>4. PICK m \in T : d = NLocks - m
  OBVIOUS
<1>5. ASSUME NEW k \in T PROVE k <= m
  <2>1. ~(NLocks - k < NLocks - m)
    BY <1>3, <1>4, Zenon
  <2>2. k \in Nat /\ m \in Nat /\ NLocks \in Nat
    BY SpinlockAssumption DEF Locks
  <2>3. QED
    BY <2>1, <2>2
<1>6. QED
  BY <1>5, Zenon

(***************************************************************************)
(* Of the contexts of S that spin, one spins on the highest lock: its      *)
(* owner neither spins, for it would spin on a higher one, nor is          *)
(* interrupted, for then it would own nothing.                             *)
(***************************************************************************)
LEMMA InvNoCycle == Inv => NoWaitCycle
<1> SUFFICES ASSUME Inv, NEW S \in SUBSET Ctx, S # {}, \A x \in S : WaitsFor(x, S)
             PROVE  FALSE
  BY Zenon DEF NoWaitCycle
<1> USE CtxFacts
<1> DEFINE T == {lk[x] : x \in {y \in S : pc[y] = "swap"}}
<1>1. ASSUME NEW x \in S, x[2] = "intr" PROVE pc[x] = "swap"
  BY <1>1, Zenon DEF WaitsFor
<1>2. \E x \in S : pc[x] = "swap"
  <2>1. PICK x \in S : TRUE
    OBVIOUS
  <2>2. CASE pc[x] = "swap"
    BY <2>2, Zenon
  <2>3. CASE pc[x] # "swap"
    <3>1. <<x[1], "intr">> \in S
      BY <2>3, Zenon DEF WaitsFor
    <3>2. <<x[1], "intr">>[2] = "intr"
      OBVIOUS
    <3>3. QED
      BY <1>1, <3>1, <3>2, Zenon
  <2>4. QED
    BY <2>2, <2>3, Zenon
<1>3. T \subseteq Locks /\ T # {}
  BY <1>2 DEF Inv, LocalsOK, Acquiring
<1>4. PICK m \in T : \A k \in T : k <= m
  BY <1>3, HighestLock, Zenon
<1>5. PICK x \in S : pc[x] = "swap" /\ lk[x] = m
  OBVIOUS
<1>6. PICK y \in S : Owns(y, m)
  <2>1. x[2] = "code" => ~inintr[x[1]]
    <3>1. CpuOK(x[1]) /\ (x[2] = "code" => x = Code(x[1]))
      BY Zenon DEF Inv
    <3>2. QED
      BY <1>5, <3>1, Zenon DEF CpuOK
  <2>2. QED
    BY <1>5, <2>1, Zenon DEF WaitsFor
<1>7. ~(y[2] = "code" /\ inintr[y[1]])
  BY <1>3, <1>6 DEF Inv, CpuOK, Owns
<1>8. pc[y] = "swap"
  BY <1>7, Zenon DEF WaitsFor
<1>9. m \in held[y] /\ m < lk[y]
  BY <1>6, <1>8, Zenon DEF Owns, Inv, LocalsOK, Acquiring
<1>10. lk[y] \in T
  BY <1>8, Zenon
<1>11. lk[y] <= m /\ lk[y] \in Nat /\ m \in Nat
  <2>1. lk[y] <= m
    BY <1>4, <1>10, Zenon
  <2>2. lk[y] \in Locks /\ m \in Locks
    BY <1>3, <1>10, Zenon
  <2>3. QED
    BY <2>1, <2>2, SpinlockAssumption DEF Locks
<1>12. QED
  BY <1>9, <1>11

(***************************************************************************)
(* No deadlock in acquire(), for any number of CPUs and of locks: among    *)
(* contexts that take locks in order there is always one that can go on.   *)
(***************************************************************************)
THEOREM SpinlockNoDeadlock == Spec => []NoWaitCycle
  BY InvNoCycle, SpinlockInv, PTL
=============================================================================
