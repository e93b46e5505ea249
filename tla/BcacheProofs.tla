---------------------------- MODULE BcacheProofs ----------------------------
(***************************************************************************)
(* kernel/bio.c, for any processes, blocks, contents and number of buffers *)
(* that the processes and the log's pins fit into: there is one buffer per *)
(* block, and the cache implements LockedBlocks.  The invariant adds to    *)
(* the exact reference counts who holds each lock and that contents which  *)
(* differ from the disk are pinned or still in use, so that a buffer that  *)
(* bget() recycles loses nothing.                                          *)
(***************************************************************************)
EXTENDS Bcache, FiniteSetTheorems, WellFoundedInduction, TLAPS

\* The processes that use buffer b or wait for its lock.
Users(b) == {p \in Procs : mine[p] = b}

\* bget() makes no second buffer for a block.
OneInv == \A a, b \in Bufs : blockno[a] = blockno[b] /\ blockno[a] # None => a = b

\* b->refcnt is exact.
RefInv == \A b \in Bufs : refcnt[b] = Cardinality(Users(b)) + (IF blockno[b] \in pinned THEN 1 ELSE 0)

\* The log pins few blocks, and those are in the cache.
PinInv ==
  /\ IsFiniteSet(pinned) /\ Cardinality(pinned) <= MaxPins
  /\ \A n \in pinned : \E b \in Bufs : blockno[b] = n /\ valid[b]

\* b->lock is held from acquiresleep() to releasesleep().
UserInv ==
  /\ \A p \in Procs : pc[p] = "idle" <=> mine[p] = None
  /\ \A p \in Procs : mine[p] # None => blockno[mine[p]] # None
  /\ \A p \in Procs, b \in Bufs : lock[b] = p <=> mine[p] = b /\ pc[p] \in {"read", "use"}
  /\ \A p \in Procs : pc[p] = "use" => valid[mine[p]]

\* A valid buffer that differs from the disk is pinned, or its user knows.
CleanInv ==
  /\ \A b \in Bufs : valid[b] => blockno[b] # None /\ data[b] # None
  /\ \A b \in Bufs : valid[b] /\ blockno[b] \notin pinned /\ data[b] # disk[blockno[b]] =>
       \E p \in Procs : mine[p] = b /\ pc[p] = "use" /\ dirty[p]

Inv == TypeOK /\ OneInv /\ RefInv /\ PinInv /\ UserInv /\ CleanInv

-----------------------------------------------------------------------------
\* What the sizes of the cache are assumed to be.
LEMMA Numbers ==
  /\ NBUF \in Nat \ {0} /\ MaxPins \in Nat /\ IsFiniteSet(Procs) /\ Cardinality(Procs) \in Nat
  /\ Cardinality(Procs) + MaxPins <= NBUF
  /\ None \notin Bufs /\ None \notin Procs /\ None \notin Blocks /\ None \notin Vals
<1>1. Cardinality(Procs) \in Nat
  BY BcacheAssumption, FS_CardinalityType, Zenon
<1>2. QED
  BY <1>1, BcacheAssumption DEF Bufs

\* The users of a buffer can be counted.
LEMMA UsersFinite ==
  ASSUME NEW b
  PROVE  IsFiniteSet(Users(b)) /\ Cardinality(Users(b)) \in Nat
<1>1. IsFiniteSet(Procs) /\ Users(b) \in SUBSET Procs
  BY Numbers, Zenon DEF Users
<1>2. IsFiniteSet(Users(b))
  BY <1>1, FS_Subset, Zenon
<1>3. QED
  BY <1>2, FS_CardinalityType, Zenon

\* The one that bget() gives a buffer to ...
LEMMA UsersGain ==
  ASSUME Inv, NEW p \in Procs, NEW b \in Bufs, mine[p] = None, mine' = [mine EXCEPT ![p] = b]
  PROVE  \A a \in Bufs : Cardinality(Users(a))' = Cardinality(Users(a)) + (IF a = b THEN 1 ELSE 0)
<1> SUFFICES ASSUME NEW a \in Bufs
             PROVE  Cardinality(Users(a))' = Cardinality(Users(a)) + (IF a = b THEN 1 ELSE 0)
  OBVIOUS
<1>1. mine \in [Procs -> Bufs \cup {None}] /\ None \notin Bufs
  BY Numbers, Zenon DEF Inv, TypeOK
<1>2. \A q \in Procs : mine'[q] = IF q = p THEN b ELSE mine[q]
  BY <1>1, Zenon
<1>3. CASE a = b
  <2>1. Users(b)' = Users(b) \cup {p} /\ p \notin Users(b)
    BY <1>1, <1>2, Zenon DEF Users
  <2>2. Cardinality(Users(b) \cup {p}) = Cardinality(Users(b)) + 1
    BY <2>1, UsersFinite, FS_AddElement, Zenon
  <2>3. QED
    BY <1>3, <2>1, <2>2, Zenon
<1>4. CASE a # b
  <2>1. Users(a)' = Users(a)
    BY <1>1, <1>2, <1>4, Zenon DEF Users
  <2>2. QED
    BY <1>4, <2>1, UsersFinite
<1>5. QED
  BY <1>3, <1>4, Zenon

\* ... and the one that brelse() takes it from.
LEMMA UsersLose ==
  ASSUME Inv, NEW p \in Procs, NEW b \in Bufs, mine[p] = b, mine' = [mine EXCEPT ![p] = None]
  PROVE  /\ \A a \in Bufs : Cardinality(Users(a))' = Cardinality(Users(a)) - (IF a = b THEN 1 ELSE 0)
         /\ Cardinality(Users(b)) >= 1
<1>1. mine \in [Procs -> Bufs \cup {None}] /\ None \notin Bufs
  BY Numbers, Zenon DEF Inv, TypeOK
<1>2. \A q \in Procs : mine'[q] = IF q = p THEN None ELSE mine[q]
  BY <1>1, Zenon
<1>3. Cardinality(Users(b))' = Cardinality(Users(b)) - 1 /\ Cardinality(Users(b)) >= 1
  <2>1. Users(b)' = Users(b) \ {p} /\ p \in Users(b)
    BY <1>1, <1>2, Zenon DEF Users
  <2>2. Cardinality(Users(b) \ {p}) = Cardinality(Users(b)) - 1 /\ IsFiniteSet(Users(b) \ {p})
    BY <2>1, UsersFinite, FS_RemoveElement, Zenon
  <2>3. Cardinality(Users(b) \ {p}) \in Nat
    BY <2>2, FS_CardinalityType, Zenon
  <2>4. QED
    BY <2>1, <2>2, <2>3, UsersFinite
<1>4. ASSUME NEW a \in Bufs, a # b
      PROVE  Cardinality(Users(a))' = Cardinality(Users(a))
  <2>1. Users(a)' = Users(a)
    BY <1>1, <1>2, <1>4, Zenon DEF Users
  <2>2. QED
    BY <2>1, Zenon
<1>5. QED
  BY <1>3, <1>4, UsersFinite

\* bget() takes a buffer that has the block, if there is one ...
LEMMA HitBuf ==
  ASSUME Inv, NEW n \in Blocks, Cached(n) # {}
  PROVE  lru[CHOOSE k \in Bufs : /\ lru[k] \in Cached(n)
                                 /\ \A m \in 1..(k - 1) : lru[m] \notin Cached(n)] \in Cached(n)
<1> DEFINE S == {k \in Bufs : lru[k] \in Cached(n)}
<1>1. S # {} /\ S \in SUBSET Nat
  <2>1. PICK b \in Bufs : b \in Cached(n)
    BY Zenon DEF Cached
  <2>2. PICK k \in Bufs : lru[k] = b
    BY Zenon DEF Inv, TypeOK
  <2>3. S \in SUBSET Nat
    BY Numbers DEF Bufs
  <2>4. QED
    BY <2>1, <2>2, <2>3, Zenon
<1>2. \E k \in S : \A m \in S : <<m, k>> \notin OpToRel(<, Nat)
  BY <1>1, NatLessThanWellFounded, WFMin, Zenon
<1>3. PICK k \in S : \A m \in S : ~(m < k)
  BY <1>1, <1>2, Zenon DEF OpToRel
<1>4. k \in Bufs /\ lru[k] \in Cached(n) /\ \A m \in 1..(k - 1) : lru[m] \notin Cached(n)
  BY <1>3, Numbers DEF Bufs
<1>5. QED
  BY <1>4, Zenon

\* ... else an unused one.
LEMMA MissBuf ==
  ASSUME Inv, Unused # {}
  PROVE  /\ lru[CHOOSE k \in Unused : \A m \in Unused : m <= k] \in Bufs
         /\ refcnt[lru[CHOOSE k \in Unused : \A m \in Unused : m <= k]] = 0
<1> DEFINE S == {NBUF - k : k \in Unused}
<1>1. S # {} /\ S \in SUBSET Nat
  BY Numbers DEF Unused, Bufs
<1>2. \E d \in S : \A m \in S : <<m, d>> \notin OpToRel(<, Nat)
  BY <1>1, NatLessThanWellFounded, WFMin, Zenon
<1>3. PICK d \in S : \A m \in S : ~(m < d)
  BY <1>1, <1>2, Zenon DEF OpToRel
<1>4. PICK k \in Unused : d = NBUF - k
  BY <1>3, Zenon
<1>5. \A m \in Unused : m <= k
  BY <1>3, <1>4, Numbers DEF Unused, Bufs
<1>6. (CHOOSE l \in Unused : \A m \in Unused : m <= l) \in Unused
  BY <1>4, <1>5, Zenon
<1>7. QED
  BY <1>6, Zenon DEF Unused, Inv, TypeOK

\* "bget: no buffers" is not reached: a buffer that is in use has a process that
\* uses it or a block that is pinned, and they are fewer than the buffers.
LEMMA AlwaysUnused ==
  ASSUME Inv, NEW p \in Procs, pc[p] = "idle"
  PROVE  Unused # {}
<1> SUFFICES ASSUME Unused = {} PROVE FALSE
  OBVIOUS
<1> DEFINE A == {b \in Bufs : \E q \in Procs : mine[q] = b}
           B == {b \in Bufs : blockno[b] \in pinned}
           P == Procs \ {p}
           f == [b \in A |-> CHOOSE q \in Procs : mine[q] = b]
           g == [b \in B |-> blockno[b]]
<1>1. \A b \in Bufs : refcnt[b] # 0
  BY DEF Inv, TypeOK, Unused
<1>2. ASSUME NEW b \in Bufs PROVE b \in A \cup B
  <2>1. CASE b \in A
    BY <2>1, Zenon
  <2>2. CASE b \notin A
    <3>1. Users(b) = {}
      BY <2>2, Zenon DEF Users
    <3>2. Cardinality(Users(b)) = 0
      BY <3>1, FS_EmptySet, Zenon
    <3>3. blockno[b] \in pinned
      BY <1>1, <3>2 DEF Inv, RefInv
    <3>4. QED
      BY <3>3, Zenon
  <2>3. QED
    BY <2>1, <2>2, Zenon
<1>3. mine[p] \notin Bufs
  BY Numbers DEF Inv, UserInv
<1>4. f \in Injection(A, P)
  <2>1. \A b \in A : f[b] \in Procs /\ mine[f[b]] = b
    OBVIOUS
  <2>2. f \in [A -> P]
    BY <1>3, <2>1
  <2>3. \A a, b \in A : f[a] = f[b] => a = b
    BY <2>1, Zenon
  <2>4. QED
    BY <2>2, <2>3, Zenon DEF Injection, IsInjective
<1>5. IsFiniteSet(P) /\ Cardinality(P) = Cardinality(Procs) - 1
  BY Numbers, FS_RemoveElement, Zenon
<1>6. IsFiniteSet(A) /\ Cardinality(A) <= Cardinality(P)
  BY <1>4, <1>5, FS_Injection, Zenon
<1>7. g \in Injection(B, pinned)
  <2>1. g \in [B -> pinned]
    OBVIOUS
  <2>2. \A a, b \in B : g[a] = g[b] => a = b
    BY Numbers, Zenon DEF Inv, OneInv, TypeOK
  <2>3. QED
    BY <2>1, <2>2, Zenon DEF Injection, IsInjective
<1>8. IsFiniteSet(B) /\ Cardinality(B) <= Cardinality(pinned)
  BY <1>7, FS_Injection, Zenon DEF Inv, PinInv
<1>9. IsFiniteSet(Bufs) /\ Cardinality(Bufs) = NBUF
  BY Numbers, FS_Interval DEF Bufs
<1>10. Bufs = A \cup B
  BY <1>2, Zenon
<1> HIDE DEF A, B, P
<1>11. Cardinality(A \cup B) = Cardinality(A) + Cardinality(B) - Cardinality(A \cap B)
  BY <1>6, <1>8, FS_Union, Zenon
<1>12. IsFiniteSet(A \cap B) /\ A \cap B \in SUBSET A
  BY <1>6, FS_Subset, Zenon
<1>13. /\ Cardinality(A \cap B) \in Nat /\ Cardinality(A) \in Nat /\ Cardinality(B) \in Nat
       /\ Cardinality(pinned) \in Nat /\ Cardinality(pinned) <= MaxPins
  BY <1>6, <1>8, <1>12, FS_CardinalityType, Zenon DEF Inv, PinInv
<1>14. QED
  BY <1>5, <1>6, <1>8, <1>9, <1>10, <1>11, <1>13, Numbers

-----------------------------------------------------------------------------
(* Every step keeps the invariant.                                         *)

\* binit()
LEMMA InitInv == Init => Inv
<1> SUFFICES ASSUME Init PROVE Inv
  OBVIOUS
<1>1. TypeOK
  <2>1. lru \in [Bufs -> Bufs]
    BY Numbers DEF Init, Bufs
  <2>2. ASSUME NEW b \in Bufs PROVE \E k \in Bufs : lru[k] = b
    <3>1. NBUF + 1 - b \in Bufs /\ lru[NBUF + 1 - b] = b
      BY Numbers DEF Init, Bufs
    <3>2. QED
      BY <3>1, Zenon
  <2>3. {lru[k] : k \in Bufs} = Bufs
    BY <2>1, <2>2, Zenon
  <2>4. QED
    BY <2>1, <2>3, Zenon DEF Init, TypeOK
<1>2. \A b \in Bufs : Users(b) = {}
  BY Numbers, Zenon DEF Init, Users
<1>3. RefInv /\ PinInv
  BY <1>2, FS_EmptySet, Numbers DEF RefInv, PinInv, Init
<1>4. OneInv /\ UserInv /\ CleanInv
  BY Numbers, Zenon DEF Init, OneInv, UserInv, CleanInv
<1>5. QED
  BY <1>1, <1>3, <1>4, Zenon DEF Inv

\* Steps that change neither the counts nor the assignment of the buffers.
LEMMA SameUsers ==
  ASSUME Inv, UNCHANGED <<blockno, refcnt, mine, pinned>>
  PROVE  OneInv' /\ RefInv'
<1>1. \A b \in Bufs : Users(b)' = Users(b)
  BY Zenon DEF Users
<1>2. QED
  BY <1>1, Zenon DEF Inv, OneInv, RefInv

\* The buffer of a process outside brelse() and bget().
LEMMA Mine ==
  ASSUME Inv, NEW p \in Procs, pc[p] # "idle"
  PROVE  /\ mine[p] \in Bufs /\ blockno[mine[p]] \in Blocks
         /\ pc[p] \in {"read", "use"} => lock[mine[p]] = p
         /\ pc[p] = "use" => valid[mine[p]]
         /\ \A q \in Procs : pc[q] \in {"read", "use"} /\ mine[q] = mine[p] /\ pc[p] \in {"read", "use"} => q = p
<1>1. mine[p] # None /\ mine[p] \in Bufs \cup {None}
  BY Zenon DEF Inv, UserInv, TypeOK
<1>2. mine[p] \in Bufs /\ blockno[mine[p]] \in Blocks
  BY <1>1 DEF Inv, UserInv, TypeOK
<1>3. QED
  BY <1>2 DEF Inv, UserInv

\* acquiresleep(&b->lock)
LEMMA LockStep ==
  ASSUME Inv, NEW p \in Procs, Lock(p)
  PROVE  Inv'
<1>b. PICK b \in Bufs : b = mine[p] /\ lock[b] = None
  BY Mine, Zenon DEF Lock
<1>1. /\ lock' = [lock EXCEPT ![b] = p] /\ pc' = [pc EXCEPT ![p] = "read"] /\ pc[p] = "lock"
      /\ UNCHANGED <<lru, blockno, refcnt, valid, data, disk, pinned, mine, dirty>>
  BY <1>b, Zenon DEF Lock, bufs
<1>2. TypeOK'
  BY <1>1 DEF Inv, TypeOK
<1>3. /\ \A a \in Bufs : lock'[a] = IF a = b THEN p ELSE lock[a]
      /\ \A q \in Procs : pc'[q] = IF q = p THEN "read" ELSE pc[q]
  BY <1>1, Zenon DEF Inv, TypeOK
<1>4. OneInv' /\ RefInv'
  BY <1>1, SameUsers, Zenon
<1>5. PinInv'
  BY <1>1, Zenon DEF Inv, PinInv
<1>6. UserInv'
  BY <1>b, <1>1, <1>3, Numbers DEF Inv, UserInv
<1>7. CleanInv'
  BY <1>1, <1>3 DEF Inv, CleanInv
<1>8. QED
  BY <1>2, <1>4, <1>5, <1>6, <1>7, Zenon DEF Inv

\* The rest of bread().
LEMMA ReadStep ==
  ASSUME Inv, NEW p \in Procs, Read(p)
  PROVE  Inv'
<1>b. PICK b \in Bufs : b = mine[p] /\ blockno[b] \in Blocks
  BY Mine, Zenon DEF Read
<1>1. /\ data' = IF valid[b] THEN data ELSE [data EXCEPT ![b] = disk[blockno[b]]]
      /\ valid' = [valid EXCEPT ![b] = TRUE]
      /\ pc' = [pc EXCEPT ![p] = "use"] /\ pc[p] = "read"
      /\ UNCHANGED <<lru, blockno, refcnt, lock, disk, pinned, mine, dirty>>
  BY <1>b, Zenon DEF Read
<1>2. disk[blockno[b]] \in Vals /\ disk[blockno[b]] # None
  BY <1>b, Numbers DEF Inv, TypeOK
<1>3. TypeOK'
  BY <1>1, <1>2 DEF Inv, TypeOK
<1>4. /\ \A a \in Bufs : /\ data'[a] = IF a = b /\ ~valid[b] THEN disk[blockno[b]] ELSE data[a]
                         /\ valid'[a] <=> a = b \/ valid[a]
      /\ \A q \in Procs : pc'[q] = IF q = p THEN "use" ELSE pc[q]
  BY <1>1, Zenon DEF Inv, TypeOK
<1>5. OneInv' /\ RefInv'
  BY <1>1, SameUsers, Zenon
<1>6. PinInv'
  BY <1>1, <1>4, Zenon DEF Inv, PinInv
<1>7. UserInv'
  BY <1>b, <1>1, <1>4, Numbers DEF Inv, UserInv, TypeOK
<1>8. CleanInv'
  BY <1>b, <1>1, <1>2, <1>4, Numbers DEF Inv, CleanInv
<1>9. QED
  BY <1>3, <1>5, <1>6, <1>7, <1>8, Zenon DEF Inv

\* The owner of a locked buffer changes b->data.
LEMMA ModifyStep ==
  ASSUME Inv, NEW p \in Procs, NEW v \in Vals, Modify(p, v)
  PROVE  Inv'
<1>b. PICK b \in Bufs : b = mine[p]
  BY Mine, Zenon DEF Modify
<1>1. /\ data' = [data EXCEPT ![b] = v] /\ dirty' = [dirty EXCEPT ![p] = TRUE] /\ pc[p] = "use"
      /\ UNCHANGED <<lru, blockno, refcnt, valid, lock, disk, pinned, pc, mine>>
  BY <1>b, Zenon DEF Modify
<1>2. TypeOK'
  BY <1>1 DEF Inv, TypeOK
<1>3. /\ \A a \in Bufs : data'[a] = IF a = b THEN v ELSE data[a]
      /\ \A q \in Procs : dirty'[q] <=> q = p \/ dirty[q]
  BY <1>1, Zenon DEF Inv, TypeOK
<1>4. OneInv' /\ RefInv'
  BY <1>1, SameUsers, Zenon
<1>5. PinInv' /\ UserInv'
  BY <1>1, Zenon DEF Inv, PinInv, UserInv
<1>6. CleanInv'
  BY <1>b, <1>1, <1>3, Numbers DEF Inv, CleanInv
<1>7. QED
  BY <1>2, <1>4, <1>5, <1>6, Zenon DEF Inv

\* The buffer of p goes to the disk: the others have other blocks.
LEMMA Written ==
  ASSUME Inv, NEW p \in Procs, pc[p] = "use", NEW b \in Bufs, b = mine[p],
         disk' = [disk EXCEPT ![blockno[b]] = data[b]]
  PROVE  /\ disk' \in [Blocks -> Vals]
         /\ \A n \in Blocks : disk'[n] = IF n = blockno[b] THEN data[b] ELSE disk[n]
         /\ \A a \in Bufs : valid[a] /\ a # b => disk'[blockno[a]] = disk[blockno[a]]
         /\ data[b] \in Vals /\ valid[b] /\ blockno[b] \in Blocks
<1>1. data[b] \in Vals /\ valid[b] /\ blockno[b] \in Blocks
  BY Mine DEF Inv, TypeOK, CleanInv
<1>2. disk \in [Blocks -> Vals]
  BY Zenon DEF Inv, TypeOK
<1>3. \A n \in Blocks : disk'[n] = IF n = blockno[b] THEN data[b] ELSE disk[n]
  BY <1>2, Zenon
<1>4. \A a \in Bufs : valid[a] => blockno[a] \in Blocks
  BY DEF Inv, TypeOK, CleanInv
<1>5. \A a \in Bufs : a # b => blockno[a] # blockno[b]
  BY <1>1, Numbers, Zenon DEF Inv, OneInv
<1>6. QED
  BY <1>1, <1>2, <1>3, <1>4, <1>5, Zenon

\* bwrite()
LEMMA BwriteStep ==
  ASSUME Inv, NEW p \in Procs, Bwrite(p)
  PROVE  Inv'
<1>b. PICK b \in Bufs : b = mine[p]
  BY Mine, Zenon DEF Bwrite
<1>1. /\ disk' = [disk EXCEPT ![blockno[b]] = data[b]] /\ dirty' = [dirty EXCEPT ![p] = FALSE] /\ pc[p] = "use"
      /\ UNCHANGED <<lru, blockno, refcnt, valid, data, lock, pinned, pc, mine>>
  BY <1>b, Zenon DEF Bwrite, bufs
<1>2. /\ disk' \in [Blocks -> Vals] /\ disk'[blockno[b]] = data[b]
      /\ \A a \in Bufs : valid[a] /\ a # b => disk'[blockno[a]] = disk[blockno[a]]
  BY <1>b, <1>1, Written, Zenon
<1>3. TypeOK'
  BY <1>1, <1>2 DEF Inv, TypeOK
<1>4. \A q \in Procs : dirty'[q] <=> q # p /\ dirty[q]
  BY <1>1, Zenon DEF Inv, TypeOK
<1>5. OneInv' /\ RefInv'
  BY <1>1, SameUsers, Zenon
<1>6. PinInv' /\ UserInv'
  BY <1>1, Zenon DEF Inv, PinInv, UserInv
<1>7. CleanInv'
  BY <1>b, <1>1, <1>2, <1>4 DEF Inv, CleanInv
<1>8. QED
  BY <1>3, <1>5, <1>6, <1>7, Zenon DEF Inv

\* brelse() up to acquire(&bcache.lock): a changed buffer has been pinned.
LEMMA BrelseUnlockStep ==
  ASSUME Inv, NEW p \in Procs, BrelseUnlock(p)
  PROVE  Inv'
<1>b. PICK b \in Bufs : b = mine[p] /\ lock[b] = p
  BY Mine, Zenon DEF BrelseUnlock
<1>1. /\ dirty[p] => blockno[b] \in pinned
      /\ lock' = [lock EXCEPT ![b] = None] /\ dirty' = [dirty EXCEPT ![p] = FALSE]
      /\ pc' = [pc EXCEPT ![p] = "brelse"] /\ pc[p] = "use"
      /\ UNCHANGED <<lru, blockno, refcnt, valid, data, disk, pinned, mine>>
  BY <1>b, Zenon DEF BrelseUnlock, bufs
<1>2. TypeOK'
  BY <1>1 DEF Inv, TypeOK
<1>3. /\ \A a \in Bufs : lock'[a] = IF a = b THEN None ELSE lock[a]
      /\ \A q \in Procs : pc'[q] = IF q = p THEN "brelse" ELSE pc[q]
      /\ \A q \in Procs : dirty'[q] <=> q # p /\ dirty[q]
  BY <1>1, Zenon DEF Inv, TypeOK
<1>4. OneInv' /\ RefInv'
  BY <1>1, SameUsers, Zenon
<1>5. PinInv'
  BY <1>1, Zenon DEF Inv, PinInv
<1>6. UserInv'
  BY <1>b, <1>1, <1>3, Numbers DEF Inv, UserInv
<1>7. CleanInv'
  BY <1>b, <1>1, <1>3 DEF Inv, CleanInv
<1>8. QED
  BY <1>2, <1>4, <1>5, <1>6, <1>7, Zenon DEF Inv

\* log_write() of a block that is new to the log.
LEMMA BpinStep ==
  ASSUME Inv, NEW p \in Procs, Bpin(p)
  PROVE  Inv'
<1>b. PICK b \in Bufs : b = mine[p] /\ blockno[b] \in Blocks
  BY Mine, Zenon DEF Bpin
<1>n. PICK n \in Blocks : n = blockno[b]
  BY <1>b, Zenon
<1>1. /\ n \notin pinned /\ Cardinality(pinned) < MaxPins /\ pc[p] = "use" /\ valid[b]
      /\ refcnt' = [refcnt EXCEPT ![b] = @ + 1] /\ pinned' = pinned \cup {n}
      /\ dirty' = [dirty EXCEPT ![p] = FALSE]
      /\ UNCHANGED <<lru, blockno, valid, data, lock, disk, pc, mine>>
  BY <1>b, <1>n, Mine, Zenon DEF Bpin
<1>2. TypeOK'
  BY <1>1 DEF Inv, TypeOK
<1>3. /\ \A a \in Bufs : refcnt'[a] = IF a = b THEN refcnt[a] + 1 ELSE refcnt[a]
      /\ \A q \in Procs : dirty'[q] <=> q # p /\ dirty[q]
  BY <1>1, Zenon DEF Inv, TypeOK
<1>4. \A a \in Bufs : a # b => blockno[a] # n
  BY <1>n, Numbers, Zenon DEF Inv, OneInv
<1>5. OneInv'
  BY <1>1, Zenon DEF Inv, OneInv
<1>6. RefInv'
  <2>1. \A a \in Bufs : Users(a)' = Users(a)
    BY <1>1, Zenon DEF Users
  <2>2. \A a \in Bufs : Cardinality(Users(a)) \in Nat
    BY UsersFinite, Zenon
  <2>3. \A a \in Bufs : blockno'[a] \in pinned' <=> a = b \/ blockno[a] \in pinned
    BY <1>n, <1>1, <1>4, Zenon
  <2>4. \A a \in Bufs : refcnt'[a] = Cardinality(Users(a)) + (IF blockno'[a] \in pinned' THEN 1 ELSE 0)
    BY <1>n, <1>1, <1>3, <2>2, <2>3 DEF Inv, RefInv
  <2>5. QED
    BY <2>1, <2>4, Zenon DEF RefInv
<1>7. PinInv'
  <2>1. IsFiniteSet(pinned) /\ Cardinality(pinned) <= MaxPins
    BY Zenon DEF Inv, PinInv
  <2>2. Cardinality(pinned) \in Nat
    BY <2>1, FS_CardinalityType, Zenon
  <2>3. IsFiniteSet(pinned') /\ Cardinality(pinned') = Cardinality(pinned) + 1
    BY <1>1, <2>1, FS_AddElement, Zenon
  <2>4. \A m \in pinned' : \E a \in Bufs : blockno'[a] = m /\ valid'[a]
    BY <1>n, <1>1, Zenon DEF Inv, PinInv
  <2>5. QED
    BY <1>1, <2>2, <2>3, <2>4, Numbers DEF PinInv
<1>8. UserInv'
  BY <1>1 DEF Inv, UserInv
<1>9. CleanInv'
  BY <1>b, <1>n, <1>1, <1>3 DEF Inv, CleanInv
<1>10. QED
  BY <1>2, <1>5, <1>6, <1>7, <1>8, <1>9, Zenon DEF Inv

\* install_trans(): bwrite(dbuf), bunpin(dbuf).
LEMMA BunpinStep ==
  ASSUME Inv, NEW p \in Procs, Bunpin(p)
  PROVE  Inv'
<1>b. PICK b \in Bufs : b = mine[p] /\ blockno[b] \in Blocks
  BY Mine, Zenon DEF Bunpin
<1>n. PICK n \in Blocks : n = blockno[b]
  BY <1>b, Zenon
<1>1. /\ n \in pinned /\ pc[p] = "use"
      /\ refcnt' = [refcnt EXCEPT ![b] = @ - 1] /\ pinned' = pinned \ {n}
      /\ dirty' = [dirty EXCEPT ![p] = FALSE]
      /\ UNCHANGED <<lru, blockno, valid, data, lock, pc, mine>>
  BY <1>b, <1>n, Zenon DEF Bunpin
<1>2. disk' = [disk EXCEPT ![blockno[b]] = data[b]]
  BY <1>b, Zenon DEF Bunpin
<1>3. /\ disk' \in [Blocks -> Vals] /\ disk'[blockno[b]] = data[b]
      /\ \A a \in Bufs : valid[a] /\ a # b => disk'[blockno[a]] = disk[blockno[a]]
  BY <1>b, <1>1, <1>2, Written, Zenon
<1>4. \A a \in Bufs : a # b => blockno[a] # n
  BY <1>n, Numbers, Zenon DEF Inv, OneInv
<1>5. \A a \in Bufs : Cardinality(Users(a)) \in Nat
  BY UsersFinite, Zenon
<1>6. \A a \in Bufs : refcnt'[a] = IF a = b THEN refcnt[a] - 1 ELSE refcnt[a]
  BY <1>1, Zenon DEF Inv, TypeOK
<1>7. \A a \in Bufs : blockno'[a] \in pinned' <=> a # b /\ blockno[a] \in pinned
  BY <1>n, <1>1, <1>4, Zenon
<1>8. \A a \in Bufs : refcnt'[a] = Cardinality(Users(a)) + (IF blockno'[a] \in pinned' THEN 1 ELSE 0)
  BY <1>n, <1>1, <1>5, <1>6, <1>7 DEF Inv, RefInv, TypeOK
<1>9. TypeOK'
  <2>1. \A a \in Bufs : refcnt'[a] \in Nat
    BY <1>5, <1>8
  <2>2. refcnt' \in [Bufs -> Nat]
    BY <1>1, <2>1, Zenon DEF Inv, TypeOK
  <2>3. QED
    BY <1>1, <1>3, <2>2 DEF Inv, TypeOK
<1>10. \A q \in Procs : dirty'[q] <=> q # p /\ dirty[q]
  BY <1>1, Zenon DEF Inv, TypeOK
<1>11. OneInv'
  BY <1>1, Zenon DEF Inv, OneInv
<1>12. RefInv'
  <2>1. \A a \in Bufs : Users(a)' = Users(a)
    BY <1>1, Zenon DEF Users
  <2>2. QED
    BY <1>8, <2>1, Zenon DEF RefInv
<1>13. PinInv'
  <2>1. IsFiniteSet(pinned) /\ Cardinality(pinned) <= MaxPins
    BY Zenon DEF Inv, PinInv
  <2>2. Cardinality(pinned) \in Nat
    BY <2>1, FS_CardinalityType, Zenon
  <2>3. IsFiniteSet(pinned') /\ Cardinality(pinned') = Cardinality(pinned) - 1
    BY <1>1, <2>1, FS_RemoveElement, Zenon
  <2>4. \A m \in pinned' : \E a \in Bufs : blockno'[a] = m /\ valid'[a]
    BY <1>1, Zenon DEF Inv, PinInv
  <2>5. QED
    BY <2>1, <2>2, <2>3, <2>4, Numbers DEF PinInv
<1>14. UserInv'
  BY <1>1, Zenon DEF Inv, UserInv
<1>15. CleanInv'
  BY <1>b, <1>1, <1>3, <1>7, <1>10 DEF Inv, CleanInv
<1>16. QED
  BY <1>9, <1>11, <1>12, <1>13, <1>14, <1>15, Zenon DEF Inv

\* Moving a buffer to the front permutes the list.
LEMMA FrontPermutes ==
  ASSUME Inv, NEW b \in Bufs
  PROVE  ToFront(b) \in [Bufs -> Bufs] /\ {ToFront(b)[k] : k \in Bufs} = Bufs
<1>1. lru \in [Bufs -> Bufs] /\ \A a \in Bufs : \E k \in Bufs : lru[k] = a
  BY Zenon DEF Inv, TypeOK
<1>2. PICK at \in Bufs : at = (CHOOSE k \in Bufs : lru[k] = b) /\ lru[at] = b
  <2>1. \E k \in Bufs : lru[k] = b
    BY <1>1, Zenon
  <2>2. QED
    BY <2>1, Zenon
<1>f. PICK f : f = ToFront(b)
  OBVIOUS
<1>3. f = [k \in Bufs |-> IF k = 1 THEN b ELSE IF k <= at THEN lru[k - 1] ELSE lru[k]]
  BY <1>2, <1>f, Zenon DEF ToFront
<1>4. \A k \in Bufs : k # 1 => k - 1 \in Bufs
  BY Numbers DEF Bufs
<1>5. f \in [Bufs -> Bufs]
  BY <1>1, <1>3, <1>4, Zenon
<1>6. ASSUME NEW a \in Bufs PROVE \E k \in Bufs : f[k] = a
  <2>1. CASE a = b
    <3>1. 1 \in Bufs
      BY Numbers DEF Bufs
    <3>2. f[1] = a
      BY <1>3, <2>1, <3>1, Zenon
    <3>3. QED
      BY <3>1, <3>2, Zenon
  <2>2. CASE a # b
    <3>1. PICK k \in Bufs : lru[k] = a
      BY <1>1, Zenon
    <3>2. k # at
      BY <1>2, <2>2, <3>1, Zenon
    <3>3. CASE k < at
      <4>1. PICK j \in Bufs : j # 1 /\ j <= at /\ j - 1 = k
        <5>1. k + 1 \in Bufs /\ k + 1 # 1 /\ k + 1 <= at /\ (k + 1) - 1 = k
          BY <3>3, Numbers DEF Bufs
        <5>2. QED
          BY <5>1, Zenon
      <4>2. f[j] = lru[j - 1]
        BY <1>3, <4>1, Zenon
      <4>3. f[j] = a
        BY <3>1, <4>1, <4>2, Zenon
      <4>4. QED
        BY <4>3, Zenon
    <3>4. CASE ~(k < at)
      <4>1. k # 1 /\ ~(k <= at)
        BY <3>2, <3>4, Numbers DEF Bufs
      <4>2. f[k] = a
        BY <1>3, <3>1, <4>1, Zenon
      <4>3. QED
        BY <4>2, Zenon
    <3>5. QED
      BY <3>3, <3>4, Zenon
  <2>3. QED
    BY <2>1, <2>2, Zenon
<1>7. QED
  BY <1>f, <1>5, <1>6, Zenon

\* The rest of brelse().
LEMMA BrelseStep ==
  ASSUME Inv, NEW p \in Procs, Brelse(p)
  PROVE  Inv'
<1>b. PICK b \in Bufs : b = mine[p]
  BY Mine, Zenon DEF Brelse
<1>1. /\ pc[p] = "brelse" /\ refcnt' = [refcnt EXCEPT ![b] = @ - 1]
      /\ lru' = IF refcnt[b] = 1 THEN ToFront(b) ELSE lru
      /\ pc' = [pc EXCEPT ![p] = "idle"] /\ mine' = [mine EXCEPT ![p] = None]
      /\ UNCHANGED <<blockno, valid, data, lock, disk, pinned, dirty>>
  BY <1>b, Zenon DEF Brelse
<1>2. lru' \in [Bufs -> Bufs] /\ {lru'[k] : k \in Bufs} = Bufs
  <2>1. CASE refcnt[b] = 1
    <3>1. lru' = ToFront(b)
      BY <1>1, <2>1, Zenon
    <3>2. QED
      BY <3>1, FrontPermutes, Zenon
  <2>2. CASE refcnt[b] # 1
    <3>1. lru' = lru
      BY <1>1, <2>2, Zenon
    <3>2. QED
      BY <3>1, Zenon DEF Inv, TypeOK
  <2>3. QED
    BY <2>1, <2>2, Zenon
<1>3. /\ \A a \in Bufs : Cardinality(Users(a))' = Cardinality(Users(a)) - (IF a = b THEN 1 ELSE 0)
      /\ Cardinality(Users(b)) >= 1
  BY <1>b, <1>1, UsersLose, Zenon
<1>4. \A a \in Bufs : Cardinality(Users(a)) \in Nat
  BY UsersFinite, Zenon
<1>5. \A a \in Bufs : refcnt'[a] = IF a = b THEN refcnt[a] - 1 ELSE refcnt[a]
  BY <1>1, Zenon DEF Inv, TypeOK
<1>6. \A a \in Bufs : refcnt[a] \in Nat /\ refcnt[a] = Cardinality(Users(a)) + (IF blockno[a] \in pinned THEN 1 ELSE 0)
  BY Zenon DEF Inv, TypeOK, RefInv
<1>7. \A a \in Bufs : /\ refcnt'[a] \in Nat
                      /\ refcnt'[a] = Cardinality(Users(a))' + (IF blockno[a] \in pinned THEN 1 ELSE 0)
  BY <1>3, <1>4, <1>5, <1>6
<1>8. TypeOK'
  <2>1. refcnt' \in [Bufs -> Nat]
    BY <1>1, <1>7, Zenon DEF Inv, TypeOK
  <2>2. QED
    BY <1>1, <1>2, <2>1, Zenon DEF Inv, TypeOK
<1>9. /\ \A q \in Procs : pc'[q] = IF q = p THEN "idle" ELSE pc[q]
      /\ \A q \in Procs : mine'[q] = IF q = p THEN None ELSE mine[q]
  BY <1>1, Zenon DEF Inv, TypeOK
<1>10. OneInv' /\ PinInv'
  BY <1>1, Zenon DEF Inv, OneInv, PinInv
<1>11. RefInv'
  BY <1>1, <1>7, Zenon DEF RefInv
<1>12. UserInv'
  BY <1>b, <1>1, <1>9, Numbers DEF Inv, UserInv
<1>13. CleanInv'
  BY <1>1, <1>9 DEF Inv, CleanInv
<1>14. QED
  BY <1>8, <1>10, <1>11, <1>12, <1>13, Zenon DEF Inv

\* bget() of a block that is in the cache.
LEMMA BgetHitStep ==
  ASSUME Inv, NEW p \in Procs, NEW n \in Blocks, BgetHit(p, n)
  PROVE  Inv'
<1>b. PICK b \in Bufs : /\ blockno[b] = n
                        /\ refcnt' = [refcnt EXCEPT ![b] = @ + 1]
                        /\ mine' = [mine EXCEPT ![p] = b]
  BY HitBuf, Zenon DEF BgetHit, Cached
<1>1. /\ pc[p] = "idle" /\ pc' = [pc EXCEPT ![p] = "lock"]
      /\ UNCHANGED <<lru, blockno, valid, data, lock, disk, pinned, dirty>>
  BY Zenon DEF BgetHit
<1>2. TypeOK'
  BY <1>b, <1>1 DEF Inv, TypeOK
<1>3. /\ \A q \in Procs : pc'[q] = IF q = p THEN "lock" ELSE pc[q]
      /\ \A q \in Procs : mine'[q] = IF q = p THEN b ELSE mine[q]
      /\ \A a \in Bufs : refcnt'[a] = IF a = b THEN refcnt[a] + 1 ELSE refcnt[a]
  BY <1>b, <1>1, Zenon DEF Inv, TypeOK
<1>4. mine[p] = None
  BY <1>1, Zenon DEF Inv, UserInv
<1>5. RefInv'
  <2>1. \A a \in Bufs : Cardinality(Users(a))' = Cardinality(Users(a)) + (IF a = b THEN 1 ELSE 0)
    BY <1>b, <1>4, UsersGain, Zenon
  <2>2. \A a \in Bufs : Cardinality(Users(a)) \in Nat
    BY UsersFinite, Zenon
  <2>3. \A a \in Bufs : refcnt'[a] = Cardinality(Users(a))' + (IF blockno[a] \in pinned THEN 1 ELSE 0)
    BY <1>3, <2>1, <2>2 DEF Inv, RefInv
  <2>4. QED
    BY <1>1, <2>3, Zenon DEF RefInv
<1>6. OneInv' /\ PinInv'
  BY <1>1, Zenon DEF Inv, OneInv, PinInv
<1>7. UserInv'
  BY <1>b, <1>1, <1>3, <1>4, Numbers DEF Inv, UserInv
<1>8. CleanInv'
  BY <1>1, <1>3, <1>4, Numbers DEF Inv, CleanInv
<1>9. QED
  BY <1>2, <1>5, <1>6, <1>7, <1>8, Zenon DEF Inv

\* bget() recycles a buffer that nobody uses and the log has not pinned.
LEMMA Recycled ==
  ASSUME Inv, NEW b \in Bufs, refcnt[b] = 0
  PROVE  /\ \A q \in Procs : mine[q] # b
         /\ blockno[b] \notin pinned
         /\ valid[b] => data[b] = disk[blockno[b]]
<1>1. Cardinality(Users(b)) \in Nat /\ IsFiniteSet(Users(b))
  BY UsersFinite, Zenon
<1>2. Cardinality(Users(b)) = 0 /\ blockno[b] \notin pinned
  BY <1>1 DEF Inv, RefInv
<1>3. Users(b) = {}
  BY <1>1, <1>2, FS_EmptySet, Zenon
<1>4. QED
  BY <1>2, <1>3, Zenon DEF Users, Inv, CleanInv

\* bget() of a block that is not in the cache.
LEMMA BgetMissStep ==
  ASSUME Inv, NEW p \in Procs, NEW n \in Blocks, BgetMiss(p, n)
  PROVE  Inv'
<1>b. PICK b \in Bufs : /\ refcnt[b] = 0
                        /\ blockno' = [blockno EXCEPT ![b] = n]
                        /\ valid' = [valid EXCEPT ![b] = FALSE]
                        /\ refcnt' = [refcnt EXCEPT ![b] = 1]
                        /\ mine' = [mine EXCEPT ![p] = b]
  BY MissBuf, Zenon DEF BgetMiss
<1>1. /\ pc[p] = "idle" /\ pc' = [pc EXCEPT ![p] = "lock"]
      /\ UNCHANGED <<lru, data, lock, disk, pinned, dirty>>
      /\ \A a \in Bufs : blockno[a] # n
  BY Zenon DEF BgetMiss, Cached
<1>2. TypeOK'
  BY <1>b, <1>1 DEF Inv, TypeOK
<1>3. /\ \A q \in Procs : pc'[q] = IF q = p THEN "lock" ELSE pc[q]
      /\ \A q \in Procs : mine'[q] = IF q = p THEN b ELSE mine[q]
      /\ \A a \in Bufs : refcnt'[a] = IF a = b THEN 1 ELSE refcnt[a]
      /\ \A a \in Bufs : blockno'[a] = IF a = b THEN n ELSE blockno[a]
      /\ \A a \in Bufs : valid'[a] <=> a # b /\ valid[a]
  BY <1>b, <1>1, Zenon DEF Inv, TypeOK
<1>4. mine[p] = None
  BY <1>1, Zenon DEF Inv, UserInv
<1>5. (\A q \in Procs : mine[q] # b) /\ blockno[b] \notin pinned
  BY <1>b, Recycled, Zenon
<1>6. n \notin pinned
  BY <1>1, Zenon DEF Inv, PinInv
<1>7. RefInv'
  <2>1. \A a \in Bufs : Cardinality(Users(a))' = Cardinality(Users(a)) + (IF a = b THEN 1 ELSE 0)
    BY <1>b, <1>4, UsersGain, Zenon
  <2>2. \A a \in Bufs : Cardinality(Users(a)) \in Nat
    BY UsersFinite, Zenon
  <2>3. Cardinality(Users(b)) = 0
    BY <1>b, <1>5, <2>2 DEF Inv, RefInv
  <2>4. \A a \in Bufs : refcnt'[a] = Cardinality(Users(a))' + (IF blockno'[a] \in pinned THEN 1 ELSE 0)
    BY <1>3, <1>6, <2>1, <2>2, <2>3 DEF Inv, RefInv
  <2>5. QED
    BY <1>1, <2>4, Zenon DEF RefInv
<1>8. OneInv'
  BY <1>1, <1>3 DEF Inv, OneInv
<1>9. PinInv'
  BY <1>1, <1>3, <1>5 DEF Inv, PinInv
<1>10. UserInv'
  <2>1. \A q \in Procs : pc'[q] = "idle" <=> mine'[q] = None
    BY <1>3, Numbers DEF Inv, UserInv
  <2>2. \A q \in Procs : mine'[q] # None => blockno'[mine'[q]] # None
    <3>1. \A q \in Procs : mine[q] \in Bufs \cup {None}
      BY Zenon DEF Inv, TypeOK
    <3>2. QED
      BY <1>3, <3>1, Numbers DEF Inv, UserInv
  <2>3. \A q \in Procs, a \in Bufs : lock'[a] = q <=> mine'[q] = a /\ pc'[q] \in {"read", "use"}
    <3>1. \A q \in Procs, a \in Bufs : lock[a] = q <=> mine[q] = a /\ pc[q] \in {"read", "use"}
      BY Zenon DEF Inv, UserInv
    <3>2. QED
      BY <1>1, <1>3, <1>4, <3>1, Numbers
  <2>4. \A q \in Procs : pc'[q] = "use" => valid'[mine'[q]]
    <3>1. \A q \in Procs : pc[q] = "use" => mine[q] \in Bufs /\ valid[mine[q]]
      BY Mine, Zenon
    <3>2. QED
      BY <1>3, <1>5, <3>1, Zenon
  <2>5. QED
    BY <2>1, <2>2, <2>3, <2>4, Zenon DEF UserInv
<1>11. CleanInv'
  BY <1>1, <1>3, <1>4, <1>5, Numbers DEF Inv, CleanInv
<1>12. QED
  BY <1>2, <1>7, <1>8, <1>9, <1>10, <1>11, Zenon DEF Inv

\* Every step of every process.
LEMMA NextInv == Inv /\ [Next]_vars => Inv'
<1> SUFFICES ASSUME Inv, [Next]_vars PROVE Inv'
  OBVIOUS
<1>1. CASE UNCHANGED vars
  <2>1. UNCHANGED <<blockno, refcnt, mine, pinned>>
    BY <1>1, Zenon DEF vars
  <2>2. OneInv' /\ RefInv'
    BY <2>1, SameUsers, Zenon
  <2>3. TypeOK' /\ PinInv' /\ UserInv' /\ CleanInv'
    BY <1>1 DEF vars, Inv, TypeOK, PinInv, UserInv, CleanInv
  <2>4. QED
    BY <2>2, <2>3, Zenon DEF Inv
<1>2. ASSUME NEW p \in Procs, Kernel(p)
      PROVE  Inv'
  BY <1>2, LockStep, ReadStep, BrelseUnlockStep, BrelseStep, Zenon DEF Kernel
<1>3. ASSUME NEW p \in Procs, NEW n \in Blocks, BgetHit(p, n) \/ BgetMiss(p, n)
      PROVE  Inv'
  BY <1>3, BgetHitStep, BgetMissStep, Zenon
<1>4. ASSUME NEW p \in Procs, NEW v \in Vals, Modify(p, v)
      PROVE  Inv'
  BY <1>4, ModifyStep, Zenon
<1>5. ASSUME NEW p \in Procs, Bwrite(p) \/ Bpin(p) \/ Bunpin(p)
      PROVE  Inv'
  BY <1>5, BwriteStep, BpinStep, BunpinStep, Zenon
<1>6. QED
  BY <1>1, <1>2, <1>3, <1>4, <1>5, Zenon DEF Next

-----------------------------------------------------------------------------
\* The invariant says what the property does.
LEMMA InvOneBuffer == Inv => OneBufferPerBlock
<1> SUFFICES ASSUME Inv PROVE OneBufferPerBlock
  OBVIOUS
<1>1. (\E p \in Procs : pc[p] = "idle") => Unused # {}
  BY AlwaysUnused, Zenon
<1>2. QED
  BY <1>1, Zenon DEF Inv, OneInv, RefInv, Users, OneBufferPerBlock

(***************************************************************************)
(* bget() and brelse(): at most one buffer per block, exact reference      *)
(* counts, and a buffer for every bget(), for any number of processes,     *)
(* blocks and buffers as long as the processes and the pins of the log fit *)
(* into the cache.                                                         *)
(***************************************************************************)
THEOREM BcacheOneBuffer == Spec => []OneBufferPerBlock
<1>1. Spec => []Inv
  BY InitInv, NextInv, PTL DEF Spec
<1>2. QED
  BY <1>1, InvOneBuffer, PTL

-----------------------------------------------------------------------------
(***************************************************************************)
(* kernel/bio.c implements LockedBlocks.  First the abstract state, block  *)
(* by block and process by process.                                        *)
(***************************************************************************)
Cell(p) == IF pc[p] = "use" THEN data[mine[p]] ELSE None

\* There is at most one valid buffer and one user with the lock to choose from.
AbstractState ==
  /\ \A n \in Blocks, b \in Bufs : blockno[b] = n /\ valid[b] => Current(n) = data[b]
  /\ \A n \in Blocks : (\A b \in Bufs : blockno[b] = n => ~valid[b]) => Current(n) = disk[n]
  /\ \A n \in Blocks, p \in Procs : pc[p] = "use" /\ blockno[mine[p]] = n => Holder(n) = p
  /\ \A n \in Blocks : (\A p \in Procs : pc[p] = "use" => blockno[mine[p]] # n) => Holder(n) = None

\* The abstract state is what the invariant lets one choose.
LEMMA InvAbstractState == Inv => AbstractState
<1> SUFFICES ASSUME Inv PROVE AbstractState
  OBVIOUS
<1>1. ASSUME NEW n \in Blocks, NEW b \in Bufs, blockno[b] = n, valid[b]
      PROVE  Current(n) = data[b]
  <2>1. {a \in Cached(n) : valid[a]} = {b}
    BY <1>1, Numbers, Zenon DEF Cached, Inv, OneInv
  <2>2. QED
    BY <2>1, Zenon DEF Current
<1>2. ASSUME NEW n \in Blocks, \A b \in Bufs : blockno[b] = n => ~valid[b]
      PROVE  Current(n) = disk[n]
  BY <1>2, Zenon DEF Current, Cached
<1>3. ASSUME NEW n \in Blocks, NEW p \in Procs, pc[p] = "use", blockno[mine[p]] = n
      PROVE  Holder(n) = p
  <2>1. ASSUME NEW q \in Procs, pc[q] = "use", blockno[mine[q]] = n
        PROVE  q = p
    <3>1. mine[p] \in Bufs /\ mine[q] \in Bufs
      BY <1>3, <2>1, Mine, Zenon
    <3>2. mine[p] = mine[q]
      BY <1>3, <2>1, <3>1, Numbers, Zenon DEF Inv, OneInv
    <3>3. QED
      BY <1>3, <2>1, <3>2, Mine, Zenon
  <2>2. {q \in Procs : pc[q] = "use" /\ blockno[mine[q]] = n} = {p}
    BY <1>3, <2>1, Zenon
  <2>3. QED
    BY <2>2, Zenon DEF Holder
<1>4. ASSUME NEW n \in Blocks, \A p \in Procs : pc[p] = "use" => blockno[mine[p]] # n
      PROVE  Holder(n) = None
  BY <1>4, Zenon DEF Holder
<1>5. QED
  BY <1>1, <1>2, <1>3, <1>4, Zenon DEF AbstractState

\* The same of the state after a step.
LEMMA InvAbstractStateNext == Inv' => AbstractState'
BY InvAbstractState, PTL

\* A step that shows nothing ...
LEMMA Invisible ==
  ASSUME \A n \in Blocks : Current(n)' = Current(n) /\ Holder(n)' = Holder(n),
         \A p \in Procs : Cell(p)' = Cell(p)
  PROVE  UNCHANGED <<[n \in Blocks |-> Current(n)], [n \in Blocks |-> Holder(n)],
                     [p \in Procs |-> IF pc[p] = "use" THEN data[mine[p]] ELSE None]>>
<1>1. UNCHANGED <<[n \in Blocks |-> Current(n)], [n \in Blocks |-> Holder(n)], [p \in Procs |-> Cell(p)]>>
  OBVIOUS
<1>2. QED
  BY <1>1, Zenon DEF Cell

\* ... bread() that gets the lock ...
LEMMA Acquires ==
  ASSUME NEW p \in Procs, NEW n \in Blocks, Holder(n) = None, Cell(p) = None,
         \A m \in Blocks : /\ Current(m)' = Current(m)
                           /\ Holder(m)' = IF m = n THEN p ELSE Holder(m),
         \A q \in Procs : Cell(q)' = IF q = p THEN Current(n) ELSE Cell(q)
  PROVE  LB!LAcquire(p, n)
<1>1. [m \in Blocks |-> Current(m)]' = [m \in Blocks |-> Current(m)]
  OBVIOUS
<1>2. [m \in Blocks |-> Holder(m)]' = [[m \in Blocks |-> Holder(m)] EXCEPT ![n] = p]
  BY Zenon
<1>3. [q \in Procs |-> Cell(q)]' = [[q \in Procs |-> Cell(q)] EXCEPT ![p] = Current(n)]
  BY Zenon
<1>4. [m \in Blocks |-> Holder(m)][n] = None /\ [q \in Procs |-> Cell(q)][p] = None
  OBVIOUS
<1>5. [m \in Blocks |-> Current(m)][n] = Current(n)
  OBVIOUS
<1>6. QED
  BY <1>1, <1>2, <1>3, <1>4, <1>5, Zenon DEF LB!LAcquire, Cell

\* ... a change of b->data ...
LEMMA Writes ==
  ASSUME NEW p \in Procs, NEW n \in Blocks, NEW v \in Vals, Holder(n) = p,
         \A m \in Blocks : /\ Current(m)' = IF m = n THEN v ELSE Current(m)
                           /\ Holder(m)' = Holder(m),
         \A q \in Procs : Cell(q)' = IF q = p THEN v ELSE Cell(q)
  PROVE  LB!LWrite(p, n, v)
<1>1. [m \in Blocks |-> Current(m)]' = [[m \in Blocks |-> Current(m)] EXCEPT ![n] = v]
  BY Zenon
<1>2. [m \in Blocks |-> Holder(m)]' = [m \in Blocks |-> Holder(m)]
  OBVIOUS
<1>3. [q \in Procs |-> Cell(q)]' = [[q \in Procs |-> Cell(q)] EXCEPT ![p] = v]
  BY Zenon
<1>4. [m \in Blocks |-> Holder(m)][n] = p
  OBVIOUS
<1>5. QED
  BY <1>1, <1>2, <1>3, <1>4, Zenon DEF LB!LWrite, Cell

\* ... and releasesleep().
LEMMA Releases ==
  ASSUME NEW p \in Procs, NEW n \in Blocks, Holder(n) = p,
         \A m \in Blocks : /\ Current(m)' = Current(m)
                           /\ Holder(m)' = IF m = n THEN None ELSE Holder(m),
         \A q \in Procs : Cell(q)' = IF q = p THEN None ELSE Cell(q)
  PROVE  LB!LRelease(p, n)
<1>1. [m \in Blocks |-> Current(m)]' = [m \in Blocks |-> Current(m)]
  OBVIOUS
<1>2. [m \in Blocks |-> Holder(m)]' = [[m \in Blocks |-> Holder(m)] EXCEPT ![n] = None]
  BY Zenon
<1>3. [q \in Procs |-> Cell(q)]' = [[q \in Procs |-> Cell(q)] EXCEPT ![p] = None]
  BY Zenon
<1>4. [m \in Blocks |-> Holder(m)][n] = p
  OBVIOUS
<1>5. QED
  BY <1>1, <1>2, <1>3, <1>4, Zenon DEF LB!LRelease, Cell

\* The contents of a block do not change while its valid buffer stays one and
\* keeps its data, and a block without one keeps its contents on the disk.
LEMMA SameCurrent ==
  ASSUME Inv, Inv', NEW n \in Blocks,
         \A b \in Bufs : blockno[b] = n /\ valid[b] =>
           blockno'[b] = n /\ valid'[b] /\ data'[b] = data[b],
         (\A b \in Bufs : blockno[b] = n => ~valid[b]) =>
           /\ disk'[n] = disk[n]
           /\ \A b \in Bufs : blockno'[b] = n /\ valid'[b] => data'[b] = disk[n]
  PROVE  Current(n)' = Current(n)
<1>1. AbstractState /\ AbstractState'
  BY InvAbstractState, InvAbstractStateNext, Zenon
<1>2. CASE \E b \in Bufs : blockno[b] = n /\ valid[b]
  <2>1. PICK b \in Bufs : blockno[b] = n /\ valid[b]
    BY <1>2, Zenon
  <2>2. Current(n) = data[b]
    BY <1>1, <2>1 DEF AbstractState
  <2>3. Current(n)' = data'[b]
    BY <1>1, <2>1 DEF AbstractState
  <2>4. QED
    BY <2>1, <2>2, <2>3, Zenon
<1>3. CASE \A b \in Bufs : blockno[b] = n => ~valid[b]
  <2>1. Current(n) = disk[n]
    BY <1>1, <1>3, Zenon DEF AbstractState
  <2>2. Current(n)' = disk[n]
    <3>1. CASE \E b \in Bufs : blockno'[b] = n /\ valid'[b]
      BY <1>1, <1>3, <3>1 DEF AbstractState
    <3>2. CASE \A b \in Bufs : blockno'[b] = n => ~valid'[b]
      BY <1>1, <1>3, <3>2, Zenon DEF AbstractState
    <3>3. QED
      BY <3>1, <3>2, Zenon
  <2>3. QED
    BY <2>1, <2>2, Zenon
<1>4. QED
  BY <1>2, <1>3, Zenon

\* Nor does its holder while the users are the same.
LEMMA SameHolder ==
  ASSUME Inv, Inv', NEW n \in Blocks,
         \A p \in Procs : (pc'[p] = "use" /\ blockno'[mine'[p]] = n) <=> (pc[p] = "use" /\ blockno[mine[p]] = n)
  PROVE  Holder(n)' = Holder(n)
<1>1. AbstractState /\ AbstractState'
  BY InvAbstractState, InvAbstractStateNext, Zenon
<1>2. CASE \E p \in Procs : pc[p] = "use" /\ blockno[mine[p]] = n
  BY <1>1, <1>2 DEF AbstractState
<1>3. CASE \A p \in Procs : pc[p] = "use" => blockno[mine[p]] # n
  BY <1>1, <1>3, Zenon DEF AbstractState
<1>4. QED
  BY <1>2, <1>3, Zenon

\* The abstract state, as one expression.
Shown == <<[n \in Blocks |-> Current(n)], [n \in Blocks |-> Holder(n)],
           [p \in Procs |-> IF pc[p] = "use" THEN data[mine[p]] ELSE None]>>

\* Steps that change the disk at most, at blocks that have valid buffers:
\* bget() of a cached block, acquiresleep(), bwrite(), bpin(), bunpin(), and
\* brelse() after releasesleep().
LEMMA QuietRefines ==
  ASSUME Inv, Inv', UNCHANGED <<blockno, valid, data>>,
         \A n \in Blocks : (\A b \in Bufs : blockno[b] = n => ~valid[b]) => disk'[n] = disk[n],
         \A p \in Procs : /\ pc'[p] = "use" <=> pc[p] = "use"
                          /\ pc[p] = "use" => mine'[p] = mine[p]
  PROVE  UNCHANGED Shown
<1>1. ASSUME NEW n \in Blocks PROVE Current(n)' = Current(n) /\ Holder(n)' = Holder(n)
  <2>1. Current(n)' = Current(n)
    BY SameCurrent, Zenon
  <2>2. Holder(n)' = Holder(n)
    BY SameHolder, Zenon
  <2>3. QED
    BY <2>1, <2>2, Zenon
<1>2. \A p \in Procs : Cell(p)' = Cell(p)
  BY Zenon DEF Cell
<1>3. QED
  BY <1>1, <1>2, Invisible, Zenon DEF Shown

\* bwrite() and bunpin() write a valid buffer.
LEMMA WriteRefines ==
  ASSUME Inv, Inv', NEW p \in Procs, Bwrite(p) \/ Bunpin(p)
  PROVE  UNCHANGED Shown
<1>1. /\ disk' = [disk EXCEPT ![blockno[mine[p]]] = data[mine[p]]] /\ pc[p] = "use"
      /\ UNCHANGED <<blockno, valid, data, pc, mine>>
  BY Zenon DEF Bwrite, Bunpin, bufs
<1>2. mine[p] \in Bufs /\ valid[mine[p]]
  BY <1>1, Mine, Zenon
<1>3. \A n \in Blocks : disk'[n] = IF n = blockno[mine[p]] THEN data[mine[p]] ELSE disk[n]
  BY <1>1, <1>2, Written, Zenon
<1>4. \A n \in Blocks : (\A b \in Bufs : blockno[b] = n => ~valid[b]) => disk'[n] = disk[n]
  BY <1>2, <1>3, Zenon
<1>5. QED
  BY <1>1, <1>4, QuietRefines, Zenon

\* The others of them leave the disk alone.
LEMMA BookRefines ==
  ASSUME Inv, Inv', NEW p \in Procs,
         Lock(p) \/ Brelse(p) \/ Bpin(p) \/ \E n \in Blocks : BgetHit(p, n)
  PROVE  UNCHANGED Shown
<1>1. UNCHANGED <<blockno, valid, data, disk>>
  BY Zenon DEF Lock, Brelse, Bpin, BgetHit, bufs
<1>2. pc \in [Procs -> {"idle", "lock", "read", "use", "brelse"}] /\ mine \in [Procs -> Bufs \cup {None}]
  BY Zenon DEF Inv, TypeOK
<1>3. \A q \in Procs : /\ pc'[q] = "use" <=> pc[q] = "use"
                       /\ pc[q] = "use" => mine'[q] = mine[q]
  <2>1. CASE Lock(p)
    BY <1>2, <2>1, Zenon DEF Lock
  <2>2. CASE Brelse(p)
    BY <1>2, <2>2, Zenon DEF Brelse
  <2>3. CASE Bpin(p)
    BY <2>3, Zenon DEF Bpin
  <2>4. CASE \E n \in Blocks : BgetHit(p, n)
    <3>1. PICK b : mine' = [mine EXCEPT ![p] = b]
      BY <2>4, Zenon DEF BgetHit
    <3>2. pc' = [pc EXCEPT ![p] = "lock"] /\ pc[p] = "idle"
      BY <2>4, Zenon DEF BgetHit
    <3>3. QED
      BY <1>2, <3>1, <3>2, Zenon
  <2>5. QED
    BY <2>1, <2>2, <2>3, <2>4, Zenon
<1>4. QED
  BY <1>1, <1>3, QuietRefines, Zenon

\* bget() recycles a buffer whose contents are on the disk.
LEMMA BgetMissRefines ==
  ASSUME Inv, Inv', NEW p \in Procs, NEW n \in Blocks, BgetMiss(p, n)
  PROVE  UNCHANGED Shown
<1>b. PICK b \in Bufs : /\ refcnt[b] = 0
                        /\ blockno' = [blockno EXCEPT ![b] = n]
                        /\ valid' = [valid EXCEPT ![b] = FALSE]
                        /\ mine' = [mine EXCEPT ![p] = b]
  BY MissBuf, Zenon DEF BgetMiss
<1>1. /\ pc[p] = "idle" /\ pc' = [pc EXCEPT ![p] = "lock"]
      /\ UNCHANGED <<data, disk>>
      /\ \A a \in Bufs : blockno[a] # n
  BY Zenon DEF BgetMiss, Cached
<1>2. /\ \A q \in Procs : pc'[q] = IF q = p THEN "lock" ELSE pc[q]
      /\ \A q \in Procs : mine'[q] = IF q = p THEN b ELSE mine[q]
      /\ \A a \in Bufs : blockno'[a] = IF a = b THEN n ELSE blockno[a]
      /\ \A a \in Bufs : valid'[a] <=> a # b /\ valid[a]
  BY <1>b, <1>1 DEF Inv, TypeOK
<1>3. /\ \A q \in Procs : mine[q] # b
      /\ valid[b] => data[b] = disk[blockno[b]]
  BY <1>b, Recycled, Zenon
<1>4. ASSUME NEW m \in Blocks PROVE Current(m)' = Current(m)
  <2>1. CASE blockno[b] = m /\ valid[b]
    <3>1. AbstractState /\ AbstractState'
      BY InvAbstractState, InvAbstractStateNext, Zenon
    <3>2. Current(m) = disk[m]
      BY <1>3, <2>1, <3>1, Zenon DEF AbstractState
    <3>3. \A a \in Bufs : blockno'[a] = m => ~valid'[a]
      BY <1>1, <1>2, <2>1, Numbers DEF Inv, OneInv
    <3>4. Current(m)' = disk'[m]
      BY <3>1, <3>3, Zenon DEF AbstractState
    <3>5. QED
      BY <1>1, <3>2, <3>4, Zenon
  <2>2. CASE ~(blockno[b] = m /\ valid[b])
    <3>1. \A a \in Bufs : blockno[a] = m /\ valid[a] => blockno'[a] = m /\ valid'[a] /\ data'[a] = data[a]
      BY <1>1, <1>2, <2>2, Zenon
    <3>2. (\A a \in Bufs : blockno[a] = m => ~valid[a]) =>
            /\ disk'[m] = disk[m]
            /\ \A a \in Bufs : blockno'[a] = m /\ valid'[a] => data'[a] = disk[m]
      BY <1>1, <1>2, Zenon
    <3>3. QED
      BY <3>1, <3>2, SameCurrent, Zenon
  <2>3. QED
    BY <2>1, <2>2, Zenon
<1>5. \A q \in Procs : pc[q] = "use" => mine[q] \in Bufs
  BY Mine, Zenon
<1>6. \A q \in Procs : /\ pc'[q] = "use" <=> pc[q] = "use"
                       /\ pc[q] = "use" => mine'[q] = mine[q] /\ blockno'[mine[q]] = blockno[mine[q]]
  BY <1>1, <1>2, <1>3, <1>5
<1>7. ASSUME NEW m \in Blocks PROVE Holder(m)' = Holder(m)
  BY <1>6, SameHolder, Zenon
<1>8. \A q \in Procs : Cell(q)' = Cell(q)
  BY <1>1, <1>6, Zenon DEF Cell
<1>9. QED
  BY <1>4, <1>7, <1>8, Invisible, Zenon DEF Shown

\* bread() returns with the lock and the current contents.
LEMMA ReadRefines ==
  ASSUME Inv, Inv', NEW p \in Procs, Read(p)
  PROVE  LB!LNext
<1>b. PICK b \in Bufs : b = mine[p] /\ blockno[b] \in Blocks /\ lock[b] = p
  BY Mine, Zenon DEF Read
<1>n. PICK n \in Blocks : n = blockno[b]
  BY <1>b, Zenon
<1>1. /\ data' = IF valid[b] THEN data ELSE [data EXCEPT ![b] = disk[n]]
      /\ valid' = [valid EXCEPT ![b] = TRUE]
      /\ pc' = [pc EXCEPT ![p] = "use"] /\ pc[p] = "read"
      /\ UNCHANGED <<blockno, disk, mine>>
  BY <1>b, <1>n, Zenon DEF Read
<1>2. /\ \A a \in Bufs : /\ data'[a] = IF a = b /\ ~valid[b] THEN disk[n] ELSE data[a]
                         /\ valid'[a] <=> a = b \/ valid[a]
      /\ \A q \in Procs : pc'[q] = IF q = p THEN "use" ELSE pc[q]
  BY <1>1, Zenon DEF Inv, TypeOK
<1>3. \A a \in Bufs : a # b => blockno[a] # n
  BY <1>n, Numbers, Zenon DEF Inv, OneInv
<1>4. AbstractState /\ AbstractState'
  BY InvAbstractState, InvAbstractStateNext, Zenon
<1>5. ASSUME NEW m \in Blocks PROVE Current(m)' = Current(m)
  <2>1. \A a \in Bufs : blockno[a] = m /\ valid[a] => blockno'[a] = m /\ valid'[a] /\ data'[a] = data[a]
    BY <1>1, <1>2, Zenon
  <2>2. (\A a \in Bufs : blockno[a] = m => ~valid[a]) =>
          /\ disk'[m] = disk[m]
          /\ \A a \in Bufs : blockno'[a] = m /\ valid'[a] => data'[a] = disk[m]
    BY <1>n, <1>1, <1>2
  <2>3. QED
    BY <2>1, <2>2, SameCurrent, Zenon
<1>6. \A q \in Procs : pc[q] = "use" => blockno[mine[q]] # n
  <2>1. \A q \in Procs : pc[q] = "use" => mine[q] \in Bufs /\ lock[mine[q]] = q
    BY Mine, Zenon
  <2>2. QED
    BY <1>b, <1>1, <1>3, <2>1, Zenon
<1>7. Holder(n) = None /\ Holder(n)' = p
  BY <1>b, <1>n, <1>1, <1>2, <1>4, <1>6 DEF AbstractState
<1>8. ASSUME NEW m \in Blocks, m # n PROVE Holder(m)' = Holder(m)
  <2>1. \A q \in Procs : (pc'[q] = "use" /\ blockno'[mine'[q]] = m) <=> (pc[q] = "use" /\ blockno[mine[q]] = m)
    BY <1>b, <1>n, <1>1, <1>2, <1>8, Zenon
  <2>2. QED
    BY <2>1, SameHolder, Zenon
<1>9. Cell(p) = None /\ Cell(p)' = Current(n)
  <2>1. Current(n)' = data'[b]
    BY <1>n, <1>1, <1>2, <1>4, Zenon DEF AbstractState
  <2>2. QED
    BY <1>b, <1>1, <1>2, <1>5, <2>1, Zenon DEF Cell
<1>10. \A q \in Procs : q # p => Cell(q)' = Cell(q)
  <2>1. \A q \in Procs : pc[q] = "use" => mine[q] \in Bufs
    BY Mine, Zenon
  <2>2. \A q \in Procs : pc[q] = "use" => mine[q] # b
    BY <1>n, <1>6, Zenon
  <2>3. QED
    BY <1>1, <1>2, <2>1, <2>2, Zenon DEF Cell
<1>11. LB!LAcquire(p, n)
  <2>1. \A m \in Blocks : Current(m)' = Current(m) /\ Holder(m)' = IF m = n THEN p ELSE Holder(m)
    BY <1>5, <1>7, <1>8, Zenon
  <2>2. \A q \in Procs : Cell(q)' = IF q = p THEN Current(n) ELSE Cell(q)
    BY <1>9, <1>10, Zenon
  <2>3. QED
    BY <1>7, <1>9, <2>1, <2>2, Acquires, Zenon
<1>12. QED
  BY <1>11, Zenon DEF LB!LNext

\* What p does to the buffer that it has locked, seen from the other processes.
LEMMA OthersKeep ==
  ASSUME Inv, NEW p \in Procs, pc[p] = "use"
  PROVE  \A q \in Procs : q # p /\ pc[q] = "use" =>
           mine[q] \in Bufs /\ mine[q] # mine[p] /\ blockno[mine[q]] # blockno[mine[p]]
<1>1. \A q \in Procs : pc[q] = "use" => /\ mine[q] \in Bufs /\ blockno[mine[q]] \in Blocks
                                        /\ lock[mine[q]] = q
  BY Mine, Zenon
<1>2. QED
  BY <1>1, Numbers DEF Inv, OneInv

\* The owner of the locked buffer changes b->data.
LEMMA ModifyRefines ==
  ASSUME Inv, Inv', NEW p \in Procs, NEW v \in Vals, Modify(p, v)
  PROVE  LB!LNext
<1>b. PICK b \in Bufs : b = mine[p] /\ blockno[b] \in Blocks /\ valid[b]
  BY Mine, Zenon DEF Modify
<1>n. PICK n \in Blocks : n = blockno[b]
  BY <1>b, Zenon
<1>1. /\ data' = [data EXCEPT ![b] = v] /\ pc[p] = "use"
      /\ UNCHANGED <<blockno, valid, disk, pc, mine>>
  BY <1>b, Zenon DEF Modify
<1>2. \A a \in Bufs : data'[a] = IF a = b THEN v ELSE data[a]
  BY <1>1, Zenon DEF Inv, TypeOK
<1>3. AbstractState /\ AbstractState'
  BY InvAbstractState, InvAbstractStateNext, Zenon
<1>4. Current(n)' = v /\ Holder(n) = p
  BY <1>b, <1>n, <1>1, <1>2, <1>3 DEF AbstractState
<1>5. ASSUME NEW m \in Blocks, m # n PROVE Current(m)' = Current(m)
  <2>1. \A a \in Bufs : blockno[a] = m /\ valid[a] => blockno'[a] = m /\ valid'[a] /\ data'[a] = data[a]
    BY <1>n, <1>1, <1>2, <1>5, Zenon
  <2>2. (\A a \in Bufs : blockno[a] = m => ~valid[a]) =>
          /\ disk'[m] = disk[m]
          /\ \A a \in Bufs : blockno'[a] = m /\ valid'[a] => data'[a] = disk[m]
    BY <1>1, Zenon
  <2>3. QED
    BY <2>1, <2>2, SameCurrent, Zenon
<1>6. ASSUME NEW m \in Blocks PROVE Holder(m)' = Holder(m)
  BY <1>1, SameHolder, Zenon
<1>7. \A q \in Procs : Cell(q)' = IF q = p THEN v ELSE Cell(q)
  BY <1>b, <1>1, <1>2, OthersKeep, Zenon DEF Cell
<1>8. LB!LWrite(p, n, v)
  <2>1. \A m \in Blocks : Current(m)' = (IF m = n THEN v ELSE Current(m)) /\ Holder(m)' = Holder(m)
    BY <1>4, <1>5, <1>6, Zenon
  <2>2. QED
    BY <1>4, <1>7, <2>1, Writes, Zenon
<1>9. QED
  BY <1>8, Zenon DEF LB!LNext

\* releasesleep() in brelse().
LEMMA UnlockRefines ==
  ASSUME Inv, Inv', NEW p \in Procs, BrelseUnlock(p)
  PROVE  LB!LNext
<1>b. PICK b \in Bufs : b = mine[p] /\ blockno[b] \in Blocks
  BY Mine, Zenon DEF BrelseUnlock
<1>n. PICK n \in Blocks : n = blockno[b]
  BY <1>b, Zenon
<1>1. /\ pc' = [pc EXCEPT ![p] = "brelse"] /\ pc[p] = "use"
      /\ UNCHANGED <<blockno, valid, data, disk, mine>>
  BY Zenon DEF BrelseUnlock, bufs
<1>2. \A q \in Procs : pc'[q] = IF q = p THEN "brelse" ELSE pc[q]
  BY <1>1, Zenon DEF Inv, TypeOK
<1>3. AbstractState /\ AbstractState'
  BY InvAbstractState, InvAbstractStateNext, Zenon
<1>4. \A q \in Procs : pc'[q] = "use" => blockno'[mine'[q]] # n
  BY <1>b, <1>n, <1>1, <1>2, OthersKeep
<1>5. Holder(n) = p /\ Holder(n)' = None
  BY <1>b, <1>n, <1>1, <1>3, <1>4, Zenon DEF AbstractState
<1>6. ASSUME NEW m \in Blocks PROVE Current(m)' = Current(m)
  BY <1>1, SameCurrent, Zenon
<1>7. ASSUME NEW m \in Blocks, m # n PROVE Holder(m)' = Holder(m)
  <2>1. \A q \in Procs : (pc'[q] = "use" /\ blockno'[mine'[q]] = m) <=> (pc[q] = "use" /\ blockno[mine[q]] = m)
    BY <1>b, <1>n, <1>1, <1>2, <1>7, Zenon
  <2>2. QED
    BY <2>1, SameHolder, Zenon
<1>8. \A q \in Procs : Cell(q)' = IF q = p THEN None ELSE Cell(q)
  BY <1>1, <1>2 DEF Cell
<1>9. LB!LRelease(p, n)
  <2>1. \A m \in Blocks : Current(m)' = Current(m) /\ Holder(m)' = IF m = n THEN None ELSE Holder(m)
    BY <1>5, <1>6, <1>7, Zenon
  <2>2. QED
    BY <1>5, <1>8, <2>1, Releases, Zenon
<1>10. QED
  BY <1>9, Zenon DEF LB!LNext

(***************************************************************************)
(* bread(), bwrite(), brelse(), bpin() and bunpin() implement LockedBlocks,*)
(* for any processes, blocks and buffers: one copy of every block, used by *)
(* one process at a time, although buffers are recycled and read again.    *)
(***************************************************************************)
THEOREM BcacheCoherent == Spec => CacheIsCoherent
<1>1. Init => LB!LInit
  <2> SUFFICES ASSUME Init PROVE LB!LInit
    OBVIOUS
  <2>1. disk \in [Blocks -> Vals] /\ AbstractState
    BY InitInv, InvAbstractState, Zenon DEF Init
  <2>2. \A n \in Blocks : Current(n) = disk[n] /\ Holder(n) = None
    BY <2>1, Zenon DEF Init, AbstractState
  <2>3. /\ [n \in Blocks |-> Current(n)] \in [Blocks -> Vals]
        /\ [n \in Blocks |-> Holder(n)] = [n \in Blocks |-> None]
    BY <2>1, <2>2, Zenon
  <2>4. [p \in Procs |-> IF pc[p] = "use" THEN data[mine[p]] ELSE None] = [p \in Procs |-> None]
    BY Zenon DEF Init
  <2>5. QED
    BY <2>3, <2>4, Zenon DEF LB!LInit
<1>2. Inv /\ Inv' /\ [Next]_vars => [LB!LNext]_Shown
  <2> SUFFICES ASSUME Inv, Inv', [Next]_vars
               PROVE  LB!LNext \/ UNCHANGED Shown
    OBVIOUS
  <2>1. CASE UNCHANGED vars
    BY <2>1, QuietRefines, Zenon DEF vars
  <2>2. ASSUME NEW p \in Procs, Kernel(p)
        PROVE  LB!LNext \/ UNCHANGED Shown
    BY <2>2, BookRefines, ReadRefines, UnlockRefines, Zenon DEF Kernel
  <2>3. ASSUME NEW p \in Procs, NEW n \in Blocks, BgetHit(p, n) \/ BgetMiss(p, n)
        PROVE  UNCHANGED Shown
    BY <2>3, BookRefines, BgetMissRefines, Zenon
  <2>4. ASSUME NEW p \in Procs, NEW v \in Vals, Modify(p, v)
        PROVE  LB!LNext
    BY <2>4, ModifyRefines, Zenon
  <2>5. ASSUME NEW p \in Procs, Bwrite(p) \/ Bpin(p) \/ Bunpin(p)
        PROVE  UNCHANGED Shown
    BY <2>5, BookRefines, WriteRefines, Zenon
  <2>6. QED
    BY <2>1, <2>2, <2>3, <2>4, <2>5, Zenon DEF Next
<1>3. Spec => []Inv
  BY InitInv, NextInv, PTL DEF Spec
<1>4. QED
  BY <1>1, <1>2, <1>3, PTL DEF Spec, CacheIsCoherent, LB!LSpec, Shown
=============================================================================
