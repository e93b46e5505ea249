--------------------------- MODULE FileDataBlocks ---------------------------
(***************************************************************************)
(* The steps of kernel/fs.c that allocate and free blocks, bmap() with     *)
(* balloc() and itrunc() with bfree(), keep DiskInv; and the two theorems  *)
(* that follow, for any number of files, processes, blocks and bytes in a  *)
(* block: the bitmap is exact, and files hold what was written to them.    *)
(***************************************************************************)
EXTENDS FileDataWrites, WellFoundedInduction

-----------------------------------------------------------------------------
(* bmap() allocates.                                                       *)

\* balloc() finds a block that is not in use.
LEMMA FreeIs ==
  ASSUME FreeBlock # 0
  PROVE  FreeBlock \in Blocks \ bitmap
<1> DEFINE S == Blocks \ bitmap
<1>1. S # {} /\ S \subseteq Nat /\ FreeBlock = Min(S)
  BY Layout DEF FreeBlock, Blocks
<1> HIDE DEF S
<1>2. PICK x \in S : \A y \in S : <<y, x>> \notin OpToRel(<, Nat)
  BY <1>1, WFMin, NatLessThanWellFounded, Zenon
<1>3. \A y \in S : ~(y < x)
  BY <1>1, <1>2, Zenon DEF OpToRel
<1>4. \A y \in S : x <= y
  BY <1>1, <1>3
<1>5. QED
  BY <1>1, <1>4, Zenon DEF Min, S

\* A free block b goes to place k of the inode that p writes.
LEMMA Allocated ==
  ASSUME DiskInv, Inv', NEW p \in Procs, Looping(p), NEW i \in Inodes, i = Ip(p),
         NEW b \in Blocks \ bitmap, bitmap' = bitmap \cup {b},
         NEW k \in Places, At(i, k) = 0, At(i, k)' = b,
         \A j \in Inodes, l \in Places : i # j \/ l # k => At(j, l)' = At(j, l),
         \A j \in Inodes, l \in Places : Live(j, l) /\ l # MAXFILE => data'[At(j, l)] = data[At(j, l)],
         data' \in [Blocks -> [0..(BSIZE - 1) -> (0..NB) \cup Procs]],
         addrs' \in [Inodes -> [0..NDIRECT -> 0..NB]],
         \A j \in Inodes \ {i} : addrs'[j] = addrs[j],
         UNCHANGED <<size, holder, off, c, text, panicked>>
  PROVE  DiskInv'
<1>1. DiskType'
  <2>1. bitmap' \subseteq Blocks
    BY Zenon DEF DiskInv, DiskType
  <2>2. QED
    BY <2>1, Zenon DEF DiskInv, DiskType
<1>2. /\ \A j \in Inodes : /\ Truncating(j)' <=> Truncating(j)
                           /\ Cut(j)' = Cut(j)
                           /\ \A o : Rewritten(j, o)' <=> Rewritten(j, o)
      /\ LockInv'
  BY Zenon DEF Truncating, Cut, Rewritten, DiskInv, LockInv, Busy, Ip
<1>3. OwnInv'
  <2>1. ~Live(i, k) /\ Live(i, k)'
    <3>1. Cut(i) = 0 /\ b # 0 /\ k >= 0
      BY LoopFacts, Layout DEF Blocks, Places
    <3>2. QED
      BY <1>2, <3>1, Zenon DEF Live
  <2>2. \A j \in Inodes, l \in Places :
          i # j \/ l # k => At(j, l)' = At(j, l) /\ (Live(j, l)' <=> Live(j, l))
    BY <1>2, Zenon DEF Live
  <2>3. QED
    BY <2>1, <2>2, OwnAlloc DEF DiskInv
<1>4. \A q \in Procs : InRange(q)'
  <2>1. InRange(p)'
    <3>1. InRange(p) /\ c[p].pc = "loop"
      BY Locks, Zenon DEF Looping
    <3>2. QED
      BY <3>1, Zenon DEF InRange, InWritei, Ip, Start
  <2>2. ASSUME NEW q \in Procs \ {p} PROVE InRange(q)'
    <3>1. Busy(q) => Ip(q) # i /\ Ip(q) \in Inodes
      <4>1. holder[i] = p
        BY LoopFacts, Zenon
      <4>2. Busy(q) => holder[Ip(q)] = q /\ Ip(q) \in Inodes
        BY Locks, Zenon DEF Busy
      <4>3. QED
        BY <4>1, <4>2, Zenon
    <3>2. QED
      BY <3>1, RangeKept, Zenon
  <2>3. QED
    BY <2>1, <2>2, Zenon
<1>5. ASSUME NEW j \in Inodes, ~Truncating(j)' PROVE Bytes(j)'
  <2>1. ~Truncating(j)
    BY <1>2, <1>5, Zenon
  <2>2. ASSUME NEW l \in Places, l # MAXFILE, At(j, l) # 0
        PROVE  At(j, l)' = At(j, l) /\ data'[At(j, l)] = data[At(j, l)]
    <3>1. Live(j, l)
      BY <2>1, <2>2 DEF Live, Cut, Places
    <3>2. QED
      BY <2>2, <3>1, Zenon
  <2>3. QED
    BY <1>2, <2>1, <2>2, BytesKept, Zenon
<1>6. QED
  BY <1>1, <1>2, <1>3, <1>4, <1>5, Zenon DEF DiskInv

\* bmap() with balloc() for a direct block or for the indirect block: bzero()
\* makes the places in a new indirect block 0.
LEMMA BmapAddrDisk ==
  ASSUME DiskInv, Inv', NEW p \in Procs, BmapAddr(p)
  PROVE  DiskInv'
<1>0. Looping(p) /\ UNCHANGED <<size, holder, off, c, text, panicked>>
  BY Zenon DEF BmapAddr
<1>i. PICK i \in Inodes : i = Ip(p)
  BY <1>0, LoopFacts, Zenon
<1>b. PICK b \in Blocks \ bitmap : b = FreeBlock
  BY FreeIs, Zenon DEF BmapAddr
<1>e. PICK e \in 0..NDIRECT : e = IF Bn(p) < NDIRECT THEN Bn(p) ELSE NDIRECT
  BY <1>0, LoopFacts, Layout
<1>1. /\ addrs[i][e] = 0 /\ bitmap' = bitmap \cup {b}
      /\ data' = [data EXCEPT ![b] = Zeroed] /\ addrs' = [addrs EXCEPT ![i] = [@ EXCEPT ![e] = b]]
  BY <1>i, <1>b, <1>e, Zenon DEF BmapAddr, Bzeroed
<1>2. /\ data \in [Blocks -> [0..(BSIZE - 1) -> (0..NB) \cup Procs]]
      /\ addrs \in [Inodes -> [0..NDIRECT -> 0..NB]]
  BY Zenon DEF DiskInv, DiskType
<1>3. Zeroed \in [0..(BSIZE - 1) -> (0..NB) \cup Procs] /\ \A x \in 0..(BSIZE - 1) : Zeroed[x] = 0
  BY Layout DEF Zeroed
<1>4. data' \in [Blocks -> [0..(BSIZE - 1) -> (0..NB) \cup Procs]]
  BY <1>1, <1>2, <1>3, Zenon
<1>5. b \in 0..NB /\ b # 0
  BY Layout DEF Blocks
<1>6. addrs' \in [Inodes -> [0..NDIRECT -> 0..NB]]
  BY <1>1, <1>2, <1>5, Zenon
<1>7. \A d \in Blocks : data'[d] = IF d = b THEN Zeroed ELSE data[d]
  BY <1>1, <1>2, Zenon
<1>8. /\ \A j \in Inodes \ {i} : addrs'[j] = addrs[j]
      /\ \A x \in 0..NDIRECT : addrs'[i][x] = IF x = e THEN b ELSE addrs[i][x]
  BY <1>1, <1>2, Zenon
<1>9. PICK k \in Places : /\ k = IF e = NDIRECT THEN MAXFILE ELSE e
                          /\ k < NDIRECT => k = e
                          /\ k >= NDIRECT => k = MAXFILE /\ e = NDIRECT
  BY Layout DEF Places
<1>10. NDIRECT \in 0..NDIRECT
  BY Layout
<1>11. \A j \in Inodes : addrs[j][NDIRECT] # 0 => data'[addrs[j][NDIRECT]] = data[addrs[j][NDIRECT]]
  BY <1>7, IndirectUsed, Zenon
<1>12. At(i, k) = 0 /\ At(i, k)' = b
  <2>1. CASE k < NDIRECT
    BY <1>1, <1>8, <1>9, <2>1, Layout DEF At, Lookup
  <2>2. CASE k >= NDIRECT
    BY <1>1, <1>8, <1>9, <2>2, Zenon DEF At, Lookup
  <2>3. QED
    BY <2>1, <2>2, Layout DEF Places
<1>13. ASSUME NEW l \in Places, l # k PROVE At(i, l)' = At(i, l)
  <2>1. CASE l < NDIRECT
    <3>1. l \in 0..NDIRECT /\ l # e /\ l # MAXFILE
      BY <1>9, <1>13, <2>1, Layout DEF Places
    <3>2. QED
      BY <1>8, <2>1, <3>1, Zenon DEF At, Lookup
  <2>2. CASE l = MAXFILE
    <3>1. e # NDIRECT
      BY <1>9, <1>13, <2>2, Zenon
    <3>2. QED
      BY <1>8, <1>10, <2>2, <3>1, Zenon DEF At
  <2>3. CASE l >= NDIRECT /\ l # MAXFILE /\ e # NDIRECT
    <3>1. addrs'[i][NDIRECT] = addrs[i][NDIRECT] /\ ~(l < NDIRECT)
      BY <1>8, <1>10, <2>3, Layout DEF Places
    <3>2. QED
      BY <1>11, <2>3, <3>1, Zenon DEF At, Lookup
  <2>4. CASE l >= NDIRECT /\ l # MAXFILE /\ e = NDIRECT
    <3>1. l - NDIRECT \in 0..(BSIZE - 1) /\ ~(l < NDIRECT)
      BY <2>4, Layout DEF Places
    <3>2. addrs'[i][NDIRECT] = b /\ addrs[i][NDIRECT] = 0 /\ data'[b] = Zeroed
      BY <1>1, <1>7, <1>8, <1>10, <2>4, Zenon
    <3>3. At(i, l)' = data'[b][l - NDIRECT] /\ At(i, l) = 0
      BY <1>5, <2>4, <3>1, <3>2, Zenon DEF At, Lookup
    <3>4. QED
      BY <1>3, <3>1, <3>2, <3>3, Zenon
  <2>5. QED
    BY <2>1, <2>2, <2>3, <2>4, Layout DEF Places
<1>14. ASSUME NEW j \in Inodes \ {i}, NEW l \in Places PROVE At(j, l)' = At(j, l)
  BY <1>8, <1>11, SameNumbers, Zenon
<1>15. ASSUME NEW j \in Inodes, NEW l \in Places, Live(j, l) PROVE data'[At(j, l)] = data[At(j, l)]
  BY <1>7, <1>15, LiveUsed, Zenon
<1>16. QED
  BY <1>0, <1>i, <1>1, <1>4, <1>6, <1>8, <1>12, <1>13, <1>14, <1>15, Allocated

\* bmap() with balloc() for a block that the indirect block lists.
LEMMA BmapIndirectDisk ==
  ASSUME DiskInv, Inv', NEW p \in Procs, BmapIndirect(p)
  PROVE  DiskInv'
<1>0. Looping(p) /\ UNCHANGED <<addrs, size, holder, off, c, text, panicked>>
  BY Zenon DEF BmapIndirect, inode
<1>i. PICK i \in Inodes : i = Ip(p)
  BY <1>0, LoopFacts, Zenon
<1>b. PICK b \in Blocks \ bitmap : b = FreeBlock
  BY FreeIs, Zenon DEF BmapIndirect
<1>k. PICK k \in Places : k = Bn(p) /\ k # MAXFILE /\ k >= NDIRECT
  BY <1>0, LoopFacts, Zenon DEF BmapIndirect
<1>d. PICK ind \in Blocks : ind = addrs[i][NDIRECT] /\ ind \in bitmap /\ ind # 0
  BY <1>i, IndirectUsed, Zenon DEF BmapIndirect
<1>e. PICK e \in 0..(BSIZE - 1) : e = k - NDIRECT
  BY <1>k, Layout DEF Places
<1>1. /\ Lookup(i, k) = 0 /\ bitmap' = bitmap \cup {b} /\ addrs' = addrs
      /\ data' = [[data EXCEPT ![b] = Zeroed] EXCEPT ![ind] = [@ EXCEPT ![e] = b]]
  BY <1>0, <1>i, <1>b, <1>k, <1>d, <1>e, Zenon DEF BmapIndirect, Bzeroed
<1>2. /\ data \in [Blocks -> [0..(BSIZE - 1) -> (0..NB) \cup Procs]]
      /\ addrs \in [Inodes -> [0..NDIRECT -> 0..NB]]
  BY Zenon DEF DiskInv, DiskType
<1>3. Zeroed \in [0..(BSIZE - 1) -> (0..NB) \cup Procs]
  BY Layout DEF Zeroed
<1>4. b # ind /\ b # 0 /\ b \in (0..NB) \cup Procs
  BY <1>d, Layout DEF Blocks
<1>5. \A d \in Blocks : data'[d] = IF d = b THEN Zeroed
                                   ELSE IF d = ind THEN [data[ind] EXCEPT ![e] = b] ELSE data[d]
  BY <1>1, <1>2, <1>4, Zenon
<1>6. data' \in [Blocks -> [0..(BSIZE - 1) -> (0..NB) \cup Procs]]
  <2>1. [data[ind] EXCEPT ![e] = b] \in [0..(BSIZE - 1) -> (0..NB) \cup Procs]
    BY <1>2, <1>4, Zenon
  <2>2. \A d \in Blocks : data'[d] \in [0..(BSIZE - 1) -> (0..NB) \cup Procs]
    BY <1>2, <1>3, <1>5, <2>1, Zenon
  <2>3. data' = [d \in Blocks |-> data'[d]]
    BY <1>1, <1>2, Zenon
  <2>4. QED
    BY <2>2, <2>3, Zenon
<1>7. \A x \in 0..(BSIZE - 1) : data'[ind][x] = IF x = e THEN b ELSE data[ind][x]
  BY <1>2, <1>4, <1>5, Zenon
<1>8. At(i, k) = 0 /\ At(i, k)' = b
  <2>1. ~(k < NDIRECT)
    BY <1>k, Layout DEF Places
  <2>2. At(i, k) = Lookup(i, k) /\ At(i, k)' = data'[ind][e]
    BY <1>k, <1>d, <1>e, <1>1, <2>1, Zenon DEF At, Lookup
  <2>3. QED
    BY <1>1, <1>7, <2>2, Zenon
<1>9. ASSUME NEW l \in Places, l # k PROVE At(i, l)' = At(i, l)
  <2>1. CASE l < NDIRECT \/ l = MAXFILE
    BY <1>1, <2>1, Zenon DEF At, Lookup
  <2>2. CASE ~(l < NDIRECT) /\ l # MAXFILE
    <3>1. l - NDIRECT \in 0..(BSIZE - 1) /\ l - NDIRECT # e
      BY <1>e, <1>9, <2>2, <1>k, Layout DEF Places
    <3>2. At(i, l) = data[ind][l - NDIRECT] /\ At(i, l)' = data'[ind][l - NDIRECT]
      BY <1>d, <1>1, <2>2, Zenon DEF At, Lookup
    <3>3. QED
      BY <1>7, <3>1, <3>2, Zenon
  <2>3. QED
    BY <2>1, <2>2, Zenon
<1>10. ASSUME NEW j \in Inodes \ {i}, NEW l \in Places PROVE At(j, l)' = At(j, l)
  <2>1. addrs[j][NDIRECT] # 0 => data'[addrs[j][NDIRECT]] = data[addrs[j][NDIRECT]]
    BY <1>d, <1>5, IndirectUsed, Zenon
  <2>2. QED
    BY <1>1, <2>1, SameNumbers, Zenon
<1>11. ASSUME NEW j \in Inodes, NEW l \in Places, Live(j, l), l # MAXFILE
       PROVE  data'[At(j, l)] = data[At(j, l)]
  BY <1>d, <1>5, <1>11, LiveUsed, IndirectUsed
<1>12. /\ bitmap' = bitmap \cup {b}
       /\ \A j \in Inodes, l \in Places : i # j \/ l # k => At(j, l)' = At(j, l)
       /\ addrs' \in [Inodes -> [0..NDIRECT -> 0..NB]]
       /\ \A j \in Inodes \ {i} : addrs'[j] = addrs[j]
  BY <1>1, <1>2, <1>9, <1>10, Zenon
<1>13. QED
  BY <1>0, <1>i, <1>6, <1>8, <1>11, <1>12, Allocated

-----------------------------------------------------------------------------
(* itrunc()                                                                *)

\* A step of the itrunc() of inode i changes nothing for the other inodes.
LEMMA TruncOthers ==
  ASSUME DiskInv, NEW p \in Procs, \A q \in Procs \ {p} : c'[q] = c[q],
         NEW i \in Inodes, i = Ip(p), Busy(p),
         \A j \in Inodes \ {i} : /\ addrs'[j] = addrs[j] /\ size'[j] = size[j]
                                 /\ text'[j] = text[j] /\ holder'[j] = holder[j],
         data' = data, off' = off
  PROVE  /\ \A j \in Inodes \ {i}, l \in Places : At(j, l)' = At(j, l) /\ (Live(j, l)' <=> Live(j, l))
         /\ \A j \in Inodes \ {i} : ~Truncating(j)' => Bytes(j)'
         /\ \A q \in Procs \ {p} : InRange(q)'
<1>1. holder[i] = p /\ \A j \in Inodes \ {i} : holder[j] # p
  BY Locks, Zenon
<1>2. \A j \in Inodes \ {i} : /\ Truncating(j)' <=> Truncating(j)
                              /\ Cut(j)' = Cut(j)
                              /\ \A o : Rewritten(j, o)' <=> Rewritten(j, o)
  BY <1>1, Others, Zenon
<1>3. \A j \in Inodes \ {i}, l \in Places : At(j, l)' = At(j, l)
  BY SameNumbers, Zenon
<1>4. \A j \in Inodes \ {i}, l \in Places : Live(j, l)' <=> Live(j, l)
  BY <1>2, <1>3, Zenon DEF Live
<1>5. ASSUME NEW j \in Inodes \ {i}, ~Truncating(j)' PROVE Bytes(j)'
  BY <1>2, <1>3, <1>5, BytesKept, Zenon
<1>6. ASSUME NEW q \in Procs \ {p} PROVE InRange(q)'
  <2>1. Busy(q) => Ip(q) # i /\ Ip(q) \in Inodes
    <3>1. Busy(q) => holder[Ip(q)] = q /\ Ip(q) \in Inodes
      BY Locks, Zenon DEF Busy
    <3>2. QED
      BY <1>1, <3>1, Zenon
  <2>2. QED
    BY <2>1, RangeKept, Zenon
<1>7. QED
  BY <1>3, <1>4, <1>5, <1>6, Zenon

\* What an itrunc() under way has and has not done.
LEMMA TruncFacts ==
  ASSUME DiskInv, NEW p \in Procs, c[p].pc = "trunc"
  PROVE  /\ Ip(p) \in Inodes /\ holder[Ip(p)] = p /\ p # None /\ Busy(p)
         /\ Truncating(Ip(p)) /\ Cut(Ip(p)) = c[p].tot /\ c[p].tot \in Nat
         /\ c[p].tot <= TruncLimit(Ip(p))
         /\ \A k \in 0..(NDIRECT - 1) : k < c[p].tot => addrs[Ip(p)][k] = 0
<1>1. Busy(p)
  BY Zenon DEF Busy
<1>2. Ip(p) \in Inodes /\ holder[Ip(p)] = p /\ p # None /\ InRange(p) /\ c[p] \in Calls
  BY <1>1, Locks, Zenon
<1>3. Truncating(Ip(p)) /\ Cut(Ip(p)) = c[p].tot
  BY <1>2, Zenon DEF Truncating, Cut
<1>4. QED
  BY <1>1, <1>2, <1>3, Zenon DEF InRange, Calls

\* Of the places from bn on, itrunc() frees bn.
LEMMA TruncBlockDisk ==
  ASSUME DiskInv, Inv', NEW p \in Procs, TruncBlock(p)
  PROVE  DiskInv'
<1>i. PICK i \in Inodes : i = Ip(p)
  BY TruncFacts, Zenon DEF TruncBlock
<1>1. /\ c[p].pc = "trunc" /\ c[p].tot < TruncLimit(i)
      /\ UNCHANGED <<data, size, holder, off, text>>
      /\ c' = [c EXCEPT ![p].tot = @ + 1]
  BY <1>i, Zenon DEF TruncBlock
<1>n. PICK bn \in Places : bn = c[p].tot /\ bn # MAXFILE
  BY <1>1, TruncFacts, Layout DEF Places, TruncLimit
<1>2. /\ holder[i] = p /\ p # None /\ Busy(p) /\ Truncating(i) /\ Cut(i) = bn
      /\ \A k \in 0..(NDIRECT - 1) : k < bn => addrs[i][k] = 0
  BY <1>i, <1>1, <1>n, TruncFacts, Zenon
<1>3. /\ IF At(i, bn) # 0 THEN Bfree(At(i, bn)) ELSE UNCHANGED <<bitmap, panicked>>
      /\ addrs' = [addrs EXCEPT ![i] = [k \in 0..NDIRECT |->
                     IF k = bn /\ k < NDIRECT THEN 0 ELSE @[k]]]
  BY <1>i, <1>n, Zenon DEF TruncBlock, At
<1>4. addrs \in [Inodes -> [0..NDIRECT -> 0..NB]] /\ c \in [Procs -> Calls]
  BY Zenon DEF DiskInv, DiskType, Inv
<1>5. /\ \A q \in Procs \ {p} : c'[q] = c[q]
      /\ c'[p].pc = "trunc" /\ c'[p].fd = c[p].fd /\ c'[p].tot = bn + 1
  BY <1>1, <1>4, <1>n, Zenon DEF Calls
<1>6. /\ \A j \in Inodes \ {i} : addrs'[j] = addrs[j]
      /\ \A k \in 0..NDIRECT : addrs'[i][k] = IF k = bn /\ k < NDIRECT THEN 0 ELSE addrs[i][k]
  BY <1>3, <1>4, Zenon
<1>7. addrs' \in [Inodes -> [0..NDIRECT -> 0..NB]]
  BY <1>3, <1>4, Layout
<1>8. Truncating(i)' /\ Cut(i)' = bn + 1 /\ Busy(p)' /\ Ip(p)' = i
  BY <1>i, <1>1, <1>2, <1>5, Zenon DEF Truncating, Cut, Busy, Ip
<1>9. addrs'[i][NDIRECT] = addrs[i][NDIRECT] /\ TruncLimit(i)' = TruncLimit(i)
  BY <1>6, Layout DEF TruncLimit
<1>10. ASSUME NEW l \in Places PROVE At(i, l)' \in {At(i, l), 0} /\ (l # bn => At(i, l)' = At(i, l))
  <2>1. CASE l < NDIRECT
    <3>1. l \in 0..NDIRECT /\ l # MAXFILE
      BY <2>1, Layout DEF Places
    <3>2. QED
      BY <1>6, <2>1, <3>1, Zenon DEF At, Lookup
  <2>2. CASE ~(l < NDIRECT)
    BY <1>1, <1>9, <2>2, Zenon DEF At, Lookup
  <2>3. QED
    BY <2>1, <2>2, Zenon
<1>11. ASSUME NEW l \in Places PROVE ~Live(i, bn)' /\ (l # bn => (Live(i, l)' <=> Live(i, l)))
  <2>1. bn \in Nat /\ l \in Nat
    BY Layout DEF Places
  <2>2. QED
    BY <1>2, <1>8, <1>10, <2>1 DEF Live
<1>12. Live(i, bn) <=> At(i, bn) # 0
  BY <1>2, Layout DEF Live, Places
<1>13. bitmap' = bitmap \ {At(i, bn)} /\ panicked' = FALSE
  <2>1. panicked = FALSE /\ 0 \notin bitmap
    BY DEF DiskInv, DiskType, Blocks
  <2>2. CASE At(i, bn) # 0
    BY <1>3, <1>12, <2>2, LiveUsed, Zenon DEF Bfree
  <2>3. CASE At(i, bn) = 0
    BY <1>3, <2>1, <2>3, Zenon
  <2>4. QED
    BY <2>2, <2>3, Zenon
<1>14. /\ \A j \in Inodes \ {i}, l \in Places : At(j, l)' = At(j, l) /\ (Live(j, l)' <=> Live(j, l))
       /\ \A j \in Inodes \ {i} : ~Truncating(j)' => Bytes(j)'
       /\ \A q \in Procs \ {p} : InRange(q)'
  BY <1>i, <1>1, <1>2, <1>5, <1>6, TruncOthers, Zenon
<1>15. DiskType'
  <2>1. bitmap' \subseteq Blocks
    BY <1>13, Zenon DEF DiskInv, DiskType
  <2>2. QED
    BY <1>1, <1>7, <1>13, <2>1, Zenon DEF DiskInv, DiskType
<1>16. LockInv'
  BY <1>1, <1>2, <1>5, <1>8, LockKept, Zenon
<1>17. OwnInv'
  <2>1. OwnInv /\ \A j \in Inodes, l \in Places : At(j, l) \in 0..NB
    BY Zenon DEF DiskInv, OwnInv
  <2>2. \A j \in Inodes, l \in Places : At(j, l)' \in 0..NB
    BY <1>10, <1>14, <2>1, Layout
  <2>3. \A j \in Inodes, l \in Places : i # j \/ l # bn =>
          At(j, l)' = At(j, l) /\ (Live(j, l)' <=> Live(j, l))
    BY <1>10, <1>11, <1>14, Zenon
  <2>4. CASE At(i, bn) # 0
    BY <1>11, <1>12, <1>13, <2>1, <2>2, <2>3, <2>4, OwnFree, Zenon
  <2>5. CASE At(i, bn) = 0
    <3>1. At(i, bn)' = At(i, bn) /\ (Live(i, bn)' <=> Live(i, bn))
      BY <1>10, <1>11, <1>12, <2>5, Zenon
    <3>2. bitmap' = bitmap
      BY <1>13, <2>5 DEF DiskInv, DiskType, Blocks
    <3>3. QED
      BY <2>1, <2>3, <3>1, <3>2, OwnKept, Zenon
  <2>6. QED
    BY <2>4, <2>5, Zenon
<1>18. InRange(p)'
  <2>1. TruncLimit(i) \in Nat /\ bn \in Nat
    BY Layout DEF TruncLimit, Places
  <2>2. bn + 1 <= TruncLimit(i)
    BY <1>1, <1>n, <2>1
  <2>3. \A k \in 0..(NDIRECT - 1) : k < bn + 1 => addrs'[i][k] = 0
    BY <1>2, <1>6, <2>1, Layout
  <2>4. QED
    BY <1>5, <1>8, <1>9, <2>2, <2>3, Zenon DEF InRange, InWritei
<1>19. QED
  BY <1>8, <1>14, <1>15, <1>16, <1>17, <1>18, Zenon DEF DiskInv

\* At the end of itrunc() only the indirect block was left.
LEMMA TruncEndDisk ==
  ASSUME DiskInv, Inv', NEW p \in Procs, TruncEnd(p)
  PROVE  DiskInv'
<1>i. PICK i \in Inodes : i = Ip(p)
  BY TruncFacts, Zenon DEF TruncEnd
<1>1. /\ c[p].pc = "trunc" /\ c[p].tot = TruncLimit(i) /\ UNCHANGED <<data, off>>
      /\ IF addrs[i][NDIRECT] # 0 THEN Bfree(addrs[i][NDIRECT]) ELSE UNCHANGED <<bitmap, panicked>>
      /\ addrs' = [addrs EXCEPT ![i] = [@ EXCEPT ![NDIRECT] = 0]]
      /\ size' = [size EXCEPT ![i] = 0] /\ text' = [text EXCEPT ![i] = << >>]
      /\ holder' = [holder EXCEPT ![i] = None] /\ c' = [c EXCEPT ![p] = NoCall]
  BY <1>i, Zenon DEF TruncEnd, Return
<1>2. /\ holder[i] = p /\ p # None /\ Busy(p) /\ Truncating(i) /\ Cut(i) = TruncLimit(i)
      /\ \A k \in 0..(NDIRECT - 1) : k < TruncLimit(i) => addrs[i][k] = 0
  BY <1>i, <1>1, TruncFacts, Zenon
<1>3. /\ addrs \in [Inodes -> [0..NDIRECT -> 0..NB]] /\ size \in [Inodes -> 0..(MAXFILE * BSIZE)]
      /\ holder \in [Inodes -> Procs \cup {None}] /\ text \in [Inodes -> Seq(Procs \cup {0, None})]
  BY Zenon DEF DiskInv, DiskType
<1>4. c'[p].pc = "idle" /\ \A q \in Procs \ {p} : c'[q] = c[q]
  <2>1. c'[p] = NoCall /\ \A q \in Procs \ {p} : c'[q] = c[q]
    BY <1>1, OneChanges, Zenon
  <2>2. NoCall.pc = "idle"
    BY Zenon DEF NoCall, Call
  <2>3. QED
    BY <2>1, <2>2, Zenon
<1>5. /\ \A j \in Inodes \ {i} : /\ addrs'[j] = addrs[j] /\ size'[j] = size[j]
                                 /\ text'[j] = text[j] /\ holder'[j] = holder[j]
      /\ size'[i] = 0 /\ text'[i] = << >> /\ holder'[i] = None
      /\ \A k \in 0..NDIRECT : addrs'[i][k] = IF k = NDIRECT THEN 0 ELSE addrs[i][k]
  BY <1>1, <1>3, Zenon
<1>6. /\ addrs' \in [Inodes -> [0..NDIRECT -> 0..NB]]
      /\ size' \in [Inodes -> 0..(MAXFILE * BSIZE)]
      /\ holder' \in [Inodes -> Procs \cup {None}]
  BY <1>1, <1>3, Layout
<1>7. text' \in [Inodes -> Seq(Procs \cup {0, None})]
  BY <1>1, <1>3
<1>8. NDIRECT \in 0..NDIRECT /\ addrs'[i][NDIRECT] = 0
  BY <1>5, Layout
<1>9. ASSUME NEW l \in Places PROVE At(i, l)' = 0
  <2>1. CASE l < NDIRECT
    <3>1. l \in 0..NDIRECT /\ l \in 0..(NDIRECT - 1) /\ l # NDIRECT /\ l # MAXFILE /\ l < TruncLimit(i)
      BY <2>1, Layout DEF Places, TruncLimit
    <3>2. addrs'[i][l] = 0
      BY <1>2, <1>5, <3>1, Zenon
    <3>3. QED
      BY <2>1, <3>1, <3>2, Zenon DEF At, Lookup
  <2>2. CASE ~(l < NDIRECT)
    BY <1>8, <2>2, Zenon DEF At, Lookup
  <2>3. QED
    BY <2>1, <2>2, Zenon
<1>10. ASSUME NEW l \in Places PROVE ~Live(i, l)' /\ (Live(i, l) => l = MAXFILE /\ addrs[i][NDIRECT] # 0)
  <2>1. ~Live(i, l)'
    BY <1>9, Zenon DEF Live
  <2>2. CASE addrs[i][NDIRECT] = 0
    <3>1. Cut(i) = NDIRECT
      BY <1>2, <2>2, Zenon DEF TruncLimit
    <3>2. ~(l < NDIRECT) => At(i, l) = 0
      BY <2>2, Zenon DEF At, Lookup
    <3>3. QED
      BY <2>1, <3>1, <3>2, Layout DEF Live, Places
  <2>3. CASE addrs[i][NDIRECT] # 0
    BY <1>2, <2>1, <2>3, Layout DEF TruncLimit, Live, Places
  <2>4. QED
    BY <2>2, <2>3, Zenon
<1>11. bitmap' = bitmap \ {addrs[i][NDIRECT]} /\ panicked' = FALSE
  <2>1. panicked = FALSE /\ 0 \notin bitmap
    BY DEF DiskInv, DiskType, Blocks
  <2>2. CASE addrs[i][NDIRECT] # 0
    BY <1>1, <2>2, IndirectUsed, Zenon DEF Bfree
  <2>3. CASE addrs[i][NDIRECT] = 0
    BY <1>1, <2>1, <2>3, Zenon
  <2>4. QED
    BY <2>2, <2>3, Zenon
<1>12. /\ \A j \in Inodes \ {i}, l \in Places : At(j, l)' = At(j, l) /\ (Live(j, l)' <=> Live(j, l))
       /\ \A j \in Inodes \ {i} : ~Truncating(j)' => Bytes(j)'
       /\ \A q \in Procs \ {p} : InRange(q)'
  BY <1>i, <1>1, <1>2, <1>4, <1>5, TruncOthers, Zenon
<1>13. DiskType'
  <2>1. bitmap' \subseteq Blocks
    BY <1>11, Zenon DEF DiskInv, DiskType
  <2>2. QED
    BY <1>1, <1>6, <1>7, <1>11, <2>1, Zenon DEF DiskInv, DiskType
<1>14. ~Busy(p)' /\ InRange(p)'
  BY <1>4, Zenon DEF Busy, InRange, InWritei
<1>15. LockInv'
  BY <1>i, <1>1, <1>2, <1>4, <1>14, LockGiven, Zenon
<1>16. OwnInv'
  <2>1. OwnInv /\ \A j \in Inodes, l \in Places : At(j, l) \in 0..NB
    BY Zenon DEF DiskInv, OwnInv
  <2>2. \A j \in Inodes, l \in Places : At(j, l)' \in 0..NB
    BY <1>9, <1>12, <2>1, Layout
  <2>3. /\ MAXFILE \in Places /\ At(i, MAXFILE) = addrs[i][NDIRECT]
        /\ addrs[i][NDIRECT] # 0 => Live(i, MAXFILE)
    BY IndirectLive, Zenon
  <2>4. CASE addrs[i][NDIRECT] # 0
    <3>1. \A j \in Inodes, l \in Places : i # j \/ l # MAXFILE =>
            (Live(j, l)' <=> Live(j, l)) /\ (Live(j, l) => At(j, l)' = At(j, l))
      BY <1>10, <1>12, Zenon
    <3>2. QED
      BY <1>10, <1>11, <2>1, <2>2, <2>3, <2>4, <3>1, OwnFree, Zenon
  <2>5. CASE addrs[i][NDIRECT] = 0
    <3>1. \A j \in Inodes, l \in Places :
            (Live(j, l)' <=> Live(j, l)) /\ (Live(j, l) => At(j, l)' = At(j, l))
      BY <1>10, <1>12, <2>5, Zenon
    <3>2. bitmap' = bitmap
      BY <1>11, <2>5 DEF DiskInv, DiskType, Blocks
    <3>3. QED
      BY <2>1, <2>2, <3>1, <3>2, OwnSame, Zenon
  <2>6. QED
    BY <2>4, <2>5, Zenon
<1>17. Bytes(i)'
  BY <1>5 DEF Bytes, Rewritten
<1>18. QED
  BY <1>12, <1>13, <1>14, <1>15, <1>16, <1>17, Zenon DEF DiskInv

-----------------------------------------------------------------------------
(* The invariant, and what follows.                                        *)

\* An empty disk, empty files and no call under way.
LEMMA InitDisk == Init => DiskInv
<1> SUFFICES ASSUME Init PROVE DiskInv
  OBVIOUS
<1>1. Inv
  BY InitInv, Zenon
<1>2. \A p \in Procs : c[p].pc = "idle"
  BY Zenon DEF Init, NoCall, Call
<1>3. \A i \in Inodes, k \in 0..NDIRECT : addrs[i][k] = 0
  BY Zenon DEF Init
<1>4. \A i \in Inodes : holder[i] = None /\ size[i] = 0 /\ text[i] = << >>
  BY Zenon DEF Init
<1>5. DiskType
  <2>1. Zeroed \in [0..(BSIZE - 1) -> (0..NB) \cup Procs]
    BY Layout DEF Zeroed
  <2>2. data \in [Blocks -> [0..(BSIZE - 1) -> (0..NB) \cup Procs]]
    BY <2>1, Zenon DEF Init
  <2>3. /\ addrs \in [Inodes -> [0..NDIRECT -> 0..NB]] /\ size \in [Inodes -> 0..(MAXFILE * BSIZE)]
        /\ off \in [Fds -> 0..(MAXFILE * BSIZE)] /\ holder \in [Inodes -> Procs \cup {None}]
    BY Layout DEF Init
  <2>4. text \in [Inodes -> Seq(Procs \cup {0, None})] /\ bitmap \subseteq Blocks /\ panicked = FALSE
    BY DEF Init
  <2>5. QED
    BY <2>2, <2>3, <2>4, Zenon DEF DiskType
<1>6. LockInv /\ \A p \in Procs : InRange(p)
  BY <1>2, <1>4, Zenon DEF LockInv, Busy, InRange, InWritei
<1>7. OwnInv
  <2>1. ASSUME NEW i \in Inodes, NEW k \in Places PROVE At(i, k) = 0
    <3>1. addrs[i][NDIRECT] = 0
      BY <1>3, Layout
    <3>2. k < NDIRECT => addrs[i][k] = 0
      BY <1>3, Layout DEF Places
    <3>3. QED
      BY <3>1, <3>2, Zenon DEF At, Lookup
  <2>2. \A i \in Inodes, k \in Places : ~Live(i, k)
    BY <2>1, Zenon DEF Live
  <2>3. bitmap = {} /\ 0 \in 0..NB
    BY Layout DEF Init
  <2>4. QED
    BY <2>1, <2>2, <2>3, Zenon DEF OwnInv
<1>8. \A i \in Inodes : Bytes(i)
  BY <1>4 DEF Bytes, Rewritten
<1>9. QED
  BY <1>1, <1>5, <1>6, <1>7, <1>8, Zenon DEF DiskInv

\* A step that changes nothing.
LEMMA StutterDisk ==
  ASSUME DiskInv, UNCHANGED vars
  PROVE  DiskInv'
<1>1. UNCHANGED <<bitmap, data, addrs, size, holder, off, c, text, logged, panicked>>
  BY Zenon DEF vars, disk, inode
<1>2. (Inv /\ DiskType /\ LockInv)'
  BY <1>1, Zenon DEF DiskInv, Inv, DiskType, LockInv, Busy, Ip
<1>3. /\ \A i \in Inodes, k \in Places : At(i, k)' = At(i, k)
      /\ \A i, k : Lookup(i, k)' = Lookup(i, k)
      /\ \A i \in Inodes, o \in Nat : Byte(i, o)' = Byte(i, o)
  BY <1>1, SameBlocks, Zenon
<1>4. \A i \in Inodes : /\ Truncating(i)' <=> Truncating(i)
                        /\ Cut(i)' = Cut(i)
                        /\ \A o : Rewritten(i, o)' <=> Rewritten(i, o)
  BY <1>1, Zenon DEF Truncating, Cut, Rewritten
<1>5. OwnInv'
  BY <1>1, <1>4, SameOwner, Zenon
<1>6. \A p \in Procs : InRange(p)'
  BY <1>1, RangeKept, Zenon
<1>7. ASSUME NEW i \in Inodes, ~Truncating(i)' PROVE Bytes(i)'
  BY <1>1, <1>3, <1>4, <1>7, BytesKept, Zenon
<1>8. QED
  BY <1>2, <1>5, <1>6, <1>7, Zenon DEF DiskInv

\* Every step of filewrite(), fileread() and itrunc() keeps the invariant.
LEMMA NextDisk == DiskInv /\ [Next]_vars => DiskInv'
<1> SUFFICES ASSUME DiskInv, [Next]_vars PROVE DiskInv'
  OBVIOUS
<1>1. Inv'
  BY NextInv, Zenon DEF DiskInv
<1>2. CASE UNCHANGED vars
  BY <1>2, StutterDisk, Zenon
<1>3. CASE Next
  <2>1. PICK p \in Procs :
          \/ \E f \in Fds, k \in 1..MaxN : Write(p, f, k)
          \/ Writing(p)
          \/ \E f \in Fds, k \in 1..MaxN, copied \in BOOLEAN : Read(p, f, k, copied)
          \/ \E f \in Fds : Truncate(p, f)
          \/ TruncBlock(p)
          \/ TruncEnd(p)
    BY <1>3, Zenon DEF Next
  <2>2. CASE Writing(p)
    BY <1>1, <2>2, ChunkDisk, BmapFullDisk, BmapAddrDisk, BmapIndirectDisk, CopyDisk, CopyFailDisk,
       WriteEndDisk, Zenon DEF Writing
  <2>3. QED
    BY <1>1, <2>1, <2>2, WriteDisk, ReadDisk, TruncateDisk, TruncBlockDisk, TruncEndDisk, Zenon
<1>4. QED
  BY <1>2, <1>3, Zenon

\* So it holds at all times.
LEMMA DiskInvariant == Spec => []DiskInv
  BY InitDisk, NextDisk, PTL DEF Spec

\* The blocks of an inode are those at its places.
LEMMA RefersIs ==
  ASSUME NEW i \in Inodes
  PROVE  /\ \A b \in Refers(i) : b # 0 /\ \E k \in Places : At(i, k) = b
         /\ \A k \in Places : At(i, k) # 0 => At(i, k) \in Refers(i)
<1>1. ASSUME NEW b \in Refers(i) PROVE b # 0 /\ \E k \in Places : At(i, k) = b
  <2>1. b # 0
    BY Zenon DEF Refers
  <2>2. ASSUME NEW k \in 0..NDIRECT, b = addrs[i][k] PROVE \E l \in Places : At(i, l) = b
    <3>1. CASE k = NDIRECT
      <4>1. MAXFILE \in Places /\ At(i, MAXFILE) = b
        BY <2>2, <3>1, Layout DEF Places, At
      <4>2. QED
        BY <4>1, Zenon
    <3>2. CASE k # NDIRECT
      <4>1. k \in Places /\ At(i, k) = b
        BY <2>2, <3>2, AtIs, Layout DEF Places
      <4>2. QED
        BY <4>1, Zenon
    <3>3. QED
      BY <3>1, <3>2, Zenon
  <2>3. ASSUME NEW bn \in NDIRECT..(MAXFILE - 1), b = Lookup(i, bn) PROVE \E l \in Places : At(i, l) = b
    <3>1. bn \in Places /\ bn # MAXFILE
      BY Layout DEF Places
    <3>2. QED
      BY <2>3, <3>1, Zenon DEF At
  <2>4. \/ \E k \in 0..NDIRECT : b = addrs[i][k]
        \/ \E bn \in NDIRECT..(MAXFILE - 1) : b = Lookup(i, bn)
    BY Zenon DEF Refers
  <2>5. QED
    BY <2>1, <2>2, <2>3, <2>4, Zenon
<1>2. ASSUME NEW k \in Places, At(i, k) # 0 PROVE At(i, k) \in Refers(i)
  <2>1. CASE k < NDIRECT \/ k = MAXFILE
    <3>1. \E l \in 0..NDIRECT : At(i, k) = addrs[i][l]
      BY <2>1, AtIs, Layout
    <3>2. QED
      BY <1>2, <3>1, Zenon DEF Refers
  <2>2. CASE ~(k < NDIRECT) /\ k # MAXFILE
    <3>1. k \in NDIRECT..(MAXFILE - 1) /\ At(i, k) = Lookup(i, k)
      BY <2>2, AtIs, Layout DEF Places
    <3>2. addrs[i][NDIRECT] # 0
      BY <1>2, <2>2, <3>1, Zenon DEF Lookup
    <3>3. QED
      BY <1>2, <3>1, <3>2, Zenon DEF Refers
  <2>3. QED
    BY <2>1, <2>2, Zenon
<1>3. QED
  BY <1>1, <1>2, Zenon

\* balloc(), bfree(), bmap() and itrunc() keep the bitmap exact on every disk,
\* with any files and processes: no block is shared, freed twice or lost.
THEOREM FileBitmapExact == Spec => []BitmapExact
<1>1. DiskInv => BitmapExact
  <2> SUFFICES ASSUME DiskInv PROVE BitmapExact
    OBVIOUS
  <2>1. TypeOK /\ ~panicked
    BY Zenon DEF DiskInv, DiskType, LockInv, TypeOK, Busy
  <2>2. \A p \in Procs : Looping(p) => Bn(p) < MAXFILE
    BY LoopFacts, Layout
  <2>3. ASSUME NEW i \in Inodes, Unlocked(i), NEW k \in Places
        PROVE  Live(i, k) <=> At(i, k) # 0
    BY <2>3, Layout DEF Live, Cut, Truncating, Unlocked, Places
  <2>4. ASSUME NEW i \in Inodes, Unlocked(i) PROVE Refers(i) \subseteq bitmap
    BY <2>3, <2>4, RefersIs, LiveUsed, Zenon
  <2>5. \A i, j \in Inodes : \A k, l \in Places :
          Live(i, k) /\ Live(j, l) /\ At(i, k) = At(j, l) => i = j /\ k = l
    BY Zenon DEF DiskInv, OwnInv
  <2>6. ASSUME NEW i \in Inodes, NEW j \in Inodes, i # j, Unlocked(i), Unlocked(j), NEW b \in Refers(i) \cap Refers(j)
        PROVE  FALSE
    <3>1. PICK k \in Places : At(i, k) = b
      BY RefersIs, Zenon
    <3>2. PICK l \in Places : At(j, l) = b
      BY RefersIs, Zenon
    <3>3. b # 0
      BY RefersIs, Zenon
    <3>4. QED
      BY <2>3, <2>5, <2>6, <3>1, <3>2, <3>3, Zenon
  <2>7. ASSUME \A i \in Inodes : Unlocked(i) PROVE bitmap = UNION {Refers(i) : i \in Inodes}
    <3>1. \A b \in bitmap : \E i \in Inodes, k \in Places : Live(i, k) /\ At(i, k) = b
      BY Zenon DEF DiskInv, OwnInv
    <3>2. \A b \in bitmap : \E i \in Inodes : b \in Refers(i)
      BY <2>3, <2>7, <3>1, RefersIs, Zenon
    <3>3. QED
      BY <2>4, <2>7, <3>2, Zenon
  <2>8. QED
    BY <2>1, <2>2, <2>4, <2>6, <2>7, Zenon DEF BitmapExact
<1>2. QED
  BY <1>1, DiskInvariant, PTL

\* What filewrite() has reported as written is what a file holds, through the
\* direct and the indirect blocks and however calls come between each other.
THEOREM FileContentAsWritten == Spec => []ContentAsWritten
<1>1. DiskInv => ContentAsWritten
  <2> SUFFICES ASSUME DiskInv, NEW i \in Inodes, Unlocked(i)
               PROVE  /\ Len(text[i]) = size[i]
                      /\ \A o \in 0..(size[i] - 1) :
                           /\ Lookup(i, o \div BSIZE) # 0
                           /\ text[i][o + 1] \in {None, data[Lookup(i, o \div BSIZE)][o % BSIZE]}
    BY Zenon DEF ContentAsWritten
  <2>1. ~Truncating(i) /\ \A o : ~Rewritten(i, o)
    BY Zenon DEF Unlocked, Truncating, Rewritten
  <2>2. QED
    BY <2>1, Zenon DEF DiskInv, Bytes, Byte
<1>2. QED
  BY <1>1, DiskInvariant, PTL
=============================================================================
