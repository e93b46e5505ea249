--------------------------- MODULE FileDataProofs ---------------------------
(***************************************************************************)
(* The arithmetic of kernel/file.c filewrite(): the part of a write() that *)
(* it puts in one transaction fits in the MAXOPBLOCKS blocks that          *)
(* begin_op() has reserved, for every block size and every MAXOPBLOCKS,    *)
(* however the write is aligned.                                           *)
(*                                                                         *)
(* Then the inductive invariant of the blocks and the bytes, DiskInv, with *)
(* the facts about locks and about owners of blocks that its proof uses.   *)
(* BitmapExact and ContentAsWritten speak of inodes that nobody has        *)
(* locked; DiskInv says what holds in the middle of a writei(), whose      *)
(* bytes are on the disk but not yet in the file, and of an itrunc(),      *)
(* which has freed the blocks below tot but still finds their numbers in   *)
(* the indirect block.  The steps of writei() are in FileDataWrites, those *)
(* of balloc() and itrunc() and the theorems in FileDataBlocks.            *)
(***************************************************************************)
EXTENDS FileData, FiniteSetTheorems, TLAPS

\* The transaction of process p, with the iupdate() that ends writei().
Transaction(p) == logged[p] \cup {InodeBlock}

\* No write() logs more blocks than its begin_op() has reserved.
TransactionFits == \A p \in Procs : Cardinality(Transaction(p)) <= MAXOPBLOCKS

-----------------------------------------------------------------------------
\* The blocks of the file that the writei() of a call may touch, from the
\* offset at which it has started.
Start(call) == call.woff - call.tot
FirstBn(call) == Start(call) \div BSIZE
LastBn(call) == (Start(call) + call.n1 - 1) \div BSIZE
Reach(call) == ((-3)..(-1)) \cup (FirstBn(call)..LastBn(call))

Calls == [pc : {"idle", "chunk", "loop", "end", "trunc"}, fd : Fds \cup {None},
          left : Nat, n1 : Nat, tot : Nat, woff : Nat]

InWritei(call) == call.pc \in {"loop", "end"}

\* What holds of a call and of the blocks that it has logged.
Good(call, blocks) ==
  /\ call \in Calls
  /\ call.pc # "idle" => call.fd \in Fds
  /\ call.pc = "chunk" => call.left > 0
  /\ InWritei(call) =>
       call.n1 \in 1..ChunkMax /\ call.tot <= call.woff /\ call.tot <= call.n1
  /\ blocks \subseteq (IF InWritei(call) THEN Reach(call) ELSE {})

\* The inductive invariant.
Inv ==
  /\ c \in [Procs -> Calls]
  /\ logged \in [Procs -> SUBSET Int]
  /\ off \in [Fds -> Nat]
  /\ size \in [Inodes -> Nat]
  /\ \A p \in Procs : Good(c[p], logged[p])

-----------------------------------------------------------------------------
\* Division with remainder, from which \div is bounded.
LEMMA DivFacts ==
  ASSUME NEW b \in Nat \ {0}, NEW o \in Nat
  PROVE  o \div b \in Nat /\ b * (o \div b) <= o /\ o < b * (o \div b) + b
  OBVIOUS

\* n bytes, at most k blocks full, touch at most k + 1 blocks.
LEMMA SpanBound ==
  ASSUME NEW b \in Nat \ {0}, NEW o \in Nat, NEW k \in Nat, NEW n \in 1..(k * b)
  PROVE  ((o + n - 1) \div b) - (o \div b) <= k
<1> DEFINE q == o \div b
           r == (o + n - 1) \div b
<1>0. k * b \in Nat
  OBVIOUS
<1>1. q \in Nat /\ o < b * q + b
  BY DivFacts, Zenon
<1>2. r \in Nat /\ b * r <= o + n - 1
  BY <1>0, DivFacts
<1>3. b * r < b * q + b + k * b
  BY <1>0, <1>1, <1>2
<1>4. b * r < b * (q + 1 + k)
  BY <1>3
<1>5. r < q + 1 + k
  BY <1>1, <1>2, <1>4
<1>6. QED
  BY <1>1, <1>2, <1>5

\* The chunk that filewrite() cuts off: a number of blocks, of which one more
\* fits in a transaction beside the inode, indirect and bitmap blocks.
LEMMA ChunkFacts ==
  \E k \in Nat : ChunkMax = k * BSIZE /\ k + 4 <= MAXOPBLOCKS
<1> DEFINE k == (MAXOPBLOCKS - 1 - 1 - 2) \div 2
<1>1. BSIZE \in Nat \ {0} /\ MAXOPBLOCKS \in Nat \ {0} /\ ChunkMax > 0
  BY FileDataAssumption, Zenon
<1>2. k \in Int /\ 2 * k <= MAXOPBLOCKS - 4
  BY <1>1
<1>3. ChunkMax = k * BSIZE
  BY Zenon DEF ChunkMax
<1>4. k > 0
  BY <1>1, <1>2, <1>3
<1>5. k \in Nat /\ k + 4 <= MAXOPBLOCKS
  BY <1>1, <1>2, <1>4
<1>6. QED
  BY <1>3, <1>5, Zenon

\* The smaller of two numbers, as FiniteSetsExt defines it.
LEMMA MinPair ==
  ASSUME NEW a \in Int, NEW b \in Int
  PROVE  Min({a, b}) \in {a, b} /\ Min({a, b}) <= a /\ Min({a, b}) <= b
<1>1. \E x \in {a, b} : \A y \in {a, b} : x <= y
  OBVIOUS
<1>2. QED
  BY <1>1, Zenon DEF Min

\* The larger of two numbers, as FiniteSetsExt defines it.
LEMMA MaxPair ==
  ASSUME NEW a \in Nat, NEW b \in Nat
  PROVE  Max({a, b}) \in Nat
<1>1. \E x \in {a, b} : \A y \in {a, b} : x >= y
  OBVIOUS
<1>2. QED
  BY <1>1, Zenon DEF Max

\* The block of a byte does not decrease with its offset.
LEMMA DivMonotone ==
  ASSUME NEW b \in Nat \ {0}, NEW m \in Nat, NEW n \in Nat, m <= n
  PROVE  m \div b <= n \div b
<1> DEFINE q == m \div b
           r == n \div b
<1>1. q \in Nat /\ b * q <= m
  BY DivFacts, Zenon
<1>2. r \in Nat /\ n < b * r + b
  BY DivFacts, Zenon
<1>3. b * q < b * (r + 1)
  BY <1>1, <1>2
<1>4. q < r + 1
  BY <1>1, <1>2, <1>3
<1>5. QED
  BY <1>1, <1>2, <1>4

\* The block that writei() is at is one of those it may touch.
LEMMA BnInReach ==
  ASSUME NEW call, NEW blocks, Good(call, blocks), call.pc = "loop", call.tot < call.n1
  PROVE  call.woff \div BSIZE \in Reach(call)
<1> DEFINE a == Start(call)
           w == call.woff
           z == Start(call) + call.n1 - 1
<1>0. BSIZE \in Nat \ {0}
  BY FileDataAssumption, Zenon
<1>1. a \in Nat /\ w \in Nat /\ z \in Nat /\ a <= w /\ w <= z
  BY DEF Good, Calls, InWritei, Start
<1> HIDE DEF a, w, z
<1>2. a \div BSIZE \in Nat /\ w \div BSIZE \in Nat /\ z \div BSIZE \in Nat
  BY <1>0, <1>1, DivFacts, Zenon
<1>3. a \div BSIZE <= w \div BSIZE
  BY <1>0, <1>1, DivMonotone, Zenon
<1>4. w \div BSIZE <= z \div BSIZE
  BY <1>0, <1>1, DivMonotone, Zenon
<1>5. QED
  BY <1>2, <1>3, <1>4 DEF Reach, FirstBn, LastBn, a, w, z

\* The blocks of a transaction have numbers; the first three may always be there.
LEMMA InReach ==
  ASSUME NEW call, NEW b \in Reach(call)
  PROVE  b \in Int /\ -1 \in Reach(call) /\ -2 \in Reach(call) /\ -3 \in Reach(call)
  BY DEF Reach

\* Init has no call under way.
LEMMA InitInv == Init => Inv
  BY FileDataAssumption DEF Init, Inv, Good, InWritei, NoCall, Calls, Call

\* A step that changes the call of one process, and what it has logged, for
\* good ones keeps Inv.
LEMMA OneCall ==
  ASSUME Inv, NEW p \in Procs, NEW call, NEW blocks \in SUBSET Int, Good(call, blocks),
         c' = [c EXCEPT ![p] = call], logged' = [logged EXCEPT ![p] = blocks],
         off' \in [Fds -> Nat], size' \in [Inodes -> Nat]
  PROVE  Inv'
<1>1. c' \in [Procs -> Calls] /\ logged' \in [Procs -> SUBSET Int]
  BY Zenon DEF Inv, Good
<1>2. \A q \in Procs : /\ c'[q] = IF q = p THEN call ELSE c[q]
                       /\ logged'[q] = IF q = p THEN blocks ELSE logged[q]
  BY Zenon DEF Inv
<1>3. \A q \in Procs : Good(c'[q], logged'[q])
  BY <1>2, Zenon DEF Inv
<1>4. QED
  BY <1>1, <1>3, Zenon DEF Inv, Good, InWritei, Reach, FirstBn, LastBn, Start

\* What Inv says of one process.
LEMMA InvGood ==
  ASSUME Inv, NEW p \in Procs
  PROVE  /\ Good(c[p], logged[p]) /\ logged[p] \in SUBSET Int
         /\ c = [c EXCEPT ![p] = c[p]] /\ logged = [logged EXCEPT ![p] = logged[p]]
  BY Zenon DEF Inv

\* Every step of the calls keeps the invariant.
LEMMA NextInv == Inv /\ [Next]_vars => Inv'
<1> SUFFICES ASSUME Inv, [Next]_vars PROVE Inv'
  OBVIOUS
<1>a. BSIZE \in Nat \ {0} /\ ChunkMax \in Nat \ {0} /\ \A fd \in Fds : Ino(fd) \in Inodes
  BY FileDataAssumption, ChunkFacts
<1>b. off \in [Fds -> Nat] /\ size \in [Inodes -> Nat]
  BY Zenon DEF Inv
<1>c. Good(NoCall, {}) /\ {} \in SUBSET Int
  BY Zenon DEF Good, InWritei, NoCall, Calls, Call
<1>d. ASSUME NEW p \in Procs, c[p].pc \in {"idle", "chunk", "trunc"}
      PROVE  logged[p] = {}
  BY <1>d, InvGood, Zenon DEF Good, InWritei
<1>1. ASSUME NEW p \in Procs, NEW f \in Fds, NEW k \in 1..MaxN, Write(p, f, k) PROVE Inv'
  <2> DEFINE call == Call("chunk", f, k, 0, 0, 0)
  <2>1. Good(call, {})
    BY FileDataAssumption DEF Good, InWritei, Calls, Call
  <2>2. logged' = [logged EXCEPT ![p] = {}]
    BY <1>1, <1>d, InvGood, Zenon DEF Write
  <2>3. QED
    BY <1>1, <1>b, <1>c, <2>1, <2>2, OneCall, Zenon DEF Write, inode
<1>2. ASSUME NEW p \in Procs, Chunk(p) PROVE Inv'
  <2> DEFINE n == Min({c[p].left, ChunkMax})
             o == off[c[p].fd]
             call == Call("loop", c[p].fd, c[p].left, n, 0, o)
  <2>1. c[p].pc = "chunk" /\ Good(c[p], logged[p])
    BY <1>2, InvGood, Zenon DEF Chunk
  <2>2. n \in 1..ChunkMax
    <3>1. c[p].left \in Nat \ {0} /\ c[p].left \in Int /\ ChunkMax \in Int
      BY <1>a, <2>1 DEF Good, Calls
    <3>2. n \in {c[p].left, ChunkMax} /\ n <= c[p].left /\ n <= ChunkMax
      BY <3>1, MinPair, Zenon
    <3>3. QED
      BY <1>a, <3>1, <3>2
  <2>3. o \in Nat
    BY <1>b, <2>1, Zenon DEF Good
  <2>4. Good(call, {})
    <3>1. c[p].fd \in Fds /\ c[p].left \in Nat /\ n \in Nat
      BY <1>a, <2>1, <2>2 DEF Good, Calls
    <3>2. QED
      BY <2>2, <2>3, <3>1 DEF Good, Calls, Call
  <2>5. logged' = [logged EXCEPT ![p] = {}] /\ off' = off /\ size' = size
    BY <1>2, Zenon DEF Chunk, inode
  <2>6. CASE c' = [c EXCEPT ![p] = call]
    BY <1>b, <1>c, <2>4, <2>5, <2>6, OneCall, Zenon
  <2>7. CASE Return(p)
    BY <1>b, <1>c, <2>5, <2>7, OneCall, Zenon DEF Return
  <2>8. QED
    BY <1>2, <2>6, <2>7, Zenon DEF Chunk
<1>3. ASSUME NEW p \in Procs, BmapFull(p) PROVE Inv'
  <2>1. Good([c[p] EXCEPT !.pc = "end"], logged[p])
    BY <1>3, InvGood, Zenon DEF BmapFull, Looping, Good, InWritei, Reach, FirstBn, LastBn, Start, Calls
  <2>2. QED
    BY <1>3, <1>b, <2>1, InvGood, OneCall, Zenon DEF BmapFull, inode
<1>4. ASSUME NEW p \in Procs, BmapAddr(p) PROVE Inv'
  <2> DEFINE new == {BitmapBlock, IF Bn(p) < NDIRECT THEN Bn(p) ELSE IndirectBlock}
  <2>1. c[p].pc = "loop" /\ c[p].tot < c[p].n1 /\ Good(c[p], logged[p])
    BY <1>4, InvGood, Zenon DEF BmapAddr, Looping
  <2>2. Bn(p) \in Reach(c[p])
    BY <2>1, BnInReach, Zenon DEF Bn
  <2>3. new \subseteq Reach(c[p]) /\ new \in SUBSET Int
    BY <2>2, InReach, Zenon DEF BitmapBlock, IndirectBlock
  <2>4. Good(c[p], logged[p] \cup new)
    BY <2>1, <2>3, Zenon DEF Good, InWritei
  <2>5. logged' = [logged EXCEPT ![p] = logged[p] \cup new] /\ c' = c /\ off' = off /\ size' = size
    BY <1>4, Zenon DEF BmapAddr, Logs
  <2>6. logged[p] \cup new \in SUBSET Int
    BY <2>3, InvGood, Zenon
  <2>7. QED
    BY <1>b, <2>4, <2>5, <2>6, InvGood, OneCall, Zenon
<1>5. ASSUME NEW p \in Procs, BmapIndirect(p) PROVE Inv'
  <2> DEFINE new == {BitmapBlock, IndirectBlock, Bn(p)}
  <2>1. c[p].pc = "loop" /\ c[p].tot < c[p].n1 /\ Good(c[p], logged[p])
    BY <1>5, InvGood, Zenon DEF BmapIndirect, Looping
  <2>2. Bn(p) \in Reach(c[p])
    BY <2>1, BnInReach, Zenon DEF Bn
  <2>3. new \subseteq Reach(c[p]) /\ new \in SUBSET Int
    BY <2>2, InReach, Zenon DEF BitmapBlock, IndirectBlock
  <2>4. Good(c[p], logged[p] \cup new)
    BY <2>1, <2>3, Zenon DEF Good, InWritei
  <2>5. logged' = [logged EXCEPT ![p] = logged[p] \cup new] /\ c' = c /\ off' = off /\ size' = size
    BY <1>5, Zenon DEF BmapIndirect, Logs, inode
  <2>6. logged[p] \cup new \in SUBSET Int
    BY <2>3, InvGood, Zenon
  <2>7. QED
    BY <1>b, <2>4, <2>5, <2>6, InvGood, OneCall
<1>6. ASSUME NEW p \in Procs, Copy(p) PROVE Inv'
  <2> DEFINE m == Part(p)
             call == Call("loop", c[p].fd, c[p].left, c[p].n1, c[p].tot + m, c[p].woff + m)
             new == {Bn(p)}
  <2>1. c[p].pc = "loop" /\ c[p].tot < c[p].n1 /\ Good(c[p], logged[p])
    BY <1>6, InvGood, Zenon DEF Copy, Looping
  <2>2. c[p].woff % BSIZE \in 0..(BSIZE - 1)
    BY <1>a, <2>1 DEF Good, Calls
  <2>3. m \in 0..(c[p].n1 - c[p].tot)
    <3> DEFINE u == c[p].n1 - c[p].tot
               v == BSIZE - (c[p].woff % BSIZE)
    <3>1. u \in Nat /\ v \in Nat
      BY <1>a, <2>1, <2>2 DEF Good, Calls
    <3>2. m = Min({u, v})
      BY Zenon DEF Part
    <3> HIDE DEF u, v, m
    <3>3. u \in Int /\ v \in Int
      BY <3>1
    <3>4. Min({u, v}) \in {u, v} /\ Min({u, v}) <= u
      BY <3>3, MinPair, Zenon
    <3>5. m \in 0..u
      BY <3>1, <3>2, <3>4
    <3>6. QED
      BY <3>5, Zenon DEF u
  <2>4. new \subseteq Reach(c[p]) /\ new \in SUBSET Int
    BY <2>1, BnInReach, InReach, Zenon DEF Bn
  <2>5. Reach(call) = Reach(c[p])
    <3>1. Start(call) = Start(c[p]) /\ call.n1 = c[p].n1
      BY <2>1, <2>3 DEF Start, Call, Good, Calls
    <3>2. QED
      BY <3>1, Zenon DEF Reach, FirstBn, LastBn
  <2>6. logged[p] \cup new \subseteq Reach(call)
    BY <2>1, <2>4, <2>5, Zenon DEF Good, InWritei
  <2>7. Good(call, logged[p] \cup new)
    <3>1. /\ call \in Calls /\ call.fd \in Fds /\ call.pc = "loop"
          /\ call.n1 \in 1..ChunkMax /\ call.tot <= call.woff /\ call.tot <= call.n1
      BY <2>1, <2>3 DEF Good, InWritei, Calls, Call
    <3>2. QED
      BY <2>6, <3>1, Zenon DEF Good, InWritei
  <2>8. /\ c' = [c EXCEPT ![p] = call] /\ logged' = [logged EXCEPT ![p] = logged[p] \cup new]
        /\ off' = off /\ size' = size
    BY <1>6, Zenon DEF Copy, Logs, inode
  <2>9. logged[p] \cup new \in SUBSET Int
    BY <2>4, InvGood, Zenon
  <2>10. QED
    BY <1>b, <2>7, <2>8, <2>9, OneCall, Zenon
<1>7. ASSUME NEW p \in Procs, NEW k \in 0..MaxTorn, CopyFail(p, k) PROVE Inv'
  <2>1. Good([c[p] EXCEPT !.pc = "end"], logged[p])
    BY <1>7, InvGood, Zenon DEF CopyFail, Looping, Good, InWritei, Reach, FirstBn, LastBn, Start, Calls
  <2>2. QED
    BY <1>7, <1>b, <2>1, InvGood, OneCall, Zenon DEF CopyFail, inode
<1>8. ASSUME NEW p \in Procs, WriteEnd(p) PROVE Inv'
  <2> DEFINE next == Call("chunk", c[p].fd, c[p].left - c[p].tot, 0, 0, 0)
  <2>1. c[p].pc \in {"loop", "end"} /\ Good(c[p], logged[p])
    BY <1>8, InvGood, Zenon DEF WriteEnd
  <2>2. c[p].fd \in Fds /\ Ip(p) \in Inodes /\ c[p].tot \in Nat /\ c[p].woff \in Nat /\ c[p].left \in Nat
    BY <1>a, <2>1, Zenon DEF Good, Calls, Ip
  <2>3. off' \in [Fds -> Nat]
    BY <1>8, <1>b, <2>2 DEF WriteEnd
  <2>4. size' \in [Inodes -> Nat]
    BY <1>8, <1>b, <2>2, MaxPair, Zenon DEF WriteEnd
  <2>5. logged' = [logged EXCEPT ![p] = {}]
    BY <1>8, Zenon DEF WriteEnd
  <2>6. CASE c[p].left > c[p].tot /\ c' = [c EXCEPT ![p] = next]
    <3>1. Good(next, {})
      BY <2>2, <2>6 DEF Good, InWritei, Calls, Call
    <3>2. QED
      BY <1>c, <2>3, <2>4, <2>5, <2>6, <3>1, OneCall, Zenon
  <2>7. CASE Return(p)
    BY <1>c, <2>3, <2>4, <2>5, <2>7, OneCall, Zenon DEF Return
  <2>8. QED
    BY <1>8, <2>6, <2>7, Zenon DEF WriteEnd
<1>9. ASSUME NEW p \in Procs, NEW f \in Fds, NEW k \in 1..MaxN, NEW copied \in BOOLEAN,
             Read(p, f, k, copied) PROVE Inv'
  <2> DEFINE n == IF off[f] > size[Ino(f)] THEN 0 ELSE Min({k, size[Ino(f)] - off[f]})
  <2>1. n \in Nat
    <3>1. off[f] \in Nat /\ size[Ino(f)] \in Nat /\ k \in Nat
      BY <1>a, <1>b, FileDataAssumption
    <3>2. size[Ino(f)] - off[f] \in Int /\ k \in Int
      BY <3>1
    <3>3. Min({k, size[Ino(f)] - off[f]}) \in {k, size[Ino(f)] - off[f]}
      BY <3>2, MinPair, Zenon
    <3>4. QED
      BY <3>1, <3>3
  <2>2. off' = [off EXCEPT ![f] = IF copied THEN @ + n ELSE @]
    BY <1>9, Zenon DEF Read
  <2>3. off' \in [Fds -> Nat]
    BY <1>b, <2>1, <2>2
  <2>4. size' = size /\ c' = c /\ logged' = logged
    BY <1>9, Zenon DEF Read, inode
  <2>5. QED
    BY <1>b, <2>3, <2>4, InvGood, OneCall, Zenon
<1>10. ASSUME NEW p \in Procs, NEW f \in Fds, Truncate(p, f) PROVE Inv'
  <2>1. Good(Call("trunc", f, 0, 0, 0, 0), {})
    BY Zenon DEF Good, InWritei, Calls, Call
  <2>2. logged' = [logged EXCEPT ![p] = {}]
    BY <1>10, <1>d, InvGood, Zenon DEF Truncate
  <2>3. QED
    BY <1>10, <1>b, <1>c, <2>1, <2>2, OneCall, Zenon DEF Truncate, inode
<1>11. ASSUME NEW p \in Procs, TruncBlock(p) PROVE Inv'
  <2>1. Good([c[p] EXCEPT !.tot = @ + 1], {})
    BY <1>11, InvGood DEF TruncBlock, Good, InWritei, Calls
  <2>2. logged' = [logged EXCEPT ![p] = {}]
    BY <1>11, <1>d, InvGood, Zenon DEF TruncBlock
  <2>3. QED
    BY <1>11, <1>b, <1>c, <2>1, <2>2, OneCall, Zenon DEF TruncBlock
<1>12. ASSUME NEW p \in Procs, TruncEnd(p) PROVE Inv'
  <2>1. logged' = [logged EXCEPT ![p] = {}]
    BY <1>12, <1>d, InvGood, Zenon DEF TruncEnd
  <2>2. QED
    BY <1>12, <1>b, <1>c, <2>1, OneCall, Zenon DEF TruncEnd, Return
<1>13. CASE UNCHANGED vars
  BY <1>13, Zenon DEF vars, inode, Inv, Good, InWritei, Reach, FirstBn, LastBn, Start
<1>14. QED
  BY <1>1, <1>2, <1>3, <1>4, <1>5, <1>6, <1>7, <1>8, <1>9, <1>10, <1>11, <1>12, <1>13, Zenon
  DEF Next, Writing

-----------------------------------------------------------------------------
\* A transaction of at most k + 1 blocks of the file and three others is finite
\* and has at most k + 4 blocks.
LEMMA ReachBound ==
  ASSUME NEW first \in Nat, NEW last \in Nat, NEW k \in Nat, last - first <= k,
         NEW S \in SUBSET (((-3)..(-1)) \cup (first..last))
  PROVE  Cardinality(S) \in Nat /\ Cardinality(S) <= k + 4
<1> DEFINE A == (-3)..(-1)
           B == first..last
<1>0. -3 \in Int /\ -1 \in Int /\ first \in Int /\ last \in Int
  OBVIOUS
<1>1. IsFiniteSet(A) /\ Cardinality(A) = 3
  <2>1. IsFiniteSet(A) /\ Cardinality(A) = IF -3 > -1 THEN 0 ELSE (-1) - (-3) + 1
    BY ONLY <1>0, FS_Interval, Zenon
  <2>2. QED
    BY <2>1
<1>2. IsFiniteSet(B) /\ Cardinality(B) \in 0..(k + 1)
  <2>1. IsFiniteSet(B) /\ Cardinality(B) = IF first > last THEN 0 ELSE last - first + 1
    BY ONLY <1>0, FS_Interval, Zenon
  <2>2. QED
    BY <2>1
<1>3. A \cap B = {}
  OBVIOUS
<1> HIDE DEF A, B
<1>4. IsFiniteSet(A \cup B) /\ Cardinality(A \cup B) = 3 + Cardinality(B)
  <2>1. /\ IsFiniteSet(A \cup B)
        /\ Cardinality(A \cup B) = Cardinality(A) + Cardinality(B) - Cardinality(A \cap B)
    BY <1>1, <1>2, FS_Union, Zenon
  <2>2. Cardinality(A \cap B) = 0
    BY ONLY <1>3, FS_EmptySet, Zenon
  <2>3. QED
    BY <1>1, <1>2, <2>1, <2>2
<1>5. S \in SUBSET (A \cup B)
  BY Zenon DEF A, B
<1>6. IsFiniteSet(S) /\ Cardinality(S) <= Cardinality(A \cup B)
  BY <1>4, <1>5, FS_Subset, Zenon
<1>7. Cardinality(S) \in Nat
  BY <1>6, FS_CardinalityType, Zenon
<1>8. QED
  BY <1>2, <1>4, <1>6, <1>7

\* filewrite() never logs more blocks in a transaction than begin_op() has
\* reserved for it, whatever the offset and the size of the write().
THEOREM WriteFitsInTransaction == Spec => []TransactionFits
<1>1. Inv => TransactionFits
  <2> SUFFICES ASSUME Inv, NEW p \in Procs
               PROVE  Cardinality(Transaction(p)) <= MAXOPBLOCKS
    BY Zenon DEF TransactionFits
  <2>1. PICK k \in Nat : ChunkMax = k * BSIZE /\ k + 4 <= MAXOPBLOCKS
    BY ChunkFacts, Zenon
  <2>2. BSIZE \in Nat \ {0} /\ MAXOPBLOCKS \in Nat
    BY FileDataAssumption, Zenon
  <2>3. CASE InWritei(c[p])
    <3>1. Start(c[p]) \in Nat /\ c[p].n1 \in 1..(k * BSIZE)
      BY <2>1, <2>3, InvGood DEF Good, Calls, Start
    <3>2. LastBn(c[p]) - FirstBn(c[p]) <= k
      BY <2>2, <3>1, SpanBound, Zenon DEF LastBn, FirstBn
    <3>3. FirstBn(c[p]) \in Nat /\ LastBn(c[p]) \in Nat
      BY <2>2, <3>1, DivFacts DEF LastBn, FirstBn
    <3>4. Transaction(p) \in SUBSET (((-3)..(-1)) \cup (FirstBn(c[p])..LastBn(c[p])))
      BY <2>3, InvGood DEF Good, Reach, Transaction, InodeBlock
    <3>5. Cardinality(Transaction(p)) \in Nat /\ Cardinality(Transaction(p)) <= k + 4
      BY <3>2, <3>3, <3>4, ReachBound, Zenon
    <3>6. QED
      BY <2>1, <2>2, <3>5
  <2>4. CASE ~InWritei(c[p])
    <3>1. Transaction(p) = {InodeBlock}
      BY <2>4, InvGood, Zenon DEF Good, Transaction
    <3>2. Cardinality({InodeBlock}) = 1
      BY FS_Singleton, Zenon
    <3>3. QED
      BY <2>1, <2>2, <3>1, <3>2
  <2>5. QED
    BY <2>3, <2>4, Zenon
<1>2. QED
  BY <1>1, InitInv, NextInv, PTL DEF Spec

-----------------------------------------------------------------------------
(***************************************************************************)
(* The places of inode i that can hold a block number: those of its blocks *)
(* 0..(MAXFILE - 1), and last the one of the indirect block.               *)
(***************************************************************************)
Places == 0..MAXFILE
At(i, k) == IF k = MAXFILE THEN addrs[i][NDIRECT] ELSE Lookup(i, k)

\* p is between ilock() and iunlock().
Busy(p) == c[p].pc \in {"loop", "end", "trunc"}

\* itrunc() is at work on inode i, and has freed the places below Cut(i);
\* what the indirect block still says of them counts no more.
Truncating(i) == holder[i] # None /\ c[holder[i]].pc = "trunc"
Cut(i) == IF Truncating(i) THEN c[holder[i]].tot ELSE 0
Live(i, k) == k >= Cut(i) /\ At(i, k) # 0

DiskType ==
  /\ bitmap \subseteq Blocks
  /\ data \in [Blocks -> [0..(BSIZE - 1) -> (0..NB) \cup Procs]]
  /\ addrs \in [Inodes -> [0..NDIRECT -> 0..NB]]
  /\ size \in [Inodes -> 0..(MAXFILE * BSIZE)]
  /\ off \in [Fds -> 0..(MAXFILE * BSIZE)]
  /\ holder \in [Inodes -> Procs \cup {None}]
  /\ text \in [Inodes -> Seq(Procs \cup {0, None})]
  /\ panicked = FALSE

\* ip->lock is held by whoever is in writei() or itrunc().
LockInv ==
  /\ \A p \in Procs : Busy(p) => holder[Ip(p)] = p
  /\ \A i \in Inodes : holder[i] # None => Busy(holder[i]) /\ Ip(holder[i]) = i

\* The live places name blocks in use, every block in use, and none twice.
OwnInv ==
  /\ \A i \in Inodes, k \in Places : At(i, k) \in 0..NB
  /\ \A i \in Inodes, k \in Places : Live(i, k) => At(i, k) \in bitmap
  /\ \A b \in bitmap : \E i \in Inodes, k \in Places : Live(i, k) /\ At(i, k) = b
  /\ \A i, j \in Inodes : \A k, l \in Places :
       Live(i, k) /\ Live(j, l) /\ At(i, k) = At(j, l) => i = j /\ k = l

\* A writei() has started at the offset of its file, inside the file, and will
\* end below MAXFILE; itrunc() has cleared the direct blocks it has passed.
InRange(p) ==
  LET call == c[p] IN
  /\ InWritei(call) => /\ off[call.fd] = Start(call)
                       /\ off[call.fd] <= size[Ip(p)]
                       /\ off[call.fd] + call.n1 <= MAXFILE * BSIZE
  /\ call.pc = "trunc" => /\ call.tot <= TruncLimit(Ip(p))
                          /\ \A k \in 0..(NDIRECT - 1) : k < call.tot => addrs[Ip(p)][k] = 0

\* The byte of inode i at offset o; a writei() under way has put it there.
Byte(i, o) == data[Lookup(i, o \div BSIZE)][o % BSIZE]
Rewritten(i, o) == /\ holder[i] # None
                   /\ Start(c[holder[i]]) <= o /\ o < c[holder[i]].woff

\* The file has the bytes that are reported or that a writei() under way has
\* put there, and a block for each.
Bytes(i) ==
  /\ Len(text[i]) = size[i]
  /\ \A o \in 0..(size[i] - 1) :
       /\ Lookup(i, o \div BSIZE) # 0
       /\ Rewritten(i, o) \/ text[i][o + 1] \in {None, Byte(i, o)}
  /\ \A o \in Nat : Rewritten(i, o) => Lookup(i, o \div BSIZE) # 0 /\ Byte(i, o) = holder[i]

\* The inductive invariant of the blocks and the bytes; Inv is part of it.
DiskInv ==
  /\ Inv /\ DiskType /\ LockInv /\ OwnInv
  /\ \A p \in Procs : InRange(p)
  /\ \A i \in Inodes : ~Truncating(i) => Bytes(i)

-----------------------------------------------------------------------------
\* The numbers of the layout.
LEMMA Layout ==
  /\ NB \in Nat /\ NDIRECT \in Nat \ {0} /\ BSIZE \in Nat \ {0} /\ NINDIRECT \in Nat
  /\ NINDIRECT <= BSIZE
  /\ MAXFILE \in Nat /\ MAXFILE = NDIRECT + NINDIRECT
  /\ MAXFILE * BSIZE \in Nat
<1>1. NB \in Nat /\ NDIRECT \in Nat \ {0} /\ BSIZE \in Nat \ {0}
  BY FileDataAssumption, Zenon
<1>2. NINDIRECT \in Nat /\ NINDIRECT <= BSIZE
  BY <1>1 DEF NINDIRECT
<1>3. MAXFILE \in Nat /\ MAXFILE = NDIRECT + NINDIRECT
  BY <1>1, <1>2 DEF MAXFILE
<1>4. MAXFILE * BSIZE \in Nat
  BY <1>1, <1>3
<1>5. QED
  BY <1>1, <1>2, <1>3, <1>4, Zenon

\* Where the block number of a place is.
LEMMA AtIs ==
  ASSUME NEW i \in Inodes, NEW k \in Places
  PROVE  /\ k < NDIRECT => At(i, k) = addrs[i][k] /\ k \in 0..NDIRECT
         /\ k = MAXFILE => At(i, k) = addrs[i][NDIRECT]
         /\ k >= NDIRECT /\ k # MAXFILE =>
              /\ At(i, k) = IF addrs[i][NDIRECT] = 0 THEN 0
                            ELSE data[addrs[i][NDIRECT]][k - NDIRECT]
              /\ k - NDIRECT \in 0..(BSIZE - 1)
         /\ k # MAXFILE => At(i, k) = Lookup(i, k)
  BY Layout DEF At, Lookup, Places

\* The block of a file that a byte is in.
LEMMA BlockOfByte ==
  ASSUME NEW o \in Nat
  PROVE  /\ o \div BSIZE \in Nat /\ o % BSIZE \in 0..(BSIZE - 1)
         /\ o = BSIZE * (o \div BSIZE) + (o % BSIZE)
         /\ o < MAXFILE * BSIZE => o \div BSIZE \in 0..(MAXFILE - 1) /\ o \div BSIZE \in Places /\ o \div BSIZE # MAXFILE
<1>1. BSIZE \in Nat \ {0} /\ MAXFILE \in Nat
  BY Layout, Zenon
<1>2. /\ o \div BSIZE \in Nat /\ o % BSIZE \in 0..(BSIZE - 1)
      /\ o = BSIZE * (o \div BSIZE) + (o % BSIZE)
  BY <1>1
<1>3. ASSUME o < MAXFILE * BSIZE PROVE o \div BSIZE < MAXFILE
  BY <1>1, <1>2, <1>3
<1>4. QED
  BY <1>1, <1>2, <1>3 DEF Places

\* Bytes of one block.
LEMMA SameBlock ==
  ASSUME NEW w \in Nat, NEW o \in Nat, o \div BSIZE = w \div BSIZE
  PROVE  o - w = (o % BSIZE) - (w % BSIZE)
<1> DEFINE q == w \div BSIZE
           r == w % BSIZE
           s == o % BSIZE
<1>1. /\ w = BSIZE * q + r /\ q \in Nat /\ r \in Nat
      /\ o = BSIZE * q + s /\ s \in Nat
  BY BlockOfByte
<1>2. BSIZE * q \in Nat
  BY <1>1, Layout
<1> HIDE DEF q, r, s
<1>3. o - w = s - r
  BY <1>1, <1>2
<1>4. QED
  BY <1>3, Zenon DEF r, s

\* The last byte that a part of a writei() puts in a block is still in it.
LEMMA WithinBlock ==
  ASSUME NEW w \in Nat, NEW o \in Nat, w <= o, o < w + BSIZE - (w % BSIZE)
  PROVE  o \div BSIZE = w \div BSIZE
<1> DEFINE q == w \div BSIZE
           r == o \div BSIZE
<1>1. BSIZE \in Nat \ {0}
  BY Layout, Zenon
<1>2. /\ q \in Nat /\ w = BSIZE * q + (w % BSIZE) /\ w % BSIZE \in 0..(BSIZE - 1)
      /\ r \in Nat /\ o = BSIZE * r + (o % BSIZE) /\ o % BSIZE \in 0..(BSIZE - 1)
  BY BlockOfByte, Zenon
<1>3. BSIZE * r < BSIZE * (q + 1) /\ BSIZE * q < BSIZE * (r + 1)
  BY <1>1, <1>2
<1>4. r < q + 1 /\ q < r + 1
  BY <1>1, <1>2, <1>3
<1>5. QED
  BY <1>2, <1>4
-----------------------------------------------------------------------------
(* What the steps have in common.                                          *)

\* ilock(): a process is in writei() or itrunc() of the inode whose lock it holds.
LEMMA Locks ==
  ASSUME DiskInv, NEW p \in Procs
  PROVE  /\ c[p] \in Calls /\ Good(c[p], logged[p]) /\ InRange(p)
         /\ c[p].pc # "idle" => c[p].fd \in Fds /\ Ip(p) \in Inodes
         /\ Busy(p) => holder[Ip(p)] = p /\ p # None
         /\ \A i \in Inodes : holder[i] = p => Busy(p) /\ Ip(p) = i
         /\ \A i \in Inodes : holder[i] \in Procs \cup {None}
<1>1. p # None
  BY FileDataAssumption, Zenon
<1>2. c[p] \in Calls /\ Good(c[p], logged[p])
  BY Zenon DEF DiskInv, Inv
<1>3. c[p].pc # "idle" => c[p].fd \in Fds /\ Ip(p) \in Inodes
  BY <1>2, FileDataAssumption, Zenon DEF Good, Ip
<1>4. QED
  BY <1>1, <1>2, <1>3, Zenon DEF DiskInv, LockInv, DiskType

\* A step of p changes nothing for an inode that another process holds, or that
\* nobody holds before and after.
LEMMA Others ==
  ASSUME DiskInv, NEW p \in Procs, \A q \in Procs \ {p} : c'[q] = c[q],
         NEW i \in Inodes, holder'[i] = holder[i], holder[i] # p
  PROVE  /\ Truncating(i)' <=> Truncating(i)
         /\ Cut(i)' = Cut(i)
         /\ \A o : Rewritten(i, o)' <=> Rewritten(i, o)
<1>1. holder[i] # None => c'[holder[i]] = c[holder[i]]
  BY Zenon DEF DiskInv, DiskType
<1>2. Truncating(i)' <=> Truncating(i)
  BY <1>1, Zenon DEF Truncating
<1>3. Cut(i)' = Cut(i)
  BY <1>1, <1>2, Zenon DEF Cut, Truncating
<1>4. ASSUME NEW o PROVE Rewritten(i, o)' <=> Rewritten(i, o)
  BY <1>1, Zenon DEF Rewritten, Start
<1>5. QED
  BY <1>2, <1>3, <1>4, Zenon

\* ip->lock stays where it is.
LEMMA LockKept ==
  ASSUME DiskInv, NEW p \in Procs, \A q \in Procs \ {p} : c'[q] = c[q], holder' = holder,
         Busy(p)' <=> Busy(p), c'[p].fd = c[p].fd \/ ~Busy(p)
  PROVE  LockInv'
<1>1. \A q \in Procs : (Busy(q)' <=> Busy(q)) /\ (Busy(q) => Ip(q)' = Ip(q))
  BY Zenon DEF Busy, Ip
<1>2. \A i \in Inodes : holder[i] # None => holder[i] \in Procs
  BY Zenon DEF DiskInv, DiskType
<1>3. QED
  BY <1>1, <1>2, Zenon DEF DiskInv, LockInv

\* ilock()
LEMMA LockTaken ==
  ASSUME DiskInv, NEW p \in Procs, \A q \in Procs \ {p} : c'[q] = c[q],
         ~Busy(p), Busy(p)', Ip(p)' \in Inodes, holder[Ip(p)'] = None,
         holder' = [holder EXCEPT ![Ip(p)'] = p]
  PROVE  LockInv'
<1> DEFINE i == Ip(p)'
<1>1. \A q \in Procs \ {p} : (Busy(q)' <=> Busy(q)) /\ (Busy(q) => Ip(q)' = Ip(q))
  BY Zenon DEF Busy, Ip
<1>2. \A j \in Inodes : holder'[j] = IF j = i THEN p ELSE holder[j]
  BY Zenon DEF DiskInv, DiskType
<1>3. \A j \in Inodes : holder[j] # None => holder[j] \in Procs /\ holder[j] # p
  BY Locks, Zenon
<1>4. \A q \in Procs : Busy(q) => Ip(q) \in Inodes /\ holder[Ip(q)] = q /\ q # None
  BY Locks, Zenon DEF Busy
<1>5. \A q \in Procs : Busy(q)' => holder'[Ip(q)'] = q
  BY <1>1, <1>2, <1>4, Zenon
<1>6. \A j \in Inodes : holder'[j] # None =>
        \E q \in Procs : q = holder'[j] /\ Busy(q)' /\ Ip(q)' = j
  BY <1>1, <1>2, <1>3 DEF DiskInv, LockInv
<1>7. QED
  BY <1>5, <1>6, Zenon DEF LockInv, Busy, Ip

\* iunlock()
LEMMA LockGiven ==
  ASSUME DiskInv, NEW p \in Procs, \A q \in Procs \ {p} : c'[q] = c[q],
         Busy(p), ~Busy(p)', holder' = [holder EXCEPT ![Ip(p)] = None]
  PROVE  LockInv'
<1>1. \A q \in Procs \ {p} : (Busy(q)' <=> Busy(q)) /\ (Busy(q) => Ip(q)' = Ip(q))
  BY Zenon DEF Busy, Ip
<1>2. \A j \in Inodes : holder'[j] = IF j = Ip(p) THEN None ELSE holder[j]
  BY Zenon DEF DiskInv, DiskType
<1>3. \A j \in Inodes : holder[j] # None => holder[j] \in Procs
  BY Locks, Zenon
<1>4. \A q \in Procs : Busy(q) => Ip(q) \in Inodes /\ holder[Ip(q)] = q /\ q # None
  BY Locks, Zenon DEF Busy
<1>5. \A q \in Procs : Busy(q)' => holder'[Ip(q)'] = q
  BY <1>1, <1>2, <1>4
<1>6. \A j \in Inodes : holder'[j] # None =>
        \E q \in Procs : q = holder'[j] /\ Busy(q)' /\ Ip(q)' = j
  BY <1>1, <1>2, <1>3 DEF DiskInv, LockInv
<1>7. QED
  BY <1>5, <1>6, Zenon DEF LockInv, Busy, Ip

\* A step that moves no block keeps the ownership.
LEMMA OwnSame ==
  ASSUME OwnInv, bitmap' = bitmap,
         \A i \in Inodes, k \in Places :
           At(i, k)' \in 0..NB /\ (Live(i, k)' <=> Live(i, k)) /\ (Live(i, k) => At(i, k)' = At(i, k))
  PROVE  OwnInv'
<1>1. Places' = Places
  BY Zenon DEF Places
<1>2. \A i \in Inodes, k \in Places : At(i, k)' \in 0..NB /\ (Live(i, k)' => At(i, k)' \in bitmap')
  BY DEF OwnInv
<1>3. \A b \in bitmap' : \E i \in Inodes, k \in Places : Live(i, k)' /\ At(i, k)' = b
  BY DEF OwnInv
<1>4. \A i, j \in Inodes : \A k, l \in Places :
        Live(i, k)' /\ Live(j, l)' /\ At(i, k)' = At(j, l)' => i = j /\ k = l
  BY DEF OwnInv
<1>5. QED
  BY <1>1, <1>2, <1>3, <1>4, Zenon DEF OwnInv

\* ... in particular one that changes no block number.
LEMMA OwnKept ==
  ASSUME OwnInv, bitmap' = bitmap,
         \A i \in Inodes, k \in Places : At(i, k)' = At(i, k) /\ (Live(i, k)' <=> Live(i, k))
  PROVE  OwnInv'
<1>1. \A i \in Inodes, k \in Places : At(i, k) \in 0..NB
  BY Zenon DEF OwnInv
<1>2. QED
  BY <1>1, OwnSame, Zenon

\* balloc() gives block b to place k of inode i.
LEMMA OwnAlloc ==
  ASSUME OwnInv, NEW b \in Blocks \ bitmap, bitmap' = bitmap \cup {b},
         NEW i \in Inodes, NEW k \in Places, ~Live(i, k), Live(i, k)', At(i, k)' = b,
         \A j \in Inodes, l \in Places :
           i # j \/ l # k => At(j, l)' = At(j, l) /\ (Live(j, l)' <=> Live(j, l))
  PROVE  OwnInv'
<1>1. b \in 0..NB
  BY Layout DEF Blocks
<1>2. \A j \in Inodes, l \in Places : At(j, l)' \in 0..NB /\ (Live(j, l)' => At(j, l)' \in bitmap')
  BY <1>1 DEF OwnInv
<1>3. \A d \in bitmap' : \E j \in Inodes, l \in Places : Live(j, l)' /\ At(j, l)' = d
  <2> SUFFICES ASSUME NEW d \in bitmap' PROVE \E j \in Inodes, l \in Places : Live(j, l)' /\ At(j, l)' = d
    OBVIOUS
  <2>1. CASE d = b
    BY <2>1, Zenon
  <2>2. CASE d \in bitmap
    BY <2>2 DEF OwnInv
  <2>3. QED
    BY <2>1, <2>2, Zenon
<1>4. \A h, j \in Inodes : \A l, m \in Places :
        Live(h, l)' /\ Live(j, m)' /\ At(h, l)' = At(j, m)' => h = j /\ l = m
  BY DEF OwnInv
<1>5. QED
  BY <1>2, <1>3, <1>4, Zenon DEF OwnInv, Places

\* bfree() of the block that place k of inode i has.
LEMMA OwnFree ==
  ASSUME OwnInv, NEW i \in Inodes, NEW k \in Places, bitmap' = bitmap \ {At(i, k)},
         Live(i, k), ~Live(i, k)',
         \A j \in Inodes, l \in Places :
           /\ At(j, l)' \in 0..NB
           /\ i # j \/ l # k => (Live(j, l)' <=> Live(j, l)) /\ (Live(j, l) => At(j, l)' = At(j, l))
  PROVE  OwnInv'
<1>2. \A j \in Inodes, l \in Places : At(j, l)' \in 0..NB /\ (Live(j, l)' => At(j, l)' \in bitmap')
  BY DEF OwnInv
<1>3. \A d \in bitmap' : \E j \in Inodes, l \in Places : Live(j, l)' /\ At(j, l)' = d
  BY DEF OwnInv
<1>4. \A h, j \in Inodes : \A l, m \in Places :
        Live(h, l)' /\ Live(j, m)' /\ At(h, l)' = At(j, m)' => h = j /\ l = m
  BY Zenon DEF OwnInv
<1>5. QED
  BY <1>2, <1>3, <1>4, Zenon DEF OwnInv, Places

\* Two processes in writei() or itrunc() work on different inodes.
LEMMA Distinct ==
  ASSUME DiskInv, NEW p \in Procs, NEW q \in Procs, p # q, Busy(p), Busy(q)
  PROVE  Ip(p) # Ip(q) /\ c[p].fd # c[q].fd
<1>1. Ip(p) # Ip(q)
  BY Locks, Zenon
<1>2. QED
  BY <1>1, Zenon DEF Ip

\* The range of a call that a step of another process does not concern.
LEMMA RangeKept ==
  ASSUME DiskInv, NEW q \in Procs, c'[q] = c[q],
         Busy(q) => /\ size'[Ip(q)] = size[Ip(q)] /\ addrs'[Ip(q)] = addrs[Ip(q)]
                    /\ off'[c[q].fd] = off[c[q].fd]
  PROVE  InRange(q)'
<1>1. Ip(q)' = Ip(q) /\ InRange(q)
  BY Locks, Zenon DEF Ip
<1>2. CASE InWritei(c[q])
  BY <1>1, <1>2, Zenon DEF InRange, InWritei, Start, Busy
<1>3. CASE c[q].pc = "trunc"
  BY <1>1, <1>3, Zenon DEF InRange, InWritei, TruncLimit, Busy
<1>4. CASE ~InWritei(c[q]) /\ c[q].pc # "trunc"
  BY <1>4, Zenon DEF InRange, InWritei
<1>5. QED
  BY <1>2, <1>3, <1>4, Zenon

\* What a writei() has put in the file is below MAXFILE.
LEMMA RewrittenBelow ==
  ASSUME DiskInv, NEW i \in Inodes, ~Truncating(i), NEW o \in Nat, Rewritten(i, o)
  PROVE  o < MAXFILE * BSIZE /\ InWritei(c[holder[i]])
<1> DEFINE p == holder[i]
<1>1. p \in Procs /\ InWritei(c[p])
  BY Locks, Zenon DEF Rewritten, Truncating, DiskInv, DiskType, LockInv, Busy, InWritei
<1>2. /\ off[c[p].fd] = Start(c[p]) /\ off[c[p].fd] + c[p].n1 <= MAXFILE * BSIZE
      /\ c[p].tot <= c[p].n1 /\ c[p] \in Calls /\ c[p].fd \in Fds
  BY <1>1, Locks, Zenon DEF InRange, Good, InWritei
<1>3. o < c[p].woff
  BY Zenon DEF Rewritten
<1>4. off[c[p].fd] \in Nat
  BY <1>2, Zenon DEF DiskInv, Inv
<1>5. QED
  BY <1>1, <1>2, <1>3, <1>4, Layout DEF Start, Calls

\* An inode whose blocks, text and writer stay as they are.
LEMMA BytesKept ==
  ASSUME DiskInv, NEW i \in Inodes, ~Truncating(i), size'[i] = size[i], text'[i] = text[i],
         \A o \in Nat : (Rewritten(i, o)' <=> Rewritten(i, o))
                        /\ (Rewritten(i, o) => holder'[i] = holder[i]),
         \A k \in Places : k # MAXFILE /\ At(i, k) # 0 =>
           At(i, k)' = At(i, k) /\ data'[At(i, k)] = data[At(i, k)]
  PROVE  Bytes(i)'
<1>1. Bytes(i) /\ size[i] \in 0..(MAXFILE * BSIZE)
  BY Zenon DEF DiskInv, DiskType
<1>2. ASSUME NEW o \in Nat, o < MAXFILE * BSIZE
      PROVE  Lookup(i, o \div BSIZE) # 0 =>
               Lookup(i, o \div BSIZE)' = Lookup(i, o \div BSIZE) /\ Byte(i, o)' = Byte(i, o)
  <2> DEFINE k == o \div BSIZE
  <2>1. k \in Places /\ k # MAXFILE
    BY <1>2, BlockOfByte, Zenon
  <2> HIDE DEF k
  <2>2. Lookup(i, k)' = At(i, k)' /\ Lookup(i, k) = At(i, k)
    BY <2>1, Zenon DEF At
  <2>3. Lookup(i, k) # 0 => Lookup(i, k)' = Lookup(i, k) /\ data'[Lookup(i, k)] = data[Lookup(i, k)]
    BY <2>1, <2>2, Zenon
  <2>4. QED
    BY <2>3, Zenon DEF Byte, k
<1>3. \A o \in 0..(size[i] - 1) : o \in Nat /\ o < MAXFILE * BSIZE
  BY <1>1, Layout
<1>4. \A o \in 0..(size[i] - 1) : /\ Lookup(i, o \div BSIZE)' # 0
                                  /\ Rewritten(i, o)' \/ text[i][o + 1] \in {None, Byte(i, o)'}
  BY <1>1, <1>2, <1>3, Zenon DEF Bytes
<1>5. ASSUME NEW o \in Nat, Rewritten(i, o)'
      PROVE  Lookup(i, o \div BSIZE)' # 0 /\ Byte(i, o)' = holder'[i]
  <2>1. o < MAXFILE * BSIZE /\ Rewritten(i, o)
    BY <1>5, RewrittenBelow, Zenon
  <2>2. QED
    BY <1>1, <1>2, <2>1, Zenon DEF Bytes
<1>6. QED
  BY <1>1, <1>4, <1>5, Zenon DEF Bytes

\* A step that changes neither the blocks nor the inodes' block numbers.
LEMMA SameBlocks ==
  ASSUME addrs' = addrs, data' = data
  PROVE  /\ \A i \in Inodes, k \in Places : At(i, k)' = At(i, k)
         /\ \A i, k : Lookup(i, k)' = Lookup(i, k)
         /\ \A i \in Inodes, o \in Nat : Byte(i, o)' = Byte(i, o)
  BY Zenon DEF At, Lookup, Byte

\* ... nor how far an itrunc() is.
LEMMA SameOwner ==
  ASSUME DiskInv, addrs' = addrs, data' = data, bitmap' = bitmap, \A i \in Inodes : Cut(i)' = Cut(i)
  PROVE  OwnInv'
<1>1. \A i \in Inodes, k \in Places : At(i, k)' = At(i, k)
  BY SameBlocks, Zenon
<1>2. \A i \in Inodes, k \in Places : Live(i, k)' <=> Live(i, k)
  BY <1>1, Zenon DEF Live
<1>3. QED
  BY <1>1, <1>2, OwnKept, Zenon DEF DiskInv

\* The call of one process.
LEMMA OneChanges ==
  ASSUME DiskInv, NEW p \in Procs, NEW call, c' = [c EXCEPT ![p] = call]
  PROVE  c'[p] = call /\ \A q \in Procs \ {p} : c'[q] = c[q]
  BY Zenon DEF DiskInv, Inv

-----------------------------------------------------------------------------
(* Calls under way.                                                        *)

\* A process that is not in writei() or itrunc() is the holder of no inode.
LEMMA NotHolder ==
  ASSUME DiskInv, NEW p \in Procs, ~Busy(p)
  PROVE  \A i \in Inodes : holder[i] # p
  BY Locks, Zenon

\* What a step does to the inode that its process holds, or takes, or lets go.
LEMMA OwnInode ==
  ASSUME DiskInv, Inv', NEW p \in Procs, \A q \in Procs \ {p} : c'[q] = c[q],
         NEW i \in Inodes, \A j \in Inodes \ {i} : holder'[j] = holder[j] /\ holder[j] # p,
         holder[i] \in {None, p}, DiskType', LockInv', InRange(p)',
         UNCHANGED <<disk, addrs>>,
         \A j \in Inodes \ {i} : size'[j] = size[j] /\ text'[j] = text[j],
         \A f \in Fds : Ino(f) # i => off'[f] = off[f],
         Cut(i)' = Cut(i), ~Truncating(i)' => Bytes(i)'
  PROVE  DiskInv'
<1>1. \A j \in Inodes \ {i} : /\ Truncating(j)' <=> Truncating(j)
                              /\ Cut(j)' = Cut(j)
                              /\ \A o : Rewritten(j, o)' <=> Rewritten(j, o)
  BY Others, Zenon
<1>2. OwnInv'
  BY <1>1, SameOwner, Zenon DEF disk
<1>3. \A q \in Procs : InRange(q)'
  <2>1. ASSUME NEW q \in Procs \ {p}, Busy(q) PROVE Ip(q) # i /\ Ip(q) \in Inodes /\ c[q].fd \in Fds
    BY <2>1, Locks DEF Busy
  <2>2. \A q \in Procs \ {p} : InRange(q)'
    BY <2>1, RangeKept, Zenon DEF Ip
  <2>3. QED
    BY <2>2, Zenon
<1>4. ASSUME NEW j \in Inodes \ {i}, ~Truncating(j)' PROVE Bytes(j)'
  BY <1>1, <1>4, BytesKept, SameBlocks, Zenon DEF disk
<1>5. QED
  BY <1>2, <1>3, <1>4, Zenon DEF DiskInv

\* writei() in its loop.
LEMMA LoopFacts ==
  ASSUME DiskInv, NEW p \in Procs, Looping(p)
  PROVE  /\ Ip(p) \in Inodes /\ c[p].fd \in Fds /\ holder[Ip(p)] = p /\ p # None
         /\ ~Truncating(Ip(p)) /\ Cut(Ip(p)) = 0
         /\ c[p] \in Calls /\ c[p].pc = "loop" /\ Busy(p) /\ InWritei(c[p])
         /\ c[p].woff \in Nat /\ c[p].woff < MAXFILE * BSIZE
         /\ Start(c[p]) \in Nat /\ Start(c[p]) <= c[p].woff
         /\ c[p].woff + (c[p].n1 - c[p].tot) <= MAXFILE * BSIZE
         /\ Bn(p) \in 0..(MAXFILE - 1) /\ Bn(p) \in Places /\ Bn(p) # MAXFILE
         /\ c[p].woff % BSIZE \in 0..(BSIZE - 1)
         /\ Part(p) \in Nat \ {0} /\ Part(p) <= c[p].n1 - c[p].tot
         /\ Part(p) <= BSIZE - (c[p].woff % BSIZE)
<1>1. c[p].pc = "loop" /\ c[p].tot < c[p].n1 /\ Busy(p) /\ InWritei(c[p])
  BY Zenon DEF Looping, Busy, InWritei
<1>2. /\ Ip(p) \in Inodes /\ c[p].fd \in Fds /\ holder[Ip(p)] = p /\ p # None
      /\ c[p] \in Calls /\ Good(c[p], logged[p]) /\ InRange(p)
  BY <1>1, Locks, Zenon DEF Busy
<1>3. ~Truncating(Ip(p)) /\ Cut(Ip(p)) = 0
  BY <1>1, <1>2, Zenon DEF Truncating, Cut
<1>4. /\ c[p].woff \in Nat /\ c[p].n1 \in Nat /\ c[p].tot \in Nat /\ c[p].tot <= c[p].woff
      /\ off[c[p].fd] = Start(c[p]) /\ off[c[p].fd] + c[p].n1 <= MAXFILE * BSIZE
  BY <1>1, <1>2, Zenon DEF Good, Calls, InRange, InWritei
<1>5. /\ c[p].woff < MAXFILE * BSIZE /\ c[p].woff + (c[p].n1 - c[p].tot) <= MAXFILE * BSIZE
      /\ Start(c[p]) \in Nat /\ Start(c[p]) <= c[p].woff
  BY <1>1, <1>4, Layout DEF Start
<1>6. /\ Bn(p) \in 0..(MAXFILE - 1) /\ Bn(p) \in Places /\ Bn(p) # MAXFILE
      /\ c[p].woff % BSIZE \in 0..(BSIZE - 1)
  BY <1>4, <1>5, BlockOfByte, Zenon DEF Bn
<1>7. /\ Part(p) \in Nat \ {0} /\ Part(p) <= c[p].n1 - c[p].tot
      /\ Part(p) <= BSIZE - (c[p].woff % BSIZE)
  <2> DEFINE u == c[p].n1 - c[p].tot
             v == BSIZE - (c[p].woff % BSIZE)
  <2>1. u \in Nat \ {0} /\ v \in Nat \ {0} /\ u \in Int /\ v \in Int
    BY <1>1, <1>4, <1>6, Layout
  <2> HIDE DEF u, v
  <2>2. Min({u, v}) \in {u, v} /\ Min({u, v}) <= u /\ Min({u, v}) <= v
    BY <2>1, MinPair, Zenon
  <2>3. Part(p) = Min({u, v})
    BY Zenon DEF Part, u, v
  <2>4. Part(p) \in Nat \ {0} /\ Part(p) <= u /\ Part(p) <= v
    BY <2>1, <2>2, <2>3, Zenon
  <2>5. QED
    BY <2>4, Zenon DEF u, v
<1>8. QED
  BY <1>1, <1>2, <1>3, <1>4, <1>5, <1>6, <1>7, Zenon

\* writei() in its loop or at its end.
LEMMA WriteFacts ==
  ASSUME DiskInv, NEW p \in Procs, InWritei(c[p])
  PROVE  /\ Ip(p) \in Inodes /\ c[p].fd \in Fds /\ holder[Ip(p)] = p /\ p # None
         /\ ~Truncating(Ip(p)) /\ Cut(Ip(p)) = 0 /\ Busy(p) /\ Bytes(Ip(p))
         /\ c[p] \in Calls /\ c[p].woff \in Nat /\ c[p].tot \in Nat /\ c[p].n1 \in Nat
         /\ off[c[p].fd] = Start(c[p]) /\ Start(c[p]) \in Nat /\ Start(c[p]) + c[p].tot = c[p].woff
         /\ Start(c[p]) <= size[Ip(p)] /\ size[Ip(p)] \in 0..(MAXFILE * BSIZE)
         /\ c[p].woff <= MAXFILE * BSIZE
<1>1. Busy(p) /\ c[p].pc \in {"loop", "end"}
  BY Zenon DEF Busy, InWritei
<1>2. /\ Ip(p) \in Inodes /\ c[p].fd \in Fds /\ holder[Ip(p)] = p /\ p # None
      /\ c[p] \in Calls /\ Good(c[p], logged[p]) /\ InRange(p)
  BY <1>1, Locks, Zenon DEF Busy
<1>3. ~Truncating(Ip(p)) /\ Cut(Ip(p)) = 0
  BY <1>1, <1>2, Zenon DEF Truncating, Cut
<1>4. /\ c[p].woff \in Nat /\ c[p].n1 \in Nat /\ c[p].tot \in Nat
      /\ c[p].tot <= c[p].woff /\ c[p].tot <= c[p].n1
      /\ off[c[p].fd] = Start(c[p]) /\ off[c[p].fd] + c[p].n1 <= MAXFILE * BSIZE
      /\ off[c[p].fd] <= size[Ip(p)]
  BY <1>1, <1>2, Zenon DEF Good, Calls, InRange, InWritei
<1>5. Start(c[p]) \in Nat /\ Start(c[p]) + c[p].tot = c[p].woff
  BY <1>4 DEF Start
<1>6. c[p].woff <= MAXFILE * BSIZE
  BY <1>4, <1>5, Layout
<1>7. Bytes(Ip(p)) /\ size[Ip(p)] \in 0..(MAXFILE * BSIZE)
  BY <1>2, <1>3, Zenon DEF DiskInv, DiskType
<1>8. QED
  BY <1>1, <1>2, <1>3, <1>4, <1>5, <1>6, <1>7, Zenon

\* The indirect block of an inode is live, until the end of itrunc().
LEMMA IndirectLive ==
  ASSUME DiskInv, NEW i \in Inodes
  PROVE  /\ Cut(i) \in Nat /\ Cut(i) <= MAXFILE /\ MAXFILE \in Places
         /\ At(i, MAXFILE) = addrs[i][NDIRECT]
         /\ addrs[i][NDIRECT] # 0 => Live(i, MAXFILE)
<1>1. Cut(i) \in Nat /\ Cut(i) <= MAXFILE
  <2>1. CASE ~Truncating(i)
    BY <2>1, Layout DEF Cut
  <2>2. CASE Truncating(i)
    <3> DEFINE p == holder[i]
    <3>1. p \in Procs /\ c[p].pc = "trunc" /\ Cut(i) = c[p].tot /\ Ip(p) = i
      BY <2>2, Zenon DEF Truncating, Cut, DiskInv, DiskType, LockInv
    <3>2. c[p].tot \in Nat /\ c[p].tot <= TruncLimit(i)
      BY <3>1, Locks, Zenon DEF InRange, Calls
    <3>3. TruncLimit(i) <= MAXFILE /\ TruncLimit(i) \in Nat
      BY Layout DEF TruncLimit
    <3>4. QED
      BY <3>1, <3>2, <3>3, Layout
  <2>3. QED
    BY <2>1, <2>2, Zenon
<1>2. MAXFILE \in Places /\ At(i, MAXFILE) = addrs[i][NDIRECT]
  BY Layout DEF Places, At
<1>3. QED
  BY <1>1, <1>2, Layout, Zenon DEF Live

\* A live place names a block that is in use.
LEMMA LiveUsed ==
  ASSUME DiskInv, NEW i \in Inodes, NEW k \in Places, Live(i, k)
  PROVE  At(i, k) \in bitmap /\ At(i, k) \in Blocks /\ At(i, k) # 0
  BY Zenon DEF DiskInv, OwnInv, DiskType, Live

\* The indirect blocks in use: none is free, and none is shared.
LEMMA IndirectUsed ==
  ASSUME DiskInv, NEW i \in Inodes, addrs[i][NDIRECT] # 0
  PROVE  /\ addrs[i][NDIRECT] \in bitmap /\ addrs[i][NDIRECT] \in Blocks
         /\ \A j \in Inodes \ {i} : addrs[j][NDIRECT] # addrs[i][NDIRECT]
         /\ \A j \in Inodes, l \in Places :
              Live(j, l) /\ l # MAXFILE => At(j, l) # addrs[i][NDIRECT]
<1>1. Live(i, MAXFILE) /\ At(i, MAXFILE) = addrs[i][NDIRECT] /\ MAXFILE \in Places
  BY IndirectLive, Zenon
<1>2. addrs[i][NDIRECT] \in bitmap /\ addrs[i][NDIRECT] \in Blocks
  BY <1>1, LiveUsed, Zenon
<1>3. \A h, j \in Inodes : \A l, m \in Places :
        Live(h, l) /\ Live(j, m) /\ At(h, l) = At(j, m) => h = j /\ l = m
  BY Zenon DEF DiskInv, OwnInv
<1>4. ASSUME NEW j \in Inodes \ {i}, addrs[j][NDIRECT] = addrs[i][NDIRECT] PROVE FALSE
  <2>1. Live(j, MAXFILE) /\ At(j, MAXFILE) = addrs[j][NDIRECT]
    BY <1>4, IndirectLive, Zenon
  <2>2. QED
    BY <1>1, <1>3, <1>4, <2>1, Zenon
<1>5. QED
  BY <1>1, <1>2, <1>3, <1>4, Zenon

\* The block numbers of an inode are in addrs and in the indirect block.
LEMMA SameNumbers ==
  ASSUME NEW j \in Inodes, NEW l \in Places, addrs'[j] = addrs[j],
         addrs[j][NDIRECT] # 0 => data'[addrs[j][NDIRECT]] = data[addrs[j][NDIRECT]]
  PROVE  At(j, l)' = At(j, l)
  BY Zenon DEF At, Lookup

\* The larger of two numbers.
LEMMA MaxIs ==
  ASSUME NEW a \in Nat, NEW b \in Nat
  PROVE  Max({a, b}) = IF a >= b THEN a ELSE b
<1>1. \E x \in {a, b} : \A y \in {a, b} : x >= y
  OBVIOUS
<1>2. Max({a, b}) \in {a, b} /\ Max({a, b}) >= a /\ Max({a, b}) >= b
  BY <1>1, Zenon DEF Max
<1>3. QED
  BY <1>2

\* What Splice does to a sequence that it starts in.
LEMMA SpliceIs ==
  ASSUME NEW S, NEW s \in Seq(S), NEW v \in S, NEW o \in Nat, o <= Len(s), NEW k \in Nat
  PROVE  /\ Splice(s, o, k, v) \in Seq(S)
         /\ Len(Splice(s, o, k, v)) = IF Len(s) >= o + k THEN Len(s) ELSE o + k
         /\ \A j \in Nat : j < Len(Splice(s, o, k, v)) =>
              Splice(s, o, k, v)[j + 1] = IF o <= j /\ j < o + k THEN v ELSE s[j + 1]
<1> DEFINE n == IF Len(s) >= o + k THEN Len(s) ELSE o + k
           e(j) == IF j > o /\ j <= o + k THEN v ELSE IF j <= Len(s) THEN s[j] ELSE 0
<1>1. Len(s) \in Nat /\ n \in Nat
  OBVIOUS
<1>2. Max({Len(s), o + k}) = n
  BY <1>1, MaxIs
<1>3. Splice(s, o, k, v) = [j \in 1..n |-> e(j)]
  BY <1>2, Zenon DEF Splice
<1>5. \A j \in 1..n : e(j) \in S
  BY <1>1
<1>6. \A j \in Nat : j < n => e(j + 1) = IF o <= j /\ j < o + k THEN v ELSE s[j + 1]
  BY <1>1
<1> HIDE DEF n, e
<1>7. Splice(s, o, k, v) \in Seq(S) /\ Len(Splice(s, o, k, v)) = n
  BY <1>1, <1>3, <1>5
<1>8. \A j \in Nat : j < n => Splice(s, o, k, v)[j + 1] = e(j + 1)
  BY <1>1, <1>3
<1>9. QED
  BY <1>6, <1>7, <1>8, Zenon DEF n
=============================================================================
