--------------------------- MODULE FileDataWrites ---------------------------
(***************************************************************************)
(* The steps of kernel/file.c filewrite() and fileread() that allocate no  *)
(* block keep DiskInv: taking and giving up ip->lock, copying into a block *)
(* that is there, a copy that fails, and the end of writei().              *)
(***************************************************************************)
EXTENDS FileDataProofs

-----------------------------------------------------------------------------
(* The steps that leave the blocks alone.                                  *)

\* A step in which a process that holds no inode does not take one.
LEMMA Outside ==
  ASSUME DiskInv, Inv', NEW p \in Procs, \A q \in Procs \ {p} : c'[q] = c[q],
         ~Busy(p), ~Busy(p)', UNCHANGED <<disk, inode, holder, text, panicked>>,
         off' \in [Fds -> 0..(MAXFILE * BSIZE)],
         \A q \in Procs : Busy(q) => off'[c[q].fd] = off[c[q].fd]
  PROVE  DiskInv'
<1>1. DiskType'
  BY Zenon DEF DiskInv, DiskType, disk, inode
<1>2. LockInv'
  BY LockKept, Zenon DEF Busy
<1>3. \A i \in Inodes : /\ Truncating(i)' <=> Truncating(i)
                        /\ Cut(i)' = Cut(i)
                        /\ \A o : Rewritten(i, o)' <=> Rewritten(i, o)
  BY NotHolder, Others, Zenon
<1>4. OwnInv'
  BY <1>3, SameOwner, Zenon DEF disk, inode
<1>5. \A q \in Procs : InRange(q)'
  <2>1. InRange(p)'
    BY Zenon DEF Busy, InRange, InWritei
  <2>2. \A q \in Procs \ {p} : InRange(q)'
    BY RangeKept, Zenon DEF inode
  <2>3. QED
    BY <2>1, <2>2, Zenon
<1>6. \A i \in Inodes : ~Truncating(i)' => Bytes(i)'
  BY <1>3, BytesKept, SameBlocks, Zenon DEF disk, inode
<1>7. QED
  BY <1>1, <1>2, <1>4, <1>5, <1>6, Zenon DEF DiskInv

\* filewrite() starts: no lock is taken yet.
LEMMA WriteDisk ==
  ASSUME DiskInv, Inv', NEW p \in Procs, NEW f \in Fds, NEW k \in 1..MaxN, Write(p, f, k)
  PROVE  DiskInv'
<1>0. c' = [c EXCEPT ![p] = Call("chunk", f, k, 0, 0, 0)] /\ c[p].pc = "idle"
  BY Zenon DEF Write
<1>1. c'[p] = Call("chunk", f, k, 0, 0, 0) /\ \A q \in Procs \ {p} : c'[q] = c[q]
  BY <1>0, OneChanges, Zenon
<1>2. ~Busy(p) /\ ~Busy(p)'
  BY <1>0, <1>1 DEF Busy, Call
<1>3. off' \in [Fds -> 0..(MAXFILE * BSIZE)]
  BY Zenon DEF Write, DiskInv, DiskType
<1>4. QED
  BY <1>1, <1>2, <1>3, Outside, Zenon DEF Write

\* fileread() with readi(): each byte below size has a block, so that bmap()
\* allocates none and nothing panics; the offset stays inside the largest file.
LEMMA ReadDisk ==
  ASSUME DiskInv, Inv', NEW p \in Procs, NEW f \in Fds, NEW k \in 1..MaxN, NEW copied \in BOOLEAN,
         Read(p, f, k, copied)
  PROVE  DiskInv'
<1> DEFINE i == Ino(f)
           n == IF off[f] > size[i] THEN 0 ELSE Min({k, size[i] - off[f]})
           bns == {o \div BSIZE : o \in off[f]..(off[f] + n - 1)}
<1>1. /\ c[p].pc = "idle" /\ holder[i] = None /\ i \in Inodes /\ UNCHANGED <<disk, inode, holder, c, text>>
      /\ off' = [off EXCEPT ![f] = IF copied THEN @ + n ELSE @]
      /\ panicked' = (\E bn \in bns : Lookup(i, bn) = 0)
  BY FileDataAssumption, Zenon DEF Read
<1>2. off[f] \in 0..(MAXFILE * BSIZE) /\ size[i] \in 0..(MAXFILE * BSIZE) /\ k \in Nat /\ off \in [Fds -> 0..(MAXFILE * BSIZE)]
  BY <1>1, FileDataAssumption DEF DiskInv, DiskType
<1>3. n \in Nat /\ (off[f] > size[i] => n = 0) /\ (off[f] <= size[i] => off[f] + n <= size[i])
  <2>1. size[i] - off[f] \in Int /\ k \in Int
    BY <1>2, Layout
  <2>2. Min({k, size[i] - off[f]}) \in {k, size[i] - off[f]} /\ Min({k, size[i] - off[f]}) <= size[i] - off[f]
    BY <2>1, MinPair, Zenon
  <2>3. QED
    BY <1>2, <2>2, Layout
<1> HIDE DEF n
<1>4. off[f] + n \in 0..(MAXFILE * BSIZE)
  BY <1>2, <1>3, Layout
<1>5. off' \in [Fds -> 0..(MAXFILE * BSIZE)]
  BY <1>1, <1>2, <1>4, Zenon
<1>6. \A q \in Procs : Busy(q) => off'[c[q].fd] = off[c[q].fd]
  <2>1. ASSUME NEW q \in Procs, Busy(q) PROVE c[q].fd # f
    BY <1>1, <2>1, Locks, Zenon DEF Ip
  <2>2. QED
    BY <1>1, <1>2, <2>1, Locks, Zenon DEF Busy
<1>7. \A o \in off[f]..(off[f] + n - 1) : o \in 0..(size[i] - 1)
  BY <1>2, <1>3, Layout
<1>8. ~Truncating(i)
  BY <1>1, Zenon DEF Truncating
<1>9. panicked' = FALSE
  <2>1. \A o \in 0..(size[i] - 1) : Lookup(i, o \div BSIZE) # 0
    BY <1>1, <1>8, Zenon DEF DiskInv, Bytes
  <2>2. ~\E bn \in bns : Lookup(i, bn) = 0
    BY <1>7, <2>1, Zenon
  <2>3. QED
    BY <1>1, <2>2, Zenon
<1>10. ~Busy(p) /\ ~Busy(p)' /\ panicked' = panicked /\ \A q \in Procs \ {p} : c'[q] = c[q]
  BY <1>1, <1>9, Zenon DEF Busy, DiskInv, DiskType
<1>11. QED
  BY <1>1, <1>5, <1>6, <1>10, Outside, Zenon

\* ilock() and the tests of writei(), which leave no gap and stay below MAXFILE.
LEMMA ChunkDisk ==
  ASSUME DiskInv, Inv', NEW p \in Procs, Chunk(p)
  PROVE  DiskInv'
<1> DEFINE n == Min({c[p].left, ChunkMax})
           o == off[c[p].fd]
           call == Call("loop", c[p].fd, c[p].left, n, 0, o)
<1>0. c[p].pc = "chunk"
  BY Zenon DEF Chunk
<1>i. PICK i \in Inodes : i = Ip(p)
  BY <1>0, Locks, Zenon
<1>1. /\ c[p].pc = "chunk" /\ holder[i] = None /\ ~Busy(p)
      /\ UNCHANGED <<disk, inode, off, text, panicked>>
  BY <1>i, Zenon DEF Chunk, Busy
<1>2. i \in Inodes /\ c[p].fd \in Fds /\ \A j \in Inodes : holder[j] # p
  BY <1>1, Locks, NotHolder, Zenon
<1>3. CASE Return(p) /\ UNCHANGED holder
  <2>0. c'[p] = NoCall /\ \A q \in Procs \ {p} : c'[q] = c[q]
    BY <1>3, OneChanges, Zenon DEF Return
  <2>1. c'[p].pc = "idle" /\ \A q \in Procs \ {p} : c'[q] = c[q]
    BY <2>0 DEF NoCall, Call
  <2>2. off' \in [Fds -> 0..(MAXFILE * BSIZE)] /\ ~Busy(p)' /\ off' = off
    BY <1>1, <2>1, Zenon DEF DiskInv, DiskType, Busy
  <2>3. QED
    BY <1>1, <1>3, <2>1, <2>2, Outside, Zenon
<1>4. CASE /\ ~Refused(i, o, n)
           /\ holder' = [holder EXCEPT ![i] = p]
           /\ c' = [c EXCEPT ![p] = Call("loop", @.fd, @.left, n, 0, o)]
  <2>1. c'[p] = call /\ \A q \in Procs \ {p} : c'[q] = c[q]
    BY <1>4, OneChanges, Zenon
  <2>2. call.pc = "loop" /\ call.fd = c[p].fd /\ call.n1 = n /\ call.woff = o /\ call.tot = 0
    BY Zenon DEF Call
  <2>3. Busy(p)' /\ Ip(p)' = i /\ InWritei(c'[p])
    BY <1>i, <2>1, <2>2, Zenon DEF Busy, Ip, InWritei
  <2>4. LockInv'
    BY <1>1, <1>2, <1>4, <2>1, <2>3, LockTaken, Zenon
  <2>5. holder \in [Inodes -> Procs \cup {None}]
    BY Zenon DEF DiskInv, DiskType
  <2>6. \A j \in Inodes : holder'[j] = IF j = i THEN p ELSE holder[j]
    BY <1>4, <2>5, Zenon
  <2>7. DiskType'
    <3>1. holder' \in [Inodes -> Procs \cup {None}]
      BY <1>4, <2>5, Zenon
    <3>2. QED
      BY <1>1, <3>1, Zenon DEF DiskInv, DiskType, disk, inode
  <2>8. ~Truncating(i)' /\ ~Truncating(i) /\ Cut(i)' = Cut(i)
    BY <1>1, <1>2, <2>1, <2>2, <2>6, Zenon DEF Truncating, Cut
  <2>9. o \in Nat /\ o - 0 = o
    BY <1>2 DEF DiskInv, Inv
  <2>10. InRange(p)'
    <3>1. o <= size[i] /\ o + n <= MAXFILE * BSIZE
      <4>1. size[i] \in Nat /\ n \in Nat
        BY <1>2, <2>1, <2>2 DEF DiskInv, Inv, Calls
      <4>2. QED
        BY <1>4, <2>9, <4>1, Layout DEF Refused
    <3>2. c'[p].pc # "trunc" /\ off'[c'[p].fd] = o /\ Start(c'[p]) = o /\ size'[Ip(p)'] = size[i]
      BY <1>1, <2>1, <2>2, <2>3, <2>9, Zenon DEF Start, inode
    <3>3. QED
      BY <2>1, <2>2, <3>1, <3>2, Zenon DEF InRange
  <2>11. \A d \in Nat : ~Rewritten(i, d)' /\ ~Rewritten(i, d)
    BY <1>1, <1>2, <2>1, <2>2, <2>6, <2>9 DEF Rewritten, Start
  <2>12. Bytes(i)'
    BY <1>1, <1>2, <2>8, <2>11, BytesKept, SameBlocks, Zenon DEF disk, inode
  <2>13. QED
    BY <1>1, <1>2, <2>1, <2>4, <2>6, <2>7, <2>8, <2>10, <2>12, OwnInode, Zenon DEF inode
<1>5. QED
  BY <1>i, <1>3, <1>4, Zenon DEF Chunk

\* The disk is full: writei() leaves its loop with what it has written so far.
LEMMA BmapFullDisk ==
  ASSUME DiskInv, Inv', NEW p \in Procs, BmapFull(p)
  PROVE  DiskInv'
<1>0. Looping(p) /\ UNCHANGED <<disk, inode, holder, off, text, panicked>>
  BY Zenon DEF BmapFull
<1>i. PICK i \in Inodes : i = Ip(p)
  BY <1>0, LoopFacts, Zenon
<1>1. /\ holder[i] = p /\ p # None /\ ~Truncating(i) /\ Cut(i) = 0 /\ c[p] \in Calls
      /\ c[p].fd \in Fds /\ c[p].pc = "loop" /\ Busy(p) /\ InRange(p)
  BY <1>0, <1>i, LoopFacts, Locks, Zenon
<1>2. c'[p] = [c[p] EXCEPT !.pc = "end"] /\ \A q \in Procs \ {p} : c'[q] = c[q]
  BY OneChanges, Zenon DEF BmapFull
<1>3. /\ c'[p].pc = "end" /\ c'[p].fd = c[p].fd /\ c'[p].woff = c[p].woff
      /\ c'[p].tot = c[p].tot /\ c'[p].n1 = c[p].n1
  BY <1>1, <1>2, Zenon DEF Calls
<1>4. \A j \in Inodes \ {i} : holder'[j] = holder[j] /\ holder[j] # p
  BY <1>0, <1>i, Locks, Zenon
<1>5. Busy(p)' /\ Ip(p)' = Ip(p)
  BY <1>3, Zenon DEF Busy, Ip
<1>6. LockInv'
  BY <1>0, <1>1, <1>2, <1>3, <1>5, LockKept, Zenon
<1>7. DiskType'
  BY <1>0, Zenon DEF DiskInv, DiskType, disk, inode
<1>8. ~Truncating(i)' /\ Cut(i)' = Cut(i) /\ \A o : Rewritten(i, o)' <=> Rewritten(i, o)
  <2>1. holder'[i] = p /\ c'[p].pc # "trunc"
    BY <1>0, <1>1, <1>3, Zenon
  <2>2. ~Truncating(i)'
    BY <2>1, Zenon DEF Truncating
  <2>3. \A o : Rewritten(i, o)' <=> Rewritten(i, o)
    BY <1>1, <1>3, <2>1, Zenon DEF Rewritten, Start
  <2>4. QED
    BY <1>1, <2>2, <2>3, Zenon DEF Cut
<1>9. InRange(p)'
  BY <1>0, <1>1, <1>3, <1>5, Zenon DEF InRange, InWritei, Start, inode
<1>10. Bytes(i)'
  BY <1>0, <1>1, <1>8, BytesKept, SameBlocks, Zenon DEF disk, inode
<1>11. QED
  BY <1>0, <1>1, <1>2, <1>4, <1>6, <1>7, <1>8, <1>9, <1>10, OwnInode, Zenon DEF inode

\* ilock() before itrunc().
LEMMA TruncateDisk ==
  ASSUME DiskInv, Inv', NEW p \in Procs, NEW f \in Fds, Truncate(p, f)
  PROVE  DiskInv'
<1> DEFINE i == Ino(f)
           call == Call("trunc", f, 0, 0, 0, 0)
<1>0. /\ c[p].pc = "idle" /\ holder[i] = None /\ i \in Inodes
      /\ holder' = [holder EXCEPT ![i] = p] /\ c' = [c EXCEPT ![p] = call]
      /\ UNCHANGED <<disk, inode, off, text, panicked>>
  BY FileDataAssumption, Zenon DEF Truncate
<1>1. ~Busy(p) /\ \A j \in Inodes : holder[j] # p
  BY <1>0, NotHolder, Zenon DEF Busy
<1>2. c'[p] = call /\ \A q \in Procs \ {p} : c'[q] = c[q]
  BY <1>0, OneChanges, Zenon
<1>3. c'[p].pc = "trunc" /\ c'[p].fd = f /\ c'[p].tot = 0
  BY <1>2 DEF Call
<1> HIDE DEF call
<1>4. Busy(p)' /\ Ip(p)' = i
  BY <1>3, Zenon DEF Busy, Ip
<1>5. LockInv'
  BY <1>0, <1>1, <1>2, <1>4, LockTaken, Zenon
<1>6. holder \in [Inodes -> Procs \cup {None}]
  BY Zenon DEF DiskInv, DiskType
<1>7. \A j \in Inodes : holder'[j] = IF j = i THEN p ELSE holder[j]
  BY <1>0, <1>6, Zenon
<1>8. DiskType'
  <2>1. holder' \in [Inodes -> Procs \cup {None}]
    BY <1>0, <1>6, Zenon
  <2>2. QED
    BY <1>0, <2>1, Zenon DEF DiskInv, DiskType, disk, inode
<1>9. Truncating(i)' /\ Cut(i)' = Cut(i)
  BY <1>0, <1>1, <1>3, <1>7, FileDataAssumption DEF Truncating, Cut
<1>10. InRange(p)'
  <2>1. 0 <= TruncLimit(i)'
    BY Layout DEF TruncLimit
  <2>2. QED
    BY <1>3, <1>4, <2>1 DEF InRange, InWritei
<1>11. QED
  BY <1>0, <1>1, <1>2, <1>5, <1>7, <1>8, <1>9, <1>10, OwnInode, Zenon DEF inode

\* The end of writei(): size and offset move to what has been written, and the
\* bytes that the call reports are those that it has put there.
LEMMA WriteEndDisk ==
  ASSUME DiskInv, Inv', NEW p \in Procs, WriteEnd(p)
  PROVE  DiskInv'
<1> DEFINE call == c[p]
<1>0. InWritei(call)
  BY Zenon DEF WriteEnd, InWritei
<1>i. PICK i \in Inodes : i = Ip(p)
  BY <1>0, WriteFacts, Zenon
<1>f. PICK f \in Fds : f = call.fd
  BY <1>0, WriteFacts, Zenon
<1>t. PICK t \in Nat : t = call.tot
  BY <1>0, WriteFacts, Zenon
<1>s. PICK st \in Nat : st = Start(call)
  BY <1>0, WriteFacts, Zenon
<1>1. /\ Ino(f) = i /\ holder[i] = p /\ p # None /\ ~Truncating(i) /\ Cut(i) = 0 /\ Busy(p)
      /\ Bytes(i) /\ call.woff = st + t /\ off[f] = st /\ st <= size[i]
      /\ size[i] \in 0..(MAXFILE * BSIZE) /\ st + t <= MAXFILE * BSIZE
  <2>1. Ino(f) = i
    BY <1>i, <1>f, Zenon DEF Ip
  <2>2. QED
    BY <1>0, <1>i, <1>f, <1>t, <1>s, <2>1, WriteFacts, Zenon
<1>2. /\ size' = [size EXCEPT ![i] = Max({@, st + t})]
      /\ text' = [text EXCEPT ![i] = Splice(@, st, t, p)]
      /\ off' = [off EXCEPT ![f] = @ + t]
      /\ holder' = [holder EXCEPT ![i] = None]
      /\ UNCHANGED <<disk, addrs, panicked>>
  BY <1>i, <1>f, <1>t, <1>1, Zenon DEF WriteEnd
<1>3. c'[p].pc \in {"chunk", "idle"} /\ \A q \in Procs \ {p} : c'[q] = c[q]
  <2>1. PICK new \in {Call("chunk", call.fd, call.left - call.tot, 0, 0, 0), NoCall} : c' = [c EXCEPT ![p] = new]
    BY Zenon DEF WriteEnd, Return
  <2>2. new.pc \in {"chunk", "idle"}
    BY DEF NoCall, Call
  <2>3. QED
    BY <2>1, <2>2, OneChanges, Zenon
<1>4. ~Busy(p)' /\ InRange(p)'
  BY <1>3, Zenon DEF Busy, InRange, InWritei
<1>5. LockInv'
  BY <1>1, <1>2, <1>3, <1>4, <1>i, LockGiven, Zenon
<1>6. /\ size \in [Inodes -> 0..(MAXFILE * BSIZE)] /\ off \in [Fds -> 0..(MAXFILE * BSIZE)]
      /\ holder \in [Inodes -> Procs \cup {None}] /\ text \in [Inodes -> Seq(Procs \cup {0, None})]
  BY Zenon DEF DiskInv, DiskType
<1>7. Max({size[i], st + t}) = IF size[i] >= st + t THEN size[i] ELSE st + t
  BY <1>1, MaxIs, Layout
<1>8. \A j \in Inodes : /\ size'[j] = IF j = i THEN IF size[i] >= st + t THEN size[i] ELSE st + t ELSE size[j]
                        /\ holder'[j] = IF j = i THEN None ELSE holder[j]
                        /\ text'[j] = IF j = i THEN Splice(text[i], st, t, p) ELSE text[j]
  BY <1>2, <1>6, <1>7, Zenon
<1>9. \A h \in Fds : off'[h] = IF h = f THEN st + t ELSE off[h]
  BY <1>1, <1>2, <1>6, Zenon
<1>10. /\ Splice(text[i], st, t, p) \in Seq(Procs \cup {0, None})
       /\ Len(Splice(text[i], st, t, p)) = size'[i]
       /\ \A o \in Nat : o < size'[i] =>
            Splice(text[i], st, t, p)[o + 1] = IF st <= o /\ o < st + t THEN p ELSE text[i][o + 1]
  <2>1. text[i] \in Seq(Procs \cup {0, None}) /\ st <= Len(text[i]) /\ Len(text[i]) = size[i] /\ p \in Procs \cup {0, None}
    BY <1>1, <1>6, Zenon DEF Bytes
  <2>2. size'[i] = IF Len(text[i]) >= st + t THEN Len(text[i]) ELSE st + t
    BY <1>8, <2>1, Zenon
  <2>3. /\ Splice(text[i], st, t, p) \in Seq(Procs \cup {0, None})
        /\ Len(Splice(text[i], st, t, p)) = IF Len(text[i]) >= st + t THEN Len(text[i]) ELSE st + t
        /\ \A o \in Nat : o < Len(Splice(text[i], st, t, p)) =>
             Splice(text[i], st, t, p)[o + 1] = IF st <= o /\ o < st + t THEN p ELSE text[i][o + 1]
    <3> DEFINE S == Procs \cup {0, None}
               s == text[i]
    <3>1. s \in Seq(S) /\ st <= Len(s) /\ p \in S
      BY <2>1, Zenon
    <3> HIDE DEF S, s
    <3>2. /\ Splice(s, st, t, p) \in Seq(S)
          /\ Len(Splice(s, st, t, p)) = IF Len(s) >= st + t THEN Len(s) ELSE st + t
          /\ \A o \in Nat : o < Len(Splice(s, st, t, p)) =>
               Splice(s, st, t, p)[o + 1] = IF st <= o /\ o < st + t THEN p ELSE s[o + 1]
      BY <3>1, SpliceIs
    <3>3. QED
      BY <3>2, Zenon DEF S, s
  <2>4. QED
    BY <2>2, <2>3, Zenon
<1>11. DiskType'
  <2>1. size' \in [Inodes -> 0..(MAXFILE * BSIZE)]
    BY <1>1, <1>2, <1>6, <1>7
  <2>2. off' \in [Fds -> 0..(MAXFILE * BSIZE)]
    <3>1. off[f] + t \in 0..(MAXFILE * BSIZE)
      BY <1>1, Layout
    <3>2. QED
      BY <1>2, <1>6, <3>1, Zenon
  <2>3. holder' \in [Inodes -> Procs \cup {None}] /\ text' \in [Inodes -> Seq(Procs \cup {0, None})]
    BY <1>2, <1>6, <1>10, Zenon
  <2>4. QED
    BY <1>2, <2>1, <2>2, <2>3, Zenon DEF DiskInv, DiskType, disk
<1>12. Cut(i)' = Cut(i) /\ ~Truncating(i)' /\ \A o \in Nat : ~Rewritten(i, o)'
  BY <1>1, <1>8, Zenon DEF Cut, Truncating, Rewritten
<1>13. Bytes(i)'
  <2>1. \A o \in Nat : Rewritten(i, o) <=> st <= o /\ o < st + t
    BY <1>1, <1>s, Zenon DEF Rewritten
  <2>2. \A o \in Nat : Byte(i, o)' = Byte(i, o) /\ Lookup(i, o \div BSIZE)' = Lookup(i, o \div BSIZE)
    BY <1>2, SameBlocks, Zenon DEF disk
  <2>3. ASSUME NEW o \in 0..(size'[i] - 1)
        PROVE  Lookup(i, o \div BSIZE)' # 0 /\ text'[i][o + 1] \in {None, Byte(i, o)'}
    <3>1. o \in Nat /\ o < size'[i] /\ text'[i][o + 1] = IF st <= o /\ o < st + t THEN p ELSE text[i][o + 1]
      <4>1. size'[i] \in Nat
        BY <1>1, <1>8
      <4>2. o \in Nat /\ o < size'[i]
        BY <2>3, <4>1
      <4>3. QED
        BY <1>8, <1>10, <4>2, Zenon
    <3>2. CASE st <= o /\ o < st + t
      BY <1>1, <2>1, <2>2, <3>1, <3>2, Zenon DEF Bytes
    <3>3. CASE ~(st <= o /\ o < st + t)
      <4>1. o \in 0..(size[i] - 1)
        <5>1. size[i] \in Nat
          BY <1>1, Layout
        <5>2. st <= size[i] /\ size'[i] = IF size[i] >= st + t THEN size[i] ELSE st + t
          BY <1>1, <1>8, Zenon
        <5>3. o \in Nat /\ o < size'[i]
          BY <3>1
        <5>4. QED
          BY <3>3, <5>1, <5>2, <5>3
      <4>2. QED
        BY <1>1, <2>1, <2>2, <3>1, <3>3, <4>1, Zenon DEF Bytes
    <3>4. QED
      BY <3>2, <3>3, Zenon
  <2>4. Len(text'[i]) = size'[i]
    BY <1>8, <1>10, Zenon
  <2>5. QED
    BY <1>12, <2>3, <2>4, Zenon DEF Bytes
<1>14. \A j \in Inodes \ {i} : holder'[j] = holder[j] /\ holder[j] # p
  BY <1>1, <1>8, <1>i, Locks
<1>15. \A h \in Fds : Ino(h) # i => off'[h] = off[h]
  BY <1>1, <1>9, Zenon
<1>16. QED
  BY <1>1, <1>2, <1>3, <1>4, <1>5, <1>8, <1>11, <1>12, <1>13, <1>14, <1>15, OwnInode

-----------------------------------------------------------------------------
(* either_copyin() into a block of the file.                               *)

\* k bytes of p are put into the block at offset w of inode i.
Stores(p, i, w, k) ==
  /\ addrs' = addrs
  /\ data' = [data EXCEPT ![Lookup(i, w \div BSIZE)] = [j \in 0..(BSIZE - 1) |->
                IF j >= w % BSIZE /\ j < (w % BSIZE) + k THEN p ELSE @[j]]]

\* Those are the only bytes of any file that change; no block number does.
OnlyThese(p, i, w, k) ==
  /\ data' \in [Blocks -> [0..(BSIZE - 1) -> (0..NB) \cup Procs]]
  /\ \A j \in Inodes, l \in Places : At(j, l)' = At(j, l)
  /\ \A j \in Inodes \ {i}, l \in Places :
       ~Truncating(j) /\ l # MAXFILE /\ At(j, l) # 0 => data'[At(j, l)] = data[At(j, l)]
  /\ \A o \in Nat : o < MAXFILE * BSIZE =>
       /\ Lookup(i, o \div BSIZE)' = Lookup(i, o \div BSIZE)
       /\ Lookup(i, o \div BSIZE) # 0 =>
            Byte(i, o)' = IF w <= o /\ o < w + k THEN p ELSE Byte(i, o)

\* k bytes of p from offset c[p].woff on, in the block that is there: they are
\* the only bytes of any file that change, and no block number does.
LEMMA Stored ==
  ASSUME DiskInv, NEW p \in Procs, Looping(p), NEW i \in Inodes, i = Ip(p), Lookup(i, Bn(p)) # 0,
         NEW k \in Nat, k <= Part(p), NEW w \in Nat, w = c[p].woff, Stores(p, i, w, k)
  PROVE  OnlyThese(p, i, w, k)
<1>k. PICK bn \in Places : bn = Bn(p) /\ bn # MAXFILE
  BY LoopFacts, Zenon
<1>f. PICK from \in 0..(BSIZE - 1) : from = w % BSIZE
  BY LoopFacts, Zenon
<1>b. PICK b \in Blocks : b = Lookup(i, bn) /\ b = At(i, bn) /\ Live(i, bn)
  <2>1. At(i, bn) = Lookup(i, bn) /\ At(i, bn) \in 0..NB /\ At(i, bn) # 0
    BY <1>k, AtIs, Zenon DEF DiskInv, OwnInv
  <2>2. Live(i, bn)
    BY <2>1, <1>k, LoopFacts DEF Live, Places
  <2>3. QED
    BY <2>1, <2>2, Layout DEF Blocks
<1>1. data \in [Blocks -> [0..(BSIZE - 1) -> (0..NB) \cup Procs]] /\ addrs \in [Inodes -> [0..NDIRECT -> 0..NB]]
  BY Zenon DEF DiskInv, DiskType
<1>o. \A h, j \in Inodes : \A l, m \in Places :
        Live(h, l) /\ Live(j, m) /\ At(h, l) = At(j, m) => h = j /\ l = m
  BY Zenon DEF DiskInv, OwnInv
<1> DEFINE new == [j \in 0..(BSIZE - 1) |-> IF j >= from /\ j < from + k THEN p ELSE data[b][j]]
<1>2. data' = [data EXCEPT ![b] = new]
  BY <1>k, <1>f, <1>b, <1>1, Zenon DEF Stores, Bn
<1>3. new \in [0..(BSIZE - 1) -> (0..NB) \cup Procs]
  BY <1>1, <1>b, Zenon
<1>4. \A d \in Blocks : data'[d] = IF d = b THEN new ELSE data[d]
  BY <1>1, <1>2, Zenon
<1>5. data' \in [Blocks -> [0..(BSIZE - 1) -> (0..NB) \cup Procs]]
  BY <1>1, <1>2, <1>3, Zenon
<1>6. \A j \in Inodes : addrs[j][NDIRECT] # 0 => addrs[j][NDIRECT] \in Blocks /\ addrs[j][NDIRECT] # b
  <2> SUFFICES ASSUME NEW j \in Inodes, addrs[j][NDIRECT] # 0
               PROVE  addrs[j][NDIRECT] \in Blocks /\ addrs[j][NDIRECT] # b
    OBVIOUS
  <2>1. addrs[j][NDIRECT] \in Blocks
    BY IndirectUsed, Zenon
  <2>2. Live(j, MAXFILE) /\ At(j, MAXFILE) = addrs[j][NDIRECT] /\ MAXFILE \in Places
    BY IndirectLive, Zenon
  <2>3. QED
    BY <1>b, <1>k, <1>o, <2>1, <2>2, Zenon
<1>7. ASSUME NEW j \in Inodes, NEW l \in Places PROVE At(j, l)' = At(j, l)
  <2>1. addrs[j][NDIRECT] # 0 => data'[addrs[j][NDIRECT]] = data[addrs[j][NDIRECT]]
    BY <1>4, <1>6, Zenon
  <2>2. QED
    BY <2>1, SameNumbers, Zenon DEF Stores
<1>8. ASSUME NEW j \in Inodes, NEW l \in Places, ~Truncating(j), At(j, l) # 0
      PROVE  At(j, l) \in Blocks /\ Live(j, l) /\ (At(j, l) = b => j = i /\ l = bn)
  <2>1. At(j, l) \in Blocks
    BY <1>8, Layout DEF DiskInv, OwnInv, Blocks
  <2>2. Live(j, l)
    BY <1>8 DEF Live, Cut, Places
  <2>3. QED
    BY <1>b, <2>1, <2>2, Zenon DEF DiskInv, OwnInv
<1>9. ASSUME NEW o \in Nat, o < MAXFILE * BSIZE
      PROVE  /\ Lookup(i, o \div BSIZE)' = Lookup(i, o \div BSIZE)
             /\ Lookup(i, o \div BSIZE) # 0 =>
                  Byte(i, o)' = IF w <= o /\ o < w + k THEN p ELSE Byte(i, o)
  <2>0. PICK l \in Places : l = o \div BSIZE /\ l # MAXFILE
    BY <1>9, BlockOfByte, Zenon
  <2>r. PICK r \in 0..(BSIZE - 1) : r = o % BSIZE
    BY BlockOfByte, Zenon
  <2>1. Lookup(i, l)' = At(i, l)' /\ Lookup(i, l) = At(i, l) /\ At(i, l)' = At(i, l)
    BY <1>7, <2>0, Zenon DEF At
  <2>2. Lookup(i, o \div BSIZE)' = Lookup(i, l) /\ Lookup(i, o \div BSIZE) = Lookup(i, l)
    BY <2>0, <2>1, Zenon
  <2>3. Byte(i, o)' = data'[Lookup(i, l)][r] /\ Byte(i, o) = data[Lookup(i, l)][r]
    BY <2>2, <2>r, Zenon DEF Byte
  <2>4. ASSUME Lookup(i, l) # 0 PROVE Byte(i, o)' = IF w <= o /\ o < w + k THEN p ELSE Byte(i, o)
    <3>1. Lookup(i, l) \in Blocks /\ (Lookup(i, l) = b => l = bn)
      BY <1>8, <2>1, <2>4, LoopFacts, Zenon
    <3>2. CASE l = bn
      <4>1. o - w = r - from
        BY <1>k, <1>f, <2>0, <2>r, <3>2, SameBlock, Zenon DEF Bn
      <4>2. data'[Lookup(i, l)][r] = IF r >= from /\ r < from + k THEN p ELSE data[Lookup(i, l)][r]
        <5>1. Lookup(i, l) = b /\ data'[b] = new
          BY <1>4, <1>b, <3>2, Zenon
        <5>2. new[r] = IF r >= from /\ r < from + k THEN p ELSE data[b][r]
          OBVIOUS
        <5>3. QED
          BY <5>1, <5>2, Zenon
      <4>3. (r >= from /\ r < from + k) <=> (w <= o /\ o < w + k)
        BY <4>1, Layout
      <4>4. QED
        BY <2>3, <4>2, <4>3, Zenon
    <3>3. CASE l # bn
      <4>1. data'[Lookup(i, l)][r] = data[Lookup(i, l)][r]
        BY <1>4, <3>1, <3>3, Zenon
      <4>2. ~(w <= o /\ o < w + k)
        <5> SUFFICES ASSUME w <= o, o < w + k PROVE FALSE
          OBVIOUS
        <5>1. o < w + BSIZE - (w % BSIZE)
          <6>1. Part(p) <= BSIZE - from /\ Part(p) \in Nat \ {0}
            BY <1>f, LoopFacts, Zenon
          <6>2. o < w + BSIZE - from
            BY <6>1, Layout
          <6>3. QED
            BY <6>2, <1>f, Zenon
        <5>2. o \div BSIZE = w \div BSIZE
          BY <5>1, WithinBlock, Zenon
        <5>3. QED
          BY <1>k, <2>0, <3>3, <5>2, Zenon DEF Bn
      <4>3. QED
        BY <2>3, <4>1, <4>2, Zenon
    <3>4. QED
      BY <3>2, <3>3, Zenon
  <2>5. QED
    BY <2>2, <2>4, Zenon
<1>10. QED
  BY <1>4, <1>5, <1>7, <1>8, <1>9, Zenon DEF OnlyThese

\* either_copyin(): the bytes from woff on are p's, and woff moves past them.
LEMMA CopyDisk ==
  ASSUME DiskInv, Inv', NEW p \in Procs, Copy(p)
  PROVE  DiskInv'
<1>0. Looping(p) /\ UNCHANGED <<bitmap, inode, holder, off, text, panicked>> /\ addrs' = addrs
  BY Zenon DEF Copy, inode
<1>i. PICK i \in Inodes : i = Ip(p)
  BY <1>0, LoopFacts, Zenon
<1>w. PICK w \in Nat : w = c[p].woff
  BY <1>0, LoopFacts, Zenon
<1>m. PICK m \in Nat : m = Part(p)
  BY <1>0, LoopFacts, Zenon
<1> DEFINE call == Call("loop", c[p].fd, c[p].left, c[p].n1, c[p].tot + m, c[p].woff + m)
<1>1. /\ holder[i] = p /\ p # None /\ ~Truncating(i) /\ Cut(i) = 0 /\ c[p] \in Calls
      /\ c[p].fd \in Fds /\ Busy(p) /\ InRange(p) /\ InWritei(c[p]) /\ Bytes(i)
      /\ Start(c[p]) \in Nat /\ Start(c[p]) <= w /\ w + m <= MAXFILE * BSIZE
  <2>1. /\ holder[i] = p /\ p # None /\ ~Truncating(i) /\ Cut(i) = 0 /\ c[p] \in Calls
        /\ c[p].fd \in Fds /\ Busy(p) /\ InRange(p) /\ InWritei(c[p])
        /\ Start(c[p]) \in Nat /\ Start(c[p]) <= w
    BY <1>0, <1>i, <1>w, LoopFacts, Locks, Zenon
  <2>2. Bytes(i)
    BY <2>1, Zenon DEF DiskInv
  <2>3. w + (c[p].n1 - c[p].tot) <= MAXFILE * BSIZE /\ m <= c[p].n1 - c[p].tot
    BY <1>0, <1>w, <1>m, LoopFacts, Zenon
  <2>4. c[p].n1 \in Nat /\ c[p].tot \in Nat
    BY <2>1, Zenon DEF Calls
  <2>5. QED
    BY <2>1, <2>2, <2>3, <2>4, Layout
<1>2. c'[p] = call /\ \A q \in Procs \ {p} : c'[q] = c[q]
  BY <1>m, OneChanges, Zenon DEF Copy
<1>3. /\ c'[p].pc = "loop" /\ c'[p].fd = c[p].fd /\ c'[p].woff = w + m
      /\ c'[p].tot = c[p].tot + m /\ c'[p].n1 = c[p].n1
  BY <1>w, <1>2 DEF Call
<1>4. Start(c'[p]) = Start(c[p])
  BY <1>1, <1>3, <1>w DEF Start, Calls
<1>5. /\ data' \in [Blocks -> [0..(BSIZE - 1) -> (0..NB) \cup Procs]]
      /\ \A j \in Inodes, l \in Places : At(j, l)' = At(j, l)
      /\ \A j \in Inodes \ {i}, l \in Places :
           ~Truncating(j) /\ l # MAXFILE /\ At(j, l) # 0 => data'[At(j, l)] = data[At(j, l)]
      /\ \A o \in Nat : o < MAXFILE * BSIZE =>
           /\ Lookup(i, o \div BSIZE)' = Lookup(i, o \div BSIZE)
           /\ Lookup(i, o \div BSIZE) # 0 => Byte(i, o)' = IF w <= o /\ o < w + m THEN p ELSE Byte(i, o)
  <2>1. Lookup(i, Bn(p)) # 0 /\ m <= Part(p) /\ Stores(p, i, w, m)
    BY <1>0, <1>i, <1>m, <1>w DEF Copy, Bn, Stores
  <2>2. OnlyThese(p, i, w, m)
    BY <1>0, <1>i, <1>w, <2>1, Stored
  <2>3. QED
    BY <2>2, Zenon DEF OnlyThese
<1>6. LockInv'
  BY <1>0, <1>1, <1>2, <1>3, LockKept, Zenon DEF Busy
<1>7. DiskType'
  BY <1>0, <1>5, Zenon DEF DiskInv, DiskType, inode
<1>8. ~Truncating(i)' /\ Cut(i)' = Cut(i)
  BY <1>0, <1>1, <1>3, Zenon DEF Truncating, Cut
<1>9. \A j \in Inodes \ {i} : /\ Truncating(j)' <=> Truncating(j)
                              /\ Cut(j)' = Cut(j)
                              /\ \A o : Rewritten(j, o)' <=> Rewritten(j, o)
  BY <1>0, <1>2, <1>i, Locks, Others, Zenon
<1>10. OwnInv'
  <2>1. \A j \in Inodes, l \in Places : At(j, l)' = At(j, l) /\ (Live(j, l)' <=> Live(j, l))
    BY <1>5, <1>8, <1>9, Zenon DEF Live
  <2>2. QED
    BY <1>0, <2>1, OwnKept, Zenon DEF DiskInv
<1>11. \A q \in Procs : InRange(q)'
  <2>1. InRange(p)'
    BY <1>0, <1>1, <1>3, <1>4, Zenon DEF InRange, InWritei, Ip, inode
  <2>2. \A q \in Procs \ {p} : InRange(q)'
    BY <1>0, <1>2, RangeKept, Zenon DEF inode
  <2>3. QED
    BY <2>1, <2>2, Zenon
<1>12. Bytes(i)'
  <2>1. \A o \in Nat : /\ Rewritten(i, o) <=> Start(c[p]) <= o /\ o < w
                       /\ Rewritten(i, o)' <=> Start(c[p]) <= o /\ o < w + m
    BY <1>0, <1>1, <1>3, <1>4, <1>w, Zenon DEF Rewritten
  <2>2. size[i] \in 0..(MAXFILE * BSIZE) /\ size'[i] = size[i] /\ text'[i] = text[i]
    BY <1>0, Zenon DEF DiskInv, DiskType, inode
  <2>3. \A o \in 0..(size[i] - 1) : o \in Nat /\ o < MAXFILE * BSIZE
    BY <2>2, Layout
  <2>4. ASSUME NEW o \in 0..(size[i] - 1)
        PROVE  /\ Lookup(i, o \div BSIZE)' # 0
               /\ Rewritten(i, o)' \/ text[i][o + 1] \in {None, Byte(i, o)'}
    <3>1. Lookup(i, o \div BSIZE)' # 0 /\ Byte(i, o)' = IF w <= o /\ o < w + m THEN p ELSE Byte(i, o)
      BY <1>1, <1>5, <2>3, Zenon DEF Bytes
    <3>2. Rewritten(i, o) \/ text[i][o + 1] \in {None, Byte(i, o)}
      BY <1>1, Zenon DEF Bytes
    <3>3. ~Rewritten(i, o)' => ~Rewritten(i, o) /\ ~(w <= o /\ o < w + m)
      BY <1>1, <2>1, <2>3
    <3>4. QED
      BY <3>1, <3>2, <3>3, Zenon
  <2>5. ASSUME NEW o \in Nat, Rewritten(i, o)' PROVE Lookup(i, o \div BSIZE)' # 0 /\ Byte(i, o)' = holder'[i]
    <3>1. o < MAXFILE * BSIZE /\ Start(c[p]) <= o /\ o < w + m
      BY <1>1, <2>1, <2>5, Layout
    <3>2. CASE o < w
      <4>1. Lookup(i, o \div BSIZE) # 0 /\ Byte(i, o) = p
        BY <1>1, <2>1, <3>1, <3>2, Zenon DEF Bytes
      <4>2. QED
        BY <1>0, <1>1, <1>5, <3>1, <4>1, Zenon
    <3>3. CASE w <= o
      <4>1. o \div BSIZE = Bn(p)
        <5>1. m \in Nat \ {0} /\ m <= BSIZE - (w % BSIZE)
          BY <1>0, <1>m, <1>w, LoopFacts, Zenon
        <5>2. w % BSIZE \in Nat
          BY BlockOfByte
        <5>3. o < w + BSIZE - (w % BSIZE)
          <6> DEFINE r == w % BSIZE
          <6>1. m <= BSIZE - r /\ r \in Nat
            BY <5>1, <5>2, Zenon
          <6> HIDE DEF r
          <6>2. o < w + BSIZE - r
            BY <3>1, <6>1, Layout
          <6>3. QED
            BY <6>2, Zenon DEF r
        <5>4. QED
          BY <1>w, <3>3, <5>3, WithinBlock, Zenon DEF Bn
      <4>2. Lookup(i, o \div BSIZE) # 0
        BY <1>i, <4>1, Zenon DEF Copy
      <4>3. QED
        BY <1>0, <1>1, <1>5, <3>1, <3>3, <4>2, Zenon
    <3>4. QED
      BY <3>2, <3>3, <1>w
  <2>6. QED
    BY <1>1, <2>2, <2>4, <2>5, Zenon DEF Bytes
<1>13. ASSUME NEW j \in Inodes \ {i}, ~Truncating(j)' PROVE Bytes(j)'
  BY <1>0, <1>5, <1>9, <1>13, BytesKept, Zenon DEF inode
<1>14. QED
  BY <1>6, <1>7, <1>10, <1>11, <1>12, <1>13, Zenon DEF DiskInv

\* An either_copyin() that fails has spoilt bytes from woff on: those below size
\* are marked None in text, those above are not part of the file.
LEMMA CopyFailDisk ==
  ASSUME DiskInv, Inv', NEW p \in Procs, NEW m \in 0..MaxTorn, CopyFail(p, m)
  PROVE  DiskInv'
<1>0. Looping(p) /\ UNCHANGED <<bitmap, inode, holder, off, panicked>> /\ addrs' = addrs
  BY Zenon DEF CopyFail, inode
<1>i. PICK i \in Inodes : i = Ip(p)
  BY <1>0, LoopFacts, Zenon
<1>w. PICK w \in Nat : w = c[p].woff
  BY <1>0, LoopFacts, Zenon
<1>m. m \in Nat /\ m <= Part(p)
  BY <1>0, LoopFacts, FileDataAssumption DEF CopyFail
<1>1. /\ holder[i] = p /\ p # None /\ ~Truncating(i) /\ Cut(i) = 0 /\ c[p] \in Calls
      /\ c[p].fd \in Fds /\ Busy(p) /\ InRange(p) /\ InWritei(c[p]) /\ Bytes(i)
      /\ Start(c[p]) \in Nat /\ Start(c[p]) <= w
  <2>1. /\ holder[i] = p /\ p # None /\ ~Truncating(i) /\ Cut(i) = 0 /\ c[p] \in Calls
        /\ c[p].fd \in Fds /\ Busy(p) /\ InRange(p) /\ InWritei(c[p])
        /\ Start(c[p]) \in Nat /\ Start(c[p]) <= w
    BY <1>0, <1>i, <1>w, LoopFacts, Locks, Zenon
  <2>2. Bytes(i)
    BY <2>1, Zenon DEF DiskInv
  <2>3. QED
    BY <2>1, <2>2, Zenon
<1>2. c'[p] = [c[p] EXCEPT !.pc = "end"] /\ \A q \in Procs \ {p} : c'[q] = c[q]
  BY OneChanges, Zenon DEF CopyFail
<1>3. /\ c'[p].pc = "end" /\ c'[p].fd = c[p].fd /\ c'[p].woff = w
      /\ c'[p].tot = c[p].tot /\ c'[p].n1 = c[p].n1
  BY <1>1, <1>2, <1>w, Zenon DEF Calls
<1>4. Start(c'[p]) = Start(c[p])
  BY <1>3, <1>w, Zenon DEF Start
<1>5. /\ data' \in [Blocks -> [0..(BSIZE - 1) -> (0..NB) \cup Procs]]
      /\ \A j \in Inodes, l \in Places : At(j, l)' = At(j, l)
      /\ \A j \in Inodes \ {i}, l \in Places :
           ~Truncating(j) /\ l # MAXFILE /\ At(j, l) # 0 => data'[At(j, l)] = data[At(j, l)]
      /\ \A o \in Nat : o < MAXFILE * BSIZE =>
           /\ Lookup(i, o \div BSIZE)' = Lookup(i, o \div BSIZE)
           /\ Lookup(i, o \div BSIZE) # 0 => Byte(i, o)' = IF w <= o /\ o < w + m THEN p ELSE Byte(i, o)
  <2>1. Lookup(i, Bn(p)) # 0 /\ Stores(p, i, w, m)
    BY <1>0, <1>i, <1>w, Zenon DEF CopyFail, Bn, Stores
  <2>2. OnlyThese(p, i, w, m)
    BY <1>0, <1>i, <1>m, <1>w, <2>1, Stored
  <2>3. QED
    BY <2>2, Zenon DEF OnlyThese
<1>6. LockInv'
  BY <1>0, <1>1, <1>2, <1>3, LockKept, Zenon DEF Busy
<1>7. text \in [Inodes -> Seq(Procs \cup {0, None})]
  BY Zenon DEF DiskInv, DiskType
<1> DEFINE new == [j \in 1..Len(text[i]) |-> IF j > w /\ j <= w + m THEN None ELSE text[i][j]]
<1>8. text' = [text EXCEPT ![i] = new]
  BY <1>i, <1>w, <1>7, Zenon DEF CopyFail
<1>9. new \in Seq(Procs \cup {0, None}) /\ Len(new) = Len(text[i]) /\ Len(text[i]) \in Nat
  BY <1>7
<1>10. \A o \in 0..(Len(text[i]) - 1) : new[o + 1] = IF w <= o /\ o < w + m THEN None ELSE text[i][o + 1]
  <2> SUFFICES ASSUME NEW o \in 0..(Len(text[i]) - 1)
               PROVE  new[o + 1] = IF w <= o /\ o < w + m THEN None ELSE text[i][o + 1]
    OBVIOUS
  <2>1. o + 1 \in 1..Len(text[i]) /\ (o + 1 > w /\ o + 1 <= w + m <=> w <= o /\ o < w + m)
    BY <1>9, <1>m
  <2>2. QED
    BY <2>1, Zenon
<1> HIDE DEF new
<1>11. \A j \in Inodes : text'[j] = IF j = i THEN new ELSE text[j]
  BY <1>7, <1>8, Zenon
<1>12. DiskType'
  <2>1. text' \in [Inodes -> Seq(Procs \cup {0, None})]
    BY <1>7, <1>8, <1>9, Zenon
  <2>2. QED
    BY <1>0, <1>5, <2>1, Zenon DEF DiskInv, DiskType, inode
<1>13. ~Truncating(i)' /\ Cut(i)' = Cut(i)
  BY <1>0, <1>1, <1>3, Zenon DEF Truncating, Cut
<1>14. \A j \in Inodes \ {i} : /\ Truncating(j)' <=> Truncating(j)
                               /\ Cut(j)' = Cut(j)
                               /\ \A o : Rewritten(j, o)' <=> Rewritten(j, o)
  BY <1>0, <1>2, <1>i, Locks, Others, Zenon
<1>15. OwnInv'
  <2>1. \A j \in Inodes, l \in Places : At(j, l)' = At(j, l) /\ (Live(j, l)' <=> Live(j, l))
    BY <1>5, <1>13, <1>14, Zenon DEF Live
  <2>2. QED
    BY <1>0, <2>1, OwnKept, Zenon DEF DiskInv
<1>16. \A q \in Procs : InRange(q)'
  <2>1. InRange(p)'
    BY <1>0, <1>1, <1>3, <1>4, Zenon DEF InRange, InWritei, Ip, inode
  <2>2. \A q \in Procs \ {p} : InRange(q)'
    BY <1>0, <1>2, RangeKept, Zenon DEF inode
  <2>3. QED
    BY <2>1, <2>2, Zenon
<1>17. Bytes(i)'
  <2>1. \A o \in Nat : /\ Rewritten(i, o) <=> Start(c[p]) <= o /\ o < w
                       /\ Rewritten(i, o)' <=> Start(c[p]) <= o /\ o < w
    BY <1>0, <1>1, <1>3, <1>4, <1>w, Zenon DEF Rewritten
  <2>2. size[i] \in 0..(MAXFILE * BSIZE) /\ size'[i] = size[i] /\ text'[i] = new /\ Len(text[i]) = size[i]
    BY <1>0, <1>1, <1>11, Zenon DEF DiskInv, DiskType, inode, Bytes
  <2>3. \A o \in 0..(size[i] - 1) : o \in Nat /\ o < MAXFILE * BSIZE
    BY <2>2, Layout
  <2>4. ASSUME NEW o \in 0..(size[i] - 1)
        PROVE  /\ Lookup(i, o \div BSIZE)' # 0
               /\ Rewritten(i, o)' \/ new[o + 1] \in {None, Byte(i, o)'}
    <3>1. Lookup(i, o \div BSIZE)' # 0 /\ Byte(i, o)' = IF w <= o /\ o < w + m THEN p ELSE Byte(i, o)
      BY <1>1, <1>5, <2>3, Zenon DEF Bytes
    <3>2. Rewritten(i, o) \/ text[i][o + 1] \in {None, Byte(i, o)}
      BY <1>1, Zenon DEF Bytes
    <3>3. new[o + 1] = IF w <= o /\ o < w + m THEN None ELSE text[i][o + 1]
      BY <1>10, <2>2, Zenon
    <3>4. Rewritten(i, o)' <=> Rewritten(i, o)
      BY <2>1, <2>3, Zenon
    <3>5. QED
      BY <3>1, <3>2, <3>3, <3>4, Zenon
  <2>5. ASSUME NEW o \in Nat, Rewritten(i, o)' PROVE Lookup(i, o \div BSIZE)' # 0 /\ Byte(i, o)' = holder'[i]
    <3>1. Rewritten(i, o) /\ ~(w <= o /\ o < w + m)
      BY <2>1, <2>5
    <3>2. o < MAXFILE * BSIZE
      BY <1>1, <3>1, RewrittenBelow, Zenon
    <3>3. Lookup(i, o \div BSIZE) # 0 /\ Byte(i, o) = p
      BY <1>1, <3>1, Zenon DEF Bytes
    <3>4. QED
      BY <1>0, <1>1, <1>5, <3>1, <3>2, <3>3, Zenon
  <2>6. QED
    BY <1>9, <2>2, <2>4, <2>5, Zenon DEF Bytes
<1>18. ASSUME NEW j \in Inodes \ {i}, ~Truncating(j)' PROVE Bytes(j)'
  BY <1>0, <1>5, <1>11, <1>14, <1>18, BytesKept, Zenon DEF inode
<1>19. QED
  BY <1>6, <1>12, <1>15, <1>16, <1>17, <1>18, Zenon DEF DiskInv
=============================================================================
