------------------------------ MODULE FileData ------------------------------
(***************************************************************************)
(* The content of files, kernel/fs.c balloc() bfree() bmap() itrunc()      *)
(* readi() writei(), under kernel/file.c filewrite() and fileread():       *)
(* processes that write, read and truncate files which share the disk's    *)
(* free blocks, and that may share an offset (struct file).                *)
(*                                                                         *)
(* ip->lock is explicit and is held over several steps, so that the blocks *)
(* of two inodes are allocated and freed in any order.  The bitmap changes *)
(* under the lock of its buffer: balloc(), with the bzero() of a block     *)
(* nobody else knows yet, and bfree() are atomic.  Transactions are in Log.*)
(***************************************************************************)
EXTENDS Integers, Sequences, FiniteSets, FiniteSetsExt

CONSTANTS
  Procs, Inodes,
  Fds, Ino(_),     \* open files, and the inode of each
  NB,              \* data blocks on the disk, numbered from 1
  NDIRECT,
  BSIZE,           \* bytes in a block
  MAXOPBLOCKS,
  MaxN,            \* bound: most bytes one call writes or reads
  MaxTorn,         \* bound: most bytes a copyin() copies before it fails
  None

\* A block number takes the room of two bytes here: sizeof(uint) in the code.
NINDIRECT == BSIZE \div 2
MAXFILE == NDIRECT + NINDIRECT

\* The most that filewrite() puts in one transaction.
ChunkMax == ((MAXOPBLOCKS - 1 - 1 - 2) \div 2) * BSIZE

ASSUME FileDataAssumption ==
  /\ {NB, NDIRECT, BSIZE, MAXOPBLOCKS, MaxN} \subseteq Nat \ {0} /\ MaxTorn \in Nat
  /\ ChunkMax > 0
  /\ \A fd \in Fds : Ino(fd) \in Inodes
  /\ None \notin Procs /\ 0 \notin Procs

VARIABLES
  bitmap,             \* blocks marked in use
  data,               \* block -> its content
  addrs, size,        \* struct inode
  holder,             \* inode -> holder of ip->lock
  off,                \* struct file
  c,                  \* process -> the call it is in
  text,               \* inode -> the bytes that calls have reported as written;
                      \* None where a call has failed in the middle of a copy
  logged,             \* ghost: process -> blocks its transaction has logged
  panicked

disk == <<bitmap, data>>
inode == <<addrs, size>>
vars == <<disk, inode, holder, off, c, text, logged, panicked>>

Blocks == 1..NB
Zeroed == [k \in 0..(BSIZE - 1) |-> 0]

\* The next step, the file, how many bytes are still to be written, and the
\* locals of filewrite() and writei().
Call(l, f, left, n1, tot, woff) ==
  [pc |-> l, fd |-> f, left |-> left, n1 |-> n1, tot |-> tot, woff |-> woff]
NoCall == Call("idle", None, 0, 0, 0, 0)

\* Names of the blocks given to log_write() in a transaction: block bn of the
\* file is bn.  The bitmap is one block, as the default FSSIZE (2000) is below BPB.
InodeBlock == -1
BitmapBlock == -2
IndirectBlock == -3

Init ==
  /\ bitmap = {}
  /\ data = [b \in Blocks |-> Zeroed]
  /\ addrs = [i \in Inodes |-> [k \in 0..NDIRECT |-> 0]]
  /\ size = [i \in Inodes |-> 0]
  /\ holder = [i \in Inodes |-> None]
  /\ off = [f \in Fds |-> 0]
  /\ c = [p \in Procs |-> NoCall]
  /\ text = [i \in Inodes |-> << >>]
  /\ logged = [p \in Procs |-> {}]
  /\ panicked = FALSE

Ip(p) == Ino(c[p].fd)
Logs(p, blocks) == logged' = [logged EXCEPT ![p] = @ \cup blocks]
Return(p) == c' = [c EXCEPT ![p] = NoCall]

-----------------------------------------------------------------------------
(* Blocks                                                                  *)

\* What balloc() finds: the first free block, or 0 when the disk is full.
FreeBlock == IF Blocks \subseteq bitmap THEN 0 ELSE Min(Blocks \ bitmap)

\* bzero()
Bzeroed(b) == [data EXCEPT ![b] = Zeroed]

Bfree(b) ==
  /\ panicked' = (b \notin bitmap)
  /\ bitmap' = bitmap \ {b}

\* The block of inode i that holds its block bn; 0 if there is none.
Lookup(i, bn) ==
  IF bn < NDIRECT THEN addrs[i][bn]
  ELSE IF addrs[i][NDIRECT] = 0 THEN 0
  ELSE data[addrs[i][NDIRECT]][bn - NDIRECT]

-----------------------------------------------------------------------------
(* filewrite() and writei()                                                *)

\* The bytes that a process writes are named after it.
Write(p, f, k) ==
  /\ c[p].pc = "idle"
  /\ c' = [c EXCEPT ![p] = Call("chunk", f, k, 0, 0, 0)]
  /\ UNCHANGED <<disk, inode, holder, off, text, logged, panicked>>

\* writei() refuses to leave a gap, and to grow beyond the largest file.
Refused(i, o, n) == o > size[i] \/ o + n > MAXFILE * BSIZE

\* begin_op(), ilock() and the tests of writei().
Chunk(p) ==
  LET n == Min({c[p].left, ChunkMax})
      o == off[c[p].fd]
  IN /\ c[p].pc = "chunk" /\ holder[Ip(p)] = None
     /\ IF Refused(Ip(p), o, n)
          THEN Return(p) /\ UNCHANGED holder
          ELSE /\ holder' = [holder EXCEPT ![Ip(p)] = p]
               /\ c' = [c EXCEPT ![p] = Call("loop", @.fd, @.left, n, 0, o)]
     /\ logged' = [logged EXCEPT ![p] = {}]
     /\ UNCHANGED <<disk, inode, off, text, panicked>>

Looping(p) == c[p].pc = "loop" /\ c[p].tot < c[p].n1
Bn(p) == c[p].woff \div BSIZE

\* bmap() finds no free block: writei() leaves its loop.
BmapFull(p) ==
  /\ Looping(p)
  /\ Lookup(Ip(p), Bn(p)) = 0 /\ FreeBlock = 0
  /\ c' = [c EXCEPT ![p].pc = "end"]
  /\ UNCHANGED <<disk, inode, holder, off, text, logged, panicked>>

\* bmap() allocates a direct block, or the indirect block: entry k of addrs.
BmapAddr(p) ==
  LET k == IF Bn(p) < NDIRECT THEN Bn(p) ELSE NDIRECT
  IN /\ Looping(p)
     /\ addrs[Ip(p)][k] = 0 /\ FreeBlock # 0
     /\ bitmap' = bitmap \cup {FreeBlock}
     /\ data' = Bzeroed(FreeBlock)
     /\ addrs' = [addrs EXCEPT ![Ip(p)][k] = FreeBlock]
     /\ Logs(p, {BitmapBlock, IF Bn(p) < NDIRECT THEN Bn(p) ELSE IndirectBlock})
     /\ UNCHANGED <<size, holder, off, c, text, panicked>>

\* bmap() allocates a block and notes it in the indirect block.
BmapIndirect(p) ==
  LET ind == addrs[Ip(p)][NDIRECT]
  IN /\ Looping(p)
     /\ Bn(p) >= NDIRECT /\ ind # 0
     /\ Lookup(Ip(p), Bn(p)) = 0 /\ FreeBlock # 0
     /\ bitmap' = bitmap \cup {FreeBlock}
     /\ data' = [Bzeroed(FreeBlock) EXCEPT ![ind][Bn(p) - NDIRECT] = FreeBlock]
     /\ Logs(p, {BitmapBlock, IndirectBlock, Bn(p)})
     /\ UNCHANGED <<inode, holder, off, c, text, panicked>>

\* m: not beyond the end of the block.
Part(p) == Min({c[p].n1 - c[p].tot, BSIZE - (c[p].woff % BSIZE)})

\* Mutant: writei() copies to the start of the block.
Copy_FromStart(p) ==
  LET b == Lookup(Ip(p), Bn(p))
      from == 0
      m == Part(p)
  IN /\ Looping(p)
     /\ b # 0
     /\ data' = [data EXCEPT ![b] = [k \in 0..(BSIZE - 1) |->
                   IF k >= from /\ k < from + m THEN p ELSE @[k]]]
     /\ c' = [c EXCEPT ![p] = Call("loop", @.fd, @.left, @.n1, @.tot + m, @.woff + m)]
     /\ Logs(p, {Bn(p)})
     /\ UNCHANGED <<bitmap, inode, holder, off, text, panicked>>

\* either_copyin() and log_write().
Copy(p) ==
  LET b == Lookup(Ip(p), Bn(p))
      from == c[p].woff % BSIZE
      m == Part(p)
  IN /\ Looping(p)
     /\ b # 0
     /\ data' = [data EXCEPT ![b] = [k \in 0..(BSIZE - 1) |->
                   IF k >= from /\ k < from + m THEN p ELSE @[k]]]
     /\ c' = [c EXCEPT ![p] = Call("loop", @.fd, @.left, @.n1, @.tot + m, @.woff + m)]
     /\ Logs(p, {Bn(p)})
     /\ UNCHANGED <<bitmap, inode, holder, off, text, panicked>>

\* either_copyin() meets a bad address, after it has copied k < m bytes into
\* the buffer, which is not given to log_write().
CopyFail(p, k) ==
  /\ Looping(p)
  /\ Lookup(Ip(p), Bn(p)) # 0
  /\ k < Part(p)
  /\ data' = [data EXCEPT ![Lookup(Ip(p), Bn(p))] = [j \in 0..(BSIZE - 1) |->
                IF j >= c[p].woff % BSIZE /\ j < (c[p].woff % BSIZE) + k THEN p ELSE @[j]]]
  /\ c' = [c EXCEPT ![p].pc = "end"]
  /\ text' = [text EXCEPT ![Ip(p)] = [j \in 1..Len(@) |->
                IF j > c[p].woff /\ j <= c[p].woff + k THEN None ELSE @[j]]]
  /\ UNCHANGED <<bitmap, inode, holder, off, logged, panicked>>

\* s with k bytes val from position o on.
Splice(s, o, k, val) ==
  [j \in 1..Max({Len(s), o + k}) |->
     IF j > o /\ j <= o + k THEN val ELSE IF j <= Len(s) THEN s[j] ELSE 0]

\* The end of writei(), iunlock() and end_op(); filewrite() goes on with the
\* next chunk unless this one was cut short.
WriteEnd(p) ==
  LET i == Ip(p)
      call == c[p]
  IN /\ call.pc = "end" \/ (call.pc = "loop" /\ call.tot = call.n1)
     /\ size' = [size EXCEPT ![i] = Max({@, call.woff})]
     /\ text' = [text EXCEPT ![i] = Splice(@, off[call.fd], call.tot, p)]
     /\ off' = [off EXCEPT ![call.fd] = @ + call.tot]
     /\ holder' = [holder EXCEPT ![i] = None]
     /\ IF call.tot = call.n1 /\ call.left > call.tot
          THEN c' = [c EXCEPT ![p] = Call("chunk", call.fd, call.left - call.tot, 0, 0, 0)]
          ELSE Return(p)
     /\ logged' = [logged EXCEPT ![p] = {}]
     /\ UNCHANGED <<disk, addrs, panicked>>

-----------------------------------------------------------------------------
(* fileread() and readi(), under ip->lock and outside a transaction: a     *)
(* bmap() that allocated would panic in log_write().                       *)

Read(p, f, k, copied) ==
  LET i == Ino(f)
      n == IF off[f] > size[i] THEN 0 ELSE Min({k, size[i] - off[f]})
      bns == {o \div BSIZE : o \in off[f]..(off[f] + n - 1)}
  IN /\ c[p].pc = "idle" /\ holder[i] = None
     /\ panicked' = (\E bn \in bns : Lookup(i, bn) = 0)
     /\ off' = [off EXCEPT ![f] = IF copied THEN @ + n ELSE @]
     /\ UNCHANGED <<disk, inode, holder, c, text, logged>>

-----------------------------------------------------------------------------
(* itrunc(), from sys_open() with O_TRUNC.  tot is the next block of the   *)
(* file to free.                                                           *)

Truncate(p, f) ==
  /\ c[p].pc = "idle" /\ holder[Ino(f)] = None
  /\ holder' = [holder EXCEPT ![Ino(f)] = p]
  /\ c' = [c EXCEPT ![p] = Call("trunc", f, 0, 0, 0, 0)]
  /\ UNCHANGED <<disk, inode, off, text, logged, panicked>>

\* Mutant: itrunc() frees the indirect block only, not the blocks listed there.
TruncLimit_Direct(i) == NDIRECT

\* Blocks the loops of itrunc() look at: all, if there is an indirect block.
TruncLimit(i) == IF addrs[i][NDIRECT] = 0 THEN NDIRECT ELSE MAXFILE

TruncBlock(p) ==
  LET i == Ip(p)
      bn == c[p].tot
  IN /\ c[p].pc = "trunc" /\ bn < TruncLimit(i)
     /\ IF Lookup(i, bn) # 0 THEN Bfree(Lookup(i, bn)) ELSE UNCHANGED <<bitmap, panicked>>
     /\ addrs' = [addrs EXCEPT ![i] = [k \in 0..NDIRECT |->
                    IF k = bn /\ k < NDIRECT THEN 0 ELSE @[k]]]
     /\ c' = [c EXCEPT ![p].tot = @ + 1]
     /\ UNCHANGED <<data, size, holder, off, text, logged>>

\* Free the indirect block, set the size, iupdate() and iunlock().
TruncEnd(p) ==
  LET i == Ip(p)
      ind == addrs[i][NDIRECT]
  IN /\ c[p].pc = "trunc" /\ c[p].tot = TruncLimit(i)
     /\ IF ind # 0 THEN Bfree(ind) ELSE UNCHANGED <<bitmap, panicked>>
     /\ addrs' = [addrs EXCEPT ![i][NDIRECT] = 0]
     /\ size' = [size EXCEPT ![i] = 0]
     /\ text' = [text EXCEPT ![i] = << >>]
     /\ holder' = [holder EXCEPT ![i] = None]
     /\ Return(p)
     /\ UNCHANGED <<data, off, logged>>

-----------------------------------------------------------------------------
Writing(p) ==
  \/ Chunk(p)
  \/ BmapFull(p)
  \/ BmapAddr(p)
  \/ BmapIndirect(p)
  \/ Copy(p)
  \/ \E k \in 0..MaxTorn : CopyFail(p, k)
  \/ WriteEnd(p)

Next ==
  /\ ~panicked
  /\ \E p \in Procs :
       \/ \E f \in Fds, k \in 1..MaxN : Write(p, f, k)
       \/ Writing(p)
       \/ \E f \in Fds, k \in 1..MaxN, copied \in BOOLEAN : Read(p, f, k, copied)
       \/ \E f \in Fds : Truncate(p, f)
       \/ TruncBlock(p)
       \/ TruncEnd(p)

Spec == Init /\ [][Next]_vars

-----------------------------------------------------------------------------
\* The blocks that inode i refers to.
Refers(i) ==
  ({addrs[i][k] : k \in 0..NDIRECT} \cup
   (IF addrs[i][NDIRECT] = 0 THEN {} ELSE {Lookup(i, bn) : bn \in NDIRECT..(MAXFILE - 1)})) \ {0}

Unlocked(i) == holder[i] = None

\* Block numbers, sizes and offsets are in range; a process in writei() or
\* itrunc() holds the inode's lock.
TypeOK ==
  /\ bitmap \subseteq Blocks
  /\ addrs \in [Inodes -> [0..NDIRECT -> 0..NB]]
  /\ size \in [Inodes -> 0..(MAXFILE * BSIZE)]
  /\ off \in [Fds -> 0..(MAXFILE * BSIZE)]
  /\ holder \in [Inodes -> Procs \cup {None}]
  /\ \A p \in Procs : c[p].pc \in {"loop", "end", "trunc"} => holder[Ip(p)] = p

\* The bitmap is exact: blocks are neither shared nor, once no call is under
\* way, lost, however calls that run out of blocks, out of user memory or
\* that truncate come between each other.  bfree() never frees a free block,
\* bmap() is not asked for a block beyond MAXFILE, and a read never makes bmap()
\* allocate, outside a transaction: these panics are not reached.
BitmapExact ==
  /\ TypeOK /\ ~panicked
  /\ \A p \in Procs : Looping(p) => Bn(p) < MAXFILE
  /\ \A i, j \in Inodes : i # j /\ Unlocked(i) /\ Unlocked(j) => Refers(i) \cap Refers(j) = {}
  /\ \A i \in Inodes : Unlocked(i) => Refers(i) \subseteq bitmap
  /\ (\A i \in Inodes : Unlocked(i)) => bitmap = UNION {Refers(i) : i \in Inodes}

\* The bytes of a file are those which the calls of writei() have last reported
\* as written, through direct and indirect blocks and with processes that share
\* an offset; only bytes on which an either_copyin() has failed may differ.
\* The size is what the calls have reported, also when they were cut short,
\* and each byte has a block.
ContentAsWritten ==
  \A i \in Inodes : Unlocked(i) =>
    /\ Len(text[i]) = size[i]
    /\ \A o \in 0..(size[i] - 1) :
         /\ Lookup(i, o \div BSIZE) # 0
         /\ text[i][o + 1] \in {None, data[Lookup(i, o \div BSIZE)][o % BSIZE]}
=============================================================================
