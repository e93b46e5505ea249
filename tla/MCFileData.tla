----------------------------- MODULE MCFileData -----------------------------
(* FileData for TLC: the first two files share an inode.                   *)
EXTENDS FileData, TLC

MCIno(f) == IF f <= 2 THEN 1 ELSE 2

ProcSymmetry == Permutations(Procs)

\* The content of a free block is never looked at: balloc() zeroes it.  The
\* ghost logged is for FileDataProofs.
UsedBlocks ==
  <<bitmap, [b \in bitmap |-> data[b]], addrs, size, holder, off, c, text, panicked>>
=============================================================================
