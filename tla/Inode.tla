------------------------------- MODULE Inode -------------------------------
(***************************************************************************)
(* The table of in-memory inodes of kernel/fs.c: iget, idup, ilock,        *)
(* iunlock, iput and iupdate, over the inodes on disk.                     *)
(*                                                                         *)
(* itable.lock sections are single steps, and so is work under an ip->lock *)
(* that waits for nothing else and uses itable.lock at most once; create(),*)
(* unlink() and iput() hold an ip->lock across steps.                      *)
(* Everything runs inside transactions, so the on-disk inode is what the   *)
(* latest iupdate() wrote; crashes are module Log's subject.               *)
(*                                                                         *)
(* The system calls end in iunlock() and iput() calls: todo[p] lists those *)
(* that p still has to make, in order, before it goes on.                  *)
(***************************************************************************)
EXTENDS Integers, Sequences, FiniteSets, FiniteSetsExt

CONSTANTS
  Procs,
  NInodes,  \* inodes on disk: 1..NInodes
  NINODE,   \* entries of itable
  None

ASSUME InodeAssumption ==
  /\ NInodes \in Nat \ {0}
  /\ NINODE \in Nat /\ NINODE >= NInodes

ROOTINO == 1
Inums == 1..NInodes
Entries == 1..NINODE

VARIABLES
  dinode,   \* on disk: type ("none" if free) and nlink
  ents,     \* the content of a directory: name -> inum, 0 if absent
  itab,     \* struct inode: inum, ref, valid, type, nlink, holder of lock
  todo,     \* process -> the iunlock() and iput() calls it makes next
  ghost,    \* what the freeing of directories leaves behind, see Dying
  panicked

table == <<dinode, ents, itab, todo, ghost, panicked>>

Goes(p, calls) == todo' = [todo EXCEPT ![p] = calls]

-----------------------------------------------------------------------------
(* iget(): the entry in use for inode i, or the first free one.            *)

Hit(t, i) == {e \in Entries : t[e].ref > 0 /\ t[e].inum = i}
FreeEntries(t) == {e \in Entries : t[e].ref = 0}

IgetPanics(i) == Hit(itab, i) = {} /\ FreeEntries(itab) = {}

\* Mutant: iget() does not look for an entry in use.
IgetEntry_AlwaysFresh(i) ==
  Min(IF FreeEntries(itab) # {} THEN FreeEntries(itab) ELSE Hit(itab, i))

IgetEntry(i) == Min(IF Hit(itab, i) # {} THEN Hit(itab, i) ELSE FreeEntries(itab))

\* In table t, which may differ from itab in what ilock() has read.
Iget(t, i) ==
  LET e == IgetEntry(i) IN
  [t EXCEPT ![e].ref = @ + 1, ![e].inum = i, ![e].valid = @ /\ t[e].ref > 0]

Idup(e) == [itab EXCEPT ![e].ref = @ + 1]

-----------------------------------------------------------------------------
(* ilock(): the sleep lock, then the disk if the entry is not valid.       *)

CanLock(e) == itab[e].lock = None

\* The entry is read from disk if it is not valid.
Loaded(e) ==
  LET ip == itab[e]
      d == dinode[ip.inum] IN
  [itab EXCEPT ![e].valid = TRUE,
               ![e].type = IF ip.valid THEN @ ELSE d.type,
               ![e].nlink = IF ip.valid THEN @ ELSE d.nlink]

Locked(t, p, e) == [t EXCEPT ![e].lock = p]
Unlocked(t, e) == [t EXCEPT ![e].lock = None]

IlockPanics(e) ==
  itab[e].ref < 1 \/ (~itab[e].valid /\ dinode[itab[e].inum].type = "none")

\* ip->nlink = k and iupdate(ip), in table t and on disk d.
SetNlink(t, e, k) == [t EXCEPT ![e].nlink = k]
Iupdate(d, t, e, k) == [d EXCEPT ![t[e].inum] = [type |-> t[e].type, nlink |-> k]]

-----------------------------------------------------------------------------
(* The calls in todo[p].                                                   *)

Iput(e) == << <<"iput", e>> >>
Iunlockput(e) == << <<"iunlock", e>>, <<"iput", e>> >>

Doing(p, call) == todo[p] # << >> /\ Head(todo[p])[1] = call
Ent(p) == Head(todo[p])[2]
ThenDo(p, call) == Goes(p, << <<call, Ent(p)>> >> \o Tail(todo[p]))

Iunlock(p) ==
  /\ Doing(p, "iunlock")
  /\ panicked' = (itab[Ent(p)].lock # p \/ itab[Ent(p)].ref < 1)
  /\ itab' = Unlocked(itab, Ent(p))
  /\ Goes(p, Tail(todo[p]))
  /\ UNCHANGED <<dinode, ents, ghost>>

\* iput() truncates and frees an inode with no links and no other references.
LastUnlinked(e) == itab[e].ref = 1 /\ itab[e].valid /\ itab[e].nlink = 0

IputDrop(p) ==
  /\ Doing(p, "deref") \/ (Doing(p, "iput") /\ ~LastUnlinked(Ent(p)))
  /\ itab' = [itab EXCEPT ![Ent(p)].ref = @ - 1]
  /\ Goes(p, Tail(todo[p]))
  /\ UNCHANGED <<dinode, ents, ghost, panicked>>

(***************************************************************************)
(* Ghost: orphans are the directories whose ".." iput() frees, astray says *)
(* that a lookup has followed such a "..", and lost are the inodes that    *)
(* still had a name in a directory when it was freed.                      *)
(***************************************************************************)
Dying(i) ==
  [ghost EXCEPT !.orphans = (@ \cup {j \in Inums : ents[j][".."] = i}) \ {i}]
Freed(i) ==
  [ghost EXCEPT
     !.lost = (@ \cup {ents[i][n] : n \in DOMAIN ents[i] \ {".", ".."}}) \ {0, i}]

\* acquiresleep(), before the release of itable.lock.
IputLock(p) ==
  /\ Doing(p, "iput") /\ LastUnlinked(Ent(p))
  /\ CanLock(Ent(p))
  /\ itab' = [itab EXCEPT ![Ent(p)].lock = p]
  /\ ghost' = Dying(itab[Ent(p)].inum)
  /\ ThenDo(p, "itrunc")
  /\ UNCHANGED <<dinode, ents, panicked>>

\* itrunc(), ip->type = 0 and iupdate().
IputFree(p) ==
  LET i == itab[Ent(p)].inum IN
  /\ Doing(p, "itrunc")
  /\ itab' = [itab EXCEPT ![Ent(p)].type = "none"]
  /\ dinode' = [dinode EXCEPT ![i] = [type |-> "none", nlink |-> 0]]
  /\ ents' = [ents EXCEPT ![i] = [n \in DOMAIN @ |-> 0]]
  /\ ghost' = Freed(i)
  /\ ThenDo(p, "invalid")
  /\ UNCHANGED panicked

\* Mutant: iput() leaves the freed entry valid.
IputInvalid_Valid(p) ==
  /\ Doing(p, "invalid")
  /\ itab' = [itab EXCEPT ![Ent(p)].lock = None]
  /\ ThenDo(p, "deref")
  /\ UNCHANGED <<dinode, ents, ghost, panicked>>

\* ip->valid = 0 and releasesleep(); itable.lock is acquired again next.
IputInvalid(p) ==
  /\ Doing(p, "invalid")
  /\ itab' = [itab EXCEPT ![Ent(p)].valid = FALSE, ![Ent(p)].lock = None]
  /\ ThenDo(p, "deref")
  /\ UNCHANGED <<dinode, ents, ghost, panicked>>

Cleanup(p) ==
  Iunlock(p) \/ IputDrop(p) \/ IputLock(p) \/ IputFree(p) \/ IputInvalid(p)
=============================================================================
