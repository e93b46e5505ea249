-------------------------------- MODULE Tree --------------------------------
(***************************************************************************)
(* Directories and path names: namex() and its callers in kernel/fs.c, and *)
(* the system calls of kernel/sysfile.c that look up, make and remove      *)
(* names: open, mkdir, mknod, link, unlink, chdir, close and fstat.        *)
(*                                                                         *)
(* A path is a sequence of "/" and names, as it was typed: with a leading  *)
(* "/" or relative to the working directory, with repeated or trailing "/" *)
(* or none at all.  A directory's entries change under its inode's lock.   *)
(***************************************************************************)
EXTENDS Inode, TLC

CONSTANTS
  Names,
  Calls,     \* bound: the calls with a path, <<call, path>>
  Links,     \* bound: the calls of link(), <<old, new>>
  MaxOpen    \* bound: files open at a time

Ops == {"read", "write", "creat", "mkdir", "mknod", "unlink", "chdir"}
Path == Seq(Names \cup {"/", ".", ".."})

ASSUME TreeAssumption ==
  /\ \A x \in Calls : x[1] \in Ops /\ x[2] \in Path
  /\ \A x \in Links : x[1] \in Path /\ x[2] \in Path

VARIABLES
  cwd, fd,   \* process -> the entries of p->cwd and of its open file, or 0
  st         \* process -> the call it is in

vars == <<table, cwd, fd, st>>

\* The next step and the locals of a system call; old is sys_link()'s ip,
\* and new its second path.
NoCall == [pc |-> "user", op |-> None, path |-> << >>, new |-> << >>,
           name |-> None, ip |-> 0, dp |-> 0, old |-> 0]

Dots == {".", ".."}

\* What mkfs makes: a root directory; all processes start in it.
Init ==
  /\ dinode = [i \in Inums |-> IF i = ROOTINO THEN [type |-> "T_DIR", nlink |-> 1]
                               ELSE [type |-> "none", nlink |-> 0]]
  /\ ents = [i \in Inums |-> [n \in Names \cup Dots |->
               IF i = ROOTINO /\ n \in Dots THEN ROOTINO ELSE 0]]
  /\ itab = [e \in Entries |->
               [inum |-> IF e = 1 THEN ROOTINO ELSE 0,
                ref |-> IF e = 1 THEN Cardinality(Procs) ELSE 0,
                valid |-> FALSE, type |-> "none", nlink |-> 0, lock |-> None]]
  /\ todo = [p \in Procs |-> << >>] /\ panicked = FALSE
  /\ ghost = [lost |-> {}, orphans |-> {}, astray |-> FALSE]
  /\ cwd = [p \in Procs |-> 1] /\ fd = [p \in Procs |-> 0]
  /\ st = [p \in Procs |-> NoCall]

At(p, l) == st[p].pc = l /\ todo[p] = << >>
Set(p, s) == st' = [st EXCEPT ![p] = s]
Goto(p, l) == Set(p, [st[p] EXCEPT !.pc = l])

\* The call returns, after calls.
Return(p, calls) == Set(p, NoCall) /\ Goes(p, calls)

Inum(e) == itab[e].inum

-----------------------------------------------------------------------------
(* namex()                                                                 *)

\* The path without its leading slashes.
Skip(s) == LET k == Min({j \in 1..(Len(s) + 1) : j > Len(s) \/ s[j] # "/"})
           IN SubSeq(s, k, Len(s))

\* skipelem(): no element, or the first one and the path that follows it.
NoElem(s) == Skip(s) = << >>
Elem(s) == Head(Skip(s))
Skipelem(s) == Skip(Tail(Skip(s)))

Dirlookup(e, n) == ents[Inum(e)][n]

\* ip = iget(ROOTINO) or idup(cwd).
NamexStart(p, s, path) ==
  LET abs == path # << >> /\ Head(path) = "/"
      e == IF abs THEN IgetEntry(ROOTINO) ELSE cwd[p] IN
  /\ itab' = IF abs THEN Iget(itab, ROOTINO) ELSE Idup(cwd[p])
  /\ Set(p, [s EXCEPT !.pc = "namex", !.path = path, !.ip = e])
  /\ panicked' = (abs /\ IgetPanics(ROOTINO))
  /\ UNCHANGED <<dinode, ents, todo, ghost, cwd, fd>>

\* nameiparent() rather than namei()
Nameiparent(p) == st[p].op \in {"creat", "mkdir", "mknod", "unlink"} \/ st[p].old # 0

\* namex() returns 0, after calls: the call fails.
NamexFail(p, calls) ==
  IF st[p].old # 0 THEN Goto(p, "link_bad") /\ Goes(p, calls) ELSE Return(p, calls)

\* nameiparent() of a path without elements; namei() finds ip.
NamexEnd(p) ==
  /\ At(p, "namex") /\ NoElem(st[p].path) /\ Nameiparent(p)
  /\ NamexFail(p, Iput(st[p].ip))
  /\ UNCHANGED <<dinode, ents, itab, ghost, panicked, cwd, fd>>

\* ilock(ip), for the next element; Last: stop one level early.
Walk(p) == At(p, "namex") /\ ~NoElem(st[p].path) /\ CanLock(st[p].ip)
WalkDir(p) == Loaded(st[p].ip)[st[p].ip].type = "T_DIR"
Last(p) == Nameiparent(p) /\ Skipelem(st[p].path) = << >>

NamexFails(p) ==
  LET s == st[p] IN
  /\ Walk(p)
  /\ ~WalkDir(p) \/ (~Last(p) /\ Dirlookup(s.ip, Elem(s.path)) = 0)
  /\ itab' = Loaded(s.ip)
  /\ panicked' = IlockPanics(s.ip)
  /\ NamexFail(p, Iput(s.ip))
  /\ UNCHANGED <<dinode, ents, ghost, cwd, fd>>

NamexParent(p) ==
  LET s == st[p] IN
  /\ Walk(p) /\ WalkDir(p) /\ Last(p)
  /\ itab' = Loaded(s.ip)
  /\ panicked' = IlockPanics(s.ip)
  /\ Set(p, [s EXCEPT !.pc = "parent", !.dp = s.ip, !.ip = 0, !.path = << >>,
                      !.name = Elem(s.path)])
  /\ UNCHANGED <<dinode, ents, todo, ghost, cwd, fd>>

\* The ".." that is looked up next is not the parent any more.
Astray(s) == Elem(s.path) = ".." /\ Inum(s.ip) \in ghost.orphans

\* next = dirlookup(ip, name), while ip is locked; iunlockput(ip).
NamexNext(p) ==
  LET s == st[p]
      i == Dirlookup(s.ip, Elem(s.path)) IN
  /\ Walk(p) /\ WalkDir(p) /\ ~Last(p)
  /\ i # 0
  /\ itab' = Iget(Loaded(s.ip), i)
  /\ panicked' = (IlockPanics(s.ip) \/ IgetPanics(i))
  /\ Set(p, [s EXCEPT !.ip = IgetEntry(i), !.path = Skipelem(s.path)])
  /\ Goes(p, Iput(s.ip))
  /\ ghost' = [ghost EXCEPT !.astray = @ \/ Astray(s)]
  /\ UNCHANGED <<dinode, ents, cwd, fd>>

-----------------------------------------------------------------------------
(* Calls on an inode that namei() or create() has found, or create() made. *)

Found(p) ==
  \/ At(p, "namex") /\ NoElem(st[p].path) /\ ~Nameiparent(p) /\ CanLock(st[p].ip)
  \/ At(p, "found") /\ CanLock(st[p].ip)
  \/ At(p, "created")

FoundDir(p) == Loaded(st[p].ip)[st[p].ip].type = "T_DIR"

\* The table when ip has been locked, if it was not, and is unlocked again.
FoundUnlock(p) ==
  /\ itab' = Unlocked(Loaded(st[p].ip), st[p].ip)
  /\ panicked' = IlockPanics(st[p].ip)

Opening(p) == Found(p) /\ st[p].op \in {"read", "write", "creat"}

\* A directory may only be read: sys_open() gives up.  It does so too when
\* filealloc() or fdalloc() fails.
OpenFail(p) ==
  /\ Opening(p)
  /\ FoundUnlock(p)
  /\ Return(p, Iput(st[p].ip))
  /\ UNCHANGED <<dinode, ents, ghost, cwd, fd>>

Open(p) ==
  /\ Opening(p)
  /\ FoundDir(p) => st[p].op = "read"
  /\ fd' = [fd EXCEPT ![p] = st[p].ip]
  /\ FoundUnlock(p)
  /\ Return(p, << >>)
  /\ UNCHANGED <<dinode, ents, ghost, cwd>>

\* mkdir() and mknod() have made their inode, or found the name taken.
Made(p) ==
  /\ Found(p) /\ st[p].op \in {"mkdir", "mknod"}
  /\ FoundUnlock(p)
  /\ Return(p, Iput(st[p].ip))
  /\ UNCHANGED <<dinode, ents, ghost, cwd, fd>>

Chdir(p) ==
  LET e == st[p].ip IN
  /\ Found(p) /\ st[p].op = "chdir"
  /\ FoundUnlock(p)
  /\ cwd' = IF FoundDir(p) THEN [cwd EXCEPT ![p] = e] ELSE cwd
  /\ Return(p, Iput(IF FoundDir(p) THEN cwd[p] ELSE e))
  /\ UNCHANGED <<dinode, ents, ghost, fd>>

\* sys_link(): ip->nlink++, unless ip is a directory.
LinkInc(p) ==
  LET e == st[p].ip
      t == Loaded(e)
      k == t[e].nlink + 1 IN
  /\ Found(p) /\ st[p].op = "link"
  /\ panicked' = IlockPanics(e)
  /\ IF FoundDir(p)
       THEN Return(p, Iput(e)) /\ itab' = t /\ UNCHANGED dinode
       ELSE /\ itab' = SetNlink(t, e, k)
            /\ dinode' = Iupdate(dinode, t, e, k)
            /\ Set(p, [st[p] EXCEPT !.pc = "link_new", !.old = e, !.ip = 0])
            /\ UNCHANGED todo
  /\ UNCHANGED <<ents, ghost, cwd, fd>>

LinkNew(p) == At(p, "link_new") /\ NamexStart(p, st[p], st[p].new)

\* bad: ip->nlink--
LinkBad(p) ==
  LET e == st[p].old
      t == Loaded(e)
      k == t[e].nlink - 1 IN
  /\ At(p, "link_bad") /\ CanLock(e)
  /\ panicked' = IlockPanics(e)
  /\ itab' = SetNlink(t, e, k) /\ dinode' = Iupdate(dinode, t, e, k)
  /\ Return(p, Iput(e))
  /\ UNCHANGED <<ents, ghost, cwd, fd>>

-----------------------------------------------------------------------------
(* Calls on the directory that nameiparent() has found.                    *)

\* ilock(dp)
Parent(p) == At(p, "parent") /\ CanLock(st[p].dp)
ParentLoad(p) ==
  /\ itab' = Loaded(st[p].dp)
  /\ panicked' = IlockPanics(st[p].dp)
Present(p) == Dirlookup(st[p].dp, st[p].name) # 0

Linking(p) == Parent(p) /\ st[p].old # 0

\* dirlink(dp, name, ip->inum)
Dirlink(p) ==
  LET s == st[p] IN
  /\ Linking(p) /\ ~Present(p)
  /\ ents' = [ents EXCEPT ![Inum(s.dp)][s.name] = Inum(s.old)]
  /\ ParentLoad(p)
  /\ Return(p, Iput(s.dp) \o Iput(s.old))
  /\ UNCHANGED <<dinode, ghost, cwd, fd>>

\* dirlink() fails: the name is there, or there is no block for it.
DirlinkFail(p) ==
  LET s == st[p] IN
  /\ Linking(p)
  /\ ParentLoad(p)
  /\ Set(p, [s EXCEPT !.pc = "link_bad", !.dp = 0])
  /\ Goes(p, Iput(s.dp))
  /\ UNCHANGED <<dinode, ents, ghost, cwd, fd>>

Unlinking(p) == Parent(p) /\ st[p].op = "unlink"

\* Mutant: unlink() does not look for "." and "..".
Namecmp_None(n) == FALSE

\* unlink() leaves "." and ".." alone.
Namecmp(n) == n \in Dots

UnlinkBad(p) ==
  LET s == st[p] IN
  /\ Unlinking(p)
  /\ Namecmp(s.name) \/ ~Present(p)
  /\ ParentLoad(p)
  /\ Return(p, Iput(s.dp))
  /\ UNCHANGED <<dinode, ents, ghost, cwd, fd>>

\* iget() of inode i for the local ip, with dp still locked.
GetIp(p, i, l) ==
  LET s == st[p] IN
  /\ itab' = Locked(Iget(Loaded(s.dp), i), p, s.dp)
  /\ panicked' = (IlockPanics(s.dp) \/ IgetPanics(i))
  /\ Set(p, [s EXCEPT !.pc = l, !.ip = IgetEntry(i)])

UnlinkGet(p) ==
  LET s == st[p] IN
  /\ Unlinking(p) /\ ~Namecmp(s.name) /\ Present(p)
  /\ GetIp(p, Dirlookup(s.dp, s.name), "unlink")
  /\ UNCHANGED <<dinode, ents, todo, ghost, cwd, fd>>

\* ilock(ip), with dp locked; a directory must be empty.
Target(p) == At(p, "unlink") /\ CanLock(st[p].ip)
Isdirempty(e) == \A n \in Names : Dirlookup(e, n) = 0
TargetPanics(p) ==
  IlockPanics(st[p].ip) \/ Loaded(st[p].ip)[st[p].ip].nlink < 1

UnlinkRefuse(p) ==
  LET s == st[p] IN
  /\ Target(p)
  /\ FoundDir(p) /\ ~Isdirempty(s.ip)
  /\ panicked' = TargetPanics(p)
  /\ itab' = Loaded(s.ip)
  /\ Return(p, Iput(s.ip) \o Iunlockput(s.dp))
  /\ UNCHANGED <<dinode, ents, ghost, cwd, fd>>

\* Clear the entry; a directory's ".." no longer counts as a link to dp.
UnlinkRemove(p) ==
  LET s == st[p]
      t == Locked(Loaded(s.ip), p, s.ip)
      k == t[s.dp].nlink - (IF FoundDir(p) THEN 1 ELSE 0) IN
  /\ Target(p)
  /\ FoundDir(p) => Isdirempty(s.ip)
  /\ panicked' = TargetPanics(p)
  /\ ents' = [ents EXCEPT ![Inum(s.dp)][s.name] = 0]
  /\ itab' = Unlocked(SetNlink(t, s.dp, k), s.dp) /\ dinode' = Iupdate(dinode, t, s.dp, k)
  /\ Set(p, [s EXCEPT !.pc = "unlink_dec", !.dp = 0])
  /\ Goes(p, Iput(s.dp))
  /\ UNCHANGED <<ghost, cwd, fd>>

UnlinkDec(p) ==
  LET e == st[p].ip
      k == itab[e].nlink - 1 IN
  /\ At(p, "unlink_dec")
  /\ itab' = Unlocked(SetNlink(itab, e, k), e) /\ dinode' = Iupdate(dinode, itab, e, k)
  /\ Return(p, Iput(e))
  /\ UNCHANGED <<ents, ghost, panicked, cwd, fd>>

-----------------------------------------------------------------------------
(* create(), for open(O_CREATE), mkdir() and mknod()                       *)

Types == [creat |-> "T_FILE", mkdir |-> "T_DIR", mknod |-> "T_DEVICE"]
Creating(p) == Parent(p) /\ st[p].op \in DOMAIN Types

\* The name is there: iunlockput(dp), then ilock(ip).  Only open() takes
\* it, and no directory.
CreateFound(p) ==
  LET s == st[p]
      i == Dirlookup(s.dp, s.name) IN
  /\ Creating(p) /\ Present(p)
  /\ itab' = Iget(Loaded(s.dp), i)
  /\ panicked' = (IlockPanics(s.dp) \/ IgetPanics(i))
  /\ Set(p, [s EXCEPT !.pc = "found", !.ip = IgetEntry(i), !.dp = 0])
  /\ Goes(p, Iput(s.dp))
  /\ UNCHANGED <<dinode, ents, ghost, cwd, fd>>

FreeInums == {i \in Inums : dinode[i].type = "none"}

\* ialloc() finds no free inode.
CreateNoInode(p) ==
  /\ Creating(p) /\ ~Present(p)
  /\ FreeInums = {}
  /\ ParentLoad(p)
  /\ Return(p, Iput(st[p].dp))
  /\ UNCHANGED <<dinode, ents, ghost, cwd, fd>>

\* ialloc() marks inode i on disk, with all else zero.
Ialloc(d, i, type) == [d EXCEPT ![i] = [type |-> type, nlink |-> 0]]

\* ip = ialloc(); nobody else knows the inode, so its iget() is in this step.
CreateNew(p) ==
  /\ Creating(p) /\ ~Present(p)
  /\ FreeInums # {}
  /\ dinode' = Ialloc(dinode, Min(FreeInums), Types[st[p].op])
  /\ GetIp(p, Min(FreeInums), "create")
  /\ UNCHANGED <<ents, todo, ghost, cwd, fd>>

\* Mutant: create() makes ".." of a new directory the directory itself.
Created_OwnParent(p) ==
  LET s == st[p]
      i == Inum(s.ip)
      dots == IF s.op = "mkdir" THEN [n \in Dots |-> i] ELSE << >>
  IN [ents EXCEPT ![i] = dots @@ @, ![Inum(s.dp)] = [@ EXCEPT ![s.name] = i]]

\* The entries that create() writes: "." and ".." of a new directory, and
\* the name in dp.
Created(p) ==
  LET s == st[p]
      i == Inum(s.ip)
      dots == IF s.op = "mkdir" THEN [n \in Dots |-> IF n = "." THEN i ELSE Inum(s.dp)] ELSE << >>
  IN [ents EXCEPT ![i] = dots @@ @, ![Inum(s.dp)] = [@ EXCEPT ![s.name] = i]]

\* Mutant: mkdir() does not count ".." as a link to dp.
CountDotDot_None(p) == 0

\* dp->nlink++ for "..".
CountDotDot(p) == IF st[p].op = "mkdir" THEN 1 ELSE 0

\* ilock(ip), with dp locked.
Creation(p) == At(p, "create") /\ CanLock(st[p].ip)

\* ip->nlink = 1, the entries, dp->nlink++ if need be, and iunlockput(dp).
CreateLink(p) ==
  LET s == st[p]
      t == Locked(Loaded(s.ip), p, s.ip)
      k == t[s.dp].nlink + CountDotDot(p) IN
  /\ Creation(p)
  /\ panicked' = IlockPanics(s.ip)
  /\ itab' = Unlocked(SetNlink(SetNlink(t, s.ip, 1), s.dp, k), s.dp)
  /\ dinode' = Iupdate(Iupdate(dinode, t, s.ip, 1), t, s.dp, k)
  /\ ents' = Created(p)
  /\ Set(p, [s EXCEPT !.pc = "created", !.dp = 0])
  /\ Goes(p, Iput(s.dp))
  /\ UNCHANGED <<ghost, cwd, fd>>

\* fail: a dirlink() got no block; "." and ".." go with the inode.
CreateFail(p) ==
  LET s == st[p]
      t == Loaded(s.ip) IN
  /\ Creation(p)
  /\ panicked' = IlockPanics(s.ip)
  /\ itab' = SetNlink(t, s.ip, 0) /\ dinode' = Iupdate(dinode, t, s.ip, 0)
  /\ Return(p, Iput(s.ip) \o Iunlockput(s.dp))
  /\ UNCHANGED <<ents, ghost, cwd, fd>>

-----------------------------------------------------------------------------
(* The calls                                                               *)

Call(p, op, path) ==
  /\ At(p, "user")
  /\ op \in {"read", "write", "creat"} =>
       fd[p] = 0 /\ Cardinality({q \in Procs : fd[q] # 0}) < MaxOpen
  /\ NamexStart(p, [NoCall EXCEPT !.op = op], path)

Link(p, old, new) ==
  /\ At(p, "user")
  /\ NamexStart(p, [NoCall EXCEPT !.op = "link", !.new = new], old)

\* fileclose(), for the last reference to the open file.
Close(p) ==
  /\ At(p, "user") /\ fd[p] # 0
  /\ fd' = [fd EXCEPT ![p] = 0]
  /\ Goes(p, Iput(fd[p]))
  /\ UNCHANGED <<dinode, ents, itab, ghost, panicked, cwd, st>>

\* filestat(), and the locking of fileread() and filewrite().
Filestat(p) ==
  /\ At(p, "user") /\ fd[p] # 0
  /\ CanLock(fd[p])
  /\ itab' = Loaded(fd[p])
  /\ panicked' = IlockPanics(fd[p])
  /\ UNCHANGED <<dinode, ents, todo, ghost, cwd, fd, st>>

Kernel(p) ==
  \/ Cleanup(p) /\ UNCHANGED <<cwd, fd, st>>
  \/ NamexEnd(p) \/ NamexFails(p) \/ NamexParent(p) \/ NamexNext(p)
  \/ OpenFail(p) \/ Open(p) \/ Made(p) \/ Chdir(p)
  \/ LinkInc(p) \/ LinkNew(p) \/ LinkBad(p) \/ Dirlink(p) \/ DirlinkFail(p)
  \/ UnlinkBad(p) \/ UnlinkGet(p) \/ UnlinkRefuse(p) \/ UnlinkRemove(p) \/ UnlinkDec(p)
  \/ CreateFound(p) \/ CreateNoInode(p) \/ CreateNew(p) \/ CreateLink(p) \/ CreateFail(p)

User(p) ==
  \/ \E x \in Calls : Call(p, x[1], x[2])
  \/ \E x \in Links : Link(p, x[1], x[2])
  \/ Close(p)
  \/ Filestat(p)

Next == ~panicked /\ \E p \in Procs : Kernel(p) \/ User(p)

Spec == Init /\ [][Next]_vars

-----------------------------------------------------------------------------
\* Type invariant of the disk, the table and the calls.
TypeOK ==
  /\ dinode \in [Inums -> [type : {"none", "T_DIR", "T_FILE", "T_DEVICE"}, nlink : Nat]]
  /\ ents \in [Inums -> [Names \cup Dots -> Inums \cup {0}]]
  /\ \A e \in Entries : itab[e].ref \in Nat /\ itab[e].lock \in Procs \cup {None}
  /\ cwd \in [Procs -> Entries] /\ fd \in [Procs -> Entries \cup {0}]
  /\ ghost \in [lost : SUBSET Inums, orphans : SUBSET Inums, astray : BOOLEAN]

\* The references of p to entries, in its locals and its pending iput()s.
Refs(p) ==
  <<cwd[p], fd[p], st[p].ip, st[p].dp, st[p].old>> \o
  [k \in DOMAIN todo[p] |-> IF todo[p][k][1] = "iunlock" THEN 0 ELSE todo[p][k][2]]

(***************************************************************************)
(* iget() and iput(): an inode has at most one entry in use, and ip->ref   *)
(* is the number of references that processes have to it, whatever path    *)
(* the calls took, "." and ".." and the error paths included.              *)
(***************************************************************************)
OneEntryPerInode ==
  /\ TypeOK
  /\ \A e, f \in Entries :
       e < f /\ itab[e].ref > 0 /\ itab[f].ref > 0 => Inum(e) # Inum(f)
  /\ LET refs == FoldSet(LAMBDA p, r : Refs(p) \o r, << >>, Procs) IN
     \A e \in Entries : itab[e].ref = Cardinality({k \in DOMAIN refs : refs[k] = e})

\* Where inode i has a name, and the named directories whose ".." is i.
NamesOf(i) == {d \in Inums : \E n \in Names : ents[d][n] = i}
Directory(i) == dinode[i].type = "T_DIR"
Children(i) == {j \in Inums : ents[j][".."] = i /\ Directory(j) /\ NamesOf(j) # {}}

\* The root has one link that no name stands for.
LinkCount(i) ==
  Cardinality({dn \in Inums \X Names : ents[dn[1]][dn[2]] = i}) + Cardinality(Children(i)) +
  (IF i = ROOTINO THEN 1 ELSE 0)

Referenced(i) == Hit(itab, i) # {}

(***************************************************************************)
(* A name never leads to a freed inode: the link count on disk covers the  *)
(* names, and the ".." of named directories, at every moment, also in the  *)
(* middle of link, unlink and mkdir and while iput() frees an inode that   *)
(* ialloc() hands out again.  It is exact for an inode that no process     *)
(* refers to, unless its last name went with a directory that was itself   *)
(* removed while create() or link() were at work in it.                    *)
(***************************************************************************)
LinkCountCovers ==
  \A i \in Inums :
    LET n == LinkCount(i) IN
    /\ n <= dinode[i].nlink
    /\ n > 0 => dinode[i].type # "none"
    /\ ~Referenced(i) /\ dinode[i].type # "none" /\ i \notin ghost.lost
         => n = dinode[i].nlink

(***************************************************************************)
(* Directories form trees, whatever mkdir and unlink of concurrent calls   *)
(* did to their working directories: a named directory has one name, its   *)
(* ".." is the directory with that name, which is not freed, and no        *)
(* directory is below itself.                                              *)
(***************************************************************************)
TreeShape ==
  LET Named == {j \in Inums : Directory(j) /\ NamesOf(j) # {}} IN
  /\ \A j \in Named :
       /\ NamesOf(j) = {ents[j][".."]} /\ Directory(ents[j][".."])
       /\ Cardinality({n \in Names : ents[ents[j][".."]][n] = j}) = 1
       /\ ents[j]["."] = j
  /\ \A s \in SUBSET Named \ {{}} : \E j \in s : ents[j][".."] \notin s

\* The entry that p is about to lock, 0 if none.
Wants(p) ==
  LET s == st[p] IN
  CASE todo[p] # << >> -> 0
    [] s.pc \in {"found", "unlink", "create"} -> s.ip
    [] s.pc = "namex" -> IF NoElem(s.path) /\ Nameiparent(p) THEN 0 ELSE s.ip
    [] s.pc = "parent" -> s.dp
    [] s.pc = "link_bad" -> s.old
    [] OTHER -> 0

(***************************************************************************)
(* No processes wait for each other's inodes, and none for an inode it has *)
(* locked itself: namex() never holds an inode while it locks the next     *)
(* one, and unlink() and create() lock a directory before its entry.  And  *)
(* as iput() says, "ref == 1 means no other process can have ip locked, so *)
(* this acquiresleep() won't block" - which it must not, under a spinlock. *)
(***************************************************************************)
NoLockCycle ==
  /\ \A s \in SUBSET Procs \ {{}} :
       \E p \in s : Wants(p) = 0 \/ itab[Wants(p)].lock \notin s
  /\ \A p \in Procs : Doing(p, "iput") /\ LastUnlinked(Ent(p)) => CanLock(Ent(p))

(***************************************************************************)
(* The table is a cache: a valid entry that nobody has locked agrees with  *)
(* the inode on disk, and what is locked as a directory is one.  A process *)
(* that got a reference from a directory finds the inode still allocated   *)
(* when it locks it - with one exception: ".." of a directory that has     *)
(* been removed, when the parent was removed and freed too.  Otherwise the *)
(* panics "ilock", "ilock: no type", "iunlock", "iget: no inodes" and      *)
(* "unlink: nlink < 1" are not reached.                                    *)
(***************************************************************************)
CacheAgreesWithDisk ==
  /\ panicked => ghost.astray
  /\ \A p \in Procs : st[p].dp # 0 /\ itab[st[p].dp].lock = p => itab[st[p].dp].type = "T_DIR"
  /\ \A e \in Entries :
       LET ip == itab[e] IN
       ip.ref > 0 /\ ip.valid /\ ip.lock = None =>
         dinode[ip.inum] = [type |-> ip.type, nlink |-> ip.nlink]
=============================================================================
