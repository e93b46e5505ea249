------------------------------- MODULE Ftable ------------------------------
(***************************************************************************)
(* The open-file table of kernel/file.c and the per-process descriptor     *)
(* tables: sys_open, sys_dup, sys_close, sys_pipe (kernel/sysfile.c),      *)
(* pipealloc and pipeclose (kernel/pipe.c) as far as they concern files,   *)
(* and what fork and exit (kernel/proc.c) do with descriptors.             *)
(*                                                                         *)
(* A section under ftable.lock is a step; a process's own ofile[] and its  *)
(* locals change along with the step before or after.  Inodes appear as    *)
(* the number of references the files have to them (iref), pipes by which  *)
(* ends are open.                                                          *)
(***************************************************************************)
EXTENDS Integers, FiniteSets, Sequences, FiniteSetsExt

CONSTANTS
  Procs,
  InitProc,  \* the process that runs at the start
  NFILE, NOFILE,
  Pipes,     \* pages pipes can live in
  None

ASSUME FtableAssumption ==
  /\ NFILE \in Nat \ {0} /\ NOFILE \in Nat \ {0}
  /\ IsFiniteSet(Procs) /\ InitProc \in Procs /\ IsFiniteSet(Pipes) /\ None \notin Pipes

Files == 1..NFILE
Fds == 0..NOFILE - 1

VARIABLES
  ref, type, pipe, writable,  \* struct file
  ofile,                      \* process -> descriptor -> file, 0 if closed
  live,                       \* processes that exist
  readopen, writeopen,        \* pipe -> end open; both FALSE: page free
  iref,                       \* references to inodes
  pc, f0, f1,                 \* process -> next step, files it has in hand
  k,                          \* process -> the loop variable of fork and exit
  child,                      \* process -> np of fork
  todo, saved, after,         \* fileclose: files to close, ff, what comes next
  panicked

files == <<ref, type, pipe, writable>>
pipes == <<readopen, writeopen>>
closing == <<todo, saved, after>>
vars == <<ref, type, pipe, writable, ofile, live, readopen, writeopen, iref, pc, f0, f1, k,
          child, todo, saved, after, panicked>>

Init ==
  /\ ref = [f \in Files |-> 0] /\ type = [f \in Files |-> "none"]
  /\ pipe = [f \in Files |-> None] /\ writable = [f \in Files |-> FALSE]
  /\ ofile = [p \in Procs |-> [fd \in Fds |-> 0]]
  /\ live = {InitProc}
  /\ readopen = [pi \in Pipes |-> FALSE] /\ writeopen = [pi \in Pipes |-> FALSE]
  /\ iref = 0
  /\ pc = [p \in Procs |-> "idle"]
  /\ f0 = [p \in Procs |-> 0] /\ f1 = [p \in Procs |-> 0]
  /\ k = [p \in Procs |-> 0] /\ child = [p \in Procs |-> None]
  /\ todo = [p \in Procs |-> <<>>] /\ saved = [p \in Procs |-> None]
  /\ after = [p \in Procs |-> "idle"]
  /\ panicked = FALSE

Goto(p, l) == pc' = [pc EXCEPT ![p] = l]
Idle(p) == p \in live /\ pc[p] = "idle"

FreeFiles == {f \in Files : ref[f] = 0}
FreeFds(p) == {fd \in Fds : ofile[p][fd] = 0}
Argfd(p, fd) == ofile[p][fd] # 0
FreePipes == {pi \in Pipes : ~readopen[pi] /\ ~writeopen[pi]}

\* filealloc(): the first file with no reference.
Filealloc == /\ FreeFiles # {}
             /\ ref' = [ref EXCEPT ![Min(FreeFiles)] = 1]

\* fileclose() each file of fs, then go on at l.
CloseAll(p, fs, l) ==
  /\ todo' = [todo EXCEPT ![p] = fs]
  /\ after' = [after EXCEPT ![p] = l]
  /\ Goto(p, "close")
  /\ UNCHANGED saved

-----------------------------------------------------------------------------
(* sys_open()                                                              *)

\* namei() or create(): a reference to ip.
OpenInode(p) ==
  /\ Idle(p)
  /\ iref' = iref + 1
  /\ Goto(p, "open")
  /\ UNCHANGED <<files, ofile, live, pipes, f0, f1, k, child, closing, panicked>>

\* f = filealloc(), fdalloc(f); f->type is set later.
OpenFile(p) ==
  /\ pc[p] = "open"
  /\ Filealloc
  /\ FreeFds(p) # {}
  /\ ofile' = [ofile EXCEPT ![p][Min(FreeFds(p))] = Min(FreeFiles)]
  /\ f0' = [f0 EXCEPT ![p] = Min(FreeFiles)]
  /\ Goto(p, "open_set")
  /\ UNCHANGED <<type, pipe, writable, live, pipes, iref, f1, k, child, closing, panicked>>

OpenSet(p) ==
  /\ pc[p] = "open_set"
  /\ type' = [type EXCEPT ![f0[p]] = "inode"]
  /\ f0' = [f0 EXCEPT ![p] = 0]
  /\ Goto(p, "idle")
  /\ UNCHANGED <<ref, pipe, writable, ofile, live, pipes, iref, f1, k, child, closing, panicked>>

\* fdalloc() fails: fileclose(f), whose type is FD_NONE, then iunlockput(ip).
OpenNoFd(p) ==
  /\ pc[p] = "open"
  /\ Filealloc
  /\ FreeFds(p) = {}
  /\ CloseAll(p, <<Min(FreeFiles)>>, "open_fail")
  /\ UNCHANGED <<type, pipe, writable, ofile, live, pipes, iref, f0, f1, k, child, panicked>>

OpenNoFile(p) ==
  /\ pc[p] = "open"
  /\ FreeFiles = {}
  /\ Goto(p, "open_fail")
  /\ UNCHANGED <<files, ofile, live, pipes, iref, f0, f1, k, child, closing, panicked>>

OpenFail(p) ==
  /\ pc[p] = "open_fail"
  /\ iref' = iref - 1
  /\ Goto(p, "idle")
  /\ UNCHANGED <<files, ofile, live, pipes, f0, f1, k, child, closing, panicked>>

-----------------------------------------------------------------------------
(* sys_dup(): the second descriptor exists before the second reference.    *)

Dup(p, fd) ==
  /\ Idle(p)
  /\ Argfd(p, fd)
  /\ FreeFds(p) # {}
  /\ ofile' = [ofile EXCEPT ![p][Min(FreeFds(p))] = ofile[p][fd]]
  /\ f0' = [f0 EXCEPT ![p] = ofile[p][fd]]
  /\ Goto(p, "dup")
  /\ UNCHANGED <<files, live, pipes, iref, f1, k, child, closing, panicked>>

Filedup(f) == /\ panicked' = (ref[f] < 1)
              /\ ref' = [ref EXCEPT ![f] = @ + 1]

DupRef(p) ==
  /\ pc[p] = "dup"
  /\ Filedup(f0[p])
  /\ f0' = [f0 EXCEPT ![p] = 0]
  /\ Goto(p, "idle")
  /\ UNCHANGED <<type, pipe, writable, ofile, live, pipes, iref, f1, k, child, closing>>

-----------------------------------------------------------------------------
(* sys_close() and fileclose()                                             *)

Close(p, fd) ==
  /\ Idle(p)
  /\ Argfd(p, fd)
  /\ ofile' = [ofile EXCEPT ![p][fd] = 0]
  /\ CloseAll(p, <<ofile[p][fd]>>, "idle")
  /\ UNCHANGED <<files, live, pipes, iref, f0, f1, k, child, panicked>>

\* fileclose(f) is over: the next file, or the caller; exit() clears ofile[fd].
Closed(p) ==
  /\ todo' = [todo EXCEPT ![p] = Tail(@)]
  /\ after' = [after EXCEPT ![p] = IF Len(todo[p]) = 1 THEN "idle" ELSE @]
  /\ Goto(p, IF Len(todo[p]) = 1 THEN after[p] ELSE "close")
  /\ ofile' = IF after[p] = "exit" THEN [ofile EXCEPT ![p][k[p]] = 0] ELSE ofile

\* --f->ref > 0: others have the file open.
FilecloseShared(p) ==
  LET f == Head(todo[p]) IN
  /\ pc[p] = "close"
  /\ ref[f] # 1
  /\ panicked' = (ref[f] < 1)
  /\ ref' = [ref EXCEPT ![f] = @ - 1]
  /\ Closed(p)
  /\ UNCHANGED <<type, pipe, writable, live, pipes, iref, f0, f1, k, child, saved>>

\* Mutant: fileclose() forgets f->type = FD_NONE.
FilecloseLast_KeepsType(p) ==
  LET f == Head(todo[p]) IN
  /\ pc[p] = "close"
  /\ ref[f] = 1
  /\ ref' = [ref EXCEPT ![f] = 0]
  /\ UNCHANGED type
  /\ saved' = [saved EXCEPT ![p] = [type |-> type[f], pipe |-> pipe[f], writable |-> writable[f]]]
  /\ Goto(p, "close_object")
  /\ UNCHANGED <<pipe, writable, ofile, live, pipes, iref, f0, f1, k, child, todo, after, panicked>>

\* The last reference: ff = *f, and f is free before its object is let go.
FilecloseLast(p) ==
  LET f == Head(todo[p]) IN
  /\ pc[p] = "close"
  /\ ref[f] = 1
  /\ ref' = [ref EXCEPT ![f] = 0]
  /\ type' = [type EXCEPT ![f] = "none"]
  /\ saved' = [saved EXCEPT ![p] = [type |-> type[f], pipe |-> pipe[f], writable |-> writable[f]]]
  /\ Goto(p, "close_object")
  /\ UNCHANGED <<pipe, writable, ofile, live, pipes, iref, f0, f1, k, child, todo, after, panicked>>

\* pipeclose(ff.pipe, ff.writable), iput(ff.ip), or nothing.
FilecloseObject(p) ==
  LET ff == saved[p] IN
  /\ pc[p] = "close_object"
  /\ readopen' = [pi \in Pipes |-> readopen[pi] /\ ~(ff.type = "pipe" /\ ff.pipe = pi /\ ~ff.writable)]
  /\ writeopen' = [pi \in Pipes |-> writeopen[pi] /\ ~(ff.type = "pipe" /\ ff.pipe = pi /\ ff.writable)]
  /\ iref' = IF ff.type = "inode" THEN iref - 1 ELSE iref
  /\ saved' = [saved EXCEPT ![p] = None]
  /\ Closed(p)
  /\ UNCHANGED <<files, live, f0, f1, k, child, panicked>>

-----------------------------------------------------------------------------
(* sys_pipe() and pipealloc()                                              *)

Pipealloc0(p) ==
  /\ Idle(p)
  /\ Filealloc
  /\ f0' = [f0 EXCEPT ![p] = Min(FreeFiles)]
  /\ Goto(p, "pipe1")
  /\ UNCHANGED <<type, pipe, writable, ofile, live, pipes, iref, f1, k, child, closing, panicked>>

Pipealloc1(p) ==
  /\ pc[p] = "pipe1"
  /\ Filealloc
  /\ f1' = [f1 EXCEPT ![p] = Min(FreeFiles)]
  /\ Goto(p, "pipe2")
  /\ UNCHANGED <<type, pipe, writable, ofile, live, pipes, iref, f0, k, child, closing, panicked>>

\* The struct pipe; only now do the two files get a type.
PipeallocPage(p, pi) ==
  LET fs == {f0[p], f1[p]} IN
  /\ pc[p] = "pipe2"
  /\ pi \in FreePipes
  /\ readopen' = [readopen EXCEPT ![pi] = TRUE]
  /\ writeopen' = [writeopen EXCEPT ![pi] = TRUE]
  /\ type' = [f \in Files |-> IF f \in fs THEN "pipe" ELSE type[f]]
  /\ pipe' = [f \in Files |-> IF f \in fs THEN pi ELSE pipe[f]]
  /\ writable' = [f \in Files |-> IF f \in fs THEN f = f1[p] ELSE writable[f]]
  /\ Goto(p, "pipe_fds")
  /\ UNCHANGED <<ref, ofile, live, iref, f0, f1, k, child, closing, panicked>>

\* bad: no file or no page; the files in hand are closed.
PipeallocBad(p) ==
  /\ \/ pc[p] = "pipe1" /\ FreeFiles = {}
     \/ pc[p] = "pipe2"
  /\ CloseAll(p, IF f1[p] = 0 THEN <<f0[p]>> ELSE <<f0[p], f1[p]>>, "idle")
  /\ f0' = [f0 EXCEPT ![p] = 0]
  /\ f1' = [f1 EXCEPT ![p] = 0]
  /\ UNCHANGED <<files, ofile, live, pipes, iref, k, child, panicked>>

\* fdalloc() twice, and copyout() of both descriptors succeeds.
PipeFds(p) ==
  LET fd0 == Min(FreeFds(p))
      fd1 == Min(FreeFds(p) \ {fd0}) IN
  /\ pc[p] = "pipe_fds"
  /\ Cardinality(FreeFds(p)) >= 2
  /\ ofile' = [ofile EXCEPT ![p][fd0] = f0[p], ![p][fd1] = f1[p]]
  /\ f0' = [f0 EXCEPT ![p] = 0]
  /\ f1' = [f1 EXCEPT ![p] = 0]
  /\ Goto(p, "idle")
  /\ UNCHANGED <<files, live, pipes, iref, k, child, closing, panicked>>

\* A descriptor is missing or copyout() fails: the entries made are undone.
PipeFail(p) ==
  /\ pc[p] = "pipe_fds"
  /\ CloseAll(p, <<f0[p], f1[p]>>, "idle")
  /\ f0' = [f0 EXCEPT ![p] = 0]
  /\ f1' = [f1 EXCEPT ![p] = 0]
  /\ UNCHANGED <<files, ofile, live, pipes, iref, k, child, panicked>>

-----------------------------------------------------------------------------
(* fork() and exit()                                                       *)

Fork(p, np) ==
  /\ Idle(p)
  /\ np \notin live
  /\ pc[np] = "idle"
  /\ \A q \in Procs : child[q] # np
  /\ child' = [child EXCEPT ![p] = np]
  /\ k' = [k EXCEPT ![p] = 0]
  /\ Goto(p, "fork")
  /\ UNCHANGED <<files, ofile, live, pipes, iref, f0, f1, closing, panicked>>

\* Mutant: fork() copies ofile[] without filedup().
ForkFd_NoDup(p) ==
  LET f == ofile[p][k[p]] IN
  /\ pc[p] = "fork"
  /\ k[p] < NOFILE
  /\ UNCHANGED <<ref, panicked>>
  /\ ofile' = [ofile EXCEPT ![child[p]][k[p]] = f]
  /\ k' = [k EXCEPT ![p] = @ + 1]
  /\ UNCHANGED <<type, pipe, writable, live, pipes, iref, pc, f0, f1, child, closing>>

\* One turn of the loop: np->ofile[i] = filedup(p->ofile[i]).
ForkFd(p) ==
  LET f == ofile[p][k[p]] IN
  /\ pc[p] = "fork"
  /\ k[p] < NOFILE
  /\ IF f = 0 THEN UNCHANGED <<ref, panicked>> ELSE Filedup(f)
  /\ ofile' = [ofile EXCEPT ![child[p]][k[p]] = f]
  /\ k' = [k EXCEPT ![p] = @ + 1]
  /\ UNCHANGED <<type, pipe, writable, live, pipes, iref, pc, f0, f1, child, closing>>

\* np->state = RUNNABLE
ForkDone(p) ==
  /\ pc[p] = "fork"
  /\ k[p] = NOFILE
  /\ live' = live \cup {child[p]}
  /\ child' = [child EXCEPT ![p] = None]
  /\ k' = [k EXCEPT ![p] = 0]
  /\ Goto(p, "idle")
  /\ UNCHANGED <<files, ofile, pipes, iref, f0, f1, closing, panicked>>

Exit(p) ==
  /\ Idle(p)
  /\ k' = [k EXCEPT ![p] = 0]
  /\ Goto(p, "exit")
  /\ UNCHANGED <<files, ofile, live, pipes, iref, f0, f1, child, closing, panicked>>

ExitFd(p) ==
  /\ pc[p] = "exit"
  /\ k[p] < NOFILE
  /\ IF ofile[p][k[p]] = 0
     THEN /\ k' = [k EXCEPT ![p] = @ + 1]
          /\ UNCHANGED <<pc, closing>>
     ELSE /\ CloseAll(p, <<ofile[p][k[p]]>>, "exit")
          /\ UNCHANGED k
  /\ UNCHANGED <<files, ofile, live, pipes, iref, f0, f1, child, panicked>>

ExitDone(p) ==
  /\ pc[p] = "exit"
  /\ k[p] = NOFILE
  /\ live' = live \ {p}
  /\ k' = [k EXCEPT ![p] = 0]
  /\ Goto(p, "idle")
  /\ UNCHANGED <<files, ofile, pipes, iref, f0, f1, child, closing, panicked>>

-----------------------------------------------------------------------------
Open(p) ==
  OpenInode(p) \/ OpenFile(p) \/ OpenSet(p) \/ OpenNoFd(p) \/ OpenNoFile(p) \/ OpenFail(p)

Fileclose(p) == FilecloseShared(p) \/ FilecloseLast(p) \/ FilecloseObject(p)

Pipe(p) ==
  \/ Pipealloc0(p) \/ Pipealloc1(p) \/ \E pi \in Pipes : PipeallocPage(p, pi)
  \/ PipeallocBad(p) \/ PipeFds(p) \/ PipeFail(p)

Next ==
  /\ ~panicked
  /\ \E p \in Procs :
       \/ Open(p) \/ DupRef(p) \/ Fileclose(p) \/ Pipe(p)
       \/ \E fd \in Fds : Dup(p, fd) \/ Close(p, fd)
       \/ \E np \in Procs : Fork(p, np)
       \/ ForkFd(p) \/ ForkDone(p) \/ Exit(p) \/ ExitFd(p) \/ ExitDone(p)

Spec == Init /\ [][Next]_vars

-----------------------------------------------------------------------------
FileObject == [type : {"none", "inode", "pipe"}, pipe : Pipes \cup {None}, writable : BOOLEAN]

\* Type invariant of the two tables and of the processes' locals.
TypeOK ==
  /\ ref \in [Files -> Nat] /\ type \in [Files -> {"none", "inode", "pipe"}]
  /\ pipe \in [Files -> Pipes \cup {None}] /\ writable \in [Files -> BOOLEAN]
  /\ ofile \in [Procs -> [Fds -> Files \cup {0}]]
  /\ live \subseteq Procs
  /\ readopen \in [Pipes -> BOOLEAN] /\ writeopen \in [Pipes -> BOOLEAN]
  /\ iref \in Nat
  /\ f0 \in [Procs -> Files \cup {0}] /\ f1 \in [Procs -> Files \cup {0}]
  /\ saved \in [Procs -> FileObject \cup {None}]
  /\ \A p \in Procs : Len(todo[p]) <= 2 /\ Range(todo[p]) \subseteq Files

\* References process p has to f, counted in its descriptors and its locals.
Descriptors(p, f) == Cardinality({fd \in Fds : ofile[p][fd] = f})
InHand(p, f) ==
  IF pc[p] \in {"pipe1", "pipe2", "pipe_fds"} THEN Cardinality({h \in {f0[p], f1[p]} : h = f})
  ELSE IF pc[p] = "dup" /\ f0[p] = f THEN -1
  ELSE 0
Queued(p, f) ==
  LET left == IF saved[p] = None THEN todo[p] ELSE Tail(todo[p])
      n == Cardinality({i \in DOMAIN left : left[i] = f}) IN
  CASE after[p] # "exit"          -> n
    [] after[p] = "exit" /\ saved[p] # None /\ Head(todo[p]) = f -> -1
    [] OTHER                      -> 0

(***************************************************************************)
(* f->ref is the number of references: one per descriptor of any process   *)
(* (a forked child's included) and per local variable that owns one, with  *)
(* dup one short until filedup() and exit one over while it lets go.  The  *)
(* panics of filedup() and fileclose() are not reached.                    *)
(***************************************************************************)
RefExact ==
  /\ TypeOK /\ ~panicked
  /\ \A f \in Files :
       ref[f] = MapThenSumSet(LAMBDA p : Descriptors(p, f) + InHand(p, f) + Queued(p, f), Procs)

Released(t, pi, w) == {p \in Procs : /\ saved[p] # None /\ saved[p].type = t
                                     /\ t = "pipe" => saved[p].pipe = pi /\ saved[p].writable = w}
OpenOn(t, pi, w) == {f \in Files : /\ ref[f] > 0 /\ type[f] = t
                                   /\ t = "pipe" => pipe[f] = pi /\ writable[f] = w}
Holders(t, pi, w) == Cardinality(OpenOn(t, pi, w)) + Cardinality(Released(t, pi, w))

(***************************************************************************)
(* What a process can name it can use: the descriptors of a process that   *)
(* is not inside a call lead to files in use, with a type, and with their  *)
(* end of the pipe open.                                                   *)
(***************************************************************************)
DescriptorsUsable ==
  \A p \in live : pc[p] = "idle" =>
    \A fd \in Fds : ofile[p][fd] # 0 =>
      LET f == ofile[p][fd] IN
      /\ ref[f] > 0 /\ type[f] # "none"
      /\ type[f] = "pipe" => IF writable[f] THEN writeopen[pipe[f]] ELSE readopen[pipe[f]]

(***************************************************************************)
(* Every object is let go exactly once: an open end of a pipe belongs to   *)
(* one file or to one fileclose() that is about to close it, and the inode *)
(* references are those of the files, of the closes and of the opens under *)
(* way, also when open or pipe fails half-way.  Nothing is let go too      *)
(* early: descriptors stay usable.                                         *)
(***************************************************************************)
ObjectsReleasedOnce ==
  /\ DescriptorsUsable
  /\ \A pi \in Pipes :
       /\ Holders("pipe", pi, FALSE) = IF readopen[pi] THEN 1 ELSE 0
       /\ Holders("pipe", pi, TRUE) = IF writeopen[pi] THEN 1 ELSE 0
  /\ iref = Holders("inode", None, FALSE)
            + Cardinality({p \in Procs : pc[p] \in {"open", "open_set", "open_fail"}
                                         \/ after[p] = "open_fail"})

=============================================================================
