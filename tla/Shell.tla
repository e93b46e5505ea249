------------------------------- MODULE Shell --------------------------------
(***************************************************************************)
(* user/sh.c above the kernel: main() runs one command line in a child,    *)
(* and runcmd() turns a command tree into processes joined by a pipe.      *)
(*                                                                         *)
(* What a process still has to do is a sequence of system calls; a fork    *)
(* carries the calls of the child.  The calls that reach the pipe are the  *)
(* actions of Pipe; fork(), exit() and wait() are atomic here (Proc has    *)
(* their steps), except that exit() closes the ends of the pipe one by     *)
(* one.                                                                    *)
(* A program that exec() has started reads, writes and exits as it likes.  *)
(***************************************************************************)
EXTENDS Pipe, Functions, FiniteSetsExt

CONSTANTS
  Lines      \* sequence of [cmd, killable]: the command trees of parsecmd(),
             \* and as a bound the processes that somebody may kill

VARIABLES
  line,     \* index of the line that main() has read
  todo,     \* process -> system calls it has still to make
  parent,   \* process -> its parent; None for init's children
  status,   \* process -> "unused", "alive" or "zombie"
  p2,       \* process -> the array p[2] of runcmd()
  bg,       \* ghost: process -> it runs for a command started with &
  mishap    \* ghost: a call has failed ("fail"), a process was killed ("kill")

shvars == <<line, todo, parent, status, p2, bg, mishap>>
allvars == <<vars, shvars>>

sh == CHOOSE p \in Procs : \A q \in Procs : p <= q
Unused == {p \in Procs : status[p] = "unused"}
Children(p) == {q \in Procs : status[q] # "unused" /\ parent[q] = p}

-----------------------------------------------------------------------------
(* The system calls of main() and of each case of runcmd().                *)

Op(o) == [op |-> o]
OpFd(o, fd) == [op |-> o, fd |-> fd]
\* Calls on p[i].
OpP(o, i) == [op |-> o, i |-> i]
Run(c) == [op |-> "runcmd", cmd |-> c]
Fork(calls, back) == [op |-> "fork", calls |-> calls, back |-> back]

Main(c) == << Fork(<<Run(c)>>, FALSE), Op("wait"), Op("getcmd") >>

\* Mutant: the right side keeps the write end of its own pipe.
Right_KeepsWriteEnd(c) == << OpFd("close", 0), OpP("dup", 1), OpP("closep", 1), Run(c.right) >>

Left(c) == << OpFd("close", 1), OpP("dup", 2), OpP("closep", 1), OpP("closep", 2), Run(c.left) >>
Right(c) == << OpFd("close", 0), OpP("dup", 1), OpP("closep", 1), OpP("closep", 2), Run(c.right) >>

\* Mutant: the shell waits for one side of a pipe only.
RunPipe_WaitsOnce(c) ==
  << Op("pipe"), Fork(Left(c), FALSE), Fork(Right(c), FALSE),
     OpP("closep", 1), OpP("closep", 2), Op("wait"), Op("exit") >>

RunPipe(c) ==
  << Op("pipe"), Fork(Left(c), FALSE), Fork(Right(c), FALSE),
     OpP("closep", 1), OpP("closep", 2), Op("wait"), Op("wait"), Op("exit") >>

\* An exec() that fails is a program that exits at once.
Runcmd(c) ==
  CASE c.type = "EXEC"  -> << Op("program") >>
    [] c.type = "REDIR" -> << OpFd("close", c.fd), OpFd("open", c.fd), Run(c.cmd) >>
    [] c.type = "LIST"  -> << Fork(<<Run(c.left)>>, FALSE), Op("wait"), Run(c.right) >>
    [] c.type = "PIPE"  -> RunPipe(c)
    [] c.type = "BACK"  -> << Fork(<<Run(c.cmd)>>, TRUE), Op("exit") >>

-----------------------------------------------------------------------------
\* main() has opened the console three times and has read a line.
Init ==
  /\ PipeInit
  /\ ofile = [p \in Procs |-> [f \in Fds |-> IF p = sh /\ f < 3 THEN "console" ELSE None]]
  /\ line \in DOMAIN Lines
  /\ todo = [p \in Procs |-> IF p = sh THEN Main(Lines[line].cmd) ELSE << >>]
  /\ parent = [p \in Procs |-> None]
  /\ status = [p \in Procs |-> IF p = sh THEN "alive" ELSE "unused"]
  /\ p2 = [p \in Procs |-> << >>]
  /\ bg = [p \in Procs |-> FALSE]
  /\ mishap = {}

\* p is in user space and its next call is o.
At(p, o) == status[p] = "alive" /\ pc[p] = "user" /\ ~killed[p] /\ todo[p] # << >> /\ Head(todo[p]).op = o
\* The calls of a process that has come to calls: runcmd() makes none itself.
Calls(calls) == IF Head(calls).op = "runcmd" THEN Runcmd(Head(calls).cmd) ELSE calls
Next1(p) == todo' = [todo EXCEPT ![p] = Calls(Tail(@))]
\* The call fails and p gives up: panic(), or exit(1) after a message.
Fails(p) ==
  /\ todo' = [todo EXCEPT ![p] = << Op("exit") >>]
  /\ mishap' = mishap \cup {"fail"}
  /\ UNCHANGED <<vars, parent, status, p2, bg>>

SysPipe(p) ==
  /\ At(p, "pipe")
  /\ Pipealloc(p)
  /\ p2' = [p2 EXCEPT ![p] = << Fdalloc(FreeFds(p)), Fdalloc(FreeFds(p) \ {Fdalloc(FreeFds(p))}) >>]
  /\ Next1(p)
  /\ UNCHANGED <<parent, status, bg, mishap>>

SysClose(p) ==
  /\ \/ At(p, "close") /\ Close(p, Head(todo[p]).fd)
     \/ At(p, "closep") /\ Close(p, p2[p][Head(todo[p]).i])
  /\ Next1(p)
  /\ UNCHANGED <<parent, status, p2, bg, mishap>>

SysDup(p) ==
  /\ At(p, "dup")
  /\ Dup(p, p2[p][Head(todo[p]).i])
  /\ Next1(p)
  /\ UNCHANGED <<parent, status, p2, bg, mishap>>

SysOpen(p) ==
  /\ At(p, "open")
  /\ ofile' = [ofile EXCEPT ![p][Fdalloc(FreeFds(p))] = "file"]
  /\ Next1(p)
  /\ UNCHANGED <<pipe, live, lock, killed, pc, n, out, parent, status, p2, bg, mishap>>

\* fork1(): the child has the parent's descriptors and its copy of p[].
SysFork(p) ==
  LET np == Min(Unused)
      f == Head(todo[p]) IN
  /\ At(p, "fork")
  /\ Unused # {}
  /\ status' = [status EXCEPT ![np] = "alive"]
  /\ parent' = [parent EXCEPT ![np] = p]
  /\ ofile' = [ofile EXCEPT ![np] = ofile[p]]
  /\ p2' = [p2 EXCEPT ![np] = p2[p]]
  /\ bg' = [bg EXCEPT ![np] = bg[p] \/ f.back]
  /\ todo' = [todo EXCEPT ![np] = Calls(f.calls), ![p] = Calls(Tail(@))]
  /\ UNCHANGED <<pipe, live, lock, killed, pc, n, out, mishap>>

\* Bound: one call fails, or one process is killed, in a behaviour.
SysFail(p) ==
  /\ \E o \in {"pipe", "open", "fork"} : At(p, o)
  /\ mishap = {}
  /\ Fails(p)

Zombies(p) == {q \in Children(p) : status[q] = "zombie"}

\* freeproc() of the processes in S, as far as it is seen here.
Freeproc(S) ==
  /\ killed' = [q \in Procs |-> q \notin S /\ killed[q]]
  /\ bg' = [q \in Procs |-> q \notin S /\ bg[q]]
  /\ UNCHANGED <<pipe, live, lock, pc, n, out, mishap>>

\* wait(0): reaps a child that has exited, -1 if p has no children.
SysWait(p) ==
  /\ At(p, "wait")
  /\ \/ LET q == Min(Zombies(p)) IN
        /\ Zombies(p) # {}
        /\ status' = [status EXCEPT ![q] = "unused"]
        /\ parent' = [parent EXCEPT ![q] = None]
        /\ Freeproc({q})
        /\ UNCHANGED <<ofile, p2>>
     \/ /\ Children(p) = {}
        /\ UNCHANGED <<vars, parent, status, p2, bg, mishap>>
  /\ Next1(p)

\* exit() is called, or usertrap() calls it for a killed process.
Exiting(p) == At(p, "exit") \/ (status[p] = "alive" /\ pc[p] = "user" /\ killed[p])

\* The next end of the pipe that the loop over p->ofile[] closes.
PipeFds(p) == {f \in Fds : ofile[p][f] \in {"r", "w"}}

ExitClose(p) ==
  /\ Exiting(p)
  /\ PipeFds(p) # {}
  /\ Close(p, Min(PipeFds(p)))
  /\ todo' = [todo EXCEPT ![p] = << Op("exit") >>]
  /\ UNCHANGED <<parent, status, p2, bg, mishap>>

(***************************************************************************)
(* The rest of exit(): the other files are closed and the children go to   *)
(* init, which reaps those that have exited (user/init.c; see Proc).       *)
(***************************************************************************)
Exit(p) ==
  LET reaped == {q \in Procs : (q = p /\ parent[p] = None) \/ q \in Zombies(p)} IN
  /\ Exiting(p)
  /\ PipeFds(p) = {}
  /\ ofile' = [ofile EXCEPT ![p] = [f \in Fds |-> None]]
  /\ status' = [q \in Procs |-> IF q \in reaped THEN "unused" ELSE IF q = p THEN "zombie" ELSE status[q]]
  /\ parent' = [q \in Procs |-> IF parent[q] = p THEN None ELSE parent[q]]
  /\ todo' = [todo EXCEPT ![p] = << >>]
  /\ p2' = [p2 EXCEPT ![p] = << >>]
  /\ Freeproc(reaped)

-----------------------------------------------------------------------------
\* A program reads from and writes to the pipe, and calls exit().
Program(p) ==
  /\ At(p, "program")
  /\ \/ \E k \in 0..MaxN : (Read(p, k) \/ Write(p, k)) /\ UNCHANGED todo
     \/ todo' = [todo EXCEPT ![p] = << Op("exit") >>] /\ UNCHANGED vars
  /\ UNCHANGED <<parent, status, p2, bg, mishap>>

SysKill(p) ==
  /\ p \in Lines[line].killable /\ status[p] = "alive"
  /\ mishap = {}
  /\ Kill(p)
  /\ mishap' = mishap \cup {"kill"}
  /\ UNCHANGED <<todo, parent, status, p2, bg>>

InKernel(p) == Kernel(p) /\ UNCHANGED <<todo, parent, status, p2, bg, mishap>>

Next ==
  /\ UNCHANGED line
  /\ \E p \in Procs :
       \/ InKernel(p)
       \/ SysPipe(p) \/ SysClose(p) \/ SysDup(p) \/ SysOpen(p)
       \/ SysFork(p) \/ SysFail(p)
       \/ SysWait(p) \/ ExitClose(p) \/ Exit(p)
       \/ Program(p)
       \/ SysKill(p)

Spec == Init /\ [][Next]_allvars

-----------------------------------------------------------------------------
(* Properties.                                                             *)

(***************************************************************************)
(* As long as nobody has been killed, a reader sleeps only while the pipe  *)
(* is empty and has a writer, and a writer only while it is full and has a *)
(* reader.  (pipewrite() of a killed process returns without the wakeup.)  *)
(***************************************************************************)
SleepIsJustifiedUnlessKilled == "kill" \notin mishap => SleepIsJustified

\* Processes that have end e open, or are about to close it.
Holders(e) ==
  {p \in Procs : (\E f \in Fds : ofile[p][f] = e) \/ pc[p] = (IF e = "r" THEN "rclose" ELSE "wclose")}
Waiting(p) == At(p, "wait") /\ Children(p) # {} /\ Zombies(p) = {}

\* Only processes of S can end the wait that p is in.
WaitsOnlyFor(p, S) ==
  \/ pc[p] = "rasleep" /\ Holders("w") \subseteq S
  \/ pc[p] = "wasleep" /\ Holders("r") \subseteq S
  \/ Waiting(p) /\ Children(p) \subseteq S

(***************************************************************************)
(* Nobody waits for ever: no set of processes asleep in read(), write() or *)
(* wait() waits only for itself, whatever the command line, and also when  *)
(* processes are killed or calls fail.  It takes every close() of          *)
(* runcmd(): a reader that kept the write end would wait for itself.       *)
(***************************************************************************)
NoPipelineStuck ==
  \A S \in SUBSET {p \in Procs : Waiting(p) \/ pc[p] \in {"rasleep", "wasleep"}} :
    S # {} => \E p \in S : ~WaitsOnlyFor(p, S)

(***************************************************************************)
(* main() prompts again only when the command line is over: every process  *)
(* it has started, other than by &, has exited and has been reaped, unless *)
(* a call has failed or a process was killed.                              *)
(***************************************************************************)
PromptWhenDone ==
  At(sh, "getcmd") /\ mishap = {} =>
    \A p \in Procs \ {sh} : status[p] # "unused" => bg[p]
=============================================================================
