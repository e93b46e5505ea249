------------------------------ MODULE MCShell -------------------------------
(* Shell for TLC: the command lines.                                       *)
EXTENDS Shell, TLC

Exec == [type |-> "EXEC"]
Redir(c, d) == [type |-> "REDIR", cmd |-> c, fd |-> d]
List(l, r) == [type |-> "LIST", left |-> l, right |-> r]
PipeCmd(l, r) == [type |-> "PIPE", left |-> l, right |-> r]
Back(c) == [type |-> "BACK", cmd |-> c]

MCLines ==
  << \* (a &) | c
     [cmd |-> PipeCmd(Back(Exec), Exec), killable |-> {}],
     \* (a; b) | c
     [cmd |-> PipeCmd(List(Exec, Exec), Exec), killable |-> {}],
     \* a; b > f | c
     [cmd |-> List(Exec, PipeCmd(Redir(Exec, 1), Exec)), killable |-> {3, 4}],
     \* a | b > f &
     [cmd |-> Back(PipeCmd(Exec, Redir(Exec, 1))), killable |-> {4, 5}] >>
MCProcs == 1..6
\* No step depends on out, or on bytes that are not in the pipe.
ShellView ==
  <<IF live THEN <<Queue, nread, nwrite, readopen, writeopen, lock>> ELSE << >>,
    ofile, killed, pc, n, shvars>>
ShellSymmetry == Permutations(Vals)
=============================================================================
