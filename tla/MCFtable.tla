------------------------------ MODULE MCFtable ------------------------------
(***************************************************************************)
(* Ftable for TLC.  What a file keeps in f->pipe and f->writable while its *)
(* type is FD_NONE is read by no step and no property, so the view hides   *)
(* it: states that differ only there are one state.                        *)
(***************************************************************************)
EXTENDS Ftable, TLC

FtableSymmetry == Permutations(Procs \ {InitProc}) \cup Permutations(Pipes)

FtableView ==
  <<[f \in Files |-> IF type[f] = "pipe" THEN <<pipe[f], writable[f]>> ELSE type[f]],
    ref, ofile, live, readopen, writeopen, iref, pc, f0, f1, k, child, todo,
    [p \in Procs |-> IF saved[p] # None /\ saved[p].type # "pipe" THEN saved[p].type ELSE saved[p]],
    after, panicked>>
============================================================================
