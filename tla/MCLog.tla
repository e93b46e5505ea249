------------------------------- MODULE MCLog -------------------------------
(* Log for TLC: processes, blocks and contents are interchangeable.        *)
EXTENDS Log, TLC

LogSymmetry == Permutations(Procs) \cup Permutations(Blocks) \cup Permutations(Vals)

\* The constants satisfy the assumption under which no log_write() panics.
ASSUME SlackAssumption
============================================================================
