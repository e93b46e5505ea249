------------------------------ MODULE MCBcache ------------------------------
(* Bcache for TLC.                                                         *)
EXTENDS Bcache, TLC

BcacheSymmetry == Permutations(Procs) \cup Permutations(Blocks) \cup Permutations(Vals)
=============================================================================
