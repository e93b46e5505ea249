------------------------------ MODULE MCVirtio ------------------------------
(* Virtio for TLC.                                                         *)
EXTENDS Virtio, TLC

VirtioSymmetry == Permutations(Procs) \cup Permutations(Sectors) \cup Permutations(Vals)
=============================================================================
