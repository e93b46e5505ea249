-------------------------------- MODULE Fifo --------------------------------
(***************************************************************************)
(* What a pipe promises: a bounded queue of bytes.  Bytes come out once,   *)
(* in the order in which they went in.  out is what the latest read() call *)
(* has delivered to its user.                                              *)
(***************************************************************************)
EXTENDS Naturals, Sequences

CONSTANTS Vals, Capacity

VARIABLES q, out

FInit == q = << >> /\ out = << >>

FPut(v) ==
  /\ Len(q) < Capacity
  /\ q' = Append(q, v)
  /\ UNCHANGED out

\* A read delivers a prefix; when the user's buffer is bad, one byte is lost.
FGet(n, lost) ==
  /\ n + lost <= Len(q)
  /\ out' = SubSeq(q, 1, n)
  /\ q' = SubSeq(q, n + lost + 1, Len(q))

FNext ==
  \/ \E v \in Vals : FPut(v)
  \/ \E n \in 0..Capacity, lost \in 0..1 : FGet(n, lost)

FSpec == FInit /\ [][FNext]_<<q, out>>
=============================================================================
