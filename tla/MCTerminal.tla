----------------------------- MODULE MCTerminal -----------------------------
(* Terminal for TLC.                                                       *)
EXTENDS Terminal, TLC

\* What is left in the buffer outside cons.r and cons.e is not read; of target
\* only whether a reader that goes on has got anything; and a writer that was
\* woken in uartputc() does what one that calls it does.
TerminalView ==
  <<[i \in 0..(Minus(e, r) - 1) |-> At(Plus(r, i))], r, w, e, lock, killed, pc, n,
    [p \in Readers |-> 0 < n[p] /\ n[p] < target[p]],
    [t \in U!Threads |-> IF upc[t] = "relock" THEN "idle" ELSE upc[t]],
    used, txlock, fifo, thri, overrun, echo, printing>>

TerminalSymmetry == Permutations(Readers)
=============================================================================
