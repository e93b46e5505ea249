------------------------------ MODULE Console -------------------------------
(***************************************************************************)
(* kernel/console.c: the input half of the console.  The interrupt handler *)
(* edits the line that is being typed and hands whole lines to the         *)
(* processes in consoleread(); module Terminal adds the echo and the uart. *)
(*                                                                         *)
(* cons.lock is explicit because kill() does not take it.  sleep() and     *)
(* wakeup() on &cons.r are called under cons.lock and are atomic, as in    *)
(* Pipe.                                                                   *)
(***************************************************************************)
EXTENDS Naturals, Sequences

CONSTANTS
  Readers,         \* processes that read the console
  Handler,         \* consoleintr()
  Plain,           \* characters with no meaning of their own
  INPUT_BUF_SIZE,
  UINT,            \* number of values of a uint: 2^32 in the code
  MaxN,            \* bound: most bytes one read() asks for
  None

Newline == "nl"
CtrlD == "eot"
Chars == Plain \cup {Newline, CtrlD}

ASSUME ConsoleAssumption ==
  /\ INPUT_BUF_SIZE \in Nat \ {0}
  /\ UINT \in Nat /\ UINT % INPUT_BUF_SIZE = 0 /\ UINT > INPUT_BUF_SIZE
  /\ None \notin Readers /\ Handler \notin Readers \cup {None}

VARIABLES
  buf, r, w, e,      \* struct cons
  lock,              \* holder of cons.lock
  killed,
  pc, n, target      \* reader -> what it does next, bytes left, bytes asked for

cons == <<buf, r, w, e>>
console == <<cons, lock, killed, pc, n, target>>

CInit ==
  /\ buf = [i \in 0..(INPUT_BUF_SIZE - 1) |-> None]
  /\ r = 0 /\ w = 0 /\ e = 0
  /\ lock = None
  /\ killed = [p \in Readers |-> FALSE]
  /\ pc = [p \in Readers |-> "idle"]
  /\ n = [p \in Readers |-> 0]
  /\ target = [p \in Readers |-> 0]

Goto(p, l) == pc' = [pc EXCEPT ![p] = l]

Minus(a, b) == (a + UINT - b) % UINT
Plus(a, b) == (a + b) % UINT
At(i) == buf[i % INPUT_BUF_SIZE]

-----------------------------------------------------------------------------
(* consoleread()                                                           *)

\* acquire(&cons.lock), on entry and at the end of sleep().
Read(p, k) ==
  /\ pc[p] = "idle"
  /\ lock = None /\ lock' = p
  /\ Goto(p, "loop")
  /\ n' = [n EXCEPT ![p] = k]
  /\ target' = [target EXCEPT ![p] = k]
  /\ UNCHANGED <<cons, killed>>

Relock(p) ==
  /\ pc[p] = "relock"
  /\ lock = None /\ lock' = p
  /\ Goto(p, "loop")
  /\ UNCHANGED <<cons, killed, n, target>>

\* release(&cons.lock) and return.  A killed process then exits, and another
\* may take its place.
Return(p) ==
  /\ lock' = None
  /\ killed' = [killed EXCEPT ![p] = FALSE]
  /\ Goto(p, "idle")
  /\ n' = [n EXCEPT ![p] = 0]
  /\ target' = [target EXCEPT ![p] = 0]

\* Nothing to read: a killed process gives up, another goes on to sleep().
Empty(p) ==
  /\ pc[p] = "loop" /\ n[p] > 0
  /\ r = w
  /\ IF killed[p] THEN Return(p) ELSE Goto(p, "sleep") /\ UNCHANGED <<lock, killed, n, target>>
  /\ UNCHANGED cons

Sleep(p) ==
  /\ pc[p] = "sleep"
  /\ lock' = None
  /\ Goto(p, "asleep")
  /\ UNCHANGED <<cons, killed, n, target>>

\* One character; either_copyout() succeeds if copied.
Take(p, copied) ==
  LET c == At(r)
      again == c = CtrlD /\ n[p] < target[p] IN
  /\ pc[p] = "loop" /\ n[p] > 0
  /\ r # w
  /\ r' = IF again THEN r ELSE Plus(r, 1)
  /\ IF c \in {CtrlD, Newline} \/ ~copied
       THEN Return(p)
       ELSE n' = [n EXCEPT ![p] = @ - 1] /\ UNCHANGED <<lock, killed, pc, target>>
  /\ UNCHANGED <<buf, w, e>>

\* All n bytes have been read.
Done(p) ==
  /\ pc[p] = "loop" /\ n[p] = 0
  /\ Return(p)
  /\ UNCHANGED cons

-----------------------------------------------------------------------------
(* consoleintr()                                                           *)

\* acquire(&cons.lock), which the handler keeps while it echoes; all that it
\* does to cons is done here.
Intr ==
  /\ lock = None /\ lock' = Handler
  /\ UNCHANGED <<killed, n, target>>

IntrDone ==
  /\ lock = Handler /\ lock' = None
  /\ UNCHANGED <<cons, killed, pc, n, target>>

Wakeup == pc' = [p \in Readers |-> IF pc[p] = "asleep" THEN "relock" ELSE pc[p]]

\* Mutant: a full buffer does not end the line.
Commits_NotWhenFull(c) == c \in {Newline, CtrlD}

\* The line is handed over when it ends, or when the buffer is full.
Commits(c) == c \in {Newline, CtrlD} \/ Minus(Plus(e, 1), r) = INPUT_BUF_SIZE

Type(c) ==
  /\ Intr
  /\ Minus(e, r) < INPUT_BUF_SIZE
  /\ buf' = [buf EXCEPT ![e % INPUT_BUF_SIZE] = c]
  /\ e' = Plus(e, 1)
  /\ IF Commits(c) THEN w' = e' /\ Wakeup ELSE UNCHANGED <<w, pc>>
  /\ UNCHANGED r

\* Mutant: erasing stops at cons.r, not at cons.w.
Backspace_ToRead ==
  /\ Intr
  /\ e # r
  /\ e' = Minus(e, 1)
  /\ UNCHANGED <<buf, r, w, pc>>

Backspace ==
  /\ Intr
  /\ e # w
  /\ e' = Minus(e, 1)
  /\ UNCHANGED <<buf, r, w, pc>>

\* ^U erases k characters: cons.e goes back to the newest of cons.w and the
\* place after a newline.
KillLine(k) ==
  LET Stop(j) == Minus(e, j) = w \/ At(Minus(e, j + 1)) = Newline
  IN /\ Intr
     /\ Stop(k) /\ \A j \in 0..(k - 1) : ~Stop(j)
     /\ e' = Minus(e, k)
     /\ UNCHANGED <<buf, r, w, pc>>

\* A character that consoleintr() drops: the buffer is full, there is nothing
\* to erase, or it is 0.
Ignore == lock = None /\ UNCHANGED console

\* kill() from another process: it wakes a sleeping reader.  Bound: one killed
\* reader at a time.
Kill(p) ==
  /\ pc[p] # "idle" /\ \A q \in Readers : ~killed[q]
  /\ killed' = [killed EXCEPT ![p] = TRUE]
  /\ IF pc[p] = "asleep" THEN Goto(p, "relock") ELSE UNCHANGED pc
  /\ UNCHANGED <<cons, lock, n, target>>

-----------------------------------------------------------------------------
Reading(p) ==
  \/ Relock(p)
  \/ Empty(p)
  \/ Sleep(p)
  \/ \E copied \in BOOLEAN : Take(p, copied)
  \/ Done(p)

ConsoleStep ==
  \E p \in Readers : Reading(p) \/ Kill(p) \/ \E k \in 0..MaxN : Read(p, k)

-----------------------------------------------------------------------------
\* The indices are uints, the holder of cons.lock is the reader between
\* acquire() and release().
ConsoleTypeOK ==
  /\ buf \in [0..(INPUT_BUF_SIZE - 1) -> Chars \cup {None}]
  /\ {r, w, e} \subseteq 0..(UINT - 1)
  /\ killed \in [Readers -> BOOLEAN]
  /\ pc \in [Readers -> {"idle", "relock", "loop", "sleep", "asleep"}]
  /\ n \in [Readers -> 0..MaxN] /\ target \in [Readers -> 0..MaxN]
  /\ \A p \in Readers : lock = p <=> pc[p] \in {"loop", "sleep"}
  /\ lock \in Readers \cup {Handler, None}

\* consoleread() sleeps on &cons.r only while nothing has been handed over: no
\* order of typing, reading by others and sleeping loses a wakeup.  And a full
\* buffer has no line in editing: since consoleintr() drops what is typed into
\* a full buffer, newline included, a reader must be able to empty it, whatever
\* was typed, erased and read before.
InputIsReadable ==
  /\ ConsoleTypeOK
  /\ (\E p \in Readers : pc[p] \in {"sleep", "asleep"}) => r = w
  /\ Minus(e, r) = INPUT_BUF_SIZE => w = e

\* The characters from cons.r to cons.w and from there to cons.e, in the ring.
Ring(a, b) == [i \in 1..Minus(b, a) |-> At(Plus(a, i - 1))]

Editor == INSTANCE Tty WITH
  Enders <- {Newline, CtrlD}, Size <- INPUT_BUF_SIZE,
  queue <- Ring(r, w), line <- Ring(w, e)

\* The ring buffer and its three wrapping indices implement the line editor
\* of Tty: erasing never reaches a line that was handed over, ^U erases just
\* the line, no character is read twice, skipped or out of order, and the ^D
\* that consoleread() puts back is still the next character.
EditsLines == Editor!TSpec

=============================================================================
