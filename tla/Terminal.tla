------------------------------ MODULE Terminal ------------------------------
(***************************************************************************)
(* The console of modules Console and Uart: uartintr() hands the typed     *)
(* characters to consoleintr(), which keeps cons.lock while it echoes      *)
(* them, without uart_tx_lock, among the output of write() and printf().   *)
(***************************************************************************)
EXTENDS Console

CONSTANTS Writers, UART_TX_BUF_SIZE, DEPTH

\* Three writers of THR at a time: the holder of uart_tx_lock, consoleintr()
\* and the holder of pr.lock.
ASSUME TerminalAssumption ==
  /\ UART_TX_BUF_SIZE \in Nat \ {0}
  /\ DEPTH \in Nat /\ DEPTH >= 3
  /\ (Readers \cup {Handler, None}) \cap Writers = {}

VARIABLES used, txlock, fifo, thri, overrun, upc, echo, printing

U == INSTANCE Uart

uart == <<used, txlock, fifo, thri, overrun, upc, echo, printing>>
vars == <<console, uart>>

Init == CInit /\ U!UInit

\* consputc(BACKSPACE) sends three characters.
BACKSPACE == 3

\* consoleintr(c); ^P prints the process list, with at least one character.
Consoleintr ==
  \/ \E c \in Chars : Type(c) /\ U!Echo(1)
  \/ Backspace /\ U!Echo(BACKSPACE)
  \/ \E k \in 1..INPUT_BUF_SIZE : KillLine(k) /\ U!Echo(k * BACKSPACE)
  \/ Intr /\ UNCHANGED <<cons, pc>> /\ U!Echo(1)
  \/ Ignore /\ U!Echo(0)

\* The last character is echoed: release(&cons.lock).
Echoed ==
  /\ U!EchoWrite
  /\ IF echo = 1 THEN IntrDone ELSE UNCHANGED console

\* consolewrite(): one uartputc() after the other.
Consolewrite(p) ==
  /\ U!UartputcSleep(p) \/ U!UartputcPut(p)
  /\ UNCHANGED console

Next ==
  \/ \E p \in Writers : Consolewrite(p)
  \/ ConsoleStep /\ UNCHANGED uart
  \/ U!UartStep /\ UNCHANGED console
  \/ Consoleintr
  \/ Echoed

Spec == Init /\ [][Next]_vars

-----------------------------------------------------------------------------
\* The buffers hold at most what they have room for, and each lock is held by
\* the thread that is between acquire() and release().
TypeOK ==
  /\ used \in 0..UART_TX_BUF_SIZE
  /\ fifo \in 0..DEPTH /\ thri \in BOOLEAN
  /\ echo \in 0..(INPUT_BUF_SIZE * BACKSPACE) /\ printing \in BOOLEAN
  /\ \A t \in U!Threads : txlock = t <=> upc[t] \in {"start", "thr"}
  /\ lock = Handler <=> upc[Handler] \in {"echo", "echo_thr"}

\* No character is lost in the device: uartputc_sync() writes THR without
\* uart_tx_lock, and others may write it between its test of LSR and its
\* write, but never more than the device takes.
NoOverrun == TypeOK /\ ~overrun

\* uartstart() returns with characters left only if an interrupt is still to
\* come: the echo and printf(), which withdraw the interrupt by writing THR,
\* and the ISR read never leave buffered output with nobody to send it, and a
\* process that sleeps on &uart_tx_r sleeps on a full buffer.
OutputNotStuck ==
  /\ used > 0 => txlock # None \/ fifo > 0 \/ thri \/ printing \/ upc[Handler] # "idle"
  /\ (\E p \in Writers : upc[p] = "asleep") => U!BufferFull
=============================================================================
