-------------------------------- MODULE Uart --------------------------------
(***************************************************************************)
(* kernel/uart.c: processes in uartputc(), which fill the transmit buffer  *)
(* and may sleep; the interrupt handler uartintr(), which takes the input  *)
(* and sends the output; CPUs that write the device without uart_tx_lock   *)
(* (the echo of consoleintr(), and printf()); and the 16550 itself.        *)
(*                                                                         *)
(* Characters are not told apart: used is uart_tx_w - uart_tx_r.  sleep()  *)
(* and wakeup() on &uart_tx_r are under uart_tx_lock and are atomic; the   *)
(* registers of the device are read and written in steps of their own.     *)
(***************************************************************************)
EXTENDS Naturals, FiniteSets

CONSTANTS
  Writers,            \* processes in consolewrite()
  Handler,            \* uartintr(); the PLIC lets one run at a time
  UART_TX_BUF_SIZE,
  DEPTH,              \* characters that fit in the device: 16
  None

Threads == Writers \cup {Handler}

VARIABLES
  used,       \* characters in uart_tx_buf
  txlock,     \* holder of uart_tx_lock
  fifo,       \* characters in the device
  thri,       \* the device asserts "transmit holding register empty"
  overrun,    \* a character was written to a full device and is lost
  upc,        \* thread -> what it does next
  echo,       \* characters that consoleintr() still has to echo
  printing    \* printf() has seen the device idle and writes it next

device == <<fifo, thri, overrun>>

UInit ==
  /\ used = 0 /\ txlock = None
  /\ fifo = 0 /\ thri \in BOOLEAN /\ overrun = FALSE
  /\ upc = [t \in Threads |-> "idle"]
  /\ echo = 0 /\ printing = FALSE

UGoto(t, l) == upc' = [upc EXCEPT ![t] = l]

-----------------------------------------------------------------------------
(* The device                                                              *)

\* LSR_TX_IDLE
Idle == fifo = 0

WriteTHR ==
  /\ fifo' = IF fifo < DEPTH THEN fifo + 1 ELSE fifo
  /\ overrun' = (overrun \/ fifo = DEPTH)
  /\ thri' = FALSE

\* A character goes out on the wire; the device interrupts after the last one.
Transmit ==
  /\ fifo > 0
  /\ fifo' = fifo - 1
  /\ thri' = (thri \/ fifo = 1)
  /\ UNCHANGED <<used, txlock, overrun, upc, echo, printing>>

-----------------------------------------------------------------------------
(* uartputc(), for each character of a consolewrite()                      *)

BufferFull == used = UART_TX_BUF_SIZE

\* acquire(&uart_tx_lock), on entry and at the end of sleep().
Uartputc(p) == upc[p] \in {"idle", "relock"} /\ txlock = None

\* The buffer is full: sleep() until uartstart() has opened up space.
UartputcSleep(p) ==
  /\ Uartputc(p) /\ BufferFull
  /\ UGoto(p, "asleep")
  /\ UNCHANGED <<used, txlock, device, echo, printing>>

\* Mutant: uartputc() leaves the sending to the interrupt handler.
UartputcPut_NoStart(p) ==
  /\ Uartputc(p) /\ ~BufferFull
  /\ used' = used + 1
  /\ UGoto(p, "idle")
  /\ UNCHANGED <<txlock, device, echo, printing>>

UartputcPut(p) ==
  /\ Uartputc(p) /\ ~BufferFull
  /\ used' = used + 1
  /\ txlock' = p
  /\ UGoto(p, "start")
  /\ UNCHANGED <<device, echo, printing>>

-----------------------------------------------------------------------------
(* uartstart(), by uartputc() and uartintr(), and then release()           *)

TxRelease(t) == txlock' = None /\ UGoto(t, "idle")

\* Nothing to send: reading ISR withdraws the interrupt, unless the device
\* reports one with a higher priority there.
StartEmpty(t) ==
  /\ upc[t] = "start" /\ used = 0
  /\ thri' \in {FALSE, thri}
  /\ TxRelease(t)
  /\ UNCHANGED <<used, fifo, overrun, echo, printing>>

StartBusy(t) ==
  /\ upc[t] = "start" /\ used > 0
  /\ ~Idle
  /\ TxRelease(t)
  /\ UNCHANGED <<used, device, echo, printing>>

\* wakeup(&uart_tx_r)
TxWakeup == [t \in Threads |-> IF upc[t] = "asleep" THEN "relock" ELSE upc[t]]

StartTake(t) ==
  /\ upc[t] = "start" /\ used > 0
  /\ Idle
  /\ used' = used - 1
  /\ upc' = [TxWakeup EXCEPT ![t] = "thr"]
  /\ UNCHANGED <<txlock, device, echo, printing>>

StartWrite(t) ==
  /\ upc[t] = "thr"
  /\ WriteTHR
  /\ UGoto(t, "start")
  /\ UNCHANGED <<used, txlock, echo, printing>>

-----------------------------------------------------------------------------
(* devintr() and uartintr().  The PLIC may still hold a request that the   *)
(* device has withdrawn, so the handler runs for no reason at times.       *)

\* plic_claim() has returned UART0_IRQ, or a character has been handled.
Uartintr == upc[Handler] \in {"idle", "getc"}

\* uartgetc() returns a character for consoleintr(), if one was typed.
Uartgetc ==
  /\ Uartintr
  /\ UGoto(Handler, "intr")
  /\ UNCHANGED <<used, txlock, device, echo, printing>>

\* Otherwise: acquire(&uart_tx_lock), for uartstart().
UartintrSend ==
  /\ Uartintr
  /\ txlock = None
  /\ txlock' = Handler
  /\ UGoto(Handler, "start")
  /\ UNCHANGED <<used, device, echo, printing>>

\* consoleintr() has k characters to echo.
Echo(k) ==
  /\ upc[Handler] = "intr"
  /\ echo' = k
  /\ UGoto(Handler, IF k = 0 THEN "getc" ELSE "echo")
  /\ UNCHANGED <<used, txlock, device, printing>>

\* Mutant: uartputc_sync() does not wait for the device.
EchoWait_Untested ==
  /\ upc[Handler] = "echo"
  /\ UGoto(Handler, "echo_thr")
  /\ UNCHANGED <<used, txlock, device, echo, printing>>

\* uartputc_sync(): LSR is tested, then THR is written, without a lock.
EchoWait ==
  /\ upc[Handler] = "echo" /\ Idle
  /\ UGoto(Handler, "echo_thr")
  /\ UNCHANGED <<used, txlock, device, echo, printing>>

EchoWrite ==
  /\ upc[Handler] = "echo_thr"
  /\ WriteTHR
  /\ echo' = echo - 1
  /\ UGoto(Handler, IF echo = 1 THEN "getc" ELSE "echo")
  /\ UNCHANGED <<used, txlock, printing>>

\* uartputc_sync(), for a character that printf() prints under pr.lock.
PrintWait ==
  /\ ~printing /\ Idle
  /\ printing' = TRUE
  /\ UNCHANGED <<used, txlock, device, upc, echo>>

PrintWrite ==
  /\ printing
  /\ WriteTHR
  /\ printing' = FALSE
  /\ UNCHANGED <<used, txlock, upc, echo>>

-----------------------------------------------------------------------------
Uartstart(t) == StartEmpty(t) \/ StartBusy(t) \/ StartTake(t) \/ StartWrite(t)

\* The steps of the kernel that leave the console alone.
UartStep ==
  \/ Transmit
  \/ \E t \in Threads : Uartstart(t)
  \/ Uartgetc \/ UartintrSend \/ EchoWait
  \/ PrintWait \/ PrintWrite
=============================================================================
