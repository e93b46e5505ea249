-------------------------------- MODULE Tty ---------------------------------
(***************************************************************************)
(* What the console input promises: characters that still may be erased    *)
(* (line) and characters that the readers may have (queue), at most Size   *)
(* together.  A line is handed over as a whole: when it is ended, or when  *)
(* no more characters fit.                                                 *)
(***************************************************************************)
EXTENDS Naturals, Sequences, SequencesExt

CONSTANTS Chars, Enders, Size

VARIABLES queue, line

TInit == queue = << >> /\ line = << >>

Room == Size - Len(queue) - Len(line)

TType(c) ==
  /\ Room > 0
  /\ IF c \in Enders \/ Room = 1
       THEN queue' = queue \o Append(line, c) /\ line' = << >>
       ELSE line' = Append(line, c) /\ UNCHANGED queue

TErase ==
  /\ line # << >>
  /\ line' = Front(line)
  /\ UNCHANGED queue

TKillLine == line' = << >> /\ UNCHANGED queue

TTake ==
  /\ queue # << >>
  /\ queue' = Tail(queue)
  /\ UNCHANGED line

TNext == TKillLine \/ TErase \/ TTake \/ \E c \in Chars : TType(c)

TSpec == TInit /\ [][TNext]_<<queue, line>>
=============================================================================
