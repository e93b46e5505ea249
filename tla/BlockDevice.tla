---------------------------- MODULE BlockDevice ----------------------------
(***************************************************************************)
(* What virtio_disk_rw() promises to the buffer cache: a call transfers    *)
(* its own buffer to or from its own block exactly once, at some moment    *)
(* between the call and its return.                                        *)
(***************************************************************************)
CONSTANTS Procs, Sectors, Vals, None

VARIABLES
  blocks,  \* contents of the disk
  buf,     \* process -> contents of the buffer it has locked
  req      \* process -> its request: what it asked for, and whether it is done

bvars == <<blocks, buf, req>>

BInit ==
  /\ blocks \in [Sectors -> Vals]
  /\ buf \in [Procs -> Vals]
  /\ req = [p \in Procs |-> None]

\* The caller has put v into the buffer before it calls.
BCall(p, w, s, v) ==
  /\ req[p] = None
  /\ req' = [req EXCEPT ![p] = [write |-> w, sector |-> s, done |-> FALSE]]
  /\ buf' = [buf EXCEPT ![p] = v]
  /\ UNCHANGED blocks

BTransfer(p) ==
  /\ req[p] # None /\ ~req[p].done
  /\ IF req[p].write
     THEN blocks' = [blocks EXCEPT ![req[p].sector] = buf[p]] /\ UNCHANGED buf
     ELSE buf' = [buf EXCEPT ![p] = blocks[req[p].sector]] /\ UNCHANGED blocks
  /\ req' = [req EXCEPT ![p].done = TRUE]

BReturn(p) ==
  /\ req[p] # None /\ req[p].done
  /\ req' = [req EXCEPT ![p] = None]
  /\ UNCHANGED <<blocks, buf>>

BNext ==
  \E p \in Procs :
    \/ \E w \in BOOLEAN, s \in Sectors, v \in Vals : BCall(p, w, s, v)
    \/ BTransfer(p)
    \/ BReturn(p)

BSpec == BInit /\ [][BNext]_bvars
=============================================================================
