----------------------------- MODULE StableDisk -----------------------------
(***************************************************************************)
(* What kernel/log.c promises to the file system: a disk on which groups   *)
(* of system calls become durable all at once or not at all.               *)
(*                                                                         *)
(* vol is what the running kernel reads, stable what a reboot would find,  *)
(* active the system calls between begin_op() and end_op().                *)
(***************************************************************************)
CONSTANTS
  Procs,   \* processes that run file-system system calls
  Blocks,  \* block numbers outside the log area
  Vals     \* contents of a block

VARIABLES vol, stable, active

svars == <<vol, stable, active>>

SInit ==
  /\ vol \in [Blocks -> Vals]
  /\ stable = vol
  /\ active = {}

SBegin(p) ==
  /\ p \notin active
  /\ active' = active \cup {p}
  /\ UNCHANGED <<vol, stable>>

SWrite(p, b, v) ==
  /\ p \in active
  /\ vol' = [vol EXCEPT ![b] = v]
  /\ UNCHANGED <<stable, active>>

SEnd(p) ==
  /\ p \in active
  /\ active' = active \ {p}
  /\ UNCHANGED <<vol, stable>>

\* No system call is in progress, so none of them is split by the commit.
SCommit ==
  /\ active = {}
  /\ stable' = vol
  /\ UNCHANGED <<vol, active>>

SCrash ==
  /\ vol' = stable
  /\ active' = {}
  /\ UNCHANGED stable

SNext ==
  \/ \E p \in Procs : SBegin(p) \/ SEnd(p)
  \/ \E p \in Procs, b \in Blocks, v \in Vals : SWrite(p, b, v)
  \/ SCommit
  \/ SCrash

SSpec == SInit /\ [][SNext]_svars
=============================================================================
