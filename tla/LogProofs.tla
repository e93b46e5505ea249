----------------------------- MODULE LogProofs -----------------------------
(***************************************************************************)
(* The log for any number of processes, blocks and contents, any size of   *)
(* the log, and crashes at any moment: the reservation of begin_op()       *)
(* suffices, nobody sleeps without a waker, and what was committed is      *)
(* durable.  At the end the refinement: log.c implements StableDisk.       *)
(*                                                                         *)
(* The inductive invariant has four parts: where the committing or the     *)
(* recovering thread is and what log.lh and the header block are there;    *)
(* the space that the calls in progress have reserved and not used; the    *)
(* pins; and where the current and the committed contents of a block are.  *)
(***************************************************************************)
EXTENDS Log, FiniteSetTheorems, TLAPS

Distinct(s) == \A i, j \in 1..Len(s) : s[i] = s[j] => i = j

\* The calls between begin_op() and end_op().
OpsOf(f) == {p \in Procs : f[p] = "op"}
Ops == OpsOf(pc)

\* One element for each block that was reserved and may still be written.
SpareOf(f, w) == {r \in Procs \X (1..MAXOPBLOCKS) :
                    f[r[1]] = "op" /\ r[2] > Cardinality(w[r[1]])}
Spare == SpareOf(pc, written)

Committing == {"write_log", "write_head", "install", "erase", "committed"}

ControlInv ==
  /\ outstanding = Cardinality(Ops)
  /\ committing <=> phase \in Committing
  /\ phase # "run" => Ops = {}
  /\ Recovering => \A p \in Procs : pc[p] = "idle"
  /\ phase \in {"read_head", "committed"} \/ (phase = "run" /\ Ops = {}) => lh = << >>
  /\ phase \in {"run", "write_log", "write_head", "committed"} => hdr = << >>
  /\ phase \in {"install", "erase", "reinstall", "reerase"} => hdr = lh
  /\ phase \in {"reinstall", "write_log", "install"} => tail <= Len(lh)
  /\ phase = "write_head" => Len(lh) > 0

SpaceInv ==
  /\ Len(lh) <= NLog - 1 /\ Len(hdr) <= NLog - 1
  /\ Distinct(lh) /\ Distinct(hdr)
  /\ \A p \in Procs :
       /\ IsFiniteSet(written[p]) /\ Cardinality(written[p]) <= OpBlocks
       /\ pc[p] # "op" => written[p] = {}
       /\ \A b \in written[p] : InLog(b)
  /\ phase = "run" => Len(lh) + Cardinality(Spare) <= LOGSIZE

PinInv == \A b \in Blocks : pin[b] = IF NotInstalled(b) THEN 1 ELSE 0

DataInv ==
  /\ \A b \in Blocks : IF NotInstalled(b) THEN cache[b] # NoBuf ELSE cache[b] \in {NoBuf, home[b]}
  /\ \A i \in 1..Len(lh) :
       /\ \/ phase = "write_log" /\ i < tail
          \/ phase = "write_head"
          \/ phase = "install" /\ i >= tail
          => logd[i] = cache[lh[i]]
       /\ \/ phase \in {"install", "reinstall"} /\ i < tail
          \/ phase \in {"erase", "reerase"}
          => home[lh[i]] = logd[i]

Inv ==
  /\ TypeOK /\ ~panicked
  /\ ControlInv /\ SpaceInv /\ PinInv /\ DataInv
  /\ SleepersHaveWaker

-----------------------------------------------------------------------------
(* The reserved space.                                                     *)

\* The calls in progress and what they may still write are finite sets, and
\* each call has at most what begin_op() counts for it.
LEMMA CallsBounded ==
  ASSUME NEW f, NEW w
  PROVE  /\ IsFiniteSet(OpsOf(f)) /\ Cardinality(OpsOf(f)) \in Nat
         /\ IsFiniteSet(SpareOf(f, w)) /\ Cardinality(SpareOf(f, w)) \in Nat
         /\ Cardinality(SpareOf(f, w)) <= Cardinality(OpsOf(f)) * MAXOPBLOCKS
<1>1. IsFiniteSet(OpsOf(f)) /\ Cardinality(OpsOf(f)) \in Nat
  <2>1. OpsOf(f) \in SUBSET Procs
    BY Zenon DEF OpsOf
  <2> QED
    BY <2>1, FS_Subset, FS_CardinalityType, LogAssumption, Zenon DEF LogAssumption
<1>2. /\ IsFiniteSet(1..MAXOPBLOCKS) /\ Cardinality(1..MAXOPBLOCKS) = MAXOPBLOCKS
  BY FS_Interval, LogAssumption DEF LogAssumption
<1>3. /\ IsFiniteSet(OpsOf(f) \X (1..MAXOPBLOCKS))
      /\ Cardinality(OpsOf(f) \X (1..MAXOPBLOCKS)) = Cardinality(OpsOf(f)) * MAXOPBLOCKS
  BY <1>1, <1>2, FS_Product, Zenon
<1>4. SpareOf(f, w) \in SUBSET (OpsOf(f) \X (1..MAXOPBLOCKS))
  BY Zenon DEF SpareOf, OpsOf
<1> QED
  BY <1>1, <1>3, <1>4, FS_Subset, FS_CardinalityType, Zenon

\* The same for the calls of a state.
LEMMA SpareBounded ==
  /\ IsFiniteSet(Ops) /\ Cardinality(Ops) \in Nat
  /\ IsFiniteSet(Spare) /\ Cardinality(Spare) \in Nat
BY CallsBounded, Zenon DEF Ops, Spare

\* While a call is in progress, what no call ever uses is still reserved.
LEMMA SlackIsSpare ==
  ASSUME TypeOK, SpaceInv, NEW p \in Procs, pc[p] = "op"
  PROVE  Cardinality(Spare) >= MAXOPBLOCKS - OpBlocks
<1> DEFINE R == (OpBlocks + 1)..MAXOPBLOCKS
           S == {p} \X R
<1>1. OpBlocks \in Nat /\ MAXOPBLOCKS \in Nat /\ OpBlocks <= MAXOPBLOCKS
  BY LogAssumption DEF LogAssumption
<1>2. IsFiniteSet(R) /\ Cardinality(R) = MAXOPBLOCKS - OpBlocks
  <2>1. OpBlocks + 1 \in Int /\ MAXOPBLOCKS \in Int
    BY <1>1
  <2>2. /\ IsFiniteSet(R)
        /\ Cardinality(R) = IF OpBlocks + 1 > MAXOPBLOCKS THEN 0
                                                         ELSE MAXOPBLOCKS - (OpBlocks + 1) + 1
    BY <2>1, FS_Interval, Zenon
  <2> QED
    BY <1>1, <2>2
<1>3. IsFiniteSet({p}) /\ Cardinality({p}) = 1
  BY FS_Singleton, Zenon
<1>4. Cardinality(S) = MAXOPBLOCKS - OpBlocks
  <2> HIDE DEF R
  <2>1. Cardinality(S) = Cardinality({p}) * Cardinality(R)
    BY <1>2, <1>3, FS_Product, Zenon
  <2> QED
    BY <1>1, <1>2, <1>3, <2>1
<1>5. S \in SUBSET Spare
  <2>1. Cardinality(written[p]) \in Nat /\ Cardinality(written[p]) <= OpBlocks
    BY FS_CardinalityType, Zenon DEF SpaceInv
  <2>2. \A k \in (OpBlocks + 1)..MAXOPBLOCKS : k \in 1..MAXOPBLOCKS /\ k > Cardinality(written[p])
    BY <1>1, <2>1
  <2> QED
    BY <2>2, Zenon DEF Spare, SpareOf
<1>6. Cardinality(S) <= Cardinality(Spare)
  BY <1>5, SpareBounded, FS_Subset, Zenon
<1> QED
  BY <1>1, <1>4, <1>6, SpareBounded, Zenon

\* So log_write() finds room in log.lh and on the disk.
LEMMA RoomForWrite ==
  ASSUME SlackAssumption, Inv, NEW p \in Procs, pc[p] = "op"
  PROVE  /\ Len(lh) \in Nat /\ Len(lh) < LOGSIZE /\ Len(lh) < NLog - 1
         /\ outstanding >= 1 /\ phase = "run" /\ ~committing
<1>1. phase = "run" /\ ~committing
  BY Zenon DEF Inv, ControlInv, Ops, OpsOf, Committing, TypeOK
<1>2. outstanding >= 1
  <2>1. Ops # {} /\ outstanding = Cardinality(Ops)
    BY Zenon DEF Ops, OpsOf, Inv, ControlInv
  <2> QED
    BY <2>1, SpareBounded, FS_EmptySet DEF Inv
<1>3. Len(lh) + Cardinality(Spare) <= LOGSIZE
  BY <1>1, Zenon DEF Inv, SpaceInv
<1>4. Cardinality(Spare) >= MAXOPBLOCKS - OpBlocks /\ Cardinality(Spare) \in Nat
  BY SlackIsSpare, SpareBounded, Zenon DEF Inv
<1>5. Len(lh) \in Nat
  BY DEF Inv, TypeOK
<1>6. /\ OpBlocks \in Nat /\ MAXOPBLOCKS \in Nat /\ LOGSIZE \in Nat /\ NLog \in Nat
      /\ OpBlocks < MAXOPBLOCKS /\ LOGSIZE - (MAXOPBLOCKS - OpBlocks) < NLog - 1
  BY LogAssumption DEF LogAssumption, SlackAssumption
<1> QED
  BY <1>1, <1>2, <1>3, <1>4, <1>5, <1>6

-----------------------------------------------------------------------------
(* Every step keeps the invariant.                                         *)

\* A fresh disk and a machine before initlog() satisfy the invariant.
LEMMA InitInv ==
  ASSUME Init
  PROVE  Inv
<1>1. TypeOK /\ ~panicked
  <2>1. hdr \in Seq(Blocks) /\ lh \in Seq(Blocks)
    BY DEF Init
  <2>2. /\ cache \in [Blocks -> Vals \cup {NoBuf}] /\ pin \in [Blocks -> Nat]
        /\ pc \in [Procs -> {"idle", "begin", "asleep", "op", "commit"}]
        /\ written \in [Procs -> SUBSET Blocks]
    BY Zenon DEF Init
  <2>3. /\ home \in [Blocks -> Vals] /\ logd \in [Slots -> Vals]
        /\ outstanding = 0 /\ phase = "read_head" /\ tail = 1
    BY Zenon DEF Init
  <2>4. committing \in BOOLEAN /\ panicked \in BOOLEAN /\ ~panicked
    BY Zenon DEF Init
  <2> QED
    BY <2>1, <2>2, <2>3, <2>4 DEF TypeOK
<1>2. Ops = {} /\ Cardinality(Ops) = 0
  BY FS_EmptySet, Zenon DEF Init, Ops, OpsOf
<1>3. ControlInv
  BY <1>2, Zenon DEF Init, ControlInv, Committing, Recovering
<1>4. SpaceInv
  <2>1. NLog \in Nat \ {0} /\ OpBlocks \in Nat
    BY LogAssumption DEF LogAssumption
  <2>2. \A p \in Procs : written[p] = {}
    BY Zenon DEF Init
  <2>3. IsFiniteSet({}) /\ Cardinality({}) = 0
    BY FS_EmptySet, Zenon
  <2>4. phase # "run"
    BY Zenon DEF Init
  <2>5. Len(lh) = 0 /\ Len(hdr) = 0
    BY Zenon DEF Init
  <2>6. Distinct(lh) /\ Distinct(hdr)
    BY <2>5 DEF Distinct
  <2>7. \A p \in Procs : IsFiniteSet(written[p]) /\ Cardinality(written[p]) <= OpBlocks
    BY <2>1, <2>2, <2>3
  <2> QED
    BY <2>1, <2>2, <2>4, <2>5, <2>6, <2>7 DEF SpaceInv
<1>5. \A b \in Blocks : ~NotInstalled(b)
  BY DEF Init, NotInstalled
<1>6. PinInv /\ DataInv
  BY <1>5, Zenon DEF Init, PinInv, DataInv
<1>7. SleepersHaveWaker
  BY Zenon DEF Init, SleepersHaveWaker
<1> QED
  BY <1>1, <1>3, <1>4, <1>6, <1>7, Zenon DEF Inv

\* A step that leaves pc and written alone leaves the calls in progress and
\* their reserved space alone.
LEMMA CallFrame ==
  ASSUME UNCHANGED <<pc, written>>
  PROVE  Ops' = Ops /\ Spare' = Spare
BY Zenon DEF Ops, OpsOf, Spare, SpareOf

\* read_head(): log.lh becomes the header block.
LEMMA ReadHeadInv ==
  ASSUME Inv, ReadHead
  PROVE  Inv'
<1>1. TypeOK' /\ ~panicked'
  BY DEF Inv, TypeOK, ReadHead, disk
<1>2. ControlInv'
  <2>1. Len(lh') \in Nat /\ (hdr # << >> => 1 <= Len(lh'))
    BY DEF Inv, TypeOK, ReadHead
  <2> QED
    BY <2>1, CallFrame, Zenon DEF Inv, ControlInv, ReadHead, disk, Recovering, Committing
<1>3. SpaceInv'
  BY CallFrame DEF Inv, ControlInv, SpaceInv, ReadHead, disk, Recovering, Distinct, InLog
<1>4. \A b \in Blocks : ~NotInstalled(b) /\ ~NotInstalled(b)'
  BY Zenon DEF ReadHead, NotInstalled, Recovering
<1>5. PinInv' /\ DataInv'
  BY <1>4 DEF Inv, PinInv, DataInv, ReadHead, disk, TypeOK
<1>6. SleepersHaveWaker'
  BY Zenon DEF Inv, SleepersHaveWaker, ReadHead
<1> QED
  BY <1>1, <1>2, <1>3, <1>5, <1>6, Zenon DEF Inv

\* install_trans(1): one more block of the header is at its home.
LEMMA ReinstallInv ==
  ASSUME Inv, Reinstall
  PROVE  Inv'
<1>1. /\ tail \in 1..Len(lh) /\ lh[tail] \in Blocks /\ tail \in Slots /\ logd[tail] \in Vals
      /\ Len(lh) \in Nat
  BY LogAssumption DEF Inv, TypeOK, Reinstall, ControlInv, SpaceInv, Slots, LogAssumption
<1>2. TypeOK' /\ ~panicked'
  BY <1>1 DEF Inv, TypeOK, Reinstall
<1>3. ControlInv'
  <2>1. /\ phase' \in {"reinstall", "reerase"} /\ phase = "reinstall"
        /\ phase' = "reinstall" => tail' <= Len(lh')
    BY <1>1 DEF Reinstall
  <2>2. Ops' = Ops
    BY CallFrame, Zenon DEF Reinstall
  <2> QED
    BY <2>1, <2>2, Zenon DEF Inv, ControlInv, Reinstall, Recovering, Committing
<1>4. SpaceInv'
  BY CallFrame, Zenon DEF Inv, SpaceInv, Reinstall, Distinct, InLog
<1>5. \A b \in Blocks : ~NotInstalled(b) /\ ~NotInstalled(b)'
  BY Zenon DEF Reinstall, NotInstalled, Recovering
<1>6. PinInv'
  BY <1>5, Zenon DEF Inv, PinInv, Reinstall
<1>7. DataInv'
  <2>1. \A b \in Blocks : cache'[b] \in {NoBuf, home'[b]}
    BY <1>1, <1>5, Zenon DEF Inv, TypeOK, DataInv, Reinstall
  <2>2. ASSUME NEW i \in 1..Len(lh), i <= tail
        PROVE  home'[lh[i]] = logd[i]
    <3>1. lh[i] \in Blocks /\ (i # tail => lh[i] # lh[tail] /\ i < tail)
      BY <1>1, <2>2 DEF Inv, TypeOK, SpaceInv, Distinct
    <3>2. i < tail => home[lh[i]] = logd[i]
      BY Zenon DEF Inv, DataInv, Reinstall
    <3> QED
      BY <1>1, <3>1, <3>2, Zenon DEF Inv, TypeOK, Reinstall
  <2> QED
    BY <1>1, <1>5, <2>1, <2>2 DEF DataInv, Reinstall
<1>8. SleepersHaveWaker'
  BY Zenon DEF Inv, SleepersHaveWaker, Reinstall
<1> QED
  BY <1>2, <1>3, <1>4, <1>6, <1>7, <1>8, Zenon DEF Inv

\* Without calls in progress nothing is reserved.
LEMMA NoCallNoSpare ==
  ASSUME Ops = {}
  PROVE  Cardinality(Spare) = 0
<1>1. Spare = {}
  BY Zenon DEF Ops, OpsOf, Spare, SpareOf
<1> QED
  BY <1>1, FS_EmptySet, Zenon

\* The header is erased once every block of it is at its home.
LEMMA ReeraseInv ==
  ASSUME Inv, Reerase
  PROVE  Inv'
<1>1. TypeOK' /\ ~panicked'
  <2>1. lh' \in Seq(Blocks) /\ hdr' \in Seq(Blocks)
    BY DEF Reerase
  <2> QED
    BY <2>1 DEF Inv, TypeOK, Reerase
<1>2. Ops' = Ops /\ Ops = {} /\ Cardinality(Spare') = 0
  BY CallFrame, NoCallNoSpare, Zenon DEF Inv, ControlInv, Reerase
<1>3. ControlInv'
  BY <1>2, Zenon DEF Inv, ControlInv, Reerase, Recovering, Committing
<1>4. SpaceInv'
  <2>1. Len(lh') = 0 /\ Len(hdr') = 0
    BY Zenon DEF Reerase
  <2>2. Distinct(lh)' /\ Distinct(hdr)'
    BY <2>1 DEF Distinct
  <2>3. \A p \in Procs : written[p] = {}
    BY <1>2, Zenon DEF Ops, OpsOf, Inv, SpaceInv
  <2>4. NLog \in Nat \ {0} /\ LOGSIZE \in Nat
    BY LogAssumption, Zenon DEF LogAssumption
  <2>5. written' = written /\ pc' = pc
    BY Zenon DEF Reerase
  <2> QED
    BY <1>2, <2>1, <2>2, <2>3, <2>4, <2>5 DEF Inv, SpaceInv
<1>5. \A b \in Blocks : ~NotInstalled(b) /\ ~NotInstalled(b)'
  BY DEF Reerase, NotInstalled, Recovering
<1>6. PinInv' /\ DataInv'
  BY <1>5, Zenon DEF Inv, PinInv, DataInv, Reerase
<1>7. SleepersHaveWaker'
  BY Zenon DEF Inv, SleepersHaveWaker, Reerase
<1> QED
  BY <1>1, <1>3, <1>4, <1>6, <1>7, Zenon DEF Inv

\* A call on its way to begin_op() has reserved nothing yet.
LEMMA StartOpInv ==
  ASSUME Inv, NEW p \in Procs, StartOp(p)
  PROVE  Inv'
<1> USE DEF disk, mem
<1>1. TypeOK' /\ ~panicked'
  BY Zenon DEF Inv, TypeOK, StartOp
<1>2. Ops' = Ops /\ Spare' = Spare
  BY Zenon DEF Inv, TypeOK, StartOp, Ops, OpsOf, Spare, SpareOf
<1>3. ControlInv'
  BY <1>2, Zenon DEF Inv, ControlInv, StartOp, Recovering
<1>4. SpaceInv'
  BY <1>2 DEF Inv, SpaceInv, StartOp, Distinct, InLog, TypeOK
<1>5. \A b \in Blocks : NotInstalled(b)' <=> NotInstalled(b)
  BY Zenon DEF StartOp, NotInstalled, Recovering
<1>6. PinInv' /\ DataInv'
  BY <1>5, Zenon DEF Inv, PinInv, DataInv, StartOp
<1>7. SleepersHaveWaker'
  BY Zenon DEF Inv, TypeOK, SleepersHaveWaker, StartOp
<1> QED
  BY <1>1, <1>3, <1>4, <1>6, <1>7, Zenon DEF Inv

\* begin_op() admits a call only if log.lh and all reservations fit, and a
\* call that has to wait has somebody to wait for.
LEMMA BeginOpInv ==
  ASSUME SlackAssumption, Inv, NEW p \in Procs, BeginOp(p)
  PROVE  Inv'
<1> USE DEF disk
<1>1. TypeOK' /\ ~panicked'
  BY DEF Inv, TypeOK, BeginOp
<1>2. \A b \in Blocks : NotInstalled(b)' <=> NotInstalled(b)
  BY Zenon DEF BeginOp, NotInstalled, Recovering
<1>3. PinInv' /\ DataInv'
  BY <1>2, Zenon DEF Inv, PinInv, DataInv, BeginOp
<1>4. ~Recovering
  BY Zenon DEF BeginOp, Inv, ControlInv
<1>5. CASE MustWait
  <2>1. Ops' = Ops /\ Spare' = Spare
    BY <1>5, Zenon DEF Inv, TypeOK, BeginOp, Ops, OpsOf, Spare, SpareOf
  <2>2. ControlInv'
    BY <1>4, <1>5, <2>1, Zenon DEF Inv, ControlInv, BeginOp, Recovering
  <2>3. SpaceInv'
    BY <1>5, <2>1 DEF Inv, SpaceInv, BeginOp, Distinct, InLog, TypeOK
  <2>4. SleepersHaveWaker'
    <3>1. CASE committing \/ outstanding > 0
      BY <1>5, <3>1, Zenon DEF SleepersHaveWaker, BeginOp
    <3>2. CASE ~committing /\ outstanding = 0
      <4>1. Ops = {}
        BY <3>2, SpareBounded, FS_EmptySet, Zenon DEF Inv, ControlInv
      <4>2. phase = "run"
        BY <1>4, <3>2, Zenon DEF Inv, ControlInv, TypeOK, Recovering, Committing
      <4>3. Len(lh) = 0
        BY <4>1, <4>2 DEF Inv, ControlInv
      <4>4. 0 + (0 + 1) * MAXOPBLOCKS > LOGSIZE
        BY <1>5, <3>2, <4>3, Zenon DEF MustWait
      <4> QED
        BY <4>4, LogAssumption DEF LogAssumption
    <3> QED
      BY <3>1, <3>2 DEF Inv, TypeOK
  <2> QED
    BY <1>1, <1>3, <2>2, <2>3, <2>4, Zenon DEF Inv
<1>6. CASE ~MustWait
  <2>1. p \notin Ops /\ Ops' = Ops \cup {p} /\ outstanding' = outstanding + 1
    BY <1>6, Zenon DEF Inv, TypeOK, BeginOp, Ops, OpsOf
  <2>2. Cardinality(Ops') = outstanding + 1 /\ outstanding \in Nat
    BY <2>1, SpareBounded, FS_AddElement, Zenon DEF Inv, ControlInv
  <2>3. phase = "run" /\ ~committing
    BY <1>4, <1>6, Zenon DEF MustWait, Inv, ControlInv, TypeOK, Recovering, Committing
  <2>4. ControlInv'
    BY <2>1, <2>2, <2>3, Zenon DEF Inv, ControlInv, BeginOp, Recovering
  <2>5. Len(lh) + Cardinality(Spare') <= LOGSIZE
    <3>1. Cardinality(Spare') \in Nat /\ Cardinality(Spare') <= (outstanding + 1) * MAXOPBLOCKS
      BY <2>2, CallsBounded, Zenon DEF Ops, Spare
    <3>2. Len(lh) + (outstanding + 1) * MAXOPBLOCKS <= LOGSIZE
      BY <1>6, <2>2, LogAssumption DEF MustWait, LogAssumption, Inv, TypeOK
    <3>3. (outstanding + 1) * MAXOPBLOCKS \in Nat /\ Len(lh) \in Nat /\ LOGSIZE \in Nat
      BY <2>2, LogAssumption DEF LogAssumption, Inv, TypeOK
    <3> QED
      BY <3>1, <3>2, <3>3
  <2>6. SpaceInv'
    BY <2>5 DEF Inv, SpaceInv, BeginOp, Distinct, InLog, TypeOK
  <2>7. SleepersHaveWaker'
    BY <2>1, <2>2 DEF SleepersHaveWaker
  <2> QED
    BY <1>1, <1>3, <2>4, <2>6, <2>7, Zenon DEF Inv
<1> QED
  BY <1>5, <1>6, Zenon

\* A block that is not in log.lh yet is added without repetition.
LEMMA AppendDistinct ==
  ASSUME NEW S, NEW s \in Seq(S), Distinct(s), NEW b \in S, \A i \in 1..Len(s) : s[i] # b
  PROVE  /\ Append(s, b) \in Seq(S) /\ Len(Append(s, b)) = Len(s) + 1
         /\ \A i \in 1..Len(s) : Append(s, b)[i] = s[i]
         /\ Append(s, b)[Len(s) + 1] = b
         /\ Distinct(Append(s, b))
BY DEF Distinct

\* log_write() uses one of the blocks reserved for the call when it adds to
\* log.lh, and none when it absorbs.
LEMMA WriteUsesSpare ==
  ASSUME SlackAssumption, Inv, NEW p \in Procs, NEW b \in Blocks, NEW v \in Vals, LogWrite(p, b, v)
  PROVE  /\ IsFiniteSet(written'[p]) /\ Cardinality(written'[p]) \in Nat
         /\ Cardinality(written'[p]) <= OpBlocks
         /\ Cardinality(Spare') \in Nat
         /\ Cardinality(Spare') <= IF InLog(b) THEN Cardinality(Spare) ELSE Cardinality(Spare) - 1
<1> DEFINE W == written[p]
           n == Cardinality(W)
<1>1. /\ IsFiniteSet(W) /\ written' = [written EXCEPT ![p] = W \cup {b}] /\ pc' = pc
      /\ written'[p] = W \cup {b} /\ Cardinality(W \cup {b}) <= OpBlocks
  BY Zenon DEF LogWrite, Inv, SpaceInv, TypeOK
<1>2. n \in Nat
  BY <1>1, FS_CardinalityType, Zenon
<1>3. /\ IsFiniteSet(W \cup {b}) /\ Cardinality(W \cup {b}) \in Nat
      /\ Cardinality(W \cup {b}) = IF b \in W THEN n ELSE n + 1
  <2>1. /\ IsFiniteSet(W \cup {b})
        /\ Cardinality(W \cup {b}) = IF b \in W THEN n ELSE n + 1
    BY <1>1, FS_AddElement, Zenon
  <2> QED
    BY <2>1, FS_CardinalityType, Zenon
<1>4. Cardinality(Spare) \in Nat /\ Cardinality(Spare') \in Nat /\ IsFiniteSet(Spare)
  BY CallsBounded, Zenon DEF Spare
<1>5. CASE InLog(b)
  <2>1. Spare' \in SUBSET Spare
    <3>1. SUFFICES ASSUME NEW q \in Procs, NEW k \in 1..MAXOPBLOCKS,
                          pc[q] = "op", k > Cardinality(written'[q])
                   PROVE  k > Cardinality(written[q])
      BY <1>1, Zenon DEF Spare, SpareOf
    <3>2. CASE q = p
      BY <1>1, <1>2, <1>3, <3>1, <3>2
    <3>3. CASE q # p
      BY <1>1, <3>1, <3>3, Zenon DEF Inv, TypeOK
    <3> QED
      BY <3>2, <3>3, Zenon
  <2>2. Cardinality(Spare') <= Cardinality(Spare)
    BY <1>4, <2>1, FS_Subset, Zenon
  <2> QED
    BY <1>1, <1>3, <1>4, <1>5, <2>2, Zenon
<1>6. CASE ~InLog(b)
  <2> DEFINE r == <<p, n + 1>>
  <2>1. b \notin W
    BY <1>6, Zenon DEF Inv, SpaceInv
  <2>2. Cardinality(written'[p]) = n + 1 /\ n + 1 <= OpBlocks
    BY <1>1, <1>3, <2>1, Zenon
  <2>3. r \in Spare
    <3>1. n + 1 \in 1..MAXOPBLOCKS /\ n + 1 > n
      BY <1>2, <2>2, LogAssumption DEF LogAssumption
    <3> QED
      BY <3>1, Zenon DEF Spare, SpareOf, LogWrite
  <2>4. Spare' \in SUBSET (Spare \ {r})
    <3>1. ASSUME NEW q \in Procs, NEW k \in 1..MAXOPBLOCKS,
                 pc[q] = "op", k > Cardinality(written'[q])
          PROVE  k > Cardinality(written[q])
      <4>1. CASE q = p
        BY <1>2, <2>2, <3>1, <4>1
      <4>2. CASE q # p
        BY <1>1, <3>1, <4>2, Zenon DEF Inv, TypeOK
      <4> QED
        BY <4>1, <4>2, Zenon
    <3>2. Spare' \in SUBSET Spare
      BY <1>1, <3>1, Zenon DEF Spare, SpareOf
    <3>3. ~(n + 1 > Cardinality(written'[p]))
      BY <1>2, <2>2
    <3>4. r \notin Spare'
      BY <3>3, Zenon DEF Spare, SpareOf
    <3> QED
      BY <3>2, <3>4, Zenon
  <2>5. IsFiniteSet(Spare \ {r}) /\ Cardinality(Spare \ {r}) = Cardinality(Spare) - 1
    BY <1>4, <2>3, FS_RemoveElement, Zenon
  <2>6. Cardinality(Spare') <= Cardinality(Spare) - 1
    BY <2>4, <2>5, FS_Subset
  <2> QED
    BY <1>1, <1>3, <1>4, <1>6, <2>6, Zenon
<1> QED
  BY <1>5, <1>6, Zenon

\* log_write() turns reserved space into an entry of log.lh and a pin.
LEMMA LogWriteInv ==
  ASSUME SlackAssumption, Inv, NEW p \in Procs, NEW b \in Blocks, NEW v \in Vals, LogWrite(p, b, v)
  PROVE  Inv'
<1> USE DEF disk
<1>1. /\ Len(lh) \in Nat /\ Len(lh) < LOGSIZE /\ Len(lh) < NLog - 1
      /\ outstanding >= 1 /\ phase = "run" /\ ~committing /\ pc[p] = "op"
  BY RoomForWrite, Zenon DEF LogWrite
<1>2. /\ lh' \in Seq(Blocks) /\ Distinct(lh)'
      /\ Len(lh') \in Nat /\ Len(lh') = IF InLog(b) THEN Len(lh) ELSE Len(lh) + 1
      /\ \A c \in Blocks : InLog(c)' <=> InLog(c) \/ c = b
  <2>1. CASE InLog(b)
    BY <1>1, <2>1, Zenon DEF LogWrite, Inv, SpaceInv, TypeOK, InLog
  <2>2. CASE ~InLog(b)
    <3>1. lh' = Append(lh, b)
      BY <2>2, Zenon DEF LogWrite
    <3>2. lh \in Seq(Blocks) /\ Distinct(lh) /\ \A i \in 1..Len(lh) : lh[i] # b
      BY <2>2, Zenon DEF Inv, TypeOK, SpaceInv, InLog
    <3>3. /\ lh' \in Seq(Blocks) /\ Len(lh') = Len(lh) + 1
          /\ \A i \in 1..Len(lh) : lh'[i] = lh[i]
          /\ lh'[Len(lh) + 1] = b
          /\ Distinct(lh')
      BY <3>1, <3>2, AppendDistinct
    <3>4. \A c \in Blocks : InLog(c)' <=> InLog(c) \/ c = b
      BY <1>1, <3>3 DEF InLog
    <3> QED
      BY <1>1, <2>2, <3>3, <3>4 DEF Distinct
  <2> QED
    BY <2>1, <2>2, Zenon
<1>3. TypeOK' /\ ~panicked'
  <2>1. LOGSIZE \in Nat /\ NLog \in Nat
    BY LogAssumption, Zenon DEF LogAssumption
  <2>2. panicked' = FALSE
    BY <1>1, <2>1 DEF LogWrite, Inv, TypeOK
  <2>3. pin' \in [Blocks -> Nat]
    BY DEF LogWrite, Inv, TypeOK
  <2>4. cache' \in [Blocks -> Vals \cup {NoBuf}] /\ written' \in [Procs -> SUBSET Blocks]
    BY Zenon DEF LogWrite, Inv, TypeOK
  <2>5. panicked' \in BOOLEAN /\ ~panicked'
    BY <2>2, Zenon
  <2> QED
    BY <1>2, <2>3, <2>4, <2>5, Zenon DEF LogWrite, Inv, TypeOK
<1>4. Ops' = Ops /\ Ops # {}
  BY <1>1, Zenon DEF LogWrite, Ops, OpsOf
<1>5. ControlInv'
  BY <1>1, <1>4, Zenon DEF Inv, ControlInv, LogWrite, Recovering, Committing
<1>6. SpaceInv'
  <2>1. Len(lh') + Cardinality(Spare') <= LOGSIZE /\ Len(lh') <= NLog - 1
    <3>1. Len(lh) + Cardinality(Spare) <= LOGSIZE
      BY <1>1, Zenon DEF Inv, SpaceInv
    <3>2. LOGSIZE \in Nat /\ NLog \in Nat
      BY LogAssumption, Zenon DEF LogAssumption
    <3> QED
      BY <1>1, <1>2, <3>1, <3>2, WriteUsesSpare, SpareBounded
  <2>2. ASSUME NEW q \in Procs
        PROVE  /\ IsFiniteSet(written'[q]) /\ Cardinality(written'[q]) <= OpBlocks
               /\ pc'[q] # "op" => written'[q] = {}
               /\ \A c \in written'[q] : InLog(c)'
    <3>1. written'[q] = IF q = p THEN written[p] \cup {b} ELSE written[q]
      BY Zenon DEF LogWrite, Inv, TypeOK
    <3>2. IsFiniteSet(written'[q]) /\ Cardinality(written'[q]) <= OpBlocks
      BY <3>1, WriteUsesSpare, Zenon DEF Inv, SpaceInv
    <3>3. \A c \in written'[q] : c \in Blocks /\ (InLog(c) \/ c = b)
      BY <3>1, Zenon DEF Inv, SpaceInv, TypeOK
    <3>4. pc'[q] # "op" => written'[q] = {}
      BY <1>1, <3>1, Zenon DEF Inv, SpaceInv, LogWrite
    <3> QED
      BY <1>2, <3>2, <3>3, <3>4, Zenon
  <2> QED
    BY <1>1, <1>2, <2>1, <2>2, Zenon DEF Inv, SpaceInv, LogWrite, Distinct
<1>7. \A c \in Blocks : (NotInstalled(c) <=> InLog(c)) /\ (NotInstalled(c)' <=> InLog(c) \/ c = b)
  <2>1. \A c \in Blocks : (NotInstalled(c) <=> InLog(c)) /\ (NotInstalled(c)' <=> InLog(c)')
    BY <1>1, Zenon DEF NotInstalled, InLog, Recovering, LogWrite
  <2> QED
    BY <1>2, <2>1, Zenon
<1>8. PinInv'
  <2>1. \A c \in Blocks : pin[c] = IF InLog(c) THEN 1 ELSE 0
    BY <1>7, Zenon DEF Inv, PinInv
  <2>2. \A c \in Blocks : pin'[c] = IF InLog(c) \/ c = b THEN 1 ELSE 0
    BY <2>1 DEF LogWrite, Inv, TypeOK
  <2> QED
    BY <1>7, <2>2, Zenon DEF PinInv
<1>9. DataInv'
  <2>1. \A c \in Blocks : IF InLog(c) \/ c = b THEN cache'[c] # NoBuf ELSE cache'[c] \in {NoBuf, home[c]}
    BY <1>7, LogAssumption, Zenon DEF LogWrite, Inv, TypeOK, DataInv, LogAssumption
  <2> QED
    BY <1>1, <1>7, <2>1, Zenon DEF DataInv, LogWrite
<1>10. SleepersHaveWaker'
  BY Zenon DEF Inv, SleepersHaveWaker, LogWrite
<1> QED
  BY <1>3, <1>5, <1>6, <1>8, <1>9, <1>10, Zenon DEF Inv

\* end_op() gives up what the call has reserved and wakes the sleepers.
LEMMA EndOpInv ==
  ASSUME SlackAssumption, Inv, NEW p \in Procs, EndOp(p)
  PROVE  Inv'
<1> USE DEF disk
<1>1. outstanding >= 1 /\ phase = "run" /\ ~committing /\ pc[p] = "op"
  BY RoomForWrite, Zenon DEF EndOp
<1>2. \A q \in Procs : pc'[q] = IF q = p THEN "idle" ELSE IF pc[q] = "asleep" THEN "begin" ELSE pc[q]
  BY Zenon DEF EndOp, Wakeup, Inv, TypeOK
<1>3. TypeOK' /\ ~panicked'
  <2>1. outstanding' \in Nat
    BY <1>1 DEF EndOp, Inv, TypeOK
  <2>2. pc' \in [Procs -> {"idle", "begin", "asleep", "op", "commit"}]
    BY Zenon DEF EndOp, Wakeup, Inv, TypeOK
  <2>3. panicked' \in BOOLEAN /\ ~panicked'
    BY <1>1, Zenon DEF EndOp, Inv, TypeOK
  <2> QED
    BY <2>1, <2>2, <2>3, Zenon DEF EndOp, Inv, TypeOK
<1>4. Ops' = Ops \ {p} /\ p \in Ops /\ Spare' \in SUBSET Spare
  <2>1. Ops' = Ops \ {p} /\ p \in Ops
    BY <1>1, <1>2, Zenon DEF Ops, OpsOf
  <2>2. \A q \in Procs : pc'[q] = "op" => pc[q] = "op" /\ written'[q] = written[q]
    BY <1>1, <1>2, Zenon DEF EndOp, Inv, TypeOK
  <2>3. Spare' \in SUBSET Spare
    BY <2>2, Zenon DEF Spare, SpareOf
  <2> QED
    BY <2>1, <2>3, Zenon
<1>5. Cardinality(Ops') = outstanding - 1 /\ Ops' # {}
  <2>1. Cardinality(Ops') = outstanding - 1
    BY <1>4, SpareBounded, FS_RemoveElement, Zenon DEF Inv, ControlInv
  <2>2. outstanding - 1 # 0
    BY <1>1 DEF EndOp, Inv, TypeOK
  <2> QED
    BY <2>1, <2>2, FS_EmptySet, Zenon
<1>6. ControlInv'
  BY <1>1, <1>5, Zenon DEF Inv, ControlInv, EndOp, Recovering, Committing
<1>7. SpaceInv'
  <2>1. Cardinality(Spare') \in Nat /\ Cardinality(Spare') <= Cardinality(Spare)
    BY <1>4, CallsBounded, FS_Subset, Zenon DEF Spare
  <2>2. Len(lh) + Cardinality(Spare') <= LOGSIZE
    BY <1>1, <2>1, SpareBounded, LogAssumption DEF Inv, TypeOK, SpaceInv, LogAssumption
  <2>3. IsFiniteSet({}) /\ Cardinality({}) <= OpBlocks
    BY FS_EmptySet, LogAssumption DEF LogAssumption
  <2>4. \A q \in Procs : written'[q] = IF q = p THEN {} ELSE written[q]
    BY Zenon DEF EndOp, Inv, TypeOK
  <2>5. ASSUME NEW q \in Procs
        PROVE  /\ IsFiniteSet(written'[q]) /\ Cardinality(written'[q]) <= OpBlocks
               /\ pc'[q] # "op" => written'[q] = {}
               /\ \A c \in written'[q] : InLog(c)
    BY <1>2, <2>3, <2>4, Zenon DEF Inv, SpaceInv
  <2> QED
    BY <2>2, <2>5 DEF Inv, SpaceInv, EndOp, InLog, Distinct
<1>8. \A b \in Blocks : NotInstalled(b)' <=> NotInstalled(b)
  BY Zenon DEF EndOp, NotInstalled, Recovering
<1>9. PinInv' /\ DataInv'
  BY <1>8, Zenon DEF Inv, PinInv, DataInv, EndOp
<1>10. SleepersHaveWaker'
  BY <1>2, Zenon DEF SleepersHaveWaker
<1> QED
  BY <1>3, <1>6, <1>7, <1>9, <1>10, Zenon DEF Inv

\* The last end_op() starts the commit with no call in progress.
LEMMA EndLastOpInv ==
  ASSUME SlackAssumption, Inv, NEW p \in Procs, EndLastOp(p)
  PROVE  Inv'
<1> USE DEF disk
<1>1. /\ outstanding >= 1 /\ phase = "run" /\ ~committing /\ pc[p] = "op"
      /\ Len(lh) \in Nat /\ (lh # << >> => 1 <= Len(lh))
  BY RoomForWrite DEF EndLastOp, Inv, TypeOK
<1>2. phase' \in {"committed", "write_log"} /\ (phase' = "committed" <=> lh = << >>) /\ lh' = lh
  BY Zenon DEF EndLastOp
<1>3. TypeOK' /\ ~panicked'
  <2>1. panicked' \in BOOLEAN /\ ~panicked'
    BY <1>1, Zenon DEF EndLastOp, Inv, TypeOK
  <2> QED
    BY <1>2, <2>1 DEF EndLastOp, Inv, TypeOK
<1>4. Ops' = {} /\ Cardinality(Ops') = 0
  <2>1. Cardinality(Ops) = 1 /\ p \in Ops
    BY <1>1, Zenon DEF EndLastOp, Inv, ControlInv, Ops, OpsOf
  <2>2. Ops = {p}
    BY <2>1, SpareBounded, FS_Singleton
  <2>3. Ops' = {}
    BY <2>2, Zenon DEF Ops, OpsOf, EndLastOp, Inv, TypeOK
  <2> QED
    BY <2>3, FS_EmptySet, Zenon
<1>5. ControlInv'
  BY <1>1, <1>2, <1>4, Zenon DEF Inv, ControlInv, EndLastOp, Recovering, Committing
<1>6. SpaceInv'
  <2>1. IsFiniteSet({}) /\ Cardinality({}) <= OpBlocks
    BY FS_EmptySet, LogAssumption DEF LogAssumption
  <2>2. \A q \in Procs : written'[q] = IF q = p THEN {} ELSE written[q]
    BY Zenon DEF EndLastOp, Inv, TypeOK
  <2>3. ASSUME NEW q \in Procs
        PROVE  /\ IsFiniteSet(written'[q]) /\ Cardinality(written'[q]) <= OpBlocks
               /\ pc'[q] # "op" => written'[q] = {}
               /\ \A c \in written'[q] : InLog(c)
    BY <2>1, <2>2, Zenon DEF Inv, SpaceInv, TypeOK, EndLastOp
  <2> QED
    BY <1>2, <2>3 DEF Inv, SpaceInv, EndLastOp, InLog, Distinct
<1>7. \A b \in Blocks : NotInstalled(b)' <=> NotInstalled(b)
  BY <1>1, <1>2, Zenon DEF NotInstalled, Recovering
<1>8. PinInv'
  BY <1>7, Zenon DEF Inv, PinInv, EndLastOp
<1>9. DataInv'
  BY <1>1, <1>2, <1>7 DEF Inv, DataInv, EndLastOp
<1>10. SleepersHaveWaker'
  BY Zenon DEF SleepersHaveWaker, EndLastOp
<1> QED
  BY <1>3, <1>5, <1>6, <1>8, <1>9, <1>10, Zenon DEF Inv

\* What the steps of commit() have in common: their place in the log, and no
\* call in progress.
LEMMA CommitFacts ==
  ASSUME Inv, phase \in {"write_log", "install"}
  PROVE  /\ tail \in 1..Len(lh) /\ tail \in Slots /\ lh[tail] \in Blocks /\ logd[tail] \in Vals
         /\ Len(lh) \in Nat /\ NotInstalled(lh[tail])
<1>1. /\ tail \in 1..Len(lh) /\ Len(lh) \in Nat /\ tail \in Slots
      /\ lh[tail] \in Blocks
  BY LogAssumption DEF Inv, TypeOK, ControlInv, SpaceInv, Slots, LogAssumption
<1>2. logd[tail] \in Vals
  BY <1>1, Zenon DEF Inv, TypeOK
<1>3. NotInstalled(lh[tail])
  BY <1>1 DEF NotInstalled, Recovering
<1> QED
  BY <1>1, <1>2, <1>3, Zenon

\* write_log(): one more log slot holds what the cache holds.
LEMMA WriteLogInv ==
  ASSUME Inv, WriteLog
  PROVE  Inv'
<1>1. /\ tail \in 1..Len(lh) /\ tail \in Slots /\ lh[tail] \in Blocks /\ logd[tail] \in Vals
      /\ Len(lh) \in Nat /\ NotInstalled(lh[tail]) /\ phase = "write_log"
  BY CommitFacts, Zenon DEF WriteLog
<1>2. cache' = cache /\ cache[lh[tail]] \in Vals /\ logd' = [logd EXCEPT ![tail] = cache[lh[tail]]]
  BY <1>1, Zenon DEF WriteLog, Bread, Inv, TypeOK, DataInv
<1>3. /\ phase' \in {"write_log", "write_head"} /\ (phase' = "write_log" => tail' <= Len(lh))
      /\ (phase' = "write_head" => tail = Len(lh))
  BY <1>1 DEF WriteLog
<1>4. TypeOK' /\ ~panicked'
  BY <1>1, <1>2, <1>3 DEF WriteLog, Inv, TypeOK
<1>5. ControlInv'
  BY <1>1, <1>3, CallFrame DEF WriteLog, Inv, ControlInv, Recovering, Committing
<1>6. SpaceInv'
  BY <1>3, CallFrame, Zenon DEF WriteLog, Inv, SpaceInv, InLog, Distinct
<1>7. \A b \in Blocks : NotInstalled(b)' <=> NotInstalled(b)
  BY <1>1, <1>3, Zenon DEF NotInstalled, Recovering, WriteLog
<1>8. PinInv'
  BY <1>7, Zenon DEF Inv, PinInv, WriteLog
<1>9. DataInv'
  <2>1. ASSUME NEW i \in 1..Len(lh), i <= tail
        PROVE  logd'[i] = cache[lh[i]]
    BY <1>1, <1>2, <2>1 DEF Inv, TypeOK, DataInv
  <2> QED
    BY <1>1, <1>2, <1>3, <1>7, <2>1 DEF Inv, DataInv, WriteLog
<1>10. SleepersHaveWaker'
  BY Zenon DEF Inv, SleepersHaveWaker, WriteLog
<1> QED
  BY <1>4, <1>5, <1>6, <1>8, <1>9, <1>10, Zenon DEF Inv

\* write_head(): the header names slots that are all written.
LEMMA WriteHeadInv ==
  ASSUME Inv, WriteHead
  PROVE  Inv'
<1> USE DEF mem
<1>1. TypeOK' /\ ~panicked' /\ Len(lh) \in Nat
  BY DEF WriteHead, Inv, TypeOK
<1>2. ControlInv'
  BY <1>1, CallFrame DEF WriteHead, Inv, ControlInv, Recovering, Committing
<1>3. SpaceInv'
  BY CallFrame DEF WriteHead, Inv, SpaceInv, InLog, Distinct
<1>4. \A b \in Blocks : NotInstalled(b)' <=> NotInstalled(b)
  BY <1>1 DEF NotInstalled, Recovering, WriteHead
<1>5. PinInv'
  BY <1>4, Zenon DEF Inv, PinInv, WriteHead
<1>6. DataInv'
  BY <1>1, <1>4 DEF Inv, DataInv, WriteHead
<1>7. SleepersHaveWaker'
  BY Zenon DEF Inv, SleepersHaveWaker, WriteHead
<1> QED
  BY <1>1, <1>2, <1>3, <1>5, <1>6, <1>7, Zenon DEF Inv

\* install_trans(0): one more block is at its home and unpinned.
LEMMA InstallInv ==
  ASSUME Inv, Install
  PROVE  Inv'
<1>1. /\ tail \in 1..Len(lh) /\ tail \in Slots /\ lh[tail] \in Blocks /\ logd[tail] \in Vals
      /\ Len(lh) \in Nat /\ NotInstalled(lh[tail]) /\ phase = "install"
  BY CommitFacts, Zenon DEF Install
<1>2. /\ phase' \in {"install", "erase"} /\ (phase' = "install" => tail' <= Len(lh))
      /\ (phase' = "erase" => tail = Len(lh))
  BY <1>1 DEF Install
<1>3. pin[lh[tail]] = 1
  BY <1>1, Zenon DEF Inv, PinInv
<1>4. TypeOK' /\ ~panicked'
  BY <1>1, <1>2, <1>3 DEF Install, Inv, TypeOK
<1>5. ControlInv'
  BY <1>1, <1>2, CallFrame, SMTT(20), Zenon DEF Install, Inv, ControlInv, Recovering, Committing
<1>6. SpaceInv'
  BY <1>2, CallFrame, Zenon DEF Install, Inv, SpaceInv, InLog, Distinct
<1>7. \A b \in Blocks : NotInstalled(b)' <=> NotInstalled(b) /\ b # lh[tail]
  <2>1. \A i \in 1..Len(lh) : i # tail => lh[i] # lh[tail]
    BY <1>1, Zenon DEF Inv, SpaceInv, Distinct
  <2> QED
    BY <1>1, <1>2, <2>1 DEF NotInstalled, Recovering, Install
<1>8. PinInv'
  BY <1>1, <1>3, <1>7 DEF Inv, TypeOK, PinInv, Install
<1>9. DataInv'
  <2>1. \A b \in Blocks : /\ home'[b] = IF b = lh[tail] THEN logd[tail] ELSE home[b]
                          /\ cache'[b] = IF b = lh[tail] THEN logd[tail] ELSE cache[b]
    BY <1>1, Zenon DEF Install, Inv, TypeOK
  <2>2. \A i \in 1..Len(lh) : lh[i] \in Blocks /\ (i # tail => lh[i] # lh[tail])
    BY <1>1 DEF Inv, TypeOK, SpaceInv, Distinct
  <2>3. \A b \in Blocks : IF NotInstalled(b)' THEN cache'[b] # NoBuf
                                              ELSE cache'[b] \in {NoBuf, home'[b]}
    BY <1>7, <2>1, Zenon DEF Inv, DataInv
  <2>4. \A i \in 1..Len(lh) : /\ i <= tail => home'[lh[i]] = logd[i]
                              /\ i > tail => logd[i] = cache'[lh[i]]
    BY <1>1, <2>1, <2>2 DEF Inv, DataInv
  <2> QED
    BY <1>1, <1>2, <2>3, <2>4 DEF DataInv, Install
<1>10. SleepersHaveWaker'
  BY Zenon DEF Inv, SleepersHaveWaker, Install
<1> QED
  BY <1>4, <1>5, <1>6, <1>8, <1>9, <1>10, Zenon DEF Inv

\* The header is erased once install_trans(0) is through.
LEMMA EraseInv ==
  ASSUME Inv, Erase
  PROVE  Inv'
<1>1. TypeOK' /\ ~panicked'
  <2>1. lh' \in Seq(Blocks) /\ hdr' \in Seq(Blocks)
    BY DEF Erase
  <2> QED
    BY <2>1 DEF Inv, TypeOK, Erase
<1>2. Ops' = Ops /\ Ops = {}
  BY CallFrame, Zenon DEF Inv, ControlInv, Erase
<1>3. ControlInv'
  BY <1>2, Zenon DEF Inv, ControlInv, Erase, Recovering, Committing
<1>4. SpaceInv'
  <2>1. Len(lh') = 0 /\ Len(hdr') = 0
    BY Zenon DEF Erase
  <2>2. Distinct(lh)' /\ Distinct(hdr)'
    BY <2>1 DEF Distinct
  <2>3. \A p \in Procs : written[p] = {}
    BY <1>2, Zenon DEF Ops, OpsOf, Inv, SpaceInv
  <2>4. NLog \in Nat \ {0}
    BY LogAssumption, Zenon DEF LogAssumption
  <2>5. written' = written /\ pc' = pc /\ phase' # "run"
    BY Zenon DEF Erase
  <2> QED
    BY <2>1, <2>2, <2>3, <2>4, <2>5 DEF Inv, SpaceInv
<1>5. \A b \in Blocks : ~NotInstalled(b) /\ ~NotInstalled(b)'
  BY DEF Erase, NotInstalled, Recovering
<1>6. PinInv' /\ DataInv'
  BY <1>5, Zenon DEF Inv, PinInv, DataInv, Erase
<1>7. SleepersHaveWaker'
  BY Zenon DEF Inv, SleepersHaveWaker, Erase
<1> QED
  BY <1>1, <1>3, <1>4, <1>6, <1>7, Zenon DEF Inv

\* After commit() the log is empty and everybody is awake.
LEMMA CommitDoneInv ==
  ASSUME Inv, CommitDone
  PROVE  Inv'
<1> USE DEF disk
<1>1. /\ pc' \in [Procs -> {"idle", "begin", "asleep", "op", "commit"}]
      /\ \A q \in Procs : pc'[q] # "asleep" /\ (pc'[q] = "op" <=> pc[q] = "op")
  BY Zenon DEF CommitDone, Wakeup, Inv, TypeOK
<1>2. TypeOK' /\ ~panicked'
  BY <1>1, Zenon DEF CommitDone, Inv, TypeOK
<1>3. Ops' = Ops /\ Ops = {}
  BY <1>1, Zenon DEF Ops, OpsOf, CommitDone, Inv, ControlInv
<1>4. Cardinality(Spare') = 0 /\ Len(lh) = 0
  <2>1. Spare' = {}
    BY <1>3, Zenon DEF Spare, SpareOf, Ops, OpsOf
  <2> QED
    BY <2>1, FS_EmptySet, Zenon DEF CommitDone, Inv, ControlInv
<1>5. ControlInv'
  BY <1>3, Zenon DEF CommitDone, Inv, ControlInv, Recovering, Committing
<1>6. SpaceInv'
  BY <1>1, <1>4, LogAssumption DEF CommitDone, Inv, SpaceInv, InLog, Distinct, LogAssumption
<1>7. \A b \in Blocks : ~NotInstalled(b) /\ ~NotInstalled(b)'
  BY <1>4 DEF NotInstalled, CommitDone
<1>8. PinInv' /\ DataInv'
  BY <1>4, <1>7, Zenon DEF Inv, PinInv, DataInv, CommitDone
<1>9. SleepersHaveWaker'
  BY <1>1, Zenon DEF SleepersHaveWaker
<1> QED
  BY <1>2, <1>5, <1>6, <1>8, <1>9, Zenon DEF Inv

\* bread() and the recycling of a buffer leave the log alone.
LEMMA CacheInv ==
  ASSUME Inv, NEW b \in Blocks, Load(b) \/ Evict(b)
  PROVE  Inv'
<1> USE DEF disk
<1>1. /\ UNCHANGED <<disk, pin, lh, outstanding, committing, phase, tail, pc, written, panicked>>
      /\ cache' = [cache EXCEPT ![b] = cache'[b]] /\ cache'[b] \in {NoBuf, home[b]}
      /\ ~NotInstalled(b)
  <2>1. CASE Load(b)
    <3>1. NotInstalled(b) => cache[b] # NoBuf
      BY Zenon DEF Inv, DataInv
    <3>2. cache \in [Blocks -> Vals \cup {NoBuf}]
      BY Zenon DEF Inv, TypeOK
    <3> QED
      BY <2>1, <3>1, <3>2, SMTT(20), Zenon DEF Load
  <2>2. CASE Evict(b)
    <3>1. ~NotInstalled(b)
      BY <2>2 DEF Evict, Inv, PinInv
    <3>2. cache \in [Blocks -> Vals \cup {NoBuf}]
      BY Zenon DEF Inv, TypeOK
    <3> QED
      BY <2>2, <3>1, <3>2, Zenon DEF Evict
  <2> QED
    BY <2>1, <2>2, Zenon
<1>2. TypeOK' /\ ~panicked'
  BY <1>1, Zenon DEF Inv, TypeOK
<1>3. ControlInv' /\ SpaceInv'
  BY <1>1, CallFrame DEF Inv, ControlInv, SpaceInv, Recovering, InLog, Distinct
<1>4. \A c \in Blocks : NotInstalled(c)' <=> NotInstalled(c)
  BY <1>1, Zenon DEF NotInstalled, Recovering
<1>5. PinInv'
  BY <1>1, <1>4, SMTT(20), Zenon DEF Inv, PinInv
<1>6. DataInv'
  <2>1. \A c \in Blocks : c # b => cache'[c] = cache[c]
    BY <1>1, Zenon DEF Inv, TypeOK
  <2>2. \A c \in Blocks : IF NotInstalled(c) THEN cache'[c] # NoBuf ELSE cache'[c] \in {NoBuf, home[c]}
    BY <1>1, <2>1, Zenon DEF Inv, DataInv
  <2>3. ASSUME NEW i \in 1..Len(lh),
               \/ phase = "write_log" /\ i < tail
               \/ phase = "write_head"
               \/ phase = "install" /\ i >= tail
        PROVE  lh[i] # b /\ lh[i] \in Blocks
    BY <1>1, <2>3 DEF NotInstalled, Recovering, Inv, TypeOK
  <2> QED
    BY <1>1, <1>4, <2>1, <2>2, <2>3 DEF Inv, DataInv
<1>7. SleepersHaveWaker'
  BY <1>1, Zenon DEF Inv, SleepersHaveWaker
<1> QED
  BY <1>2, <1>3, <1>5, <1>6, <1>7, Zenon DEF Inv

\* A crash keeps the disk, and the header is as good as before.
LEMMA CrashInv ==
  ASSUME Inv, Crash
  PROVE  Inv'
<1> USE DEF disk
<1>1. TypeOK' /\ ~panicked'
  <2>1. lh' \in Seq(Blocks)
    BY DEF Crash
  <2>2. /\ cache' \in [Blocks -> Vals \cup {NoBuf}] /\ pin' \in [Blocks -> Nat]
        /\ pc' \in [Procs -> {"idle", "begin", "asleep", "op", "commit"}]
        /\ written' \in [Procs -> SUBSET Blocks]
    BY Zenon DEF Crash
  <2>3. committing' \in BOOLEAN
    BY Zenon DEF Crash
  <2>4. outstanding' = 0 /\ phase' = "read_head" /\ tail' = 1 /\ UNCHANGED <<home, logd, hdr, panicked>>
    BY Zenon DEF Crash
  <2> QED
    BY <2>1, <2>2, <2>3, <2>4 DEF Inv, TypeOK
<1>2. Ops' = {} /\ Cardinality(Ops') = 0
  <2>1. Ops' = {}
    BY Zenon DEF Crash, Ops, OpsOf
  <2> QED
    BY <2>1, FS_EmptySet, Zenon
<1>3. ControlInv'
  BY <1>2, Zenon DEF Crash, ControlInv, Committing, Recovering
<1>4. SpaceInv'
  <2>1. NLog \in Nat \ {0} /\ OpBlocks \in Nat
    BY LogAssumption DEF LogAssumption
  <2>2. \A p \in Procs : written'[p] = {}
    BY Zenon DEF Crash
  <2>3. IsFiniteSet({}) /\ Cardinality({}) = 0
    BY FS_EmptySet, Zenon
  <2>4. phase' # "run" /\ hdr' = hdr
    BY Zenon DEF Crash
  <2>5. Len(lh') = 0
    BY Zenon DEF Crash
  <2>6. Distinct(lh)'
    BY <2>5 DEF Distinct
  <2>7. \A p \in Procs : IsFiniteSet(written'[p]) /\ Cardinality(written'[p]) <= OpBlocks
    BY <2>1, <2>2, <2>3
  <2>8. Distinct(hdr)' /\ Len(hdr') <= NLog - 1
    BY <2>4, Zenon DEF Inv, SpaceInv, Distinct
  <2> QED
    BY <2>1, <2>2, <2>4, <2>5, <2>6, <2>7, <2>8 DEF SpaceInv
<1>5. \A b \in Blocks : ~NotInstalled(b)'
  BY Zenon DEF Crash, NotInstalled, Recovering
<1>6. PinInv' /\ DataInv'
  BY <1>5, Zenon DEF Crash, PinInv, DataInv
<1>7. SleepersHaveWaker'
  BY Zenon DEF Crash, SleepersHaveWaker
<1> QED
  BY <1>1, <1>3, <1>4, <1>6, <1>7, Zenon DEF Inv

\* A step of something else.
LEMMA StutterInv ==
  ASSUME Inv, UNCHANGED vars
  PROVE  Inv'
<1>1. TypeOK' /\ ~panicked' /\ SleepersHaveWaker'
  BY Zenon DEF Inv, vars, TypeOK, SleepersHaveWaker
<1>2. ControlInv' /\ SpaceInv'
  BY CallFrame DEF Inv, vars, ControlInv, SpaceInv, Recovering, InLog, Distinct
<1>3. PinInv' /\ DataInv'
  BY Zenon DEF Inv, vars, PinInv, DataInv, NotInstalled, Recovering
<1> QED
  BY <1>1, <1>2, <1>3, Zenon DEF Inv

\* Every step keeps the invariant.
LEMMA NextInv ==
  ASSUME SlackAssumption, Inv, [Next]_vars
  PROVE  Inv'
<1>1. CASE Recover
  BY <1>1, ReadHeadInv, ReinstallInv, ReeraseInv, Zenon DEF Recover
<1>2. CASE Commit
  BY <1>2, WriteLogInv, WriteHeadInv, InstallInv, EraseInv, CommitDoneInv, Zenon DEF Commit
<1>3. CASE \E p \in Procs : Op(p)
  BY <1>3, StartOpInv, BeginOpInv, LogWriteInv, EndOpInv, EndLastOpInv, Zenon DEF Op
<1>4. CASE \E b \in Blocks : Load(b) \/ Evict(b)
  BY <1>4, CacheInv, Zenon
<1>5. CASE Crash
  BY <1>5, CrashInv, Zenon
<1>6. CASE UNCHANGED vars
  BY <1>6, StutterInv, Zenon
<1> QED
  BY <1>1, <1>2, <1>3, <1>4, <1>5, <1>6, Zenon DEF Next

\* The invariant holds in every reachable state.
LEMMA LogInv ==
  ASSUME SlackAssumption
  PROVE  Spec => []Inv
BY InitInv, NextInv, PTL DEF Spec

-----------------------------------------------------------------------------
(* The properties.                                                         *)

\* Whatever the calls write and whenever the machine crashes, log_write() and
\* end_op() reach none of their panics, and a block is pinned exactly once
\* from log_write() to install_trans().
THEOREM LogNeverOverflows ==
  ASSUME SlackAssumption
  PROVE  Spec => []LogFits
<1>1. Inv => LogFits
  BY Zenon DEF Inv, LogFits, PinInv
<1> QED
  BY <1>1, LogInv, PTL

\* A process asleep in begin_op() has a committer or an outstanding call that
\* will call wakeup(&log).
THEOREM LogNoLostWakeup ==
  ASSUME SlackAssumption
  PROVE  Spec => []SleepersHaveWaker
<1>1. Inv => SleepersHaveWaker
  BY SMTT(20), Zenon DEF Inv
<1> QED
  BY <1>1, LogInv, PTL

\* What recovery makes of a header, the log slots and the home blocks: a block
\* of the header gets its log slot, another block keeps what is at its home.
RecoveredOf(d, l, h) ==
  [b \in Blocks |-> IF \E i \in 1..Len(d) : d[i] = b
                    THEN l[CHOOSE i \in 1..Len(d) : d[i] = b]
                    ELSE h[b]]

\* The log slot is unique: no block is twice in a header.
LEMMA RecoveredOfIs ==
  ASSUME NEW d, NEW l, NEW h, Distinct(d), NEW b \in Blocks
  PROVE  /\ \A i \in 1..Len(d) : d[i] = b => RecoveredOf(d, l, h)[b] = l[i]
         /\ (\A i \in 1..Len(d) : d[i] # b) => RecoveredOf(d, l, h)[b] = h[b]
<1> DEFINE slot == CHOOSE j \in 1..Len(d) : d[j] = b
<1>1. RecoveredOf(d, l, h)[b] = IF \E i \in 1..Len(d) : d[i] = b THEN l[slot] ELSE h[b]
  BY Zenon DEF RecoveredOf
<1>2. ASSUME NEW i \in 1..Len(d), d[i] = b
      PROVE  RecoveredOf(d, l, h)[b] = l[i]
  <2>1. slot \in 1..Len(d) /\ d[slot] = b
    BY <1>2, Zenon
  <2>2. slot = i
    BY <1>2, <2>1, Zenon DEF Distinct
  <2> QED
    BY <1>1, <1>2, <2>2, Zenon
<1> QED
  BY <1>1, <1>2, Zenon

\* The same for Recovered.
LEMMA RecoveredIs ==
  ASSUME Inv
  PROVE  \A b \in Blocks :
           /\ \A i \in 1..Len(hdr) : hdr[i] = b => Recovered[b] = logd[i]
           /\ (\A i \in 1..Len(hdr) : hdr[i] # b) => Recovered[b] = home[b]
<1>1. Recovered = RecoveredOf(hdr, logd, home) /\ Distinct(hdr)
  BY Zenon DEF Recovered, RecoveredOf, Inv, SpaceInv
<1> QED
  BY <1>1, RecoveredOfIs

\* The same after a step.
LEMMA RecoveredNextIs ==
  ASSUME Inv'
  PROVE  \A b \in Blocks :
           /\ \A i \in 1..Len(hdr') : hdr'[i] = b => Recovered'[b] = logd'[i]
           /\ (\A i \in 1..Len(hdr') : hdr'[i] # b) => Recovered'[b] = home'[b]
<1>1. Recovered' = RecoveredOf(hdr', logd', home') /\ Distinct(hdr')
  BY Zenon DEF Recovered, RecoveredOf, Inv, SpaceInv, Distinct
<1> QED
  BY <1>1, RecoveredOfIs

\* When every block of the header is at its home, so is what was committed.
LEMMA NothingToRecover ==
  ASSUME Inv, \A i \in 1..Len(hdr) : home[hdr[i]] = logd[i]
  PROVE  \A b \in Blocks : Recovered[b] = home[b]
BY RecoveredIs, Zenon

\* bread() finds the contents in the cache as long as install_trans() has not
\* written them home, and any other block is the same in both places.
LEMMA BreadIs ==
  ASSUME Inv, NEW b \in Blocks
  PROVE  /\ NotInstalled(b) => cache[b] # NoBuf /\ Bread(b) = cache[b]
         /\ ~NotInstalled(b) => Bread(b) = home[b]
<1>1. IF NotInstalled(b) THEN cache[b] # NoBuf ELSE cache[b] \in {NoBuf, home[b]}
  BY Zenon DEF Inv, DataInv
<1> QED
  BY <1>1, Zenon DEF Bread

\* With no call in progress and no commit running, what the kernel reads is
\* what it would read after a crash.
THEOREM LogDurable ==
  ASSUME SlackAssumption
  PROVE  Spec => []DurableWhenQuiet
<1>1. ASSUME Inv, ~Recovering, ~committing, outstanding = 0
      PROVE  Visible = Recovered
  <2>1. Ops = {} /\ phase = "run"
    BY <1>1, SpareBounded, FS_EmptySet, Zenon DEF Inv, ControlInv, TypeOK, Recovering, Committing
  <2>2. Len(lh) = 0 /\ Len(hdr) = 0
    BY <1>1, <2>1, Zenon DEF Inv, ControlInv
  <2>3. \A b \in Blocks : Bread(b) = home[b]
    BY <1>1, <2>2, BreadIs DEF NotInstalled
  <2>4. \A b \in Blocks : Recovered[b] = home[b]
    BY <1>1, <2>2, NothingToRecover
  <2>5. Recovered = [b \in Blocks |-> Recovered[b]]
    BY Zenon DEF Recovered
  <2>6. Visible = [b \in Blocks |-> Bread(b)]
    BY <1>1, Zenon DEF Visible
  <2> QED
    BY <2>3, <2>4, <2>5, <2>6, Zenon
<1>2. Inv => DurableWhenQuiet
  BY <1>1, Zenon DEF DurableWhenQuiet
<1> QED
  BY <1>2, LogInv, PTL

-----------------------------------------------------------------------------
(***************************************************************************)
(* kernel/log.c implements StableDisk: every step of Log, in a state that  *)
(* satisfies the invariant, is a step of the abstract disk or changes      *)
(* nothing of it.                                                          *)
(***************************************************************************)

\* Two states of the abstract disk are compared block by block.
LEMMA ByBlock ==
  /\ Recovered = [b \in Blocks |-> Recovered[b]] /\ Recovered' = [b \in Blocks |-> Recovered'[b]]
  /\ Visible = [b \in Blocks |-> Visible[b]] /\ Visible' = [b \in Blocks |-> Visible'[b]]
  /\ \A b \in Blocks : /\ Visible[b] = IF Recovering THEN Recovered[b] ELSE Bread(b)
                       /\ Visible'[b] = IF Recovering' THEN Recovered'[b] ELSE Bread(b)'
BY Zenon DEF Recovered, Visible

\* A step that is invisible to the calls and changes nothing that was
\* committed is a step of StableDisk that changes nothing.
LEMMA Invisible ==
  ASSUME \A b \in Blocks : Recovered'[b] = Recovered[b] /\ Visible'[b] = Visible[b], Ops' = Ops
  PROVE  UNCHANGED Stable!svars
<1>1. Recovered' = Recovered /\ Visible' = Visible
  BY ByBlock, Zenon
<1> QED
  BY <1>1, Zenon DEF Stable!svars, Ops, OpsOf

\* Nothing of what was committed changes while the disk does not.
LEMMA DiskFrame ==
  ASSUME UNCHANGED disk
  PROVE  Recovered' = Recovered
BY Zenon DEF disk, Recovered

\* Copying log slots to the homes of the header's blocks changes nothing that
\* was committed.
LEMMA SlotsRecover ==
  ASSUME Inv, Inv', hdr' = hdr, logd' = logd,
         \A b \in Blocks : (\A i \in 1..Len(hdr) : hdr[i] # b) => home'[b] = home[b]
  PROVE  \A b \in Blocks : Recovered'[b] = Recovered[b]
<1> SUFFICES ASSUME NEW b \in Blocks PROVE Recovered'[b] = Recovered[b]
  OBVIOUS
<1>1. ASSUME NEW i \in 1..Len(hdr), hdr[i] = b
      PROVE  Recovered'[b] = Recovered[b]
  <2>1. Recovered[b] = logd[i]
    BY <1>1, RecoveredIs, Zenon
  <2>2. Recovered'[b] = logd[i]
    BY <1>1, RecoveredNextIs, Zenon
  <2> QED
    BY <2>1, <2>2, Zenon
<1>2. ASSUME \A i \in 1..Len(hdr) : hdr[i] # b
      PROVE  Recovered'[b] = Recovered[b]
  BY <1>2, RecoveredIs, RecoveredNextIs
<1> QED
  BY <1>1, <1>2, Zenon

\* recover_from_log() is invisible: the calls see what it will restore.
LEMMA RecoverRefines ==
  ASSUME Inv, Inv', Recover
  PROVE  UNCHANGED Stable!svars
<1>1. CASE ReadHead
  <2>1. UNCHANGED disk /\ Recovering /\ Recovering'
    BY <1>1, Zenon DEF ReadHead, Recovering
  <2>2. Ops' = Ops
    BY <1>1, CallFrame, Zenon DEF ReadHead
  <2> QED
    BY <2>1, <2>2, DiskFrame, ByBlock, Invisible, Zenon
<1>2. CASE Reinstall
  <2>1. /\ hdr' = hdr /\ logd' = logd /\ Recovering /\ Recovering' /\ tail \in 1..Len(hdr)
        /\ \A b \in Blocks : b # hdr[tail] => home'[b] = home[b]
    BY <1>2 DEF Reinstall, Recovering, Inv, ControlInv, TypeOK
  <2>2. \A b \in Blocks : Recovered'[b] = Recovered[b]
    BY <2>1, SlotsRecover, Zenon
  <2>3. Ops' = Ops
    BY <1>2, CallFrame, Zenon DEF Reinstall
  <2> QED
    BY <2>1, <2>2, <2>3, ByBlock, Invisible, Zenon
<1>3. CASE Reerase
  <2>1. /\ Len(hdr') = 0 /\ home' = home /\ Recovering /\ ~Recovering' /\ cache' = cache
        /\ hdr = lh
    BY <1>3, Zenon DEF Reerase, Recovering, Inv, ControlInv
  <2>2. \A i \in 1..Len(hdr) : home[hdr[i]] = logd[i]
    BY <1>3, <2>1, Zenon DEF Reerase, Inv, DataInv
  <2>3. \A b \in Blocks : Recovered'[b] = home[b] /\ Recovered[b] = home[b]
    BY <2>1, <2>2, NothingToRecover, RecoveredNextIs
  <2>4. \A b \in Blocks : Bread(b)' = home[b]
    BY <2>1, Zenon DEF Bread, Inv, DataInv, NotInstalled
  <2>5. Ops' = Ops
    BY <1>3, CallFrame, Zenon DEF Reerase
  <2> QED
    BY <2>1, <2>3, <2>4, <2>5, ByBlock, Invisible, Zenon
<1> QED
  BY <1>1, <1>2, <1>3, Zenon DEF Recover

\* In commit() the header block's write is the commit of StableDisk; the rest
\* is invisible.
LEMMA CommitRefines ==
  ASSUME Inv, Inv', Commit
  PROVE  Stable!SCommit \/ UNCHANGED Stable!svars
<1>1. CASE WriteLog
  <2>1. /\ hdr' = hdr /\ Len(hdr) = 0 /\ home' = home /\ ~Recovering /\ ~Recovering'
    BY <1>1, Zenon DEF WriteLog, Recovering, Inv, ControlInv
  <2>2. \A b \in Blocks : Recovered'[b] = Recovered[b]
    BY <2>1, RecoveredIs, RecoveredNextIs
  <2>3. \A b \in Blocks : Bread(b)' = Bread(b)
    <3>1. cache' = [cache EXCEPT ![lh[tail]] = Bread(lh[tail])]
      BY <1>1, Zenon DEF WriteLog
    <3>2. lh[tail] \in Blocks /\ cache[lh[tail]] # NoBuf
      BY <1>1, CommitFacts, Zenon DEF WriteLog, Inv, DataInv
    <3> QED
      BY <2>1, <3>1, <3>2, Zenon DEF Bread, Inv, TypeOK
  <2>4. Ops' = Ops
    BY <1>1, CallFrame, Zenon DEF WriteLog
  <2> QED
    BY <2>1, <2>2, <2>3, <2>4, ByBlock, Invisible
<1>2. CASE WriteHead
  <2>1. /\ hdr' = lh /\ UNCHANGED <<home, logd, cache, lh, pc, written>> /\ ~Recovering /\ ~Recovering'
        /\ Ops = {} /\ phase = "write_head"
    BY <1>2, Zenon DEF WriteHead, mem, Recovering, Inv, ControlInv
  <2>2. \A b \in Blocks : (NotInstalled(b) <=> InLog(b))
    BY <2>1, Zenon DEF NotInstalled, Recovering, InLog
  <2>3. ASSUME NEW b \in Blocks
        PROVE  Recovered'[b] = Bread(b)
    <3>1. CASE InLog(b)
      <4>1. PICK i \in 1..Len(lh) : lh[i] = b
        BY <3>1, Zenon DEF InLog
      <4>2. Recovered'[b] = logd[i]
        BY <2>1, <4>1, RecoveredNextIs, Zenon
      <4>3. logd[i] = cache[b]
        BY <2>1, <4>1, Zenon DEF Inv, DataInv
      <4>4. Bread(b) = cache[b]
        BY <2>2, <3>1, BreadIs, Zenon
      <4> QED
        BY <4>2, <4>3, <4>4, Zenon
    <3>2. CASE ~InLog(b)
      <4>1. \A i \in 1..Len(hdr') : hdr'[i] # b
        BY <2>1, <3>2, Zenon DEF InLog
      <4>2. Recovered'[b] = home'[b]
        BY <4>1, RecoveredNextIs, Zenon
      <4>3. Bread(b) = home[b]
        BY <2>2, <3>2, BreadIs, Zenon
      <4> QED
        BY <2>1, <4>2, <4>3, Zenon
    <3> QED
      BY <3>1, <3>2, Zenon
  <2>4. \A b \in Blocks : Bread(b)' = Bread(b)
    BY <2>1, Zenon DEF Bread
  <2>5. Recovered' = Visible /\ Visible' = Visible
    BY <2>1, <2>3, <2>4, ByBlock
  <2>6. Ops' = Ops
    BY <2>1, CallFrame, Zenon
  <2> QED
    BY <2>1, <2>5, <2>6, Zenon DEF Stable!SCommit, Ops, OpsOf
<1>3. CASE Install
  <2>1. /\ hdr' = hdr /\ logd' = logd /\ ~Recovering /\ ~Recovering' /\ hdr = lh
        /\ tail \in 1..Len(lh) /\ lh[tail] \in Blocks /\ NotInstalled(lh[tail])
    BY <1>3, CommitFacts, Zenon DEF Install, Recovering, Inv, ControlInv
  <2>2. \A b \in Blocks : b # lh[tail] => home'[b] = home[b] /\ cache'[b] = cache[b]
    BY <1>3, <2>1, Zenon DEF Install, Inv, TypeOK
  <2>3. \A b \in Blocks : Recovered'[b] = Recovered[b]
    BY <2>1, <2>2, SlotsRecover, Zenon
  <2>4. cache'[lh[tail]] = cache[lh[tail]] /\ cache[lh[tail]] # NoBuf
    <3>1. cache'[lh[tail]] = logd[tail]
      BY <1>3, <2>1, Zenon DEF Install, Inv, TypeOK
    <3>2. logd[tail] = cache[lh[tail]] /\ cache[lh[tail]] # NoBuf
      BY <1>3, <2>1 DEF Install, Inv, DataInv, TypeOK
    <3> QED
      BY <3>1, <3>2, Zenon
  <2>5. \A b \in Blocks : Bread(b)' = Bread(b)
    BY <2>1, <2>2, <2>4, Zenon DEF Bread
  <2>6. Ops' = Ops
    BY <1>3, CallFrame, Zenon DEF Install
  <2> QED
    BY <2>1, <2>3, <2>5, <2>6, ByBlock, Invisible
<1>4. CASE Erase
  <2>1. /\ Len(hdr') = 0 /\ home' = home /\ ~Recovering /\ ~Recovering' /\ cache' = cache
        /\ hdr = lh
    BY <1>4, Zenon DEF Erase, Recovering, Inv, ControlInv
  <2>2. \A i \in 1..Len(hdr) : home[hdr[i]] = logd[i]
    BY <1>4, <2>1, Zenon DEF Erase, Inv, DataInv
  <2>3. \A b \in Blocks : Recovered'[b] = home[b] /\ Recovered[b] = home[b]
    BY <2>1, <2>2, NothingToRecover, RecoveredNextIs
  <2>4. \A b \in Blocks : Bread(b)' = Bread(b)
    BY <2>1, Zenon DEF Bread
  <2>5. Ops' = Ops
    BY <1>4, CallFrame, Zenon DEF Erase
  <2> QED
    BY <2>1, <2>3, <2>4, <2>5, ByBlock, Invisible, Zenon
<1>5. CASE CommitDone
  <2>1. /\ UNCHANGED disk /\ cache' = cache /\ home' = home /\ ~Recovering /\ ~Recovering'
        /\ \A q \in Procs : pc'[q] = "op" <=> pc[q] = "op"
    BY <1>5, Zenon DEF CommitDone, Wakeup, disk, Recovering, Inv, TypeOK
  <2>2. Ops' = Ops
    BY <2>1, Zenon DEF Ops, OpsOf
  <2>3. \A b \in Blocks : Bread(b)' = Bread(b)
    BY <2>1, Zenon DEF Bread
  <2> QED
    BY <2>1, <2>2, <2>3, DiskFrame, ByBlock, Invisible, Zenon
<1> QED
  BY <1>1, <1>2, <1>3, <1>4, <1>5, Zenon DEF Commit

\* A call begins and ends in StableDisk when log.outstanding changes, and
\* log_write() is its write.
LEMMA OpRefines ==
  ASSUME SlackAssumption, Inv, Inv', NEW p \in Procs, Op(p)
  PROVE  Stable!SNext \/ UNCHANGED Stable!svars
<1> USE DEF disk
<1>1. CASE StartOp(p)
  <2>1. /\ UNCHANGED disk /\ cache' = cache /\ home' = home /\ ~Recovering /\ ~Recovering'
    BY <1>1, Zenon DEF StartOp, mem, Recovering
  <2>2. Ops' = Ops
    BY <1>1, Zenon DEF Ops, OpsOf, StartOp, Inv, TypeOK
  <2>3. \A b \in Blocks : Bread(b)' = Bread(b)
    BY <2>1, Zenon DEF Bread
  <2> QED
    BY <2>1, <2>2, <2>3, DiskFrame, ByBlock, Invisible, Zenon
<1>2. CASE BeginOp(p)
  <2>1. UNCHANGED disk /\ cache' = cache /\ home' = home /\ (Recovering' <=> Recovering)
    BY <1>2, Zenon DEF BeginOp, Recovering
  <2>2. \A b \in Blocks : Bread(b)' = Bread(b)
    BY <2>1, Zenon DEF Bread
  <2>3. Recovered' = Recovered /\ Visible' = Visible
    BY <2>1, <2>2, DiskFrame, ByBlock
  <2>4. CASE MustWait
    <3>1. Ops' = Ops
      BY <1>2, <2>4, Zenon DEF Ops, OpsOf, BeginOp, Inv, TypeOK
    <3> QED
      BY <2>3, <3>1, Invisible, Zenon
  <2>5. CASE ~MustWait
    <3>1. p \notin Ops /\ Ops' = Ops \cup {p}
      BY <1>2, <2>5 DEF Ops, OpsOf, BeginOp, Inv, TypeOK
    <3>2. Stable!SBegin(p)
      BY <2>3, <3>1, Zenon DEF Stable!SBegin, Ops, OpsOf
    <3> QED
      BY <3>2, Zenon DEF Stable!SNext
  <2> QED
    BY <2>4, <2>5, Zenon
<1>3. ASSUME NEW b \in Blocks, NEW v \in Vals, LogWrite(p, b, v)
      PROVE  Stable!SNext
  <2>1. phase = "run" /\ ~Recovering /\ ~Recovering' /\ UNCHANGED disk /\ home' = home /\ p \in Ops
    BY <1>3, RoomForWrite, Zenon DEF LogWrite, Recovering, Ops, OpsOf
  <2>2. Recovered' = Recovered
    BY <2>1, DiskFrame, Zenon
  <2>3. \A c \in Blocks : Bread(c)' = IF c = b THEN v ELSE Bread(c)
    BY <1>3, <2>1, LogAssumption, Zenon DEF LogWrite, Bread, Inv, TypeOK, LogAssumption
  <2>4. Visible' = [Visible EXCEPT ![b] = v]
    BY <2>1, <2>3, ByBlock
  <2>5. Ops' = Ops
    BY <1>3, Zenon DEF LogWrite, Ops, OpsOf
  <2>6. Stable!SWrite(p, b, v)
    BY <2>1, <2>2, <2>4, <2>5, Zenon DEF Stable!SWrite, Ops, OpsOf
  <2> QED
    BY <2>6, Zenon DEF Stable!SNext
<1>4. CASE EndOp(p) \/ EndLastOp(p)
  <2>1. phase = "run" /\ ~Recovering /\ ~Recovering' /\ UNCHANGED disk /\ home' = home /\ cache' = cache
    BY <1>4, RoomForWrite, Zenon DEF EndOp, EndLastOp, Recovering
  <2>2. \A b \in Blocks : Bread(b)' = Bread(b)
    BY <2>1, Zenon DEF Bread
  <2>3. Recovered' = Recovered /\ Visible' = Visible
    BY <2>1, <2>2, DiskFrame, ByBlock
  <2>4. pc[p] = "op" /\ \A q \in Procs : pc'[q] = "op" <=> pc[q] = "op" /\ q # p
    BY <1>4, Zenon DEF EndOp, EndLastOp, Wakeup, Inv, TypeOK
  <2>5. p \in Ops /\ Ops' = Ops \ {p}
    BY <2>4, Zenon DEF Ops, OpsOf
  <2>6. Stable!SEnd(p)
    BY <2>3, <2>5, Zenon DEF Stable!SEnd, Ops, OpsOf
  <2> QED
    BY <2>6, Zenon DEF Stable!SNext
<1> QED
  BY <1>1, <1>2, <1>3, <1>4, Zenon DEF Op

\* Loading and recycling a buffer are invisible: what is recycled is clean.
LEMMA CacheRefines ==
  ASSUME Inv, Inv', NEW b \in Blocks, Load(b) \/ Evict(b)
  PROVE  UNCHANGED Stable!svars
<1>1. UNCHANGED <<home, logd, hdr, phase, pc, written>>
  BY Zenon DEF Load, Evict, disk
<1>2. Bread(b) = home[b] /\ Bread(b)' = home[b]
  <2>1. CASE Load(b)
    BY <2>1, Zenon DEF Load, Bread, Inv, TypeOK, disk
  <2>2. CASE Evict(b)
    <3>1. ~NotInstalled(b)
      BY <2>2 DEF Evict, Inv, PinInv
    <3>2. Bread(b) = home[b]
      BY <3>1, BreadIs, Zenon
    <3>3. cache'[b] = NoBuf
      BY <2>2, Zenon DEF Evict, Inv, TypeOK
    <3> QED
      BY <1>1, <3>2, <3>3, Zenon DEF Bread
  <2> QED
    BY <2>1, <2>2, Zenon
<1>3. \A c \in Blocks : c # b => Bread(c)' = Bread(c)
  BY <1>1, Zenon DEF Load, Evict, Bread, Inv, TypeOK
<1>4. Recovered' = Recovered /\ Ops' = Ops /\ (Recovering' <=> Recovering)
  BY <1>1, DiskFrame, CallFrame, Zenon DEF disk, Recovering
<1> QED
  BY <1>2, <1>3, <1>4, ByBlock, Invisible, Zenon

\* A power failure takes the abstract disk back to what was committed.
LEMMA CrashRefines ==
  ASSUME Crash
  PROVE  Stable!SCrash
<1>1. UNCHANGED disk /\ Recovering' /\ Ops' = {}
  BY Zenon DEF Crash, Recovering, Ops, OpsOf
<1>2. Recovered' = Recovered
  BY <1>1, DiskFrame, Zenon
<1>3. Visible' = Recovered
  BY <1>1, <1>2, ByBlock, Zenon
<1> QED
  BY <1>1, <1>2, <1>3, Zenon DEF Stable!SCrash, Ops, OpsOf

\* log.c implements StableDisk, for any calls, any interleaving and crashes
\* anywhere, in recovery too: what a reboot finds is what the kernel saw at
\* a moment when no call was between begin_op() and end_op().
THEOREM LogCrashAtomic ==
  ASSUME SlackAssumption
  PROVE  Spec => CrashAtomic
<1>1. Init => Stable!SInit
  <2> SUFFICES ASSUME Init PROVE Stable!SInit
    OBVIOUS
  <2>1. Recovering /\ Len(hdr) = 0 /\ home \in [Blocks -> Vals] /\ Ops = {}
    BY Zenon DEF Init, Recovering, Ops, OpsOf
  <2>2. \A b \in Blocks : Recovered[b] = home[b]
    BY <2>1, InitInv, RecoveredIs
  <2>3. Visible = Recovered /\ Recovered \in [Blocks -> Vals]
    BY <2>1, <2>2, ByBlock, Zenon
  <2> QED
    BY <2>1, <2>3, Zenon DEF Stable!SInit, Ops, OpsOf
<1>2. Inv /\ Inv' /\ [Next]_vars => [Stable!SNext]_(Stable!svars)
  <2> SUFFICES ASSUME Inv, Inv', [Next]_vars
               PROVE  Stable!SNext \/ UNCHANGED Stable!svars
    OBVIOUS
  <2>1. CASE Recover
    BY <2>1, RecoverRefines, Zenon
  <2>2. CASE Commit
    BY <2>2, CommitRefines, Zenon DEF Stable!SNext
  <2>3. CASE \E p \in Procs : Op(p)
    BY <2>3, OpRefines, Zenon
  <2>4. CASE \E b \in Blocks : Load(b) \/ Evict(b)
    BY <2>4, CacheRefines, Zenon
  <2>5. CASE Crash
    BY <2>5, CrashRefines, Zenon DEF Stable!SNext
  <2>6. CASE UNCHANGED vars
    BY <2>6, Zenon DEF vars, Stable!svars, Visible, Recovered, Recovering, Bread
  <2> QED
    BY <2>1, <2>2, <2>3, <2>4, <2>5, <2>6, Zenon DEF Next
<1> QED
  BY <1>1, <1>2, LogInv, PTL DEF Spec, CrashAtomic, Stable!SSpec
=============================================================================
