-------------------------------- MODULE Mem --------------------------------
(***************************************************************************)
(* User memory: the page allocator of kernel/kalloc.c, the page tables of  *)
(* kernel/vm.c, and the calls that build and free them - fork(), exec(),   *)
(* sbrk(), exit()/wait() - with kalloc() failing at any point of any loop. *)
(*                                                                         *)
(* Page tables are those of module Vm; physical pages are counted, not     *)
(* named.  A process touches only its own tables (and those of the child   *)
(* it is making), so what it frees on the way out of an error is one       *)
(* action.                                                                 *)
(***************************************************************************)
EXTENDS Vm

CONSTANTS
  Procs,      \* slots of the process table
  InitProc,   \* the process of userinit()
  NPages,     \* pages between the kernel and PHYSTOP
  USERSTACK,  \* pages of user stack
  MAXARG,     \* elements of sys_exec()'s argv[] (32)
  Sizes,      \* bound: bytes asked for in one sbrk() or segment
  Lens,       \* bound: bytes of an argument string
  None

VARIABLES
  free,    \* length of kmem.freelist
  state,   \* p -> p->state: "UNUSED", "USED", "RUNNABLE" or "ZOMBIE"
  tf,      \* p -> p->trapframe is allocated
  sz,      \* p -> p->sz
  tab,     \* p -> p->pagetable ("cur") and exec()'s pagetable ("new")
  pc,      \* p -> what its kernel thread does next
  tgt,     \* p -> the table under construction: <<slot, "cur" or "new">>
  a,       \* p -> loop variable of uvmalloc() or uvmcopy()
  base,    \* p -> oldsz of uvmalloc()
  lim,     \* p -> newsz of uvmalloc(), sz of uvmcopy()
  nsz,     \* p -> sz of exec()
  perm,    \* p -> xperm of uvmalloc()
  hand,    \* p -> mem: allocated, not mapped yet
  argv,    \* p -> pages in sys_exec()'s argv[]
  panicked

slots == <<state, tf, sz, tab>>
locals == <<tgt, a, base, lim, nsz, perm, hand, argv>>
vars == <<free, slots, pc, locals, panicked>>

\* No process can grow up to its trapframe.
ASSUME MemAssumption ==
  /\ InitProc \in Procs
  /\ PTES \in Nat \ {0} /\ PGSIZE \in Nat \ {0} /\ USERSTACK \in Nat \ {0}
  /\ MAXARG \in Nat \ {0} /\ WORD \in Nat \ {0}
  /\ \A n \in Lens : n \in 1..PGSIZE
  /\ NPages < TRAMPOLINE - 1

-----------------------------------------------------------------------------
\* userinit(): one page at 0, uvmfirst().
FirstTable ==
  [nodes |-> {Root} \cup UNION {{Path(v)[1], Path(v)[2]} : v \in Fixed \cup {0}},
   pte |-> [v \in Fixed \cup {0} |-> IF v = 0 THEN {"U", "W"} ELSE FixedPte(v)]]

Init ==
  /\ free = NPages - Cardinality(FirstTable.nodes) - 2
  /\ state = [p \in Procs |-> IF p = InitProc THEN "RUNNABLE" ELSE "UNUSED"]
  /\ tf = [p \in Procs |-> p = InitProc]
  /\ sz = [p \in Procs |-> IF p = InitProc THEN PGSIZE ELSE 0]
  /\ tab = [p \in Procs |-> [cur |-> IF p = InitProc THEN FirstTable ELSE Empty,
                             new |-> Empty]]
  /\ pc = [p \in Procs |-> "user"]
  /\ tgt = [p \in Procs |-> None]
  /\ a = [p \in Procs |-> 0] /\ base = [p \in Procs |-> 0] /\ lim = [p \in Procs |-> 0]
  /\ nsz = [p \in Procs |-> 0]
  /\ perm = [p \in Procs |-> {}]
  /\ hand = [p \in Procs |-> FALSE]
  /\ argv = [p \in Procs |-> 0]
  /\ panicked = FALSE

User(p) == state[p] = "RUNNABLE" /\ pc[p] = "user"
Goto(p, l) == pc' = [pc EXCEPT ![p] = l]
Kalloc == free > 0 /\ free' = free - 1
Kfree(n) == free' = free + n

\* The table p builds, and its new value.
T(p) == tab[tgt[p][1]][tgt[p][2]]
SetT(p, t) == tab' = [tab EXCEPT ![tgt[p][1]][tgt[p][2]] = t]

\* uvmalloc() or a whole call is over: its locals are dead.
Allocated(p) ==
  /\ a' = [a EXCEPT ![p] = 0]
  /\ base' = [base EXCEPT ![p] = 0]
  /\ lim' = [lim EXCEPT ![p] = 0]
  /\ perm' = [perm EXCEPT ![p] = {}]

Return(p) ==
  /\ Goto(p, "user")
  /\ Allocated(p)
  /\ tgt' = [tgt EXCEPT ![p] = None]
  /\ nsz' = [nsz EXCEPT ![p] = 0]
  /\ hand' = [hand EXCEPT ![p] = FALSE]
  /\ argv' = [argv EXCEPT ![p] = 0]

-----------------------------------------------------------------------------
(* walk() and mappages(), one page-table page at a time                    *)

Vpn(p) == CASE pc[p] = "tramp"  -> TRAMPOLINE
            [] pc[p] = "tframe" -> TRAPFRAME
            [] OTHER            -> a[p] \div PGSIZE

Mapping(p) == pc[p] \in {"tramp", "tframe", "map"}
Missing(p) == {i \in 1..2 : Path(Vpn(p))[i] \notin T(p).nodes}

\* walk() needs another page-table page.
Walk(p) ==
  /\ Mapping(p) /\ Missing(p) # {}
  /\ Kalloc
  /\ SetT(p, [T(p) EXCEPT !.nodes = @ \cup {Path(Vpn(p))[IF 1 \in Missing(p) THEN 1 ELSE 2]}])
  /\ UNCHANGED <<state, tf, sz, pc, locals, panicked>>

\* The flags of the new entry; uvmcopy() takes those of the parent's.
Flags(p) ==
  CASE pc[p] # "map"       -> FixedPte(Vpn(p))
    [] tgt[p][3] = "copy"  -> tab[p].cur.pte[Vpn(p)]
    [] OTHER               -> perm[p] \cup {"U"}

\* walk() has come to the entry: *pte = PA2PTE(pa) | perm | PTE_V.
Mappages(p) ==
  /\ Mapping(p) /\ Missing(p) = {}
  /\ panicked' = (Vpn(p) \in Pages(T(p)))
  /\ SetT(p, SetPte(T(p), Vpn(p), Flags(p)))
  /\ hand' = [hand EXCEPT ![p] = FALSE]
  /\ a' = [a EXCEPT ![p] = IF pc[p] = "map" THEN @ + PGSIZE ELSE @]
  /\ Goto(p, CASE pc[p] = "tramp" -> "tframe"
               [] pc[p] = "tframe" /\ tgt[p][3] = "seg" -> "seg"
               [] OTHER -> "kalloc")
  /\ UNCHANGED <<free, state, tf, sz, tgt, base, lim, nsz, perm, argv>>

-----------------------------------------------------------------------------
(* allocproc() and proc_pagetable(), for fork() and exec()                 *)

\* fork(): allocproc() has found np; uvmcopy() will run from 0 to p->sz.
Fork(p, np) ==
  /\ User(p)
  /\ state[np] = "UNUSED"
  /\ state' = [state EXCEPT ![np] = "USED"]
  /\ tgt' = [tgt EXCEPT ![p] = <<np, "cur", "copy">>]
  /\ lim' = [lim EXCEPT ![p] = sz[p]]
  /\ Goto(p, "trapframe")
  /\ UNCHANGED <<free, tf, sz, tab, a, base, nsz, perm, hand, argv, panicked>>

Trapframe(p) ==
  /\ pc[p] = "trapframe"
  /\ Kalloc
  /\ tf' = [tf EXCEPT ![tgt[p][1]] = TRUE]
  /\ Goto(p, "root")
  /\ UNCHANGED <<state, sz, tab, locals, panicked>>

TrapframeFail(p) ==
  /\ pc[p] = "trapframe"
  /\ free = 0
  /\ state' = [state EXCEPT ![tgt[p][1]] = "UNUSED"]
  /\ Return(p)
  /\ UNCHANGED <<free, tf, sz, tab, panicked>>

\* sys_exec(): the path is there; argv[] is fetched string by string.
SysExec(p) ==
  /\ User(p)
  /\ Goto(p, "argv")
  /\ UNCHANGED <<free, slots, locals, panicked>>

\* argv[i] = kalloc().
FetchArg(p) ==
  /\ pc[p] = "argv" /\ argv[p] < MAXARG
  /\ Kalloc
  /\ argv' = [argv EXCEPT ![p] = @ + 1]
  /\ UNCHANGED <<slots, pc, tgt, a, base, lim, nsz, perm, hand, panicked>>

\* bad: of sys_exec(): too many strings, no page, or an address that
\* fetchaddr() or fetchstr() refuses; or exec() does not find a good file.
ArgBad(p) ==
  /\ pc[p] = "argv"
  /\ Kfree(argv[p])
  /\ Return(p)
  /\ UNCHANGED <<slots, panicked>>

\* exec(): argv[] ends with a 0, the file is there and its header is good.
Exec(p) ==
  /\ pc[p] = "argv" /\ argv[p] < MAXARG
  /\ tgt' = [tgt EXCEPT ![p] = <<p, "new", "seg">>]
  /\ Goto(p, "root")
  /\ UNCHANGED <<free, slots, a, base, lim, nsz, perm, hand, argv, panicked>>

Uvmcreate(p) ==
  /\ pc[p] = "root"
  /\ Kalloc
  /\ SetT(p, [nodes |-> {Root}, pte |-> NoPte])
  /\ Goto(p, "tramp")
  /\ UNCHANGED <<state, tf, sz, locals, panicked>>

\* proc_pagetable() undoes its work and returns 0; fork() then calls
\* freeproc(np), which frees the trapframe, and exec() has nothing to free.
ProcPagetableFail(p) ==
  LET np == tgt[p][1]
      forking == tgt[p][3] = "copy" IN
  /\ pc[p] = "root" \/ (pc[p] \in {"tramp", "tframe"} /\ Missing(p) # {})
  /\ free = 0
  /\ free' = Cardinality(T(p).nodes) + argv[p] + IF forking THEN 1 ELSE 0
  /\ panicked' = (Pages(T(p)) # IF pc[p] = "tframe" THEN {TRAMPOLINE} ELSE {})
  /\ SetT(p, Empty)
  /\ tf' = IF forking THEN [tf EXCEPT ![np] = FALSE] ELSE tf
  /\ state' = IF forking THEN [state EXCEPT ![np] = "UNUSED"] ELSE state
  /\ Return(p)
  /\ UNCHANGED <<sz>>

-----------------------------------------------------------------------------
(* The loops of uvmalloc() and uvmcopy()                                   *)

\* mem = kalloc(); uvmcopy() panics if the parent's page is not there.
AllocPage(p) ==
  /\ pc[p] = "kalloc" /\ a[p] < lim[p]
  /\ Kalloc
  /\ hand' = [hand EXCEPT ![p] = TRUE]
  /\ panicked' = (tgt[p][3] = "copy" /\ Vpn(p) \notin Pages(tab[p].cur))
  /\ Goto(p, "map")
  /\ UNCHANGED <<slots, tgt, a, base, lim, nsz, perm, argv>>

\* kalloc() fails, for the page or for a page of the page table.
PageFails(p) ==
  /\ \/ pc[p] = "kalloc" /\ a[p] < lim[p]
     \/ pc[p] = "map" /\ Missing(p) # {}
  /\ free = 0

InHand(p) == IF hand[p] THEN 1 ELSE 0

\* Mutant: uvmcopy() does not kfree(mem) when mappages() fails.
CopyFail_KeepsMem(p) ==
  LET np == tgt[p][1]
      done == Range0(0, a[p])
      t == Uvmunmap(T(p), done) IN
  /\ tgt[p] # None /\ tgt[p][3] = "copy"
  /\ PageFails(p)
  /\ free' = Cardinality(done) + 1 + Freed(t, sz[np])
  /\ panicked' = (~(done \subseteq Pages(T(p))) \/ BadFree(t, sz[np]))
  /\ SetT(p, Empty)
  /\ tf' = [tf EXCEPT ![np] = FALSE]
  /\ state' = [state EXCEPT ![np] = "UNUSED"]
  /\ Return(p)
  /\ UNCHANGED <<sz>>

\* err: of uvmcopy(), then freeproc(np), whose sz is still 0.
CopyFail(p) ==
  LET np == tgt[p][1]
      done == Range0(0, a[p])
      t == Uvmunmap(T(p), done) IN
  /\ tgt[p] # None /\ tgt[p][3] = "copy"
  /\ PageFails(p)
  /\ free' = InHand(p) + Cardinality(done) + 1 + Freed(t, sz[np])
  /\ panicked' = (~(done \subseteq Pages(T(p))) \/ BadFree(t, sz[np]))
  /\ SetT(p, Empty)
  /\ tf' = [tf EXCEPT ![np] = FALSE]
  /\ state' = [state EXCEPT ![np] = "UNUSED"]
  /\ Return(p)
  /\ UNCHANGED <<sz>>

\* uvmalloc() frees what it mapped; exec() goes to bad.
ExecFail(p) ==
  LET done == Range0(base[p], a[p])
      t == Uvmunmap(T(p), done) IN
  /\ tgt[p] # None /\ tgt[p][2] = "new"
  /\ PageFails(p)
  /\ free' = InHand(p) + Cardinality(done) + Freed(t, nsz[p]) + argv[p]
  /\ panicked' = (~(done \subseteq Pages(T(p))) \/ BadFree(t, nsz[p]))
  /\ SetT(p, Empty)
  /\ Return(p)
  /\ UNCHANGED <<state, tf, sz>>

\* Mutant: uvmalloc() returns without uvmdealloc().
GrowFail_KeepsPages(p) ==
  LET done == Range0(base[p], a[p]) IN
  /\ tgt[p] # None /\ tgt[p][3] = "grow"
  /\ PageFails(p)
  /\ free' = InHand(p)
  /\ panicked' = ~(done \subseteq Pages(T(p)))
  /\ UNCHANGED tab
  /\ Return(p)
  /\ UNCHANGED <<state, tf, sz>>

\* uvmalloc() frees what it mapped; growproc() returns -1.
GrowFail(p) ==
  LET done == Range0(base[p], a[p]) IN
  /\ tgt[p] # None /\ tgt[p][3] = "grow"
  /\ PageFails(p)
  /\ free' = InHand(p) + Cardinality(done)
  /\ panicked' = ~(done \subseteq Pages(T(p)))
  /\ SetT(p, Uvmunmap(T(p), done))
  /\ Return(p)
  /\ UNCHANGED <<state, tf, sz>>

Mapped(p, phase) ==
  /\ pc[p] = "kalloc" /\ a[p] >= lim[p]
  /\ tgt[p][3] = phase

-----------------------------------------------------------------------------
(* fork(), exit(), wait()                                                  *)

ForkDone(p) ==
  LET np == tgt[p][1] IN
  /\ Mapped(p, "copy")
  /\ sz' = [sz EXCEPT ![np] = sz[p]]
  /\ state' = [state EXCEPT ![np] = "RUNNABLE"]
  /\ Return(p)
  /\ UNCHANGED <<free, tf, tab, panicked>>

Exit(p) ==
  /\ User(p) /\ p # InitProc
  /\ state' = [state EXCEPT ![p] = "ZOMBIE"]
  /\ UNCHANGED <<free, tf, sz, tab, pc, locals, panicked>>

\* wait(): freeproc(q).
Reap(p, q) ==
  /\ User(p)
  /\ state[q] = "ZOMBIE"
  /\ Kfree(1 + Freed(tab[q].cur, sz[q]))
  /\ panicked' = BadFree(tab[q].cur, sz[q])
  /\ tf' = [tf EXCEPT ![q] = FALSE]
  /\ tab' = [tab EXCEPT ![q].cur = Empty]
  /\ sz' = [sz EXCEPT ![q] = 0]
  /\ state' = [state EXCEPT ![q] = "UNUSED"]
  /\ UNCHANGED <<pc, locals>>

-----------------------------------------------------------------------------
(* sbrk()                                                                  *)

Grow(p, n) ==
  /\ User(p)
  /\ tgt' = [tgt EXCEPT ![p] = <<p, "cur", "grow">>]
  /\ a' = [a EXCEPT ![p] = PGROUNDUP(sz[p])]
  /\ base' = [base EXCEPT ![p] = PGROUNDUP(sz[p])]
  /\ lim' = [lim EXCEPT ![p] = sz[p] + n]
  /\ perm' = [perm EXCEPT ![p] = {"W"}]
  /\ Goto(p, "kalloc")
  /\ UNCHANGED <<free, slots, nsz, hand, argv, panicked>>

GrowDone(p) ==
  /\ Mapped(p, "grow")
  /\ sz' = [sz EXCEPT ![p] = lim[p]]
  /\ Return(p)
  /\ UNCHANGED <<free, state, tf, tab, panicked>>

\* uvmdealloc(): sz + n wraps to a huge size if n asks for too much, and
\* then nothing is done.
Shrunk(s, n) == IF n > s THEN s ELSE s - n

Shrink(p, n) ==
  LET s == Shrunk(sz[p], n)
      gone == Range0(PGROUNDUP(s), PGROUNDUP(sz[p])) IN
  /\ User(p)
  /\ Kfree(Cardinality(gone))
  /\ panicked' = ~(gone \subseteq Pages(tab[p].cur))
  /\ tab' = [tab EXCEPT ![p].cur = Uvmunmap(@, gone)]
  /\ sz' = [sz EXCEPT ![p] = s]
  /\ UNCHANGED <<state, tf, pc, locals>>

\* sbrk(n) and sbrk(-n).
Sbrk(p, n) == Grow(p, n) \/ Shrink(p, n)

-----------------------------------------------------------------------------
(* exec()                                                                  *)

\* PTE_X is left out: no copy looks at it.
Flags2perm(flags) == flags \ {"X"}

\* A program header: uvmalloc() from sz up to ph.vaddr + ph.memsz, which
\* returns sz at once when the segment ends below it.
Segment(p, va, memsz, flags) ==
  /\ pc[p] = "seg"
  /\ a' = [a EXCEPT ![p] = PGROUNDUP(nsz[p])]
  /\ base' = [base EXCEPT ![p] = PGROUNDUP(nsz[p])]
  /\ lim' = [lim EXCEPT ![p] = IF va + memsz < nsz[p] THEN nsz[p] ELSE va + memsz]
  /\ perm' = [perm EXCEPT ![p] = Flags2perm(flags)]
  /\ Goto(p, "kalloc")
  /\ UNCHANGED <<free, slots, tgt, nsz, hand, argv, panicked>>

\* sz = sz1, then loadseg(), which panics if a page is not there.
SegmentDone(p) ==
  /\ Mapped(p, "seg")
  /\ lim[p] > 0
  /\ nsz' = [nsz EXCEPT ![p] = lim[p]]
  /\ panicked' = ~(UserPages(lim[p]) \subseteq Pages(T(p)))
  /\ Goto(p, "seg")
  /\ Allocated(p)
  /\ UNCHANGED <<free, slots, tgt, hand, argv>>

\* The guard page and the user stack, at the next page boundary.
Stack(p) ==
  /\ pc[p] = "seg"
  /\ nsz' = [nsz EXCEPT ![p] = PGROUNDUP(@)]
  /\ a' = [a EXCEPT ![p] = PGROUNDUP(nsz[p])]
  /\ base' = [base EXCEPT ![p] = PGROUNDUP(nsz[p])]
  /\ lim' = [lim EXCEPT ![p] = PGROUNDUP(nsz[p]) + (USERSTACK + 1) * PGSIZE]
  /\ tgt' = [tgt EXCEPT ![p][3] = "stack"]
  /\ perm' = [perm EXCEPT ![p] = {"W"}]
  /\ Goto(p, "kalloc")
  /\ UNCHANGED <<free, slots, hand, argv, panicked>>

StackDone(p) ==
  /\ Mapped(p, "stack")
  /\ nsz' = [nsz EXCEPT ![p] = lim[p]]
  /\ SetT(p, Uvmclear(T(p), base[p] \div PGSIZE))
  /\ Goto(p, "args")
  /\ Allocated(p)
  /\ UNCHANGED <<free, state, tf, sz, tgt, hand, argv, panicked>>

\* sp once strings of these lengths and argv[] are on the stack, or -1.
ArgLens(p) == [1..argv[p] -> Lens]
Sp(t, top, lens) == PushArgs(t, top - USERSTACK * PGSIZE, top, lens, 1)

\* bad: the file is damaged, uvmalloc() returned 0, or the arguments do not fit.
ExecBad(p) ==
  /\ \/ pc[p] = "seg"
     \/ Mapped(p, "seg") /\ lim[p] = 0
     \/ pc[p] = "args" /\ \E lens \in ArgLens(p) : Sp(T(p), nsz[p], lens) = -1
  /\ Kfree(Freed(T(p), nsz[p]) + argv[p])
  /\ panicked' = BadFree(T(p), nsz[p])
  /\ SetT(p, Empty)
  /\ Return(p)
  /\ UNCHANGED <<state, tf, sz>>

\* Commit to the user image.
Commit(p) ==
  /\ pc[p] = "args" /\ \E lens \in ArgLens(p) : Sp(T(p), nsz[p], lens) # -1
  /\ Kfree(Freed(tab[p].cur, sz[p]) + argv[p])
  /\ panicked' = BadFree(tab[p].cur, sz[p])
  /\ tab' = [tab EXCEPT ![p] = [cur |-> @.new, new |-> Empty]]
  /\ sz' = [sz EXCEPT ![p] = nsz[p]]
  /\ Return(p)
  /\ UNCHANGED <<state, tf>>

-----------------------------------------------------------------------------
Kernel(p) ==
  \/ Walk(p) \/ Mappages(p)
  \/ Trapframe(p) \/ TrapframeFail(p) \/ Uvmcreate(p) \/ ProcPagetableFail(p)
  \/ AllocPage(p) \/ CopyFail(p) \/ ExecFail(p) \/ GrowFail(p)
  \/ ForkDone(p) \/ GrowDone(p)
  \/ SegmentDone(p) \/ Stack(p) \/ StackDone(p) \/ ExecBad(p) \/ Commit(p)
  \/ FetchArg(p) \/ ArgBad(p) \/ Exec(p)
  \/ \E k \in 0..1, memsz \in Sizes \cup {0}, flags \in SUBSET {"X", "W"} :
       Segment(p, k * PGSIZE, memsz, flags)

Call(p) ==
  \/ \E q \in Procs : Fork(p, q) \/ Reap(p, q)
  \/ Exit(p) \/ SysExec(p)
  \/ \E n \in Sizes : Sbrk(p, n)

Next ==
  /\ ~panicked
  /\ \E p \in Procs : Kernel(p) \/ Call(p)

Spec == Init /\ [][Next]_vars

-----------------------------------------------------------------------------
\* Type invariant of the allocator, the tables and the calls in progress.
TypeOK ==
  /\ free \in 0..NPages /\ argv \in [Procs -> 0..MAXARG]
  /\ state \in [Procs -> {"UNUSED", "USED", "RUNNABLE", "ZOMBIE"}]
  /\ tf \in [Procs -> BOOLEAN] /\ hand \in [Procs -> BOOLEAN]
  /\ sz \in [Procs -> Nat] /\ nsz \in [Procs -> Nat]
  /\ a \in [Procs -> Nat] /\ base \in [Procs -> Nat] /\ lim \in [Procs -> Nat]
  /\ \A p \in Procs, x \in {"cur", "new"} :
       /\ \A n \in tab[p][x].nodes : n = Root \/ n[1] \in {0, 1}
       /\ tab[p][x].pte \in [Pages(tab[p][x]) -> SUBSET {"U", "W"}]
  /\ \A p \in Procs : pc[p] \notin {"user", "argv"} => tgt[p][1] \in Procs

\* Pages a process has through its trapframe, its tables and its locals.
Held(p) ==
  LET In(t) == Cardinality(t.nodes) + Cardinality(Pages(t) \ Fixed) IN
  (IF tf[p] THEN 1 ELSE 0) + InHand(p) + In(tab[p].cur) + In(tab[p].new) + argv[p]

(***************************************************************************)
(* No page is lost and none is free twice: whichever kalloc() of fork(),   *)
(* exec() or sbrk() failed, the free list and the pages still in use add   *)
(* up to the memory of the machine.                                        *)
(***************************************************************************)
PagesConserved ==
  /\ TypeOK
  /\ free + FoldFunction(+, 0, [p \in Procs |-> Held(p)]) = NPages

(***************************************************************************)
(* In user space a process maps exactly the pages below p->sz, and nothing *)
(* of a failed exec() or of a freed process is left.  None of the panics   *)
(* "mappages: remap", "uvmunmap: not mapped", "freewalk: leaf", "uvmcopy:  *)
(* page not present" and "loadseg: address should exist" is reached.       *)
(***************************************************************************)
ImageExact ==
  /\ ~panicked
  /\ \A p \in Procs :
       /\ pc[p] = "user" => tab[p].new = Empty
       /\ User(p) \/ state[p] = "ZOMBIE"
            => tf[p] /\ Pages(tab[p].cur) = UserPages(sz[p]) \cup Fixed
       /\ state[p] = "UNUSED" => ~tf[p] /\ sz[p] = 0 /\ tab[p].cur = Empty

\* What a user instruction of a process with table t may do at byte b.
May(t, b, flags) ==
  b \div PGSIZE \in Pages(t) /\ flags \subseteq t.pte[b \div PGSIZE]

\* How far from va the n bytes that a copy may move reach.
Reach(t, va, n, flags) ==
  Min({n} \cup {k \in 0..(n - 1) : ~May(t, (va + k) % UINT64, flags)})

Probes(s) == {s - 1, s - (2 * PGSIZE) - 1, UINT64 - 1} \cap Nat
Spans == {WORD, PGSIZE + 1}

\* Every copy to or from p's memory moves the bytes up to the first that p
\* itself may not access, and succeeds if there is none.
CopiesRight(p) ==
  LET t == tab[p].cur IN
  \A va \in Probes(sz[p]), n \in Spans :
    /\ \A flags \in {{"U"}, {"U", "W"}} : Moved(t, flags, va, n) = Reach(t, va, n, flags)
    /\ Fetchaddr(t, sz[p], va) <=> (va + WORD <= sz[p] /\ Reach(t, va, WORD, {"U"}) = WORD)
    /\ \A max \in {n, n + 1} :
         Fetchstr(t, {(va + n) % UINT64}, va, max)
           = IF n < max /\ Reach(t, va, n + 1, {"U"}) = n + 1 THEN n ELSE -1

\* A table whose stack is the only thing that can be missing.
AllWritable == [nodes |-> {}, pte |-> [v \in 0..TRAMPOLINE |-> {"U", "W"}]]

(***************************************************************************)
(* When a new image is there - of a forked child, after exec() or sbrk() - *)
(* copyout(), copyin(), fetchaddr() and fetchstr() move exactly what the   *)
(* program itself could, across pages, past p->sz, at the guard page and   *)
(* with addresses that wrap around; the child's entries are the parent's;  *)
(* and exec() never runs into the guard page while it pushes arguments:    *)
(* only the test against stackbase turns them away.                        *)
(***************************************************************************)
CopiesExact ==
  [][\A p \in Procs :
       /\ User(p)' /\ <<sz[p], tab[p].cur>>' # <<sz[p], tab[p].cur>> => CopiesRight(p)'
       /\ Mapped(p, "copy") /\ pc'[p] = "user"
            => tab'[tgt[p][1]].cur.pte = tab[p].cur.pte
       /\ Mapped(p, "stack") /\ pc'[p] = "args" =>
            \A lens \in UNION {[1..n -> Lens] : n \in 0..(MAXARG - 1)} :
              Sp(tab'[p].new, nsz'[p], lens) = Sp(AllWritable, nsz'[p], lens)]_vars

=============================================================================
