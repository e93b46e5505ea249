--------------------------------- MODULE Vm ---------------------------------
(***************************************************************************)
(* The page tables of kernel/vm.c, and the routines that move bytes        *)
(* between the kernel and a user address: copyout(), copyin(), copyinstr() *)
(* and what kernel/syscall.c builds on them.                               *)
(*                                                                         *)
(* A page table is a set of page-table pages, which walk() allocates one   *)
(* by one, and a function from the virtual pages it maps (PTE_V) to the    *)
(* flags "U" and "W" of their entries.  Physical pages are not named.      *)
(* Addresses are bytes, modulo UINT64.                                     *)
(***************************************************************************)
EXTENDS Integers, FiniteSets, FiniteSetsExt, Functions, Sequences

CONSTANTS
  PTES,    \* entries of a page-table page (512)
  PGSIZE,  \* bytes of a page (4096)
  WORD     \* sizeof(uint64), of an address and of an element of argv[]

TRAMPOLINE == ((PTES * PTES * PTES) \div 2) - 1
TRAPFRAME == TRAMPOLINE - 1
Fixed == {TRAMPOLINE, TRAPFRAME}
MAXVA == (TRAMPOLINE + 1) * PGSIZE
UINT64 == 2 * MAXVA

PGROUNDUP(s) == ((s + PGSIZE - 1) \div PGSIZE) * PGSIZE
PGROUNDDOWN(s) == (s \div PGSIZE) * PGSIZE
Range0(s1, s2) == (s1 \div PGSIZE) .. ((s2 \div PGSIZE) - 1)
UserPages(s) == Range0(0, PGROUNDUP(s))

Root == <<2, 0>>
NoPte == [v \in {} |-> {}]
Empty == [nodes |-> {}, pte |-> NoPte]
Pages(t) == DOMAIN t.pte

\* walk(va): the page-table pages on the way to va, upper level first.
Path(v) == << <<1, v \div (PTES * PTES)>>, <<0, v \div PTES>> >>

\* The entries of uvmcreate()'s caller, proc_pagetable().
FixedPte(v) == IF v = TRAPFRAME THEN {"W"} ELSE {}

SetPte(t, v, flags) ==
  [t EXCEPT !.pte = [w \in Pages(t) \cup {v} |-> IF w = v THEN flags ELSE @[w]]]

\* uvmunmap()
Uvmunmap(t, vs) == [t EXCEPT !.pte = Restrict(@, Pages(t) \ vs)]

\* uvmclear(): the page is there, but not for the user.
Uvmclear(t, v) == [t EXCEPT !.pte[v] = @ \ {"U"}]

\* proc_freepagetable(t, s): the pages freed, and whether it panics
\* ("uvmunmap: not mapped", "freewalk: leaf").
Freed(t, s) == Cardinality(UserPages(s)) + Cardinality(t.nodes)
BadFree(t, s) == Pages(t) # UserPages(s) \cup Fixed

-----------------------------------------------------------------------------
(* Copies                                                                  *)

\* Mutant: PTE_U is not looked at.
Reaches_AnyPage(t, va, flags) ==
  /\ va < MAXVA
  /\ va \div PGSIZE \in Pages(t)
  /\ flags \ {"U"} \subseteq t.pte[va \div PGSIZE]

\* walkaddr(), and the same tests in copyout(), which also asks for "W".
Reaches(t, va, flags) ==
  /\ va < MAXVA
  /\ va \div PGSIZE \in Pages(t)
  /\ flags \subseteq t.pte[va \div PGSIZE]

\* The loop of copyout() and copyin(), one page at a time: how many bytes it
\* moves before it stops.
RECURSIVE Moved(_, _, _, _)
Moved(t, flags, va, len) ==
  LET va0 == PGROUNDDOWN(va)
      n == Min({PGSIZE - (va - va0), len}) IN
  IF len = 0 \/ ~Reaches(t, va0, flags) THEN 0
  ELSE n + Moved(t, flags, (va0 + PGSIZE) % UINT64, len - n)

Copyout(t, va, len) == Moved(t, {"U", "W"}, va, len) = len
Copyin(t, va, len) == Moved(t, {"U"}, va, len) = len

\* copyinstr() and fetchstr() of a string that ends at the zero bytes nul:
\* its length, or -1; got bytes have been copied so far.
RECURSIVE Copyinstr(_, _, _, _, _)
Copyinstr(t, nul, va, max, got) ==
  LET va0 == PGROUNDDOWN(va)
      n == Min({PGSIZE - (va - va0), max})
      zeros == {k \in 0..(n - 1) : va + k \in nul} IN
  IF max = 0 \/ ~Reaches(t, va0, {"U"}) THEN -1
  ELSE IF zeros # {} THEN got + Min(zeros)
  ELSE Copyinstr(t, nul, (va0 + PGSIZE) % UINT64, max - n, got + n)

Fetchstr(t, nul, va, max) == Copyinstr(t, nul, va, max, 0)

\* fetchaddr(): both tests are needed, in case of overflow.
Fetchaddr(t, s, va) ==
  /\ ~(va >= s \/ (va + WORD) % UINT64 > s)
  /\ Copyin(t, va, WORD)

\* exec() pushes the argument strings, of lens bytes with their zero byte,
\* and then argv[] itself.  The result is sp, or -1 if something does not fit
\* above stackbase or copyout() fails.
Aligned(sp) == sp - (sp % (2 * WORD))

RECURSIVE PushArgs(_, _, _, _, _)
PushArgs(t, stackbase, sp, lens, i) ==
  LET last == i > Len(lens)
      n == IF last THEN (Len(lens) + 1) * WORD ELSE lens[i]
      new == Aligned(sp - n) IN
  IF new < stackbase \/ ~Copyout(t, new, n) THEN -1
  ELSE IF last THEN new
  ELSE PushArgs(t, stackbase, new, lens, i + 1)

=============================================================================
