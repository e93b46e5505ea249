------------------------------- MODULE MCTree -------------------------------
(* Tree for TLC: files and directories up to two levels below the root,    *)
(* paths with and without a leading "/", and calls that must fail.         *)
EXTENDS Tree

CONSTANT a  \* the name

Up == <<"..">>
Abs == <<"/", "/", a>>

MCCalls ==
  {<<"creat", <<a>>>>, <<"mknod", <<"/">>>>, <<"mkdir", <<a>>>>,
   <<"unlink", Abs>>, <<"unlink", Up>>, <<"unlink", <<"..", "/", a>>>>,
   <<"chdir", <<a, "/">>>>, <<"chdir", Up>>}
MCLinks == {<<Abs, <<a>>>>}

(***************************************************************************)
(* Which entry an inode has does not matter, nor what is left in an entry  *)
(* that is free or not valid.                                              *)
(***************************************************************************)
Num(e) == IF e = 0 THEN 0 ELSE itab[e].inum
EntriesInUse ==
  {IF itab[e].valid THEN itab[e] ELSE [itab[e] EXCEPT !.type = "none", !.nlink = 0] :
     e \in {f \in Entries : itab[f].ref > 0}}
TreeView ==
  <<dinode, ents, EntriesInUse, ghost, panicked,
    [p \in Procs |->
       LET s == st[p] IN
       <<[s EXCEPT !.ip = Num(s.ip), !.dp = Num(s.dp), !.old = Num(s.old)],
         Num(cwd[p]), Num(fd[p]),
         [k \in DOMAIN todo[p] |-> <<todo[p][k][1], Num(todo[p][k][2])>>]>>]>>

(***************************************************************************)
(* Two things end what the code promises: a lookup of the ".." of a freed  *)
(* directory, after which anything goes, and the loss of a name that was   *)
(* put into a removed directory, whose inode is never freed again (link()  *)
(* can then raise nlink without end).  TLC checks the states where that    *)
(* happens and does not look beyond them.                                  *)
(***************************************************************************)
Intact == ~ghost.astray /\ ghost.lost = {}

TreeSymmetry == Permutations(Procs)
=============================================================================
