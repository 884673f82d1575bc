---------------------------- MODULE Installation ----------------------------
(***************************************************************************)
(* What compilers and updaters share outside of the working directory: the *)
(* repository's main branch, the installed compiler and ~/.pinum-lang.     *)
(*                                                                         *)
(* A commit is its number on main; VersionOf is the version it calls       *)
(* itself.  repo.tree is the commit checked out in ~/.pinum-lang, whose    *)
(* runtime directory the generated C includes; the installer deletes the   *)
(* sources beside it when it is done.                                      *)
(***************************************************************************)
EXTENDS Integers

CONSTANTS Commits,    \* how many commits main gets
          VersionOf

ASSUME VersionsAdvance ==
  /\ Commits \in Nat \ {0} /\ VersionOf \in [1 .. Commits -> Nat \ {0}]
  /\ \A a, b \in 1 .. Commits : a <= b => VersionOf[a] <= VersionOf[b]

VARIABLES main,        \* newest commit of main
          installed,   \* the commit the compiler on PATH was built from
          repo         \* ~/.pinum-lang

None == 0
NoRepo == [tree |-> None, fetched |-> None, sources |-> FALSE, built |-> None]

Present == repo.tree # None

InstallationInit == main = 1 /\ installed = 1 /\ repo \in {NoRepo, [NoRepo EXCEPT !.tree = 1, !.fetched = 1]}

Publish == /\ main < Commits
           /\ main' = main + 1
           /\ UNCHANGED <<installed, repo>>

\* The directory may be deleted by its user; --repair is there to get it back.
RemoveRepo == Present /\ repo' = NoRepo /\ UNCHANGED <<main, installed>>

InstallationTypeOK ==
  /\ main \in 1 .. Commits /\ installed \in 1 .. main
  /\ repo \in [tree : 0 .. main, fetched : 0 .. main, sources : BOOLEAN, built : 0 .. main]
  /\ repo.tree <= repo.fetched
  /\ ~ Present => repo = NoRepo
=============================================================================
