------------------------------ MODULE Toolchain -----------------------------
(***************************************************************************)
(* Runs of pinum on one machine: compilations in one directory, updates    *)
(* and repairs, in any interleaving, with kills in between, while commits  *)
(* are published.                                                          *)
(***************************************************************************)
EXTENDS Driver, Updater

vars == <<opts, pc, main, installed, repo, files, unit, unnoticed, own, latest, dir, temp,
          reading, ran, unfinished, disturbed, overlapped, litter>>

Init == CommandLineInit /\ InstallationInit /\ DriverInit /\ UpdaterInit

\* The program that runs is the one installed by now.
Launch(p) == /\ Start(p)
             /\ own' = [own EXCEPT ![p] = installed]
             /\ UNCHANGED <<main, installed, repo, latest, dir, temp, reading, ran,
                            unfinished, disturbed, overlapped, litter>>
             /\ UNCHANGED driverVars

Killed(p) == Kill(p) /\ UNCHANGED <<main, installed, repo>>
             /\ UNCHANGED driverVars /\ UNCHANGED updaterVars

Compiling(p) == Compile(p) /\ UNCHANGED <<main, installed, repo>> /\ UNCHANGED updaterVars
Updating(p) == (Download(p) \/ Install(p)) /\ UNCHANGED driverVars

\* Nobody deletes ~/.pinum-lang under a running installer.
Environment == /\ \/ Publish
                  \/ RemoveRepo /\ \A p \in Procs : pc[p] \notin InInstaller
               /\ UNCHANGED <<opts, pc>> /\ UNCHANGED driverVars /\ UNCHANGED updaterVars

Next == (\E p \in Procs : Launch(p) \/ Killed(p) \/ Compiling(p) \/ Updating(p)) \/ Environment

Spec == Init /\ [][Next]_vars

-----------------------------------------------------------------------------
InDriver == {"front end", "create", "codegen", "compile", "link", "remove"}
InDownload == {"script", "sum", "verify", "run"}
Steps == {"main", "check", "mkdtemp"} \cup InDriver \cup InDownload \cup InInstaller \cup Ends

\* Each part of the state has its type, and the past is in it in order: nothing
\* is older than what it was made from.
ToolchainTypeOK == /\ InstallationTypeOK /\ DriverTypeOK /\ UpdaterTypeOK
                   /\ opts \in [Procs -> {CliParse(args) : args \in CommandLines}]
                   /\ pc \in [Procs -> Steps]

\* The files a run writes to, and those of them that it is asked for.
Touched(o) == {CPath(o), BinPath(o)}
Outputs(o) == IF o.mode \in {"aout", "binary"} THEN {BinPath(o)} ELSE Touched(o)
Compiler(p) == opts[p].action = "run" /\ opts[p].error = ""
Alone(p) == \A q \in Procs \ {p} :
              Compiler(q) => Touched(opts[q]) \cap Touched(opts[p]) = {}

\* All that p is asked for is there, whole and made from its program.
Complete(p) == \A path \in Outputs(opts[p]) :
                 files[path] = File(p, IF path = CPath(opts[p]) THEN "text" ELSE "program")

\* The exit status tells the truth, up to the errors main does not look at.
\* With success the outputs are of this program and of no other; unless a write
\* or the removal failed, they are whole, and the temporary file of -o name is
\* gone.  With failure they are not all there.  For compilations none of whose
\* paths another one writes to: two with paths in common, like two that write
\* a.out.c, or -o x and -oc x.tmp, may compile each other's program (main,
\* compile_to).
ExitStatusIsTrue ==
  \A p \in Procs : Compiler(p) /\ Alone(p) =>
    /\ pc[p] = "ok" => \A path \in Outputs(opts[p]) : files[path].of = p
    /\ pc[p] = "ok" /\ p \notin unnoticed =>
         /\ Complete(p)
         /\ opts[p].mode = "binary" => files[CPath(opts[p])] = NoFile
    /\ pc[p] = "failed" => ~ Complete(p)

\* What an updater runs is the installer published with the version it found,
\* undamaged, whatever other updaters download meanwhile (check_hash).
VerifiedBeforeRun == \A p \in Procs : ran[p] \in {Nothing, latest[p]}

\* A temporary directory has one owner, which is running or was killed: whoever
\* ends by itself has removed its own (cleanup_temp on every way out), unless
\* that failed, and then nobody uses it again.
TempRemoved ==
  \A d \in Dirs : temp[d].exists =>
    \/ d \in litter /\ \A p \in Procs : dir[p] # d
    \/ \E p \in Procs : /\ dir[p] = d /\ pc[p] \notin Ends \ {"killed"}
                        /\ \A q \in Procs \ {p} : dir[q] # d

\* The compiler and its runtime are of one commit, unless an installer is or
\* was stopped between taking the sources and installing, and none has
\* installed since; or what is installed comes from an installer that another
\* ran into (install.sh has no lock).  An update that runs by itself repairs
\* what updates broken off, or running into each other, have left.
SkewHasCause == Present /\ installed # repo.tree => unfinished # {} \/ overlapped

\* Whoever is told to be up to date is: its runtime is of its own version also
\* after an update that was broken off, so that such an update is offered again
\* (check_update asks for the version compiled in).
UpToDateIsTrue ==
  [][\A p \in Procs : At(p, "check") /\ pc'[p] = "up to date" /\ Present =>
       VersionOf[repo.tree] = VersionOf[own[p]]]_vars
=============================================================================
