------------------------------- MODULE Updater ------------------------------
(***************************************************************************)
(* pinum --update and --repair, and the installer they run.  The installer *)
(* is a shell script under set -e: a command that fails ends it, and the   *)
(* updater goes on with its own cleaning up.  Every command may fail, and  *)
(* both may be killed together between any two of them.                    *)
(*                                                                         *)
(* A downloaded file is the version it was published for, or Damaged.      *)
(***************************************************************************)
EXTENDS CommandLine, Installation

CONSTANT Dirs   \* the names mkdtemp may come up with

VARIABLES own,      \* the commit each process's program was built from
          latest,   \* g_latest_version
          dir,      \* g_update_dir
          temp,     \* the temporary directories that exist, with their files
          reading,  \* the sources the compiler of a build has read
          \* History variables.
          ran,        \* what each process ran as its installer
          unfinished, \* who took the new sources and did not install yet
          disturbed,  \* whose installer ran at the same time as another
          overlapped, \* what is installed was installed by one of these
          litter      \* the directories that could not be removed

updaterVars == <<own, latest, dir, temp, reading, ran, unfinished, disturbed, overlapped, litter>>

NoDir == "none"
ASSUME DirsAssumption == NoDir \notin Dirs
Damaged == -1
Nothing == 0   \* no file, no version
NoTemp == [exists |-> FALSE, script |-> Nothing, sum |-> Nothing]
Remains == [exists |-> TRUE, script |-> Nothing, sum |-> Nothing]
Versions == {VersionOf[i] : i \in 1 .. Commits}
InInstaller == {"dependencies", "fetch", "reset", "clone", "build", "built", "install",
                "prompts", "clean"}

UpdaterInit ==
  /\ own = [p \in Procs |-> None] /\ latest = [p \in Procs |-> Nothing]
  /\ dir = [p \in Procs |-> NoDir] /\ temp = [d \in Dirs |-> NoTemp]
  /\ reading = [p \in Procs |-> None]
  /\ ran = [p \in Procs |-> Nothing] /\ unfinished = {} /\ disturbed = {}
  /\ overlapped = FALSE /\ litter = {}

-----------------------------------------------------------------------------
\* What the steps of a kind leave alone.
DownloadSame == UNCHANGED <<opts, latest, dir, temp, litter>>
InstallSame == UNCHANGED <<own, reading, ran, unfinished, disturbed, overlapped,
                           installed, repo, main>>

\* exit; cleanup_temp comes first where a directory was made.  It does not look
\* at the results of remove and rmdir; of what is left nobody reads anything.
Leave(p, how) ==
  /\ \/ dir[p] = NoDir /\ UNCHANGED <<temp, litter>>
     \/ dir[p] # NoDir /\ temp' = [temp EXCEPT ![dir[p]] = NoTemp] /\ UNCHANGED litter
     \/ /\ dir[p] # NoDir /\ temp' = [temp EXCEPT ![dir[p]] = Remains]
        /\ litter' = litter \cup {dir[p]}
  /\ dir' = [dir EXCEPT ![p] = NoDir]
  /\ UNCHANGED <<opts, latest>> /\ Goto(p, how)

\* Mutant: the sources in ~/.pinum-lang are asked for the version one has.
OfferedByRepo(p) == ~ Present \/ VersionOf[main] # VersionOf[repo.tree]
\* VERSION on main is not the version compiled in.
Offered(p) == VersionOf[main] # VersionOf[own[p]]

CheckUpdate(p) ==
  /\ At(p, "check")
  /\ \/ Goto(p, "failed") /\ UNCHANGED latest
     \/ /\ latest' = [latest EXCEPT ![p] = VersionOf[main]]
        /\ Goto(p, IF opts[p].action = "update" /\ ~ Offered(p) THEN "up to date" ELSE "mkdtemp")
  /\ UNCHANGED <<opts, dir, temp, litter>> /\ InstallSame

\* Mutant: one directory for all.
NewDirFixed(d) == d = CHOOSE e \in Dirs : TRUE
\* mkdtemp makes a directory nobody has.
NewDir(d) == ~ temp[d].exists

MakeTempDir(p) ==
  /\ At(p, "mkdtemp")
  /\ \/ \E d \in Dirs : /\ NewDir(d)
                        /\ dir' = [dir EXCEPT ![p] = d]
                        /\ temp' = [temp EXCEPT ![d].exists = TRUE]
                        /\ Goto(p, "script") /\ UNCHANGED <<opts, latest, litter>>
     \/ Leave(p, "failed")
  /\ InstallSame

\* The downloads: curl writes what was published with the version, or something
\* damaged, or fails.
DownloadScript(p) ==
  /\ At(p, "script")
  /\ \/ \E content \in {latest[p], Damaged} : /\ temp[dir[p]].exists
                                  /\ temp' = [temp EXCEPT ![dir[p]].script = content]
                                  /\ Goto(p, "sum") /\ UNCHANGED <<opts, latest, dir, litter>>
     \/ Leave(p, "failed")
  /\ InstallSame

DownloadSum(p) ==
  /\ At(p, "sum")
  /\ \/ \E content \in {latest[p], Damaged} : /\ temp[dir[p]].exists
                                  /\ temp' = [temp EXCEPT ![dir[p]].sum = content]
                                  /\ Goto(p, "verify") /\ UNCHANGED <<opts, latest, dir, litter>>
     \/ Leave(p, "failed")
  /\ InstallSame

\* Mutant: the files stay when the checksum does not fit.
VerifyKeeping(p) ==
  /\ At(p, "verify")
  /\ Goto(p, IF temp[dir[p]].script = temp[dir[p]].sum /\ temp[dir[p]].sum # Damaged
             THEN "run" ELSE "failed")
  /\ DownloadSame /\ InstallSame
\* sha256sum --check in the directory.
Verify(p) ==
  LET got == temp[dir[p]] IN
  /\ At(p, "verify")
  /\ \/ got.script = got.sum /\ got.sum # Damaged /\ Goto(p, "run") /\ DownloadSame
     \/ Leave(p, "failed")
  /\ InstallSame

\* The installers at work beside p's.
Others(p) == {q \in Procs \ {p} : pc[q] \in InInstaller}
\* bash install.sh.
RunInstaller(p) ==
  /\ At(p, "run")
  /\ \/ /\ temp[dir[p]].exists
        /\ ran' = [ran EXCEPT ![p] = temp[dir[p]].script]
        /\ disturbed' = disturbed \cup Others(p) \cup (IF Others(p) = {} THEN {} ELSE {p})
        /\ Goto(p, "dependencies") /\ DownloadSame
     \/ Leave(p, "failed") /\ UNCHANGED <<ran, disturbed>>
  /\ UNCHANGED <<own, reading, unfinished, overlapped, installed, repo, main>>

Download(p) == \/ CheckUpdate(p) \/ MakeTempDir(p) \/ DownloadScript(p) \/ DownloadSum(p)
               \/ Verify(p) \/ RunInstaller(p)

-----------------------------------------------------------------------------
\* The installer.  What it always leaves alone, and its step from one command
\* to the next.
Command(p, from, to) == At(p, from) /\ Goto(p, to) /\ DownloadSame
                        /\ UNCHANGED <<own, main, ran, disturbed>>

\* A command fails: set -e ends the script, the updater cleans up.
InstallerFails(p) == /\ pc[p] \in InInstaller
                     /\ Leave(p, "failed") /\ InstallSame

CheckDependencies(p) == /\ Command(p, "dependencies", IF Present THEN "fetch" ELSE "clone")
                        /\ UNCHANGED <<reading, unfinished, overlapped, installed, repo>>

\* The branch is taken as it is by now, whatever version was announced.
GitFetch(p) == /\ Command(p, "fetch", "reset") /\ Present
               /\ repo' = [repo EXCEPT !.fetched = main]
               /\ UNCHANGED <<reading, unfinished, overlapped, installed>>

\* Mutant: the sources are those of the remote, not those fetched.
GitResetToRemote(p) == /\ Command(p, "reset", "build") /\ Present
                       /\ repo' = [repo EXCEPT !.tree = main, !.sources = TRUE]
                       /\ unfinished' = unfinished \cup {p}
                       /\ UNCHANGED <<reading, overlapped, installed>>
\* git reset --hard origin/main: all that is tracked is back, runtime included.
GitReset(p) == /\ Command(p, "reset", "build") /\ Present
               /\ repo' = [tree |-> repo.fetched, fetched |-> repo.fetched, sources |-> TRUE,
                           built |-> repo.built]
               /\ unfinished' = unfinished \cup {p}
               /\ UNCHANGED <<reading, overlapped, installed>>

GitClone(p) == /\ Command(p, "clone", "build") /\ ~ Present
               /\ repo' = [tree |-> main, fetched |-> main, sources |-> TRUE, built |-> None]
               /\ unfinished' = unfinished \cup {p}
               /\ UNCHANGED <<reading, overlapped, installed>>

\* Mutant: the script goes on when make fails.
MakeReleaseIgnored(p) ==
  \/ /\ Command(p, "build", "install")
     /\ UNCHANGED <<reading, unfinished, overlapped, installed, repo>>
  \/ /\ Command(p, "build", "built") /\ repo.sources
     /\ reading' = [reading EXCEPT ![p] = repo.tree]
     /\ UNCHANGED <<unfinished, overlapped, installed, repo>>
\* make release: the sources are read, then bin/pinum is written.
MakeRelease(p) == /\ Command(p, "build", "built") /\ repo.sources
                  /\ reading' = [reading EXCEPT ![p] = repo.tree]
                  /\ UNCHANGED <<unfinished, overlapped, installed, repo>>

WriteBinary(p) == /\ Command(p, "built", "install") /\ Present
                  /\ repo' = [repo EXCEPT !.built = reading[p]]
                  /\ UNCHANGED <<reading, unfinished, overlapped, installed>>

\* make install moves bin/pinum; it makes it anew if it is missing, or if a .c
\* file is newer, which may or may not be so when the sources have changed.
MakeInstall(p) ==
  /\ Command(p, "install", "prompts") /\ repo.sources
  /\ installed' \in {repo.tree} \cup (IF repo.built = None THEN {} ELSE {repo.built})
  /\ repo' = [repo EXCEPT !.built = None]
  /\ unfinished' = {} /\ overlapped' = (p \in disturbed)
  /\ UNCHANGED reading

\* The questions about editors; without a terminal they fail.
Prompts(p) == /\ Command(p, "prompts", "clean")
              /\ UNCHANGED <<reading, unfinished, overlapped, installed, repo>>

\* The sources are deleted, the script ends and the updater cleans up.
RemoveSources(p) == /\ At(p, "clean")
                    /\ repo' = [tree |-> repo.tree, fetched |-> repo.fetched,
                                sources |-> FALSE, built |-> None]
                    /\ Leave(p, "ok")
                    /\ UNCHANGED <<own, reading, ran, unfinished, disturbed, overlapped,
                                   installed, main>>

Install(p) == \/ InstallerFails(p) \/ CheckDependencies(p) \/ GitFetch(p) \/ GitReset(p)
              \/ GitClone(p) \/ MakeRelease(p) \/ WriteBinary(p) \/ MakeInstall(p)
              \/ Prompts(p) \/ RemoveSources(p)

-----------------------------------------------------------------------------
UpdaterTypeOK ==
  /\ latest \in [Procs -> Versions \cup {Nothing}]
  /\ dir \in [Procs -> Dirs \cup {NoDir}]
  /\ temp \in [Dirs -> [exists : BOOLEAN, script : Versions \cup {Nothing, Damaged},
                        sum : Versions \cup {Nothing, Damaged}]]
  /\ own \in [Procs -> 0 .. main] /\ reading \in [Procs -> 0 .. main]
  /\ unfinished \subseteq Procs /\ disturbed \subseteq Procs /\ overlapped \in BOOLEAN
  /\ litter \subseteq Dirs
=============================================================================
