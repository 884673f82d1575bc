-------------------------- MODULE Toolchain_proofs --------------------------
(***************************************************************************)
(* What can be relied on for any number of runs of pinum, any command      *)
(* lines, temporary directories and commits.                               *)
(***************************************************************************)
EXTENDS Toolchain, TLAPS

\* What a step of p does to p's place, and nobody else's.
LEMMA OnlyOwnPlace ==
  ASSUME NEW p \in Procs, NEW s \in Steps, pc \in [Procs -> Steps], Goto(p, s)
  PROVE  /\ pc' \in [Procs -> Steps]
         /\ pc'[p] = s
         /\ \A q \in Procs \ {p} : pc'[q] = pc[q]
  BY DEF Goto

\* The two halves of an updater's state: what is downloaded, and what is built
\* and installed.
TempType == [exists : BOOLEAN, script : Versions \cup {Nothing, Damaged},
             sum : Versions \cup {Nothing, Damaged}]
DownloadTyped ==
  /\ latest \in [Procs -> Versions \cup {Nothing}]
  /\ dir \in [Procs -> Dirs \cup {NoDir}] /\ temp \in [Dirs -> TempType]
  /\ litter \subseteq Dirs
  /\ opts \in [Procs -> {CliParse(args) : args \in CommandLines}]
  /\ pc \in [Procs -> Steps]
InstallTyped ==
  /\ InstallationTypeOK
  /\ own \in [Procs -> 0 .. main] /\ reading \in [Procs -> 0 .. main]
  /\ unfinished \subseteq Procs /\ disturbed \subseteq Procs /\ overlapped \in BOOLEAN

LEMMA TypeParts == ToolchainTypeOK <=> DownloadTyped /\ InstallTyped /\ DriverTypeOK
  BY DEF ToolchainTypeOK, UpdaterTypeOK, DownloadTyped, InstallTyped, TempType
LEMMA TypePartsNext == ToolchainTypeOK' <=> DownloadTyped' /\ InstallTyped' /\ DriverTypeOK'
  BY DEF ToolchainTypeOK, UpdaterTypeOK, DownloadTyped, InstallTyped, TempType

USE DEF At, SameOpts

-----------------------------------------------------------------------------
\* Types.  Versions are positive, main has the first commit.
LEMMA VersionsAreVersions ==
  ASSUME InstallationTypeOK
  PROVE  /\ VersionOf[main] \in Versions
         /\ \A v \in Versions : v \in Nat \ {0}
  BY VersionsAdvance DEF InstallationTypeOK, Versions

LEMMA FilesAreFiles ==
  /\ NoFile \in FileType /\ Old \in FileType /\ NoTemp \in TempType /\ Remains \in TempType
  /\ \A p \in Procs : \A s \in FileStates : File(p, s) \in FileType
  BY DEF NoFile, Old, File, FileType, FileStates, NoTemp, Remains, TempType

LEMMA TypeInit == Init => ToolchainTypeOK
  <1>. SUFFICES ASSUME Init PROVE ToolchainTypeOK  OBVIOUS
  <1>1. InstallationTypeOK
    <2>1. CASE repo = NoRepo
      BY <2>1, VersionsAdvance DEF Init, InstallationInit, InstallationTypeOK, Present, NoRepo, None
    <2>2. CASE repo = [NoRepo EXCEPT !.tree = 1, !.fetched = 1]
      <3>1. repo = [tree |-> 1, fetched |-> 1, sources |-> FALSE, built |-> None]
        BY <2>2, Zenon DEF NoRepo
      <3>. QED
        BY <3>1, VersionsAdvance DEF Init, InstallationInit, InstallationTypeOK, Present, None
    <2>. QED  BY <2>1, <2>2 DEF Init, InstallationInit
  <1>2. DriverTypeOK
    <2>1. files \in [Paths -> FileType]
      BY FilesAreFiles DEF Init, DriverInit
    <2>2. unit \in [Procs -> FileType]
      BY FilesAreFiles DEF Init, DriverInit
    <2>3. \A p \in Procs : pc[p] = "main"  BY DEF Init, CommandLineInit
    <2>4. unnoticed = {}  BY DEF Init, DriverInit
    <2>. QED  BY <2>1, <2>2, <2>3, <2>4 DEF DriverTypeOK
  <1>3. UpdaterTypeOK
    <2>1. temp \in [Dirs -> TempType]  BY FilesAreFiles DEF Init, UpdaterInit
    <2>2. 0 \in 0 .. main  BY <1>1 DEF InstallationTypeOK
    <2>. QED
      BY <2>1, <2>2 DEF Init, UpdaterInit, UpdaterTypeOK, TempType, NoDir, Nothing, None
  <1>4. opts \in [Procs -> {CliParse(args) : args \in CommandLines}] /\ pc \in [Procs -> Steps]
    BY DEF Init, CommandLineInit, Steps
  <1>. QED  BY <1>1, <1>2, <1>3, <1>4 DEF ToolchainTypeOK

-----------------------------------------------------------------------------
LEMMA LeaveTyped ==
  ASSUME NEW p \in Procs, NEW how \in Steps, DownloadTyped, Leave(p, how)
  PROVE  DownloadTyped'
  <1>1. temp' \in [Dirs -> TempType]
    BY FilesAreFiles DEF DownloadTyped, Leave
  <1>2. dir' \in [Procs -> Dirs \cup {NoDir}]  BY DEF DownloadTyped, Leave
  <1>3. pc' \in [Procs -> Steps]  BY OnlyOwnPlace DEF DownloadTyped, Leave
  <1>4. litter' \subseteq Dirs  BY DEF DownloadTyped, Leave
  <1>. QED  BY <1>1, <1>2, <1>3, <1>4 DEF DownloadTyped, Leave

LEMMA DownloadKeepsTypes ==
  ASSUME NEW p \in Procs, ToolchainTypeOK, Download(p)
  PROVE  DownloadTyped' /\ InstallTyped'
  <1>. DownloadTyped /\ InstallTyped  BY TypeParts
  <1>1. {"failed", "up to date", "mkdtemp", "script", "sum", "verify", "run", "dependencies"} \subseteq Steps
    BY DEF Steps, Ends, InDownload, InInstaller
  <1>2. ASSUME InstallSame PROVE InstallTyped'
    BY <1>2 DEF InstallSame, InstallTyped, InstallationTypeOK, Present
  <1>3. CASE CheckUpdate(p)
    <2>1. latest' \in [Procs -> Versions \cup {Nothing}]
      BY <1>3, VersionsAreVersions DEF CheckUpdate, DownloadTyped, InstallTyped
    <2>2. pc' \in [Procs -> Steps]
      BY <1>1, <1>3, OnlyOwnPlace DEF CheckUpdate, DownloadTyped
    <2>3. DownloadTyped'  BY <1>3, <2>1, <2>2 DEF CheckUpdate, DownloadTyped
    <2>. QED  BY <1>2, <1>3, <2>3 DEF CheckUpdate
  <1>4. CASE MakeTempDir(p)
    <2>1. CASE Leave(p, "failed")  BY <1>1, <1>2, <1>4, <2>1, LeaveTyped DEF MakeTempDir
    <2>2. ASSUME NEW d \in Dirs, dir' = [dir EXCEPT ![p] = d],
                 temp' = [temp EXCEPT ![d].exists = TRUE], Goto(p, "script"),
                 UNCHANGED <<opts, latest, litter>>
          PROVE  DownloadTyped'
      <3>1. temp' \in [Dirs -> TempType]  BY <2>2 DEF DownloadTyped, TempType
      <3>2. pc' \in [Procs -> Steps]  BY <1>1, <2>2, OnlyOwnPlace DEF DownloadTyped
      <3>. QED  BY <2>2, <3>1, <3>2 DEF DownloadTyped
    <2>. QED  BY <1>2, <1>4, <2>1, <2>2 DEF MakeTempDir
  <1>5. CASE DownloadScript(p)
    <2>1. CASE Leave(p, "failed")  BY <1>1, <1>2, <1>5, <2>1, LeaveTyped DEF DownloadScript
    <2>2. ASSUME NEW content \in {latest[p], Damaged},
                 temp' = [temp EXCEPT ![dir[p]].script = content],
                 Goto(p, "sum"), UNCHANGED <<opts, latest, dir, litter>>
          PROVE  DownloadTyped'
      <3>1. content \in Versions \cup {Nothing, Damaged}  BY DEF DownloadTyped
      <3>2. temp' \in [Dirs -> TempType]  BY <2>2, <3>1 DEF DownloadTyped, TempType
      <3>3. pc' \in [Procs -> Steps]  BY <1>1, <2>2, OnlyOwnPlace DEF DownloadTyped
      <3>. QED  BY <2>2, <3>2, <3>3 DEF DownloadTyped
    <2>. QED  BY <1>2, <1>5, <2>1, <2>2 DEF DownloadScript
  <1>6. CASE DownloadSum(p)
    <2>1. CASE Leave(p, "failed")  BY <1>1, <1>2, <1>6, <2>1, LeaveTyped DEF DownloadSum
    <2>2. ASSUME NEW content \in {latest[p], Damaged},
                 temp' = [temp EXCEPT ![dir[p]].sum = content],
                 Goto(p, "verify"), UNCHANGED <<opts, latest, dir, litter>>
          PROVE  DownloadTyped'
      <3>1. content \in Versions \cup {Nothing, Damaged}  BY DEF DownloadTyped
      <3>2. temp' \in [Dirs -> TempType]  BY <2>2, <3>1 DEF DownloadTyped, TempType
      <3>3. pc' \in [Procs -> Steps]  BY <1>1, <2>2, OnlyOwnPlace DEF DownloadTyped
      <3>. QED  BY <2>2, <3>2, <3>3 DEF DownloadTyped
    <2>. QED  BY <1>2, <1>6, <2>1, <2>2 DEF DownloadSum
  <1>7. CASE Verify(p)
    <2>1. CASE Leave(p, "failed")  BY <1>1, <1>2, <1>7, <2>1, LeaveTyped DEF Verify
    <2>2. CASE Goto(p, "run") /\ DownloadSame
      BY <1>1, <1>2, <1>7, <2>2, OnlyOwnPlace DEF Verify, DownloadTyped, DownloadSame
    <2>. QED  BY <1>7, <2>1, <2>2 DEF Verify
  <1>8. CASE RunInstaller(p)
    <2>1. CASE Leave(p, "failed") /\ UNCHANGED <<ran, disturbed>>
      BY <1>1, <1>2, <1>8, <2>1, LeaveTyped DEF RunInstaller, InstallSame
    <2>2. CASE /\ temp[dir[p]].exists
               /\ ran' = [ran EXCEPT ![p] = temp[dir[p]].script]
               /\ disturbed' = disturbed \cup Others(p) \cup (IF Others(p) = {} THEN {} ELSE {p})
               /\ Goto(p, "dependencies") /\ DownloadSame
      <3>1. DownloadTyped'
        BY <1>1, <2>2, OnlyOwnPlace DEF DownloadTyped, DownloadSame
      <3>2. InstallTyped'
        BY <1>8, <2>2 DEF RunInstaller, Others, InstallTyped, InstallationTypeOK, Present
      <3>. QED  BY <3>1, <3>2
    <2>. QED  BY <1>8, <2>1, <2>2 DEF RunInstaller
  <1>. QED  BY <1>3, <1>4, <1>5, <1>6, <1>7, <1>8 DEF Download

LEMMA InstallKeepsTypes ==
  ASSUME NEW p \in Procs, ToolchainTypeOK, Install(p)
  PROVE  DownloadTyped' /\ InstallTyped'
  <1>. DownloadTyped /\ InstallTyped /\ InstallationTypeOK  BY TypeParts DEF InstallTyped
  <1>1. InInstaller \cup {"failed", "ok"} \subseteq Steps
    BY DEF Steps, Ends
  <1>2. ASSUME NEW from, NEW to \in InInstaller, Command(p, from, to)
        PROVE  /\ DownloadTyped'
               /\ UNCHANGED <<own, main, ran, disturbed>>
    <2>1. pc' \in [Procs -> Steps]
      BY <1>1, <1>2, OnlyOwnPlace DEF Command, DownloadTyped
    <2>. QED  BY <1>2, <2>1 DEF Command, DownloadTyped, DownloadSame
  <1>3. ASSUME UNCHANGED <<own, main, disturbed>>, UNCHANGED <<reading, unfinished, overlapped>>,
               InstallationTypeOK'
        PROVE  InstallTyped'
    BY <1>3 DEF InstallTyped
  <1>4. ASSUME UNCHANGED <<main, installed, repo>>
        PROVE  InstallationTypeOK'
    BY <1>4 DEF InstallationTypeOK, Present
  <1>5. CASE InstallerFails(p)
    BY <1>1, <1>3, <1>4, <1>5, LeaveTyped DEF InstallerFails, InstallSame
  <1>6. CASE CheckDependencies(p)
    BY <1>2, <1>3, <1>4, <1>6 DEF CheckDependencies, InInstaller
  <1>7. CASE GitFetch(p)
    <2>1. InstallationTypeOK'
      BY <1>7 DEF GitFetch, Command, InstallationTypeOK, Present, NoRepo, None
    <2>. QED  BY <1>2, <1>3, <1>7, <2>1 DEF GitFetch, InInstaller
  <1>8. CASE GitReset(p)
    <2>1. InstallationTypeOK'
      BY <1>8 DEF GitReset, Command, InstallationTypeOK, Present, NoRepo, None
    <2>. QED  BY <1>2, <1>8, <2>1 DEF GitReset, InInstaller, InstallTyped
  <1>9. CASE GitClone(p)
    <2>1. InstallationTypeOK'
      BY <1>9 DEF GitClone, Command, InstallationTypeOK, Present, NoRepo, None
    <2>. QED  BY <1>2, <1>9, <2>1 DEF GitClone, InInstaller, InstallTyped
  <1>10. CASE MakeRelease(p)
    <2>1. reading' \in [Procs -> 0 .. main]
      BY <1>10 DEF MakeRelease, InstallTyped, InstallationTypeOK
    <2>. QED  BY <1>2, <1>4, <1>10, <2>1 DEF MakeRelease, InInstaller, InstallTyped
  <1>11. CASE WriteBinary(p)
    <2>1. reading[p] \in 0 .. main  BY DEF InstallTyped
    <2>2. InstallationTypeOK'
      BY <1>11, <2>1 DEF WriteBinary, Command, InstallationTypeOK, Present, NoRepo, None
    <2>. QED  BY <1>2, <1>3, <1>11, <2>2 DEF WriteBinary, InInstaller
  <1>12. CASE MakeInstall(p)
    <2>1. repo.tree \in 1 .. main
      BY <1>12 DEF MakeInstall, InstallationTypeOK, Present, NoRepo, None
    <2>2. installed' \in 1 .. main
      BY <1>12, <2>1 DEF MakeInstall, InstallationTypeOK, None
    <2>3. repo' = [repo EXCEPT !.built = None] /\ main' = main
      BY <1>12 DEF MakeInstall, Command
    <2>4. InstallationTypeOK'
      <3>1. /\ repo' \in [tree : 0 .. main, fetched : 0 .. main, sources : BOOLEAN, built : 0 .. main]
            /\ repo'.tree = repo.tree /\ repo'.fetched = repo.fetched
        BY <2>3, VersionsAdvance DEF InstallationTypeOK, None
      <3>. QED  BY <2>1, <2>2, <2>3, <3>1 DEF InstallationTypeOK, Present, None
    <2>. QED  BY <1>2, <1>12, <2>4 DEF MakeInstall, InInstaller, InstallTyped
  <1>13. CASE Prompts(p)
    BY <1>2, <1>3, <1>4, <1>13 DEF Prompts, InInstaller
  <1>14. CASE RemoveSources(p)
    <2>1. InstallationTypeOK'
      <3>1. repo' = [tree |-> repo.tree, fetched |-> repo.fetched, sources |-> FALSE, built |-> None]
            /\ main' = main /\ installed' = installed
        BY <1>14 DEF RemoveSources
      <3>2. repo.tree = None => repo.fetched = None
        BY DEF InstallationTypeOK, Present, NoRepo
      <3>3. main \in Nat /\ 0 \in 0 .. main  BY VersionsAdvance DEF InstallationTypeOK
      <3>4. repo' \in [tree : 0 .. main, fetched : 0 .. main, sources : BOOLEAN, built : 0 .. main]
            /\ repo'.tree = repo.tree /\ repo'.fetched = repo.fetched
        BY <3>1, <3>3 DEF InstallationTypeOK, None
      <3>5. repo.tree = None => repo' = NoRepo  BY <3>1, <3>2 DEF NoRepo
      <3>. QED
        BY <3>1, <3>4, <3>5 DEF InstallationTypeOK, Present
    <2>2. DownloadTyped'  BY <1>1, <1>14, LeaveTyped DEF RemoveSources
    <2>. QED  BY <1>3, <1>14, <2>1, <2>2 DEF RemoveSources
  <1>. QED
    BY <1>5, <1>6, <1>7, <1>8, <1>9, <1>10, <1>11, <1>12, <1>13, <1>14 DEF Install

\* The compiler leaves the updaters' state alone and writes only typed files.
LEMMA CompileKeepsTypes ==
  ASSUME NEW p \in Procs, ToolchainTypeOK, Compile(p)
  PROVE  DriverTypeOK' /\ opts' = opts /\ pc' \in [Procs -> Steps]
  <1>. DownloadTyped /\ DriverTypeOK  BY TypeParts
  <1>1. InDriver \cup {"ok", "failed"} \subseteq Steps  BY DEF Steps, Ends
  <1>2. \A s \in {"empty", "text", "program", "damaged"} : File(p, s) \in FileType
    BY FilesAreFiles DEF FileStates
  <1>3. CPath(opts[p]) \in Paths /\ BinPath(opts[p]) \in Paths
    <2>1. opts[p] \in Runs  BY DEF DownloadTyped, Runs
    <2>. QED  BY <2>1 DEF Paths
  <1>4. files[CPath(opts[p])] \in FileType /\ unit[p] \in FileType /\ NoFile \in FileType
    BY <1>3, FilesAreFiles DEF DriverTypeOK
  <1>5. ASSUME NEW path \in Paths, NEW f \in FileType, Put(path, f)
        PROVE  files' \in [Paths -> FileType]
    BY <1>5 DEF Put, DriverTypeOK
  <1>6. ASSUME NEW s \in InDriver \cup {"ok", "failed"}, Goto(p, s)
        PROVE  /\ pc' \in [Procs -> Steps] /\ pc'[p] = s
               /\ \A q \in Procs \ {p} : pc'[q] = pc[q]
    BY <1>1, <1>6, OnlyOwnPlace DEF DownloadTyped
  <1>14. unnoticed' \subseteq Procs
    BY DEF Compile, FrontEnd, CreateC, Codegen, StartCC, EndCC, RemoveC, Noticed, Unnoticed,
           driverVars, DriverTypeOK
  <1>7. ASSUME NEW s \in InDriver \cup {"ok", "failed"}, Goto(p, s), s # "link",
               unit' = unit, files' \in [Paths -> FileType]
        PROVE  DriverTypeOK' /\ pc' \in [Procs -> Steps]
    BY <1>6, <1>7, <1>14 DEF DriverTypeOK
  <1>8. CASE FrontEnd(p)
    <2>1. files' \in [Paths -> FileType] /\ unit' = unit
      BY <1>8 DEF FrontEnd, driverVars, DriverTypeOK
    <2>. QED  BY <1>7, <1>8, <2>1 DEF FrontEnd, InDriver
  <1>9. CASE CreateC(p)
    <2>1. files' \in [Paths -> FileType]
      BY <1>2, <1>3, <1>5, <1>9 DEF CreateC, DriverTypeOK
    <2>. QED  BY <1>7, <1>9, <2>1 DEF CreateC, InDriver
  <1>10. CASE Codegen(p)
    <2>1. files' \in [Paths -> FileType]
      BY <1>2, <1>3, <1>5, <1>10 DEF Codegen, DriverTypeOK
    <2>. QED  BY <1>7, <1>10, <2>1 DEF Codegen, InDriver
  <1>11. CASE StartCC(p)
    <2>1. files' \in [Paths -> FileType]  BY <1>11 DEF StartCC, DriverTypeOK
    <2>2. CASE Goto(p, "failed") /\ unit' = unit
      BY <1>7, <1>11, <2>1, <2>2 DEF StartCC
    <2>3. CASE /\ files[CPath(opts[p])].state \in {"text", "damaged"}
               /\ unit' = [unit EXCEPT ![p] = files[CPath(opts[p])]] /\ Goto(p, "link")
      <3>1. unit' \in [Procs -> FileType] /\ unit'[p] = files[CPath(opts[p])]
            /\ \A q \in Procs \ {p} : unit'[q] = unit[q]
        BY <1>4, <2>3 DEF DriverTypeOK
      <3>. QED  BY <1>6, <1>11, <1>14, <2>1, <2>3, <3>1 DEF DriverTypeOK, StartCC, InDriver
    <2>. QED  BY <1>11, <2>2, <2>3 DEF StartCC
  <1>12. CASE EndCC(p)
    <2>1. Linked(unit[p]) \in FileType  BY <1>4 DEF Linked, File, FileType, FileStates
    <2>2. files' \in [Paths -> FileType]
      BY <1>3, <1>4, <1>5, <1>12, <2>1 DEF EndCC, DriverTypeOK
    <2>. QED  BY <1>7, <1>12, <2>2 DEF EndCC, AfterCC, InDriver
  <1>13. CASE RemoveC(p)
    <2>1. files' \in [Paths -> FileType]
      BY <1>3, <1>4, <1>5, <1>13 DEF RemoveC, DriverTypeOK
    <2>. QED  BY <1>7, <1>13, <2>1 DEF RemoveC
  <1>. QED  BY <1>8, <1>9, <1>10, <1>11, <1>12, <1>13 DEF Compile

\* Where an updater gets to.
UpdaterTargets == {"mkdtemp", "failed", "ok", "up to date"} \cup InDownload \cup InInstaller
LEMMA NoLink == UpdaterTargets \subseteq Steps \ {"link"}
  BY DEF UpdaterTargets, InDownload, InInstaller, Steps, Ends

LEMMA UpdaterPlaces ==
  ASSUME NEW p \in Procs, Download(p) \/ Install(p)
  PROVE  \E s \in UpdaterTargets : Goto(p, s)
  <1>1. CASE Download(p)
    BY <1>1 DEF Download, CheckUpdate, MakeTempDir, DownloadScript, DownloadSum, Verify,
                RunInstaller, Leave, UpdaterTargets, InDownload, InInstaller
  <1>2. CASE Install(p)
    BY <1>2 DEF Install, InstallerFails, CheckDependencies, GitFetch, GitReset, GitClone,
                MakeRelease, WriteBinary, MakeInstall, Prompts, RemoveSources, Command, Leave,
                UpdaterTargets, InInstaller
  <1>. QED  BY <1>1, <1>2

LEMMA TypeStep == ToolchainTypeOK /\ [Next]_vars => ToolchainTypeOK'
  <1>. SUFFICES ASSUME ToolchainTypeOK, [Next]_vars PROVE ToolchainTypeOK'  OBVIOUS
  <1>. DownloadTyped /\ InstallTyped /\ DriverTypeOK  BY TypeParts
  <1>1. CASE UNCHANGED vars
    BY <1>1 DEF vars, ToolchainTypeOK, InstallationTypeOK, DriverTypeOK, UpdaterTypeOK, Present
  <1>2. ASSUME UNCHANGED <<main, installed, repo>>, UNCHANGED updaterVars
        PROVE  /\ InstallTyped'
               /\ opts' = opts /\ pc' \in [Procs -> Steps] => DownloadTyped'
    BY <1>2 DEF updaterVars, InstallTyped, DownloadTyped, InstallationTypeOK, Present
  <1>3. ASSUME UNCHANGED driverVars, \A q \in Procs : pc'[q] = "link" => pc[q] = "link"
        PROVE  DriverTypeOK'
    BY <1>3 DEF driverVars, DriverTypeOK
  <1>4. ASSUME NEW p \in Procs, NEW s \in Steps \ {"link"}, Goto(p, s)
        PROVE  pc' \in [Procs -> Steps] /\ \A q \in Procs : pc'[q] = "link" => pc[q] = "link"
    <2>1. pc'[p] = s /\ \A q \in Procs \ {p} : pc'[q] = pc[q]
      BY <1>4, OnlyOwnPlace DEF DownloadTyped
    <2>. QED  BY <1>4, <2>1, OnlyOwnPlace DEF DownloadTyped
  <1>5. {"ok", "failed", "check", "front end", "killed"} \subseteq Steps \ {"link"}
    BY DEF Steps, Ends, InDriver
  <1>6. ASSUME NEW p \in Procs, Launch(p) PROVE ToolchainTypeOK'
    <2>1. pc' \in [Procs -> Steps] /\ \A q \in Procs : pc'[q] = "link" => pc[q] = "link"
      BY <1>4, <1>5, <1>6 DEF Launch, Start
    <2>2. own' \in [Procs -> 0 .. main]  BY <1>6 DEF Launch, InstallTyped, InstallationTypeOK
    <2>3. InstallTyped'
      BY <1>6, <2>2 DEF Launch, InstallTyped, InstallationTypeOK, Present
    <2>4. DownloadTyped'  BY <1>6, <2>1 DEF Launch, Start, DownloadTyped
    <2>5. DriverTypeOK'  BY <1>3, <1>6, <2>1 DEF Launch
    <2>. QED  BY <2>3, <2>4, <2>5, TypePartsNext
  <1>7. ASSUME NEW p \in Procs, Killed(p) PROVE ToolchainTypeOK'
    <2>1. pc' \in [Procs -> Steps] /\ \A q \in Procs : pc'[q] = "link" => pc[q] = "link"
      BY <1>4, <1>5, <1>7 DEF Killed, Kill
    <2>. QED  BY <1>2, <1>3, <1>7, <2>1, TypePartsNext DEF Killed, Kill
  <1>8. ASSUME NEW p \in Procs, Compiling(p) PROVE ToolchainTypeOK'
    BY <1>2, <1>8, CompileKeepsTypes, TypePartsNext DEF Compiling
  <1>9. ASSUME NEW p \in Procs, Updating(p) PROVE ToolchainTypeOK'
    <2>1. DownloadTyped' /\ InstallTyped'
      BY <1>9, DownloadKeepsTypes, InstallKeepsTypes DEF Updating
    <2>2. \A q \in Procs : pc'[q] = "link" => pc[q] = "link"
      BY <1>4, <1>9, UpdaterPlaces, NoLink DEF Updating
    <2>. QED  BY <1>3, <1>9, <2>1, <2>2, TypePartsNext DEF Updating
  <1>10. CASE Environment
    <2>1. InstallTyped'
      <3>1. CASE Publish
        BY <1>10, <3>1, VersionsAdvance DEF Environment, Publish, updaterVars, InstallTyped,
                                            InstallationTypeOK, Present
      <3>2. CASE RemoveRepo
        BY <1>10, <3>2 DEF Environment, RemoveRepo, updaterVars, InstallTyped,
                           InstallationTypeOK, Present, NoRepo, None
      <3>. QED  BY <1>10, <3>1, <3>2 DEF Environment
    <2>2. DownloadTyped'  BY <1>10 DEF Environment, DownloadTyped, updaterVars
    <2>3. DriverTypeOK'  BY <1>3, <1>10 DEF Environment
    <2>. QED  BY <2>1, <2>2, <2>3, TypePartsNext
  <1>. QED  BY <1>1, <1>6, <1>7, <1>8, <1>9, <1>10 DEF Next

\* Every part of the state has its type and nothing is older than what it was
\* made from, for any processes, commits and directories.
THEOREM ToolchainTypes == Spec => []ToolchainTypeOK
  <1>. QED  BY TypeInit, TypeStep, PTL DEF Spec

-----------------------------------------------------------------------------
\* The temporary directories.  Where a process has none, by its place.
Without == {"main", "check", "mkdtemp", "ok", "up to date", "failed"} \cup InDriver
Ownership ==
  /\ \A p \in Procs : pc[p] \in Without => dir[p] = NoDir
  /\ \A p \in Procs : pc[p] \in InDownload \cup InInstaller => dir[p] \in Dirs
  /\ \A p \in Procs : dir[p] # NoDir => temp[dir[p]].exists
  /\ \A p, q \in Procs : dir[p] = dir[q] /\ dir[p] # NoDir => p = q
  /\ \A d \in Dirs : temp[d].exists => d \in litter \/ \E p \in Procs : dir[p] = d
  /\ \A d \in litter : temp[d].exists /\ \A p \in Procs : dir[p] # d

\* How far the contents are known at each place, and that nothing is run before.
Contents(p) ==
  /\ pc[p] \in {"sum", "verify"} => temp[dir[p]].script \in {latest[p], Damaged}
  /\ pc[p] = "verify" => temp[dir[p]].sum \in {latest[p], Damaged}
  /\ pc[p] = "run" => temp[dir[p]].script = latest[p]
  /\ pc[p] \in {"main", "check"} => ran[p] = Nothing
  /\ ran[p] \in {Nothing, latest[p]}
DownloadInv == Ownership /\ (DOMAIN ran = Procs /\ \A p \in Procs : Contents(p))

LEMMA DownloadInit == Init => DownloadInv
  BY DEF Init, CommandLineInit, UpdaterInit, DownloadInv, Ownership, Contents, NoTemp, Without,
         InDownload, InInstaller, InDriver

\* A step that leaves the downloads alone and stays on its side of them.
LEMMA QuietStep ==
  ASSUME NEW p \in Procs, NEW s \in Steps, DownloadTyped, DownloadInv, Goto(p, s),
         UNCHANGED <<latest, dir, temp, litter, ran>>,
         \/ s = "killed"
         \/ s \in Without \ {"main", "check"} /\ pc[p] \in Without
         \/ s = "check" /\ pc[p] = "main"
         \/ s \in InInstaller /\ pc[p] \in InInstaller
  PROVE  DownloadInv'
  <1>1. pc' \in [Procs -> Steps] /\ pc'[p] = s /\ \A q \in Procs \ {p} : pc'[q] = pc[q]
    BY OnlyOwnPlace DEF DownloadTyped
  <1>2. Ownership'
    BY <1>1 DEF DownloadInv, Ownership, Without, InDownload, InInstaller, InDriver
  <1>3. \A q \in Procs \ {p} : Contents(q)'
    BY <1>1 DEF DownloadInv, Contents
  <1>4. Contents(p)'
    BY <1>1 DEF DownloadInv, Contents, Without, InInstaller, InDriver
  <1>. QED  BY <1>2, <1>3, <1>4 DEF DownloadInv

\* Cleaning up and ending.
LEMMA LeaveStep ==
  ASSUME NEW p \in Procs, NEW how \in {"ok", "failed"}, DownloadTyped, DownloadInv,
         Leave(p, how), ran' = ran
  PROVE  DownloadInv'
  <1>1. /\ pc'[p] = how /\ \A q \in Procs \ {p} : pc'[q] = pc[q]
    BY OnlyOwnPlace DEF DownloadTyped, Leave, Steps, Ends
  <1>2. /\ dir'[p] = NoDir /\ \A q \in Procs \ {p} : dir'[q] = dir[q]
    BY DEF Leave, DownloadTyped
  <1>3. /\ \A d \in Dirs : d # dir[p] => temp'[d] = temp[d]
        /\ dir[p] = NoDir => litter' = litter
        /\ dir[p] # NoDir => \/ temp'[dir[p]] = NoTemp /\ litter' = litter
                             \/ temp'[dir[p]] = Remains /\ litter' = litter \cup {dir[p]}
    BY DEF Leave, DownloadTyped
  <1>4. ~ NoTemp.exists /\ Remains.exists  BY DEF NoTemp, Remains
  <1>5. \A q \in Procs : dir[q] # NoDir => dir[q] \in Dirs  BY DEF DownloadTyped
  <1>6. latest' = latest  BY DEF Leave
  <1>7. Ownership'
    <2>1. \A q \in Procs : pc'[q] \in Without => dir'[q] = NoDir
      BY <1>1, <1>2 DEF DownloadInv, Ownership
    <2>2. \A q \in Procs : pc'[q] \in InDownload \cup InInstaller => dir'[q] \in Dirs
      BY <1>1, <1>2 DEF DownloadInv, Ownership, InDownload, InInstaller
    <2>3. \A q \in Procs \ {p} : dir[q] # NoDir => dir[q] # dir[p]
      BY DEF DownloadInv, Ownership
    <2>4. \A q \in Procs : dir'[q] # NoDir => temp'[dir'[q]].exists
      BY <1>2, <1>3, <1>5, <2>3 DEF DownloadInv, Ownership
    <2>5. \A q, r \in Procs : dir'[q] = dir'[r] /\ dir'[q] # NoDir => q = r
      BY <1>2 DEF DownloadInv, Ownership
    <2>6. ASSUME NEW d \in Dirs, temp'[d].exists
          PROVE  d \in litter' \/ \E q \in Procs : dir'[q] = d
      <3>1. CASE d = dir[p]  BY <1>3, <1>4, <2>6, <3>1, DirsAssumption
      <3>2. CASE d # dir[p]
        <4>1. temp[d].exists /\ litter \subseteq litter'  BY <1>3, <2>6, <3>2
        <4>. QED  BY <1>2, <3>2, <4>1 DEF DownloadInv, Ownership
      <3>. QED  BY <3>1, <3>2
    <2>7. ASSUME NEW d \in litter' PROVE temp'[d].exists /\ \A q \in Procs : dir'[q] # d
      <3>1. d \in Dirs  BY <2>7, <1>3, <1>5 DEF DownloadTyped
      <3>2. CASE d \in litter
        <4>1. temp[d].exists /\ \A q \in Procs : dir[q] # d  BY <3>2 DEF DownloadInv, Ownership
        <4>. QED  BY <1>2, <1>3, <3>1, <4>1, DirsAssumption
      <3>3. CASE d \notin litter
        <4>1. d = dir[p] /\ dir[p] # NoDir /\ temp'[d] = Remains  BY <1>3, <2>7, <3>3
        <4>. QED  BY <1>2, <1>4, <2>3, <4>1
      <3>. QED  BY <3>2, <3>3
    <2>. QED  BY <2>1, <2>2, <2>4, <2>5, <2>6, <2>7 DEF Ownership
  <1>8. ASSUME NEW q \in Procs PROVE Contents(q)'
    <2>1. CASE q = p  BY <1>1, <1>6, <2>1 DEF DownloadInv, Contents
    <2>2. CASE q # p
      <3>1. pc[q] \in {"sum", "verify", "run"} => temp'[dir[q]] = temp[dir[q]]
        BY <1>3, <1>5, <2>2, DirsAssumption DEF DownloadInv, Ownership, InDownload
      <3>. QED  BY <1>1, <1>2, <1>6, <2>2, <3>1 DEF DownloadInv, Contents
    <2>. QED  BY <2>1, <2>2
  <1>. QED  BY <1>7, <1>8 DEF DownloadInv

\* A file is downloaded into one's own directory: nobody else's files change.
LEMMA OwnFiles ==
  ASSUME NEW p \in Procs, DownloadTyped, DownloadInv, pc[p] \in InDownload,
         NEW s \in InDownload, Goto(p, s), UNCHANGED <<latest, dir, litter, ran>>,
         temp' \in [Dirs -> TempType], temp'[dir[p]].exists,
         \A d \in Dirs \ {dir[p]} : temp'[d] = temp[d],
         Contents(p)'
  PROVE  DownloadInv'
  <1>1. /\ pc'[p] = s /\ \A q \in Procs \ {p} : pc'[q] = pc[q]
    BY OnlyOwnPlace DEF DownloadTyped, Steps
  <1>2. dir[p] \in Dirs /\ \A q \in Procs : dir[q] # NoDir => dir[q] \in Dirs
    BY DEF DownloadInv, Ownership, DownloadTyped
  <1>3. Ownership'
    <2>1. \A d \in Dirs : temp'[d].exists <=> temp[d].exists
      BY <1>2, DirsAssumption DEF DownloadInv, Ownership
    <2>2. litter \subseteq Dirs  BY DEF DownloadTyped
    <2>3. \A d \in litter' : temp'[d].exists /\ \A q \in Procs : dir'[q] # d
      BY <2>1, <2>2 DEF DownloadInv, Ownership
    <2>4. \A d \in Dirs : temp'[d].exists => d \in litter' \/ \E q \in Procs : dir'[q] = d
      BY <2>1 DEF DownloadInv, Ownership
    <2>. QED
      BY <1>1, <1>2, <2>1, <2>3, <2>4, DirsAssumption
      DEF DownloadInv, Ownership, Without, InDownload, InDriver
  <1>4. ASSUME NEW q \in Procs \ {p} PROVE Contents(q)'
    <2>1. pc[q] \in {"sum", "verify", "run"} => temp'[dir[q]] = temp[dir[q]]
      BY <1>2, DirsAssumption DEF DownloadInv, Ownership, InDownload
    <2>. QED  BY <1>1, <2>1 DEF DownloadInv, Contents
  <1>. QED  BY <1>3, <1>4 DEF DownloadInv

LEMMA DownloadStep ==
  ASSUME NEW p \in Procs, ToolchainTypeOK, DownloadInv, Download(p)
  PROVE  DownloadInv'
  <1>. DownloadTyped /\ InstallTyped  BY TypeParts
  <1>1. DownloadTyped'  BY DownloadKeepsTypes
  <1>2. ASSUME NEW s \in Steps, Goto(p, s)
        PROVE  pc'[p] = s /\ \A q \in Procs \ {p} : pc'[q] = pc[q]
    BY <1>2, OnlyOwnPlace DEF DownloadTyped
  <1>3. {"failed", "up to date", "mkdtemp", "script", "sum", "verify", "run", "dependencies"}
          \subseteq Steps
    BY DEF Steps, Ends, InDownload, InInstaller
  <1>4. CASE CheckUpdate(p)
    <2>1. \E s \in {"failed", "up to date", "mkdtemp"} : Goto(p, s)  BY <1>4 DEF CheckUpdate
    <2>2. PICK s \in {"failed", "up to date", "mkdtemp"} : Goto(p, s)  BY <2>1
    <2>3. pc'[p] = s /\ \A q \in Procs \ {p} : pc'[q] = pc[q]  BY <1>2, <1>3, <2>2
    <2>4. \A q \in Procs \ {p} : latest'[q] = latest[q]
      BY <1>4 DEF CheckUpdate, DownloadTyped
    <2>5. UNCHANGED <<dir, temp, litter, ran>> /\ pc[p] = "check"
      BY <1>4 DEF CheckUpdate, InstallSame
    <2>6. Ownership'
      BY <2>3, <2>5 DEF DownloadInv, Ownership, Without, InDownload, InInstaller
    <2>7. \A q \in Procs : Contents(q)'
      BY <2>3, <2>4, <2>5 DEF DownloadInv, Contents
    <2>. QED  BY <2>5, <2>6, <2>7 DEF DownloadInv
  <1>5. CASE MakeTempDir(p)
    <2>1. CASE Leave(p, "failed")  BY <1>5, <2>1, LeaveStep DEF MakeTempDir, InstallSame
    <2>2. ASSUME NEW d \in Dirs, NewDir(d), dir' = [dir EXCEPT ![p] = d],
                 temp' = [temp EXCEPT ![d].exists = TRUE], Goto(p, "script"), litter' = litter
          PROVE  DownloadInv'
      <3>1. pc'[p] = "script" /\ \A q \in Procs \ {p} : pc'[q] = pc[q]  BY <1>2, <1>3, <2>2
      <3>2. dir'[p] = d /\ \A q \in Procs \ {p} : dir'[q] = dir[q]
        BY <2>2 DEF DownloadTyped
      <3>3. temp'[d].exists /\ \A e \in Dirs \ {d} : temp'[e] = temp[e]
        BY <2>2 DEF DownloadTyped, TempType
      <3>4. d \notin litter /\ \A q \in Procs : dir[q] # d
        BY <2>2, DirsAssumption DEF NewDir, DownloadInv, Ownership
      <3>5. \A q \in Procs : dir[q] # NoDir => dir[q] \in Dirs  BY DEF DownloadTyped
      <3>6. UNCHANGED <<latest, ran>> /\ pc[p] = "mkdtemp"
        BY <1>5 DEF MakeTempDir, InstallSame, Leave
      <3>7. Ownership'
        <4>1. \A q \in Procs : pc'[q] \in Without => dir'[q] = NoDir
          BY <3>1, <3>2 DEF DownloadInv, Ownership, Without, InDriver
        <4>2. \A q \in Procs : pc'[q] \in InDownload \cup InInstaller => dir'[q] \in Dirs
          BY <3>1, <3>2 DEF DownloadInv, Ownership
        <4>3. \A q \in Procs : dir'[q] # NoDir => temp'[dir'[q]].exists
          BY <3>2, <3>3, <3>4, <3>5 DEF DownloadInv, Ownership
        <4>4. \A q, r \in Procs : dir'[q] = dir'[r] /\ dir'[q] # NoDir => q = r
          BY <3>2, <3>4 DEF DownloadInv, Ownership
        <4>5. ASSUME NEW e \in Dirs, temp'[e].exists
              PROVE  e \in litter' \/ \E q \in Procs : dir'[q] = e
          <5>1. CASE e = d  BY <3>2, <5>1
          <5>2. CASE e # d /\ e \notin litter
            <6>1. dir[p] = NoDir  BY <3>6 DEF DownloadInv, Ownership, Without
            <6>2. PICK q \in Procs : dir[q] = e  BY <3>3, <4>5, <5>2 DEF DownloadInv, Ownership
            <6>. QED  BY <3>2, <6>1, <6>2, DirsAssumption
          <5>. QED  BY <2>2, <5>1, <5>2
        <4>6. \A e \in litter' : temp'[e].exists /\ \A q \in Procs : dir'[q] # e
          BY <2>2, <3>2, <3>3, <3>4 DEF DownloadInv, Ownership, DownloadTyped
        <4>. QED  BY <4>1, <4>2, <4>3, <4>4, <4>5, <4>6 DEF Ownership
      <3>8. ASSUME NEW q \in Procs PROVE Contents(q)'
        <4>1. CASE q = p  BY <3>1, <3>6, <4>1 DEF DownloadInv, Contents
        <4>2. CASE q # p
          <5>1. pc[q] \in {"sum", "verify", "run"} => temp'[dir[q]] = temp[dir[q]]
            BY <3>3, <3>4, <3>5, <4>2, DirsAssumption DEF DownloadInv, Ownership, InDownload
          <5>. QED  BY <3>1, <3>2, <3>6, <4>2, <5>1 DEF DownloadInv, Contents
        <4>. QED  BY <4>1, <4>2
      <3>. QED  BY <3>6, <3>7, <3>8 DEF DownloadInv
    <2>. QED  BY <1>5, <2>1, <2>2 DEF MakeTempDir
  <1>6. ASSUME pc[p] \in InDownload
        PROVE  /\ dir[p] \in Dirs /\ temp[dir[p]] \in TempType /\ temp[dir[p]].exists
    BY <1>6, DirsAssumption DEF DownloadInv, Ownership, DownloadTyped
  <1>7. CASE DownloadScript(p)
    <2>1. CASE Leave(p, "failed")  BY <1>7, <2>1, LeaveStep DEF DownloadScript, InstallSame
    <2>2. ASSUME NEW content \in {latest[p], Damaged},
                 temp' = [temp EXCEPT ![dir[p]].script = content],
                 Goto(p, "sum"), UNCHANGED <<opts, latest, dir, litter>>
          PROVE  DownloadInv'
      <3>1. pc[p] = "script" /\ ran' = ran  BY <1>7 DEF DownloadScript, InstallSame
      <3>2. /\ temp'[dir[p]].script = content /\ temp'[dir[p]].exists
            /\ \A d \in Dirs \ {dir[p]} : temp'[d] = temp[d]
        BY <1>6, <2>2, <3>1 DEF DownloadTyped, TempType, InDownload
      <3>3. Contents(p)'
        BY <1>2, <1>3, <2>2, <3>1, <3>2 DEF DownloadInv, Contents
      <3>. QED  BY <1>1, <2>2, <3>1, <3>2, <3>3, OwnFiles DEF DownloadTyped, InDownload
    <2>. QED  BY <1>7, <2>1, <2>2 DEF DownloadScript
  <1>8. CASE DownloadSum(p)
    <2>1. CASE Leave(p, "failed")  BY <1>8, <2>1, LeaveStep DEF DownloadSum, InstallSame
    <2>2. ASSUME NEW content \in {latest[p], Damaged},
                 temp' = [temp EXCEPT ![dir[p]].sum = content],
                 Goto(p, "verify"), UNCHANGED <<opts, latest, dir, litter>>
          PROVE  DownloadInv'
      <3>1. pc[p] = "sum" /\ ran' = ran  BY <1>8 DEF DownloadSum, InstallSame
      <3>2. /\ temp'[dir[p]].sum = content /\ temp'[dir[p]].exists
            /\ temp'[dir[p]].script = temp[dir[p]].script
            /\ \A d \in Dirs \ {dir[p]} : temp'[d] = temp[d]
        BY <1>6, <2>2, <3>1 DEF DownloadTyped, TempType, InDownload
      <3>3. Contents(p)'
        BY <1>2, <1>3, <2>2, <3>1, <3>2 DEF DownloadInv, Contents
      <3>. QED  BY <1>1, <2>2, <3>1, <3>2, <3>3, OwnFiles DEF DownloadTyped, InDownload
    <2>. QED  BY <1>8, <2>1, <2>2 DEF DownloadSum
  <1>9. CASE Verify(p)
    <2>1. CASE Leave(p, "failed")  BY <1>9, <2>1, LeaveStep DEF Verify, InstallSame
    <2>2. CASE /\ temp[dir[p]].script = temp[dir[p]].sum /\ temp[dir[p]].sum # Damaged
               /\ Goto(p, "run") /\ DownloadSame
      <3>1. pc[p] = "verify" /\ ran' = ran /\ UNCHANGED <<latest, dir, temp, litter>>
        BY <1>9, <2>2 DEF Verify, InstallSame, DownloadSame
      <3>2. Contents(p)'
        BY <1>2, <1>3, <2>2, <3>1 DEF DownloadInv, Contents
      <3>. QED  BY <1>1, <1>6, <2>2, <3>1, <3>2, OwnFiles DEF DownloadTyped, InDownload
    <2>. QED  BY <1>9, <2>1, <2>2 DEF Verify
  <1>10. CASE RunInstaller(p)
    <2>1. CASE Leave(p, "failed") /\ UNCHANGED <<ran, disturbed>>
      BY <2>1, LeaveStep
    <2>2. CASE ran' = [ran EXCEPT ![p] = temp[dir[p]].script] /\ Goto(p, "dependencies") /\ DownloadSame
      <3>1. pc'[p] = "dependencies" /\ \A q \in Procs \ {p} : pc'[q] = pc[q]
        BY <1>2, <1>3, <2>2
      <3>2. pc[p] = "run" /\ UNCHANGED <<latest, dir, temp, litter>>
        BY <1>10, <2>2 DEF RunInstaller, DownloadSame
      <3>3. /\ DOMAIN ran' = Procs /\ ran'[p] = latest[p]
            /\ \A q \in Procs \ {p} : ran'[q] = ran[q]
        BY <2>2, <3>2 DEF DownloadInv, Contents
      <3>4. Ownership'
        BY <3>1, <3>2 DEF DownloadInv, Ownership, Without, InDownload, InInstaller, InDriver
      <3>5. \A q \in Procs : Contents(q)'
        BY <3>1, <3>2, <3>3 DEF DownloadInv, Contents
      <3>. QED  BY <3>3, <3>4, <3>5 DEF DownloadInv
    <2>. QED  BY <1>10, <2>1, <2>2 DEF RunInstaller
  <1>. QED  BY <1>4, <1>5, <1>7, <1>8, <1>9, <1>10 DEF Download

LEMMA InstallStep ==
  ASSUME NEW p \in Procs, ToolchainTypeOK, DownloadInv, Install(p)
  PROVE  DownloadInv'
  <1>. DownloadTyped  BY TypeParts
  <1>1. InInstaller \subseteq Steps  BY DEF Steps
  <1>2. CASE InstallerFails(p) \/ RemoveSources(p)
    BY <1>2, LeaveStep DEF InstallerFails, RemoveSources, InstallSame
  <1>3. ASSUME NEW from \in InInstaller, NEW to \in InInstaller, Command(p, from, to)
        PROVE  DownloadInv'
    BY <1>1, <1>3, QuietStep DEF Command, DownloadSame
  <1>4. CASE ~ InstallerFails(p) /\ ~ RemoveSources(p)
    BY <1>3, <1>4 DEF Install, CheckDependencies, GitFetch, GitReset, GitClone, MakeRelease,
                      WriteBinary, MakeInstall, Prompts, InInstaller
  <1>. QED  BY <1>2, <1>4

LEMMA DownloadInvStep == ToolchainTypeOK /\ DownloadInv /\ [Next]_vars => DownloadInv'
  <1>. SUFFICES ASSUME ToolchainTypeOK, DownloadInv, [Next]_vars PROVE DownloadInv'  OBVIOUS
  <1>. DownloadTyped  BY TypeParts
  <1>1. CASE UNCHANGED vars
    BY <1>1 DEF vars, DownloadInv, Ownership, Contents
  <1>2. ASSUME NEW p \in Procs, Launch(p) PROVE DownloadInv'
    <2>1. PICK s \in {"failed", "ok", "check", "front end"} : Goto(p, s)
      BY <1>2 DEF Launch, Start
    <2>2. pc[p] = "main" /\ UNCHANGED <<latest, dir, temp, litter, ran>>
      BY <1>2 DEF Launch, Start
    <2>. QED  BY <2>1, <2>2, QuietStep DEF Steps, Ends, Without, InDriver
  <1>3. ASSUME NEW p \in Procs, Killed(p) PROVE DownloadInv'
    BY <1>3, QuietStep DEF Killed, Kill, updaterVars, Steps, Ends
  <1>4. ASSUME NEW p \in Procs, Compiling(p) PROVE DownloadInv'
    <2>1. PICK s \in InDriver \cup {"ok", "failed"} : Goto(p, s) /\ pc[p] \in InDriver
      BY <1>4 DEF Compiling, Compile, FrontEnd, CreateC, Codegen, StartCC, EndCC, AfterCC, RemoveC,
                  InDriver
    <2>2. UNCHANGED <<latest, dir, temp, litter, ran>>  BY <1>4 DEF Compiling, updaterVars
    <2>. QED  BY <2>1, <2>2, QuietStep DEF Steps, Ends, Without, InDriver
  <1>5. ASSUME NEW p \in Procs, Updating(p) PROVE DownloadInv'
    BY <1>5, DownloadStep, InstallStep DEF Updating
  <1>6. CASE Environment
    BY <1>6 DEF Environment, updaterVars, DownloadInv, Ownership, Contents
  <1>. QED  BY <1>1, <1>2, <1>3, <1>4, <1>5, <1>6 DEF Next

\* Whatever other updaters download meanwhile, an updater runs only the
\* installer of the version it was told of, for any number of updaters.
THEOREM InstallersAreVerified == Spec => []VerifiedBeforeRun
  <1>1. DownloadInv => VerifiedBeforeRun  BY DEF DownloadInv, Contents, VerifiedBeforeRun
  <1>. QED  BY <1>1, TypeInit, TypeStep, DownloadInit, DownloadInvStep, PTL DEF Spec

\* Every temporary directory has one owner that is running or was killed, or
\* could not be removed and is nobody's.
THEOREM TempIsRemoved == Spec => []TempRemoved
  <1>1. ToolchainTypeOK /\ DownloadInv => TempRemoved
    <2>. SUFFICES ASSUME ToolchainTypeOK, DownloadInv, NEW d \in Dirs, temp[d].exists, d \notin litter
                  PROVE  \E p \in Procs : /\ dir[p] = d /\ pc[p] \notin Ends \ {"killed"}
                                          /\ \A q \in Procs \ {p} : dir[q] # d
      BY DEF TempRemoved, DownloadInv, Ownership
    <2>1. PICK p \in Procs : dir[p] = d  BY DEF DownloadInv, Ownership
    <2>2. pc[p] \notin Ends \ {"killed"}
      BY <2>1, DirsAssumption DEF DownloadInv, Ownership, Without, Ends
    <2>. QED  BY <2>1, <2>2, DirsAssumption DEF DownloadInv, Ownership
  <1>. QED  BY <1>1, TypeInit, TypeStep, DownloadInit, DownloadInvStep, PTL DEF Spec

-----------------------------------------------------------------------------
\* Nothing that is installed, built or running is newer than the sources.
Order ==
  /\ Present => /\ installed <= repo.tree /\ repo.built <= repo.tree
                /\ \A p \in Procs : own[p] <= repo.tree /\ reading[p] <= repo.tree
  /\ \A p \in Procs : pc[p] = "check" => own[p] # None

\* What an installer has made that no other one has met is of the sources that
\* are there.
Undisturbed(p) ==
  pc[p] \in InInstaller /\ p \notin disturbed =>
    /\ \A q \in Procs \ {p} : pc[q] \notin InInstaller
    /\ pc[p] \in {"reset", "build", "built", "install"} => Present
    /\ pc[p] = "built" => reading[p] = repo.tree
    /\ pc[p] = "install" => repo.built = repo.tree
InstallInv == Order /\ (\A p \in Procs : Undisturbed(p)) /\ SkewHasCause

LEMMA InstallInit == Init => InstallInv
  <1>. SUFFICES ASSUME Init PROVE InstallInv  OBVIOUS
  <1>1. installed = 1 /\ repo.built = 0 /\ repo.tree \in {0, 1}
    <2>1. CASE repo = NoRepo  BY <2>1 DEF Init, InstallationInit, NoRepo, None
    <2>2. CASE repo = [NoRepo EXCEPT !.tree = 1, !.fetched = 1]
      <3>1. repo = [tree |-> 1, fetched |-> 1, sources |-> FALSE, built |-> None]
        BY <2>2, Zenon DEF NoRepo
      <3>. QED  BY <3>1 DEF Init, InstallationInit, None
    <2>. QED  BY <2>1, <2>2 DEF Init, InstallationInit
  <1>. QED
    BY <1>1 DEF Init, CommandLineInit, UpdaterInit, InstallInv, Order, Undisturbed, SkewHasCause,
                InInstaller, Present, None

\* A step outside of the installer, or out of it, that leaves what is on disk alone.
LEMMA OutsideStep ==
  ASSUME NEW p \in Procs, NEW s \in Steps \ InInstaller, DownloadTyped, InstallInv, Goto(p, s),
         UNCHANGED <<installed, repo, reading, disturbed, overlapped, unfinished>>,
         \/ own' = own /\ s # "check"
         \/ own' = [own EXCEPT ![p] = installed] /\ InstallTyped
  PROVE  InstallInv'
  <1>1. pc'[p] = s /\ \A q \in Procs \ {p} : pc'[q] = pc[q]
    BY OnlyOwnPlace DEF DownloadTyped
  <1>2. Present' <=> Present  BY DEF Present
  <1>3. (\A q \in Procs : Undisturbed(q)') /\ SkewHasCause'
    BY <1>1, <1>2 DEF InstallInv, Undisturbed, SkewHasCause, InInstaller
  <1>4. Order'
    <2>1. CASE own' = own /\ s # "check"
      BY <1>1, <1>2, <2>1 DEF InstallInv, Order
    <2>2. CASE own' = [own EXCEPT ![p] = installed] /\ InstallTyped
      <3>1. own'[p] = installed /\ \A q \in Procs \ {p} : own'[q] = own[q]
        BY <2>2 DEF InstallTyped
      <3>2. installed # None  BY <2>2 DEF InstallTyped, InstallationTypeOK, None
      <3>. QED  BY <1>1, <1>2, <3>1, <3>2 DEF InstallInv, Order
    <2>. QED  BY <2>1, <2>2
  <1>. QED  BY <1>3, <1>4 DEF InstallInv

\* A command of the installer.
LEMMA CommandPlace ==
  ASSUME NEW p \in Procs, DownloadTyped, NEW from, NEW to \in InInstaller, Command(p, from, to)
  PROVE  /\ pc[p] = from /\ pc'[p] = to /\ \A q \in Procs \ {p} : pc'[q] = pc[q]
         /\ UNCHANGED <<own, main, disturbed>>
  BY OnlyOwnPlace DEF DownloadTyped, Command, Steps

LEMMA InstallInvCommand ==
  ASSUME NEW p \in Procs, ToolchainTypeOK, InstallInv, Install(p)
  PROVE  InstallInv'
  <1>. DownloadTyped /\ InstallTyped /\ InstallationTypeOK  BY TypeParts DEF InstallTyped
  <1>. USE DEF InstallInv
  <1>1. {"ok", "failed"} \subseteq Steps \ InInstaller  BY DEF Steps, Ends, InInstaller
  <1>2. CASE InstallerFails(p)
    BY <1>1, <1>2, OutsideStep DEF InstallerFails, InstallSame, Leave
  <1>3. CASE CheckDependencies(p)
    <2>1. UNCHANGED <<reading, unfinished, overlapped, installed, repo>>  BY <1>3 DEF CheckDependencies
    <2>2. /\ pc[p] = "dependencies" /\ pc'[p] \in {"fetch", "clone"}
          /\ \A q \in Procs \ {p} : pc'[q] = pc[q]
          /\ UNCHANGED <<own, main, disturbed>>
      BY <1>3, CommandPlace DEF CheckDependencies, InInstaller
    <2>3. Present' <=> Present  BY <2>1 DEF Present
    <2>. QED  BY <2>1, <2>2, <2>3 DEF Order, Undisturbed, SkewHasCause, InInstaller
  <1>4. CASE GitFetch(p)
    <2>1. /\ pc[p] = "fetch" /\ pc'[p] = "reset" /\ \A q \in Procs \ {p} : pc'[q] = pc[q]
          /\ UNCHANGED <<own, main, disturbed>>
      BY <1>4, CommandPlace DEF GitFetch, InInstaller
    <2>2. Present /\ UNCHANGED <<reading, unfinished, overlapped, installed>>
          /\ repo'.tree = repo.tree /\ repo'.built = repo.built
      BY <1>4 DEF GitFetch, InstallationTypeOK
    <2>3. Present'  BY <2>2 DEF Present
    <2>. QED  BY <2>1, <2>2, <2>3 DEF Order, Undisturbed, SkewHasCause, InInstaller
  <1>5. CASE GitReset(p)
    <2>1. /\ pc[p] = "reset" /\ pc'[p] = "build" /\ \A q \in Procs \ {p} : pc'[q] = pc[q]
          /\ UNCHANGED <<own, main, disturbed>>
      BY <1>5, CommandPlace DEF GitReset, InInstaller
    <2>2. Present /\ UNCHANGED <<reading, overlapped, installed>> /\ p \in unfinished'
          /\ repo'.tree = repo.fetched /\ repo'.built = repo.built
      BY <1>5 DEF GitReset
    <2>3. repo.tree <= repo'.tree /\ repo'.tree \in Nat /\ repo.tree \in Nat
      BY <2>2, VersionsAdvance DEF InstallationTypeOK
    <2>4. Present'  BY <2>2, <2>3 DEF Present, None
    <2>5. installed \in Nat /\ repo.built \in Nat /\ \A q \in Procs : own[q] \in Nat /\ reading[q] \in Nat
      BY DEF InstallationTypeOK, InstallTyped
    <2>6. Order'  BY <2>1, <2>2, <2>3, <2>4, <2>5 DEF Order
    <2>7. (\A q \in Procs : Undisturbed(q)') /\ SkewHasCause'  BY <2>1, <2>2, <2>4 DEF Undisturbed, SkewHasCause, InInstaller
    <2>. QED  BY <2>6, <2>7
  <1>6. CASE GitClone(p)
    <2>1. /\ pc[p] = "clone" /\ pc'[p] = "build" /\ \A q \in Procs \ {p} : pc'[q] = pc[q]
          /\ UNCHANGED <<own, main, disturbed>>
      BY <1>6, CommandPlace DEF GitClone, InInstaller
    <2>2. UNCHANGED <<reading, overlapped, installed>> /\ p \in unfinished'
          /\ repo'.tree = main /\ repo'.built = None
      BY <1>6 DEF GitClone
    <2>3. main \in Nat \ {0} /\ installed <= main
          /\ \A q \in Procs : own[q] <= main /\ reading[q] <= main
      BY VersionsAdvance DEF InstallationTypeOK, InstallTyped
    <2>4. Present'  BY <2>2, <2>3 DEF Present, None
    <2>5. Order'  BY <2>1, <2>2, <2>3, <2>4 DEF Order, None
    <2>6. (\A q \in Procs : Undisturbed(q)') /\ SkewHasCause'  BY <2>1, <2>2, <2>4 DEF Undisturbed, SkewHasCause, InInstaller
    <2>. QED  BY <2>5, <2>6
  <1>7. CASE MakeRelease(p)
    <2>1. /\ pc[p] = "build" /\ pc'[p] = "built" /\ \A q \in Procs \ {p} : pc'[q] = pc[q]
          /\ UNCHANGED <<own, main, disturbed>>
      BY <1>7, CommandPlace DEF MakeRelease, InInstaller
    <2>2. UNCHANGED <<unfinished, overlapped, installed, repo>> /\ reading'[p] = repo.tree
          /\ \A q \in Procs \ {p} : reading'[q] = reading[q]
      BY <1>7 DEF MakeRelease, InstallTyped
    <2>3. Present' <=> Present  BY <2>2 DEF Present
    <2>4. repo.tree \in Nat  BY DEF InstallationTypeOK
    <2>5. Order'  BY <2>1, <2>2, <2>3, <2>4 DEF Order
    <2>6. (\A q \in Procs : Undisturbed(q)') /\ SkewHasCause'  BY <2>1, <2>2, <2>3 DEF Undisturbed, SkewHasCause, InInstaller
    <2>. QED  BY <2>5, <2>6
  <1>8. CASE WriteBinary(p)
    <2>1. /\ pc[p] = "built" /\ pc'[p] = "install" /\ \A q \in Procs \ {p} : pc'[q] = pc[q]
          /\ UNCHANGED <<own, main, disturbed>>
      BY <1>8, CommandPlace DEF WriteBinary, InInstaller
    <2>2. Present /\ UNCHANGED <<reading, unfinished, overlapped, installed>>
          /\ repo'.tree = repo.tree /\ repo'.built = reading[p]
      BY <1>8 DEF WriteBinary, InstallationTypeOK
    <2>3. Present'  BY <2>2 DEF Present
    <2>4. Order'  BY <2>1, <2>2, <2>3 DEF Order
    <2>5. (\A q \in Procs : Undisturbed(q)') /\ SkewHasCause'  BY <2>1, <2>2, <2>3 DEF Undisturbed, SkewHasCause, InInstaller
    <2>. QED  BY <2>4, <2>5
  <1>9. CASE MakeInstall(p)
    <2>1. /\ pc[p] = "install" /\ pc'[p] = "prompts" /\ \A q \in Procs \ {p} : pc'[q] = pc[q]
          /\ UNCHANGED <<own, main, disturbed>>
      BY <1>9, CommandPlace DEF MakeInstall, InInstaller
    <2>2. UNCHANGED reading /\ repo'.tree = repo.tree /\ repo'.built = None
      BY <1>9 DEF MakeInstall, InstallationTypeOK
    <2>3. installed' \in {repo.tree} \cup (IF repo.built = None THEN {} ELSE {repo.built})
      BY <1>9 DEF MakeInstall
    <2>4. Present' <=> Present  BY <2>2 DEF Present
    <2>5. repo.tree \in Nat  BY DEF InstallationTypeOK
    <2>6. Order'  BY <2>1, <2>2, <2>3, <2>4, <2>5 DEF Order, None
    <2>7. p \notin disturbed => installed' = repo'.tree
      BY <2>1, <2>2, <2>3 DEF Undisturbed, InInstaller
    <2>9. overlapped' = (p \in disturbed)  BY <1>9 DEF MakeInstall
    <2>8. (\A q \in Procs : Undisturbed(q)') /\ SkewHasCause'
      BY <2>1, <2>2, <2>4, <2>7, <2>9 DEF Undisturbed, SkewHasCause, InInstaller
    <2>. QED  BY <2>6, <2>8
  <1>10. CASE Prompts(p)
    <2>1. /\ pc[p] = "prompts" /\ pc'[p] = "clean" /\ \A q \in Procs \ {p} : pc'[q] = pc[q]
          /\ UNCHANGED <<own, main, disturbed>>
      BY <1>10, CommandPlace DEF Prompts, InInstaller
    <2>2. UNCHANGED <<reading, unfinished, overlapped, installed, repo>>  BY <1>10 DEF Prompts
    <2>3. Present' <=> Present  BY <2>2 DEF Present
    <2>. QED  BY <2>1, <2>2, <2>3 DEF Order, Undisturbed, SkewHasCause, InInstaller
  <1>11. CASE RemoveSources(p)
    <2>1. /\ pc[p] = "clean" /\ pc'[p] = "ok" /\ \A q \in Procs \ {p} : pc'[q] = pc[q]
      BY <1>1, <1>11, OnlyOwnPlace DEF RemoveSources, Leave, DownloadTyped
    <2>2. UNCHANGED <<own, reading, unfinished, disturbed, overlapped, installed>>
          /\ repo'.tree = repo.tree /\ repo'.built = None
      BY <1>11 DEF RemoveSources
    <2>3. Present' <=> Present  BY <2>2 DEF Present
    <2>4. repo.tree \in Nat  BY DEF InstallationTypeOK
    <2>5. Order'  BY <2>1, <2>2, <2>3, <2>4 DEF Order, None
    <2>6. (\A q \in Procs : Undisturbed(q)') /\ SkewHasCause'  BY <2>1, <2>2, <2>3 DEF Undisturbed, SkewHasCause, InInstaller
    <2>. QED  BY <2>5, <2>6
  <1>. QED  BY <1>2, <1>3, <1>4, <1>5, <1>6, <1>7, <1>8, <1>9, <1>10, <1>11 DEF Install

LEMMA InstallInvDownload ==
  ASSUME NEW p \in Procs, ToolchainTypeOK, InstallInv, Download(p)
  PROVE  InstallInv'
  <1>. DownloadTyped /\ InstallTyped  BY TypeParts DEF InstallTyped
  <1>1. {"failed", "up to date", "mkdtemp", "script", "sum", "verify", "run"} \subseteq Steps \ InInstaller
    BY DEF Steps, Ends, InDownload, InInstaller
  <1>2. ASSUME InstallSame PROVE UNCHANGED <<own, reading, unfinished, disturbed, overlapped, installed, repo>>
    BY <1>2 DEF InstallSame
  <1>3. CASE CheckUpdate(p) \/ MakeTempDir(p) \/ DownloadScript(p) \/ DownloadSum(p) \/ Verify(p)
    <2>1. \E s \in {"failed", "up to date", "mkdtemp", "script", "sum", "verify", "run"} : Goto(p, s)
      BY <1>3 DEF CheckUpdate, MakeTempDir, DownloadScript, DownloadSum, Verify, Leave
    <2>2. InstallSame  BY <1>3 DEF CheckUpdate, MakeTempDir, DownloadScript, DownloadSum, Verify
    <2>. QED  BY <1>1, <1>2, <2>1, <2>2, OutsideStep
  <1>4. CASE RunInstaller(p)
    <2>1. UNCHANGED <<own, reading, unfinished, overlapped, installed, repo>> /\ pc[p] = "run"
      BY <1>4 DEF RunInstaller
    <2>2. CASE Leave(p, "failed") /\ UNCHANGED <<ran, disturbed>>
      BY <1>1, <2>1, <2>2, OutsideStep DEF Leave
    <2>3. CASE /\ disturbed' = disturbed \cup Others(p) \cup (IF Others(p) = {} THEN {} ELSE {p})
               /\ Goto(p, "dependencies")
      <3>1. pc'[p] = "dependencies" /\ \A q \in Procs \ {p} : pc'[q] = pc[q]
        BY <2>3, OnlyOwnPlace DEF DownloadTyped, Steps, InInstaller
      <3>2. Present' <=> Present  BY <2>1 DEF Present
      <3>3. Order'  BY <2>1, <3>1, <3>2 DEF InstallInv, Order
      <3>4. ASSUME NEW q \in Procs PROVE Undisturbed(q)'
        <4>1. CASE q = p
          BY <2>1, <2>3, <3>1, <4>1 DEF Undisturbed, Others, InInstaller
        <4>2. CASE q # p /\ pc[q] \in InInstaller
          <5>1. q \in disturbed'  BY <2>3, <4>2 DEF Others
          <5>. QED  BY <5>1 DEF Undisturbed
        <4>3. CASE q # p /\ pc[q] \notin InInstaller
          BY <3>1, <4>3 DEF Undisturbed
        <4>. QED  BY <4>1, <4>2, <4>3
      <3>5. SkewHasCause'  BY <2>1, <3>2 DEF InstallInv, SkewHasCause
      <3>. QED  BY <3>3, <3>4, <3>5 DEF InstallInv
    <2>. QED  BY <1>4, <2>2, <2>3 DEF RunInstaller
  <1>. QED  BY <1>3, <1>4 DEF Download

LEMMA InstallInvStep == ToolchainTypeOK /\ InstallInv /\ [Next]_vars => InstallInv'
  <1>. SUFFICES ASSUME ToolchainTypeOK, InstallInv, [Next]_vars PROVE InstallInv'  OBVIOUS
  <1>. DownloadTyped /\ InstallTyped  BY TypeParts
  <1>1. CASE UNCHANGED vars
    BY <1>1 DEF vars, InstallInv, Order, Undisturbed, SkewHasCause, Present
  <1>2. {"ok", "failed", "killed", "check", "front end"} \cup InDriver \subseteq Steps \ InInstaller
    BY DEF Steps, Ends, InDriver, InInstaller
  <1>3. ASSUME NEW p \in Procs, Launch(p) PROVE InstallInv'
    <2>1. PICK s \in {"failed", "ok", "check", "front end"} : Goto(p, s)
      BY <1>3 DEF Launch, Start
    <2>. QED  BY <1>2, <1>3, <2>1, OutsideStep DEF Launch
  <1>4. ASSUME NEW p \in Procs, Killed(p) PROVE InstallInv'
    BY <1>2, <1>4, OutsideStep DEF Killed, Kill, updaterVars
  <1>5. ASSUME NEW p \in Procs, Compiling(p) PROVE InstallInv'
    <2>1. PICK s \in InDriver \cup {"ok", "failed"} : Goto(p, s)
      BY <1>5 DEF Compiling, Compile, FrontEnd, CreateC, Codegen, StartCC, EndCC, AfterCC, RemoveC,
                  InDriver
    <2>2. s # "check"  BY DEF InDriver
    <2>. QED  BY <1>2, <1>5, <2>1, <2>2, OutsideStep DEF Compiling, updaterVars
  <1>6. ASSUME NEW p \in Procs, Updating(p) PROVE InstallInv'
    BY <1>6, InstallInvDownload, InstallInvCommand DEF Updating
  <1>7. CASE Environment
    <2>1. UNCHANGED <<pc, own, reading, unfinished, disturbed, overlapped, installed>>
      BY <1>7 DEF Environment, updaterVars, Publish, RemoveRepo
    <2>2. CASE Publish
      BY <2>1, <2>2 DEF Publish, InstallInv, Order, Undisturbed, SkewHasCause, Present
    <2>3. CASE RemoveRepo /\ \A p \in Procs : pc[p] \notin InInstaller
      <3>1. ~ Present'  BY <2>3 DEF RemoveRepo, Present, NoRepo
      <3>. QED  BY <2>1, <2>3, <3>1 DEF InstallInv, Order, Undisturbed, SkewHasCause, InInstaller
    <2>. QED  BY <1>7, <2>2, <2>3 DEF Environment
  <1>. QED  BY <1>1, <1>3, <1>4, <1>5, <1>6, <1>7 DEF Next

\* A compiler and a runtime of different commits have one of the two causes, and
\* an installer that no other one meets leaves neither, for any number of
\* installers and commits.
THEOREM SkewsHaveACause == Spec => []SkewHasCause
  <1>1. InstallInv => SkewHasCause  BY DEF InstallInv
  <1>. QED  BY <1>1, TypeInit, TypeStep, InstallInit, InstallInvStep, PTL DEF Spec

LEMMA EqualIfBothWays == ASSUME NEW a \in Nat, NEW b \in Nat, a <= b, b <= a PROVE a = b
  OBVIOUS
LEMMA Between ==
  ASSUME NEW n \in Nat, NEW m \in 1 .. n, NEW a \in 0 .. m, NEW b \in 0 .. m, a # 0, b # 0
  PROVE  a \in 1 .. n /\ b \in 1 .. n /\ b <= m
  OBVIOUS

\* Whoever is told to be up to date has the runtime of its own version, since
\* its program is no newer than the sources and these no newer than main.
THEOREM UpToDateIsTold == Spec => UpToDateIsTrue
  <1>1. ToolchainTypeOK /\ InstallInv /\ [Next]_vars =>
          [\A p \in Procs : At(p, "check") /\ pc'[p] = "up to date" /\ Present =>
             VersionOf[repo.tree] = VersionOf[own[p]]]_vars
    <2>. SUFFICES ASSUME ToolchainTypeOK, InstallInv, [Next]_vars,
                         NEW p \in Procs, At(p, "check"), pc'[p] = "up to date", Present
                  PROVE  VersionOf[repo.tree] = VersionOf[own[p]]
      OBVIOUS
    <2>. DownloadTyped /\ InstallTyped  BY TypeParts
    <2>1. Download(p) /\ CheckUpdate(p)
      <3>1. \E q \in Procs : Launch(q) \/ Killed(q) \/ Compiling(q) \/ Updating(q)
        BY DEF Next, Environment, vars
      <3>2. PICK q \in Procs : Launch(q) \/ Killed(q) \/ Compiling(q) \/ Updating(q)  BY <3>1
      <3>3. ASSUME NEW s \in Steps, Goto(q, s) PROVE q = p /\ s = "up to date"
        BY <3>3, OnlyOwnPlace DEF DownloadTyped
      <3>4. ~ Launch(q)  BY <3>3 DEF Launch, Start, Steps, Ends, InDriver
      <3>5. ~ Killed(q)
        <4>1. "killed" \in Steps /\ "killed" # "up to date"  BY DEF Steps, Ends
        <4>. QED  BY <3>3, <4>1 DEF Killed, Kill
      <3>6. ~ Compiling(q)
        <4>1. ASSUME Compiling(q) PROVE \E s \in InDriver \cup {"ok", "failed"} : Goto(q, s)
          BY <4>1 DEF Compiling, Compile, FrontEnd, CreateC, Codegen, StartCC, EndCC, AfterCC, RemoveC,
                      InDriver
        <4>. QED  BY <3>3, <4>1 DEF Steps, Ends, InDriver
      <3>7. q = p
        BY <3>2, <3>3, <3>4, <3>5, <3>6, UpdaterPlaces, NoLink DEF Updating
      <3>8. ~ Install(p)
        BY DEF Install, InstallerFails, CheckDependencies, GitFetch, GitReset, GitClone,
               MakeRelease, WriteBinary, MakeInstall, Prompts, RemoveSources, Command, InInstaller
      <3>9. Download(p)  BY <3>2, <3>4, <3>5, <3>6, <3>7, <3>8 DEF Updating
      <3>. QED
        BY <3>9 DEF Download, MakeTempDir, DownloadScript, DownloadSum, Verify, RunInstaller
    <2>2. VersionOf[own[p]] = VersionOf[main]
      <3>1. \A s \in Steps : Goto(p, s) => s = "up to date"
        BY OnlyOwnPlace DEF DownloadTyped
      <3>2. {"failed", "mkdtemp"} \subseteq Steps  BY DEF Steps, Ends
      <3>. QED  BY <2>1, <3>1, <3>2 DEF CheckUpdate, Offered
    <2>3. own[p] <= repo.tree /\ own[p] # 0 /\ repo.tree # 0
      BY DEF InstallInv, Order, Present, None
    <2>4. main \in 1 .. Commits /\ own[p] \in 0 .. main /\ repo.tree \in 0 .. main /\ Commits \in Nat
      BY VersionsAdvance DEF InstallTyped, InstallationTypeOK
    <2>5. /\ own[p] \in 1 .. Commits /\ repo.tree \in 1 .. Commits
          /\ own[p] <= repo.tree /\ repo.tree <= main
      BY <2>3, <2>4, Between
    <2>6. VersionOf[own[p]] <= VersionOf[repo.tree] /\ VersionOf[repo.tree] <= VersionOf[main]
      BY <2>4, <2>5, VersionsAdvance
    <2>7. VersionOf[repo.tree] \in Nat /\ VersionOf[main] \in Nat
      BY <2>4, <2>5, VersionsAdvance
    <2>. QED  BY <2>2, <2>6, <2>7, EqualIfBothWays
  <1>. QED
    BY <1>1, TypeInit, TypeStep, InstallInit, InstallInvStep, PTL DEF Spec, UpToDateIsTrue

-----------------------------------------------------------------------------
\* The files of a compilation none of whose paths another one writes to.
Places ==
  \A p \in Procs : /\ pc[p] \in InDriver => Compiler(p)
                   /\ Compiler(p) => pc[p] \in {"main", "ok", "failed", "killed"} \cup InDriver

\* What nobody but p has made, by how far p got.
Apart(p) ==
  /\ \A path \in Paths \ Touched(opts[p]) : files[path].of # p
  /\ \A q \in Procs \ {p} : unit[q].of # p
Written(p) ==
  LET o == opts[p]  c == files[CPath(o)]  bin == files[BinPath(o)] IN
  /\ pc[p] \in {"main", "front end", "create"} => c.of # p
  /\ pc[p] \in {"main", "front end", "create", "codegen", "compile", "link"} /\ o.mode # "c"
       => bin.of # p
  /\ pc[p] = "codegen" => c = File(p, "empty")
  /\ pc[p] \in {"compile", "link", "remove"} =>
       c.of = p /\ o.mode # "c" /\ (p \notin unnoticed => c = File(p, "text"))
  /\ pc[p] = "link" => unit[p].of = p /\ (p \notin unnoticed => unit[p] = File(p, "text"))
  /\ pc[p] = "remove" =>
       bin.of = p /\ o.mode = "binary" /\ (p \notin unnoticed => bin = File(p, "program"))
Status(p) ==
  /\ pc[p] = "ok" => \A path \in Outputs(opts[p]) : files[path].of = p
  /\ pc[p] = "ok" /\ p \notin unnoticed =>
       /\ Complete(p)
       /\ opts[p].mode = "binary" => files[CPath(opts[p])] = NoFile
  /\ pc[p] = "failed" => ~ Complete(p)
FilesInv == Places /\ \A p \in Procs : Compiler(p) /\ Alone(p) => Apart(p) /\ Written(p) /\ Status(p)

\* The paths of a compilation.
LEMMA ThePaths ==
  ASSUME NEW p \in Procs, DownloadTyped
  PROVE  LET o == opts[p] IN
         /\ CPath(o) \in Paths /\ BinPath(o) \in Paths
         /\ o.mode = "c" => CPath(o) = BinPath(o)
         /\ o.mode # "c" => CPath(o) # BinPath(o)
         /\ Touched(o) = {CPath(o), BinPath(o)} /\ Outputs(o) \subseteq Touched(o)
         /\ BinPath(o) \in Outputs(o)
         /\ o.mode \in {"aout", "binary"} => Outputs(o) = {BinPath(o)}
  <1>1. opts[p] \in Runs  BY DEF DownloadTyped, Runs
  <1>2. CPath(opts[p]) \in Paths /\ BinPath(opts[p]) \in Paths  BY <1>1 DEF Paths
  <1>3. opts[p].mode = "c" => CPath(opts[p]) = BinPath(opts[p])  BY DEF CPath, BinPath
  <1>4. opts[p].mode # "c" => CPath(opts[p]) # BinPath(opts[p])  BY <1>1, NamesFit
  <1>. QED  BY <1>2, <1>3, <1>4 DEF Touched, Outputs

LEMMA WhoseFile ==
  /\ NoFile.of = "nobody" /\ Old.of = "nobody"
  /\ \A p, s : File(p, s).of = p /\ File(p, s).state = s
  /\ \A text : Linked(text).of = text.of
  /\ \A p : Linked(File(p, "text")) = File(p, "program")
  BY DEF NoFile, Old, File, Linked

LEMMA FilesInit == Init => FilesInv
  <1>. SUFFICES ASSUME Init PROVE FilesInv  OBVIOUS
  <1>1. \A p \in Procs : pc[p] = "main" /\ unit[p] = NoFile
    BY DEF Init, CommandLineInit, DriverInit
  <1>2. \A path \in Paths : files[path].of = "nobody"
    BY WhoseFile DEF Init, DriverInit
  <1>3. Places  BY <1>1 DEF Places, InDriver
  <1>4. DownloadTyped  BY TypeInit, TypeParts
  <1>5. ASSUME NEW p \in Procs PROVE Apart(p) /\ Written(p) /\ Status(p)
    <2>1. p # "nobody"  BY ProcsAssumption
    <2>2. Apart(p)  BY <1>1, <1>2, <2>1, WhoseFile DEF Apart
    <2>3. files[CPath(opts[p])].of # p /\ files[BinPath(opts[p])].of # p
      BY <1>2, <1>4, <2>1, ThePaths
    <2>4. Written(p)  BY <1>1, <2>3 DEF Written
    <2>5. Status(p)  BY <1>1 DEF Status
    <2>. QED  BY <2>2, <2>4, <2>5
  <1>. QED  BY <1>3, <1>5 DEF FilesInv

\* What a compilation may change: its own paths, which then hold something of
\* its own, of what it has read, or nothing.
LEMMA CompileEffect ==
  ASSUME NEW q \in Procs, ToolchainTypeOK, Compile(q)
  PROVE  /\ \A path \in Paths \ Touched(opts[q]) : files'[path] = files[path]
         /\ \A path \in Paths : \/ files'[path] = files[path]
                                \/ files'[path].of \in {q, "nobody", unit[q].of}
         /\ \A r \in Procs \ {q} : unit'[r] = unit[r]
         /\ unit'[q] \in {unit[q], files[CPath(opts[q])]}
         /\ unnoticed' \in {unnoticed, unnoticed \cup {q}}
         /\ \E s \in InDriver \cup {"ok", "failed"} : Goto(q, s)
         /\ pc[q] \in InDriver
  <1>. DownloadTyped /\ DriverTypeOK  BY TypeParts
  <1>1. /\ CPath(opts[q]) \in Paths /\ BinPath(opts[q]) \in Paths
        /\ Touched(opts[q]) = {CPath(opts[q]), BinPath(opts[q])}
    BY ThePaths
  <1>2. ASSUME NEW to \in Paths, to \in Touched(opts[q]), NEW f,
               f.of \in {q, "nobody", unit[q].of}, Put(to, f)
        PROVE  /\ \A path \in Paths \ Touched(opts[q]) : files'[path] = files[path]
               /\ \A path \in Paths : \/ files'[path] = files[path]
                                      \/ files'[path].of \in {q, "nobody", unit[q].of}
    BY <1>2 DEF Put, DriverTypeOK
  <1>3. /\ \A path \in Paths \ Touched(opts[q]) : files'[path] = files[path]
        /\ \A path \in Paths : \/ files'[path] = files[path]
                               \/ files'[path].of \in {q, "nobody", unit[q].of}
    <2>1. CASE files' = files  BY <2>1
    <2>2. CASE files' # files
      <3>1. \E to \in {CPath(opts[q]), BinPath(opts[q])} :
              \E f \in {File(q, "empty"), File(q, "text"), File(q, "damaged"), NoFile, Linked(unit[q])} :
                Put(to, f)
        BY <2>2 DEF Compile, FrontEnd, CreateC, Codegen, StartCC, EndCC, RemoveC, driverVars
      <3>. QED  BY <1>1, <1>2, <3>1, WhoseFile
    <2>. QED  BY <2>1, <2>2
  <1>4. /\ \A r \in Procs \ {q} : unit'[r] = unit[r]
        /\ unit'[q] \in {unit[q], files[CPath(opts[q])]}
    <2>1. unit' = unit \/ unit' = [unit EXCEPT ![q] = files[CPath(opts[q])]]
      BY DEF Compile, FrontEnd, CreateC, Codegen, StartCC, EndCC, RemoveC, driverVars
    <2>. QED  BY <2>1 DEF DriverTypeOK
  <1>5. \E s \in InDriver \cup {"ok", "failed"} : Goto(q, s)
    BY DEF Compile, FrontEnd, CreateC, Codegen, StartCC, EndCC, RemoveC, AfterCC, InDriver
  <1>6. pc[q] \in InDriver
    BY DEF Compile, FrontEnd, CreateC, Codegen, StartCC, EndCC, RemoveC, InDriver
  <1>7. unnoticed' \in {unnoticed, unnoticed \cup {q}}
    BY DEF Compile, FrontEnd, CreateC, Codegen, StartCC, EndCC, RemoveC, driverVars, Noticed, Unnoticed
  <1>. QED  BY <1>3, <1>4, <1>5, <1>6, <1>7

\* A compilation with other paths does not disturb p.
LEMMA OthersFiles ==
  ASSUME NEW p \in Procs, NEW q \in Procs \ {p}, ToolchainTypeOK, Compile(q), opts' = opts,
         Touched(opts[q]) \cap Touched(opts[p]) = {}, Apart(p), Written(p), Status(p)
  PROVE  Apart(p)' /\ Written(p)' /\ Status(p)'
  <1>. DownloadTyped /\ DriverTypeOK  BY TypeParts
  <1>1. /\ CPath(opts[p]) \in Paths /\ BinPath(opts[p]) \in Paths /\ CPath(opts[q]) \in Paths
        /\ Touched(opts[p]) = {CPath(opts[p]), BinPath(opts[p])} /\ CPath(opts[q]) \in Touched(opts[q])
        /\ Outputs(opts[p]) \subseteq Touched(opts[p])
    BY ThePaths
  <1>2. /\ \A path \in Touched(opts[p]) : files'[path] = files[path]
        /\ unit'[p] = unit[p] /\ (p \in unnoticed' <=> p \in unnoticed)
    <2>1. \A path \in Touched(opts[p]) : path \in Paths \ Touched(opts[q])  BY <1>1
    <2>. QED  BY <2>1, CompileEffect
  <1>3. pc'[p] = pc[p]
    <2>1. PICK s \in InDriver \cup {"ok", "failed"} : Goto(q, s)  BY CompileEffect
    <2>2. s \in Steps  BY DEF Steps, Ends
    <2>. QED  BY <2>1, <2>2, OnlyOwnPlace DEF DownloadTyped
  <1>4. p # "nobody" /\ unit[q].of # p  BY ProcsAssumption DEF Apart
  <1>5. \A path \in Paths \ Touched(opts[p]) : files'[path].of # p
    BY <1>4, CompileEffect DEF Apart
  <1>6. \A r \in Procs \ {p} : unit'[r].of # p
    <2>1. CPath(opts[q]) \in Paths \ Touched(opts[p])  BY <1>1
    <2>. QED  BY <2>1, CompileEffect DEF Apart
  <1>8. opts'[p] = opts[p] /\ CPath(opts[p])' = CPath(opts[p]) /\ BinPath(opts[p])' = BinPath(opts[p])
        /\ Touched(opts[p])' = Touched(opts[p]) /\ Outputs(opts[p])' = Outputs(opts[p])
    BY DEF CPath, BinPath, Touched, Outputs
  <1>7. Apart(p)'  BY <1>5, <1>6, <1>8 DEF Apart
  <1>9. Written(p)'  BY <1>1, <1>2, <1>3, <1>8 DEF Written
  <1>10. Status(p)'
    <2>1. \A path \in Outputs(opts[p]) : files'[path] = files[path]  BY <1>1, <1>2
    <2>2. files'[CPath(opts[p])] = files[CPath(opts[p])]  BY <1>1, <1>2
    <2>3. Complete(p)' <=> Complete(p)  BY <1>8, <2>1 DEF Complete
    <2>. QED  BY <1>2, <1>3, <1>8, <2>1, <2>2, <2>3 DEF Status
  <1>. QED  BY <1>7, <1>9, <1>10

\* A compilation gets on with its own files.
LEMMA OwnCompilation ==
  ASSUME NEW p \in Procs, ToolchainTypeOK, Compile(p), opts' = opts, Apart(p), Written(p)
  PROVE  Apart(p)' /\ Written(p)' /\ Status(p)'
  <1>. DownloadTyped /\ DriverTypeOK  BY TypeParts
  <1>. DEFINE o == opts[p]  c == CPath(o)  b == BinPath(o)
  <1>1. /\ c \in Paths /\ b \in Paths /\ (o.mode = "c" => c = b) /\ (o.mode # "c" => c # b)
        /\ Touched(o) = {c, b} /\ Outputs(o) \subseteq {c, b} /\ b \in Outputs(o)
        /\ o.mode \in {"aout", "binary"} => Outputs(o) = {b}
    BY ThePaths
  <1>2. /\ CPath(opts[p])' = c /\ BinPath(opts[p])' = b /\ Outputs(opts[p])' = Outputs(o)
        /\ Touched(opts[p])' = Touched(o) /\ opts'[p] = o
    BY DEF CPath, BinPath, Outputs, Touched
  <1>3. Apart(p)'
    <2>1. \A path \in Paths \ Touched(o) : files'[path].of # p  BY CompileEffect DEF Apart
    <2>2. \A q \in Procs \ {p} : unit'[q].of # p  BY CompileEffect DEF Apart
    <2>. QED  BY <1>2, <2>1, <2>2 DEF Apart
  <1>. SUFFICES Written(p)' /\ Status(p)'  BY <1>3
  <1>4. /\ \A f : Put(c, f) => files'[c] = f /\ (o.mode # "c" => files'[b] = files[b])
        /\ \A f : Put(b, f) => files'[b] = f /\ (o.mode # "c" => files'[c] = files[c])
    BY <1>1 DEF Put, DriverTypeOK
  <1>5. ASSUME NEW s \in InDriver \cup {"ok", "failed"}, Goto(p, s) PROVE pc'[p] = s
    BY <1>5, OnlyOwnPlace DEF DownloadTyped, Steps, Ends
  <1>6. p # "nobody"  BY ProcsAssumption
  <1>7. /\ pc[p] \in {"main", "front end", "create"} => files[c].of # p
        /\ pc[p] \in {"main", "front end", "create", "codegen", "compile", "link"} /\ o.mode # "c"
             => files[b].of # p
        /\ pc[p] = "codegen" => files[c] = File(p, "empty")
        /\ pc[p] \in {"compile", "link", "remove"} =>
             files[c].of = p /\ o.mode # "c" /\ (p \notin unnoticed => files[c] = File(p, "text"))
        /\ pc[p] = "link" => unit[p].of = p /\ (p \notin unnoticed => unit[p] = File(p, "text"))
        /\ pc[p] = "remove" =>
             files[b].of = p /\ o.mode = "binary" /\ (p \notin unnoticed => files[b] = File(p, "program"))
    BY DEF Written
  <1>15. Complete(p)' <=> \A path \in Outputs(o) :
                             files'[path] = File(p, IF path = c THEN "text" ELSE "program")
    BY <1>2 DEF Complete
  <1>16. Noticed => (p \in unnoticed' <=> p \in unnoticed)  BY DEF Noticed
  <1>17. Unnoticed(p) => p \in unnoticed'  BY DEF Unnoticed
  \* Ending with a failure before the binary is written.
  <1>8. ASSUME pc'[p] = "failed", o.mode # "c" => files'[b].of # p,
               o.mode = "c" => files'[c] # File(p, "text")
        PROVE  Written(p)' /\ Status(p)'
    <2>1. ~ Complete(p)'
      <3>1. CASE o.mode = "c"  BY <1>1, <1>8, <1>15, <3>1
      <3>2. CASE o.mode # "c"  BY <1>1, <1>8, <1>15, <3>2, WhoseFile
      <3>. QED  BY <3>1, <3>2
    <2>. QED  BY <1>2, <1>8, <2>1 DEF Written, Status
  <1>. HIDE DEF o, c, b
  <1>9. CASE FrontEnd(p)
    <2>1. files' = files /\ pc[p] = "front end" /\ (Goto(p, "create") \/ Goto(p, "failed"))
      BY <1>9 DEF FrontEnd, driverVars
    <2>2. files'[c].of # p /\ (o.mode # "c" => files'[b].of # p)  BY <1>7, <2>1
    <2>3. CASE Goto(p, "failed")
      BY <1>5, <1>8, <2>2, <2>3, WhoseFile
    <2>4. CASE Goto(p, "create")
      <3>1. pc'[p] = "create"  BY <1>5, <2>4 DEF InDriver
      <3>. QED  BY <1>2, <2>2, <3>1 DEF Written, Status
    <2>. QED  BY <2>1, <2>3, <2>4
  <1>10. CASE CreateC(p)
    <2>1. pc[p] = "create"  BY <1>10 DEF CreateC
    <2>2. CASE files' = files /\ Goto(p, "failed")
      BY <1>5, <1>7, <1>8, <2>1, <2>2, WhoseFile
    <2>3. CASE Put(c, File(p, "empty")) /\ Goto(p, "codegen")
      <3>1. pc'[p] = "codegen"  BY <1>5, <2>3 DEF InDriver
      <3>2. files'[c] = File(p, "empty") /\ (o.mode # "c" => files'[b].of # p)
        BY <1>4, <1>7, <2>1, <2>3
      <3>. QED  BY <1>2, <3>1, <3>2 DEF Written, Status
    <2>. QED  BY <1>10, <2>2, <2>3 DEF CreateC, o, c
  <1>11. CASE Codegen(p)
    <2>1. pc[p] = "codegen" /\ files[c] = File(p, "empty") /\ (o.mode # "c" => files[b].of # p)
      BY <1>7, <1>11 DEF Codegen
    <2>2. CASE files' = files /\ Goto(p, "failed")
      BY <1>5, <1>8, <2>1, <2>2, WhoseFile
    <2>3. CASE /\ Goto(p, IF o.mode = "c" THEN "ok" ELSE "compile")
               /\ \/ Put(c, File(p, "text"))
                  \/ Put(c, File(p, "damaged")) /\ Unnoticed(p)
      <3>1. pc'[p] = IF o.mode = "c" THEN "ok" ELSE "compile"  BY <1>5, <2>3 DEF InDriver
      <3>2. /\ files'[c].of = p /\ (p \notin unnoticed' => files'[c] = File(p, "text"))
            /\ o.mode # "c" => files'[b].of # p
        BY <1>4, <1>17, <2>1, <2>3, WhoseFile
      <3>3. CASE o.mode = "c"
        <4>1. pc'[p] = "ok"  BY <3>1, <3>3
        <4>2. Written(p)'  BY <4>1 DEF Written
        <4>3. \A path \in Outputs(o) : path = c  BY <1>1, <3>3
        <4>4. Status(p)'  BY <1>2, <1>15, <3>2, <3>3, <4>1, <4>3 DEF Status
        <4>. QED  BY <4>2, <4>4
      <3>4. CASE o.mode # "c"
        <4>1. pc'[p] = "compile"  BY <3>1, <3>4
        <4>. QED  BY <1>2, <3>2, <3>4, <4>1 DEF Written, Status
      <3>. QED  BY <3>3, <3>4
    <2>4. files[c].state = "empty" /\ files[c].of = p  BY <2>1, WhoseFile
    <2>. QED  BY <1>11, <2>2, <2>3, <2>4 DEF Codegen, o, c
  <1>12. CASE StartCC(p)
    <2>1. /\ pc[p] = "compile" /\ files[c].of = p /\ files[b].of # p /\ o.mode # "c"
          /\ p \notin unnoticed => files[c] = File(p, "text")
          /\ files' = files /\ (p \in unnoticed' <=> p \in unnoticed)
      BY <1>7, <1>12, <1>16 DEF StartCC
    <2>2. CASE Goto(p, "failed")
      BY <1>5, <1>8, <2>1, <2>2
    <2>3. CASE unit' = [unit EXCEPT ![p] = files[c]] /\ Goto(p, "link")
      <3>1. pc'[p] = "link"  BY <1>5, <2>3 DEF InDriver
      <3>2. unit'[p] = files[c]  BY <2>3 DEF DriverTypeOK
      <3>. QED  BY <1>2, <2>1, <3>1, <3>2 DEF Written, Status
    <2>. QED  BY <1>12, <2>2, <2>3 DEF StartCC, o, c
  <1>13. CASE EndCC(p)
    <2>1. /\ pc[p] = "link" /\ files[c].of = p /\ files[b].of # p /\ o.mode # "c"
          /\ p \notin unnoticed => files[c] = File(p, "text") /\ unit[p] = File(p, "text")
          /\ unit[p].of = p /\ (p \in unnoticed' <=> p \in unnoticed)
      BY <1>7, <1>13, <1>16 DEF EndCC
    <2>2. CASE (Put(b, NoFile) \/ files' = files) /\ Goto(p, "failed")
      <3>1. files'[b].of # p  BY <1>4, <1>6, <2>1, <2>2, WhoseFile
      <3>. QED  BY <1>5, <1>8, <2>1, <2>2, <3>1
    <2>3. CASE Put(b, Linked(unit[p])) /\ Goto(p, AfterCC(o))
      <3>1. pc'[p] = IF o.mode = "binary" THEN "remove" ELSE "ok"
        BY <1>5, <2>3 DEF InDriver, AfterCC
      <3>2. /\ files'[b].of = p /\ files'[c] = files[c]
            /\ p \notin unnoticed => files'[b] = File(p, "program")
        BY <1>4, <2>1, <2>3, WhoseFile
      <3>3. CASE o.mode = "binary"
        <4>1. pc'[p] = "remove"  BY <3>1, <3>3
        <4>. QED  BY <1>2, <2>1, <3>2, <3>3, <4>1 DEF Written, Status
      <3>4. CASE o.mode # "binary"
        <4>1. pc'[p] = "ok"  BY <3>1, <3>4
        <4>2. Written(p)'  BY <4>1 DEF Written
        <4>3. \A path \in Outputs(o) : files'[path].of = p  BY <1>1, <2>1, <3>2
        <4>4. p \notin unnoticed => Complete(p)'  BY <1>1, <1>15, <2>1, <3>2
        <4>5. Status(p)'  BY <1>2, <2>1, <3>4, <4>1, <4>3, <4>4 DEF Status
        <4>. QED  BY <4>2, <4>5
      <3>. QED  BY <3>3, <3>4
    <2>. QED  BY <1>13, <2>2, <2>3 DEF EndCC, o, b
  <1>14. CASE RemoveC(p)
    <2>1. /\ pc[p] = "remove" /\ files[b].of = p /\ o.mode = "binary" /\ Goto(p, "ok")
          /\ p \notin unnoticed => files[b] = File(p, "program")
          /\ \/ Put(c, NoFile) /\ Noticed
             \/ files' = files /\ Unnoticed(p)
      BY <1>7, <1>14 DEF RemoveC, o, c
    <2>2. /\ pc'[p] = "ok" /\ files'[b].of = p
          /\ p \notin unnoticed' => files'[b] = File(p, "program") /\ files'[c] = NoFile
      BY <1>4, <1>5, <1>16, <1>17, <2>1
    <2>3. Written(p)'  BY <2>2 DEF Written
    <2>4. Outputs(o) = {b} /\ b # c  BY <1>1, <2>1
    <2>5. p \notin unnoticed' => Complete(p)'  BY <1>15, <2>2, <2>4
    <2>6. Status(p)'  BY <1>2, <2>2, <2>4, <2>5 DEF Status
    <2>. QED  BY <2>3, <2>6
  <1>. QED  BY <1>9, <1>10, <1>11, <1>12, <1>13, <1>14 DEF Compile

\* The places of an updater and its installer.
InUpdater == {"check", "mkdtemp"} \cup InDownload \cup InInstaller

LEMMA FromUpdaterPlaces ==
  ASSUME NEW q \in Procs, Download(q) \/ Install(q)
  PROVE  pc[q] \in InUpdater /\ opts' = opts
  <1>1. CASE Download(q)
    BY <1>1 DEF Download, CheckUpdate, MakeTempDir, DownloadScript, DownloadSum, Verify,
                RunInstaller, Leave, DownloadSame, InUpdater, InDownload
  <1>2. CASE Install(q)
    BY <1>2 DEF Install, InstallerFails, CheckDependencies, GitFetch, GitReset, GitClone,
                MakeRelease, WriteBinary, MakeInstall, Prompts, RemoveSources, Command, Leave,
                DownloadSame, InUpdater, InInstaller
  <1>. QED  BY <1>1, <1>2

\* A step that touches no file, and takes a compilation nowhere, to its front
\* end or to its end.
LEMMA NoFileTouched ==
  ASSUME ToolchainTypeOK, FilesInv, UNCHANGED <<opts, files, unit, unnoticed>>,
         \A p \in Procs : Compiler(p) => \/ pc'[p] = pc[p]
                                         \/ pc'[p] = "killed"
                                         \/ pc[p] = "main" /\ pc'[p] \in {"front end", "failed"},
         \A p \in Procs : ~ Compiler(p) => pc'[p] \notin InDriver
  PROVE  FilesInv'
  <1>. DownloadTyped  BY TypeParts
  <1>1. Places'
    BY DEF FilesInv, Places, InDriver, Compiler
  <1>2. ASSUME NEW p \in Procs, Compiler(p), Alone(p) PROVE Apart(p)' /\ Written(p)' /\ Status(p)'
    <2>1. Apart(p) /\ Written(p) /\ Status(p)  BY <1>2 DEF FilesInv
    <2>3. /\ CPath(opts[p])' = CPath(opts[p]) /\ BinPath(opts[p])' = BinPath(opts[p])
          /\ Outputs(opts[p])' = Outputs(opts[p]) /\ Touched(opts[p])' = Touched(opts[p])
          /\ Complete(p)' <=> Complete(p)
      BY DEF CPath, BinPath, Outputs, Touched, Complete
    <2>2. Apart(p)'  BY <2>1, <2>3 DEF Apart
    <2>4. CASE pc'[p] = pc[p]
      BY <2>1, <2>2, <2>3, <2>4 DEF Written, Status
    <2>5. CASE pc'[p] = "killed"
      BY <2>2, <2>5 DEF Written, Status
    <2>6. CASE pc[p] = "main" /\ pc'[p] \in {"front end", "failed"}
      <3>1. files[CPath(opts[p])].of # p /\ files[BinPath(opts[p])].of # p
        BY <2>1, <2>6, ThePaths DEF Written
      <3>2. Written(p)'  BY <2>3, <2>6, <3>1 DEF Written
      <3>3. ~ Complete(p)
        <4>1. File(p, "text").of = p /\ File(p, "program").of = p  BY WhoseFile
        <4>2. /\ files[BinPath(opts[p])] # File(p, "text")
              /\ files[BinPath(opts[p])] # File(p, "program")
          BY <3>1, <4>1
        <4>3. BinPath(opts[p]) \in Outputs(opts[p])  BY ThePaths
        <4>. QED  BY <4>2, <4>3 DEF Complete
      <3>4. Status(p)'  BY <2>3, <2>6, <3>3 DEF Status
      <3>. QED  BY <2>2, <3>2, <3>4
    <2>. QED  BY <1>2, <2>4, <2>5, <2>6
  <1>3. \A p \in Procs : (Compiler(p) /\ Alone(p))' => Compiler(p) /\ Alone(p)
    BY DEF Compiler, Alone, Touched, CPath, BinPath
  <1>. QED  BY <1>1, <1>2, <1>3 DEF FilesInv

LEMMA FilesInvStep == ToolchainTypeOK /\ FilesInv /\ [Next]_vars => FilesInv'
  <1>. SUFFICES ASSUME ToolchainTypeOK, FilesInv, [Next]_vars PROVE FilesInv'  OBVIOUS
  <1>. DownloadTyped /\ Places  BY TypeParts DEF FilesInv
  <1>1. ASSUME NEW q \in Procs, NEW s \in Steps, Goto(q, s),
               UNCHANGED <<opts, files, unit, unnoticed>>,
               Compiler(q) => s = "killed" \/ (pc[q] = "main" /\ s \in {"front end", "failed"}),
               ~ Compiler(q) => s \notin InDriver
        PROVE  FilesInv'
    <2>1. pc'[q] = s /\ \A r \in Procs \ {q} : pc'[r] = pc[r]
      BY <1>1, OnlyOwnPlace DEF DownloadTyped
    <2>2. \A p \in Procs : Compiler(p) => \/ pc'[p] = pc[p]
                                          \/ pc'[p] = "killed"
                                          \/ pc[p] = "main" /\ pc'[p] \in {"front end", "failed"}
      BY <1>1, <2>1
    <2>3. \A p \in Procs : ~ Compiler(p) => pc'[p] \notin InDriver
      BY <1>1, <2>1 DEF Places
    <2>. QED  BY <1>1, <2>2, <2>3, NoFileTouched
  <1>2. ASSUME UNCHANGED <<opts, pc, files, unit, unnoticed>> PROVE FilesInv'
    BY <1>2, NoFileTouched DEF Places
  <1>3. ASSUME NEW q \in Procs, Launch(q) PROVE FilesInv'
    <2>1. UNCHANGED <<opts, files, unit, unnoticed>> /\ pc[q] = "main"
      BY <1>3 DEF Launch, Start, driverVars
    <2>2. PICK s \in {"failed", "ok", "check", "front end"} :
            /\ Goto(q, s)
            /\ Compiler(q) => s \in {"front end", "failed"}
            /\ ~ Compiler(q) => s # "front end"
      BY <1>3 DEF Launch, Start, Compiler
    <2>3. s \in Steps /\ (s \in InDriver => s = "front end")  BY DEF Steps, Ends, InDriver
    <2>. QED  BY <1>1, <2>1, <2>2, <2>3
  <1>4. ASSUME NEW q \in Procs, Killed(q) PROVE FilesInv'
    <2>1. Goto(q, "killed") /\ UNCHANGED <<opts, files, unit, unnoticed>>
      BY <1>4 DEF Killed, Kill, driverVars
    <2>2. PICK s \in Steps \ InDriver : s = "killed" /\ Goto(q, s)
      BY <2>1 DEF Steps, Ends, InDriver
    <2>. QED  BY <1>1, <2>1, <2>2
  <1>5. ASSUME NEW q \in Procs, Updating(q) PROVE FilesInv'
    <2>1. PICK s \in UpdaterTargets : Goto(q, s)  BY <1>5, UpdaterPlaces DEF Updating
    <2>2. pc[q] \in InUpdater /\ opts' = opts  BY <1>5, FromUpdaterPlaces DEF Updating
    <2>3. ~ Compiler(q)
      BY <2>2 DEF Places, InUpdater, InDownload, InInstaller, InDriver
    <2>4. s \in Steps /\ s \notin InDriver
      BY DEF Steps, UpdaterTargets, InDownload, InInstaller, InDriver, Ends
    <2>. QED  BY <1>1, <1>5, <2>1, <2>2, <2>3, <2>4 DEF Updating, driverVars
  <1>6. ASSUME NEW q \in Procs, Compiling(q) PROVE FilesInv'
    <2>1. Compile(q) /\ opts' = opts
      BY <1>6 DEF Compiling, Compile, FrontEnd, CreateC, Codegen, StartCC, EndCC, RemoveC
    <2>2. PICK s \in InDriver \cup {"ok", "failed"} : Goto(q, s)  BY <2>1, CompileEffect
    <2>3. pc'[q] = s /\ \A r \in Procs \ {q} : pc'[r] = pc[r]
      BY <2>2, OnlyOwnPlace DEF DownloadTyped, Steps, Ends
    <2>4. Compiler(q)  BY <2>1, CompileEffect DEF Places
    <2>5. Places'  BY <2>1, <2>3, <2>4 DEF Places, Compiler
    <2>6. ASSUME NEW p \in Procs, Compiler(p), Alone(p)
          PROVE  Apart(p)' /\ Written(p)' /\ Status(p)'
      <3>1. Apart(p) /\ Written(p) /\ Status(p)  BY <2>6 DEF FilesInv
      <3>2. CASE p = q  BY <2>1, <3>1, <3>2, OwnCompilation
      <3>3. CASE p # q
        <4>1. Touched(opts[q]) \cap Touched(opts[p]) = {}  BY <2>4, <2>6, <3>3 DEF Alone
        <4>. QED  BY <2>1, <3>1, <3>3, <4>1, OthersFiles
      <3>. QED  BY <3>2, <3>3
    <2>7. \A p \in Procs : (Compiler(p) /\ Alone(p))' => Compiler(p) /\ Alone(p)
      BY <2>1 DEF Compiler, Alone, Touched, CPath, BinPath
    <2>. QED  BY <2>5, <2>6, <2>7 DEF FilesInv
  <1>7. CASE Environment
    BY <1>2, <1>7 DEF Environment, driverVars
  <1>8. CASE UNCHANGED vars
    BY <1>2, <1>8 DEF vars
  <1>. QED  BY <1>3, <1>4, <1>5, <1>6, <1>7, <1>8 DEF Next

\* The exit status of a compilation tells whether its outputs are there and its
\* own, and unless a write or the removal failed without main looking, whether
\* they are whole: whatever compilations with other paths, updates and kills
\* happen meanwhile (main, compile_to).
THEOREM ExitStatusesAreTrue == Spec => []ExitStatusIsTrue
  <1>1. FilesInv => ExitStatusIsTrue
    BY DEF FilesInv, ExitStatusIsTrue, Status
  <1>. QED
    BY <1>1, TypeInit, TypeStep, FilesInit, FilesInvStep, PTL DEF Spec
=============================================================================
