------------------------------- MODULE Driver -------------------------------
(***************************************************************************)
(* A run of pinum that compiles a program: what main does to the disk      *)
(* around the front end, step by step, and the C compiler it waits for.    *)
(* Several may run in one directory, each with a program of its own.       *)
(*                                                                         *)
(* A file is the process it is made for and what there is of it.  A path   *)
(* is its text: names that differ may come to one path.                    *)
(***************************************************************************)
EXTENDS CommandLine, Installation

CONSTANT Leftovers   \* which paths may be there already: a set of sets of paths

VARIABLES files,      \* the working directory
          unit,       \* what the C compiler of each process has read
          unnoticed   \* history: who had an error that main does not look at

driverVars == <<files, unit, unnoticed>>

ASSUME ProcsAssumption == "nobody" \notin Procs

NoFile == [of |-> "nobody", state |-> "absent"]
Old == [of |-> "nobody", state |-> "text"]
\* A whole C text or a program made of one; a text that is cut short or mixed
\* with another, or what was made of that, is damaged.
FileStates == {"absent", "empty", "text", "program", "damaged"}
File(p, state) == [of |-> p, state |-> state]

\* Where the generated C goes.
CPath(o) == CASE o.mode = "aout"   -> "a.out.c"
              [] o.mode = "c"      -> o.name
              [] o.mode = "binary" -> o.name \o ".tmp.c"
              [] o.mode = "both"   -> o.name \o ".c"
\* Where the program goes; with -o file.c there is none.
BinPath(o) == o.name

Runs == {CliParse(args) : args \in CommandLines}
Paths == {CPath(o) : o \in Runs} \cup {BinPath(o) : o \in Runs}

\* The program is not written over its own C file: a name and its suffix fit into
\* the 1024 characters main has for them.
ASSUME NamesFit == \A o \in Runs : o.mode # "c" => CPath(o) # BinPath(o)

-----------------------------------------------------------------------------
DriverInit == /\ \E left \in Leftovers :
                   files = [path \in Paths |-> IF path \in left THEN Old ELSE NoFile]
              /\ unit = [p \in Procs |-> NoFile] /\ unnoticed = {}

Put(path, file) == files' = [files EXCEPT ![path] = file]
SameOpts == UNCHANGED opts
Noticed == UNCHANGED unnoticed
Unnoticed(p) == unnoticed' = unnoticed \cup {p}

\* The source is opened, read, parsed and analysed before anything is written.
FrontEnd(p) == /\ At(p, "front end")
               /\ Goto(p, "create") \/ Goto(p, "failed")
               /\ UNCHANGED driverVars /\ SameOpts

\* fopen(c_path, "w").
CreateC(p) == /\ At(p, "create")
              /\ \/ Put(CPath(opts[p]), File(p, "empty")) /\ Goto(p, "codegen")
                 \/ UNCHANGED files /\ Goto(p, "failed")
              /\ UNCHANGED unit /\ Noticed /\ SameOpts

\* codegen_c and fclose.  The text goes to the beginning of the file opened
\* before.  If another process has written to it since, the end of that may
\* stay behind; if another has removed or replaced it, the text goes to no
\* path.  Nobody looks at the results of fprintf and fclose: a text that is cut
\* short is passed on like a whole one.
Codegen(p) ==
  LET path == CPath(opts[p])  there == files[path] IN
  /\ At(p, "codegen")
  /\ \/ /\ Present
        /\ \/ there.state # "absent" /\ Put(path, File(p, "text")) /\ Noticed
           \/ there.state \notin {"absent", "empty"} /\ Put(path, File(p, "damaged")) /\ Noticed
           \/ there.state # "absent" /\ Put(path, File(p, "damaged")) /\ Unnoticed(p)
           \/ there.of # p /\ UNCHANGED files /\ (Noticed \/ Unnoticed(p))
        /\ Goto(p, IF opts[p].mode = "c" THEN "ok" ELSE "compile")
     \/ ~ Present /\ UNCHANGED files /\ Goto(p, "failed") /\ Noticed
  /\ UNCHANGED unit /\ SameOpts

\* find_compiler and the child's start: it reads the file and the header that
\* the file includes.
StartCC(p) ==
  LET text == files[CPath(opts[p])] IN
  /\ At(p, "compile")
  /\ \/ /\ text.state \in {"text", "damaged"} /\ Present
        /\ unit' = [unit EXCEPT ![p] = text] /\ Goto(p, "link")
     \/ UNCHANGED unit /\ Goto(p, "failed")
  /\ UNCHANGED files /\ Noticed /\ SameOpts

Linked(text) == File(text.of, IF text.state = "text" THEN "program" ELSE "damaged")
AfterCC(o) == IF o.mode = "binary" THEN "remove" ELSE "ok"

\* Mutant: what the child returned is not looked at.
EndCCUnchecked(p) ==
  /\ At(p, "link") /\ Goto(p, AfterCC(opts[p]))
  /\ Put(BinPath(opts[p]), Linked(unit[p])) \/ UNCHANGED files
  /\ UNCHANGED unit /\ Noticed /\ SameOpts
\* The child ends.  One that fails may have deleted what was there before.
EndCC(p) ==
  LET bin == BinPath(opts[p]) IN
  /\ At(p, "link")
  /\ \/ Put(bin, Linked(unit[p])) /\ Goto(p, AfterCC(opts[p]))
     \/ (Put(bin, NoFile) \/ UNCHANGED files) /\ Goto(p, "failed")
  /\ UNCHANGED unit /\ Noticed /\ SameOpts

\* remove; nobody looks at its result either.
RemoveC(p) == /\ At(p, "remove")
              /\ \/ Put(CPath(opts[p]), NoFile) /\ Noticed
                 \/ UNCHANGED files /\ Unnoticed(p)
              /\ Goto(p, "ok")
              /\ UNCHANGED unit /\ SameOpts

Compile(p) == \/ FrontEnd(p) \/ CreateC(p) \/ Codegen(p)
              \/ StartCC(p) \/ EndCC(p) \/ RemoveC(p)

-----------------------------------------------------------------------------
FileType == [of : Procs \cup {"nobody"}, state : FileStates]
DriverTypeOK == /\ files \in [Paths -> FileType]
                /\ unit \in [Procs -> FileType]
                /\ unnoticed \subseteq Procs
                /\ \A p \in Procs : At(p, "link") => unit[p].state \in {"text", "damaged"}
=============================================================================
