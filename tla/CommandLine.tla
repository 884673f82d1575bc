---------------------------- MODULE CommandLine -----------------------------
(***************************************************************************)
(* The command line and the processes it starts.  An argument is a model   *)
(* of its text: all that is asked of one is whether it has a dot in it,    *)
(* whether it ends in .c, and which flag it is.                            *)
(***************************************************************************)
EXTENDS Integers, Sequences, SequencesExt

CONSTANTS Procs,          \* processes
          CommandLines,   \* the argument lists they may be started with
          Dotted,         \* the arguments with a dot in them
          Sources,        \* those that end in .pn
          CFiles          \* those that end in .c

VARIABLES opts, pc

Actions == [help |-> "help", version |-> "version", update |-> "update", repair |-> "repair"]
Switches == {"debug-all", "debug-lexer", "debug-ast", "qbe"}

DefaultOpts == [action |-> "run", filename |-> "", name |-> "a.out", mode |-> "aout",
                wants |-> "", error |-> ""]
Ended(o) == o.action # "run" \/ o.filename # "" \/ o.error # ""

\* One argument: after -o and -oc a name, whatever it looks like; else one with
\* a dot is the file, which ends the flags.
Argument(o, a) ==
  CASE Ended(o) -> o
    [] ~ Ended(o) /\ o.wants # "" ->
         [o EXCEPT !.wants = "",
                   !.name = a,
                   !.mode = CASE o.wants = "oc" -> "both"
                              [] o.wants = "o" /\ a \in CFiles -> "c"
                              [] OTHER -> "binary"]
    [] ~ Ended(o) /\ o.wants = "" ->
         CASE a \in Dotted         -> [o EXCEPT !.filename = a]
           [] a \in DOMAIN Actions -> [o EXCEPT !.action = Actions[a]]
           [] a \in {"o", "oc"}    -> [o EXCEPT !.wants = a]
           [] a \in Switches       -> o
           [] OTHER                -> [o EXCEPT !.error = "ERR_INVALID_FLAG"]

CliParse(args) ==
  LET o == FoldLeft(Argument, DefaultOpts, args)
  IN  IF Ended(o) THEN o
      ELSE [o EXCEPT !.error = IF o.wants # "" THEN "ERR_NO_OUTPUT_FILE"
                               ELSE "ERR_NO_INPUT_FILE"]

-----------------------------------------------------------------------------
Ends == {"ok", "up to date", "failed", "killed"}
At(p, step) == pc[p] = step
Goto(p, step) == pc' = [pc EXCEPT ![p] = step]

CommandLineInit == /\ opts \in [Procs -> {CliParse(args) : args \in CommandLines}]
                   /\ pc = [p \in Procs |-> "main"]

\* main, up to where it compiles or updates.
Start(p) ==
  LET o == opts[p] IN
  /\ At(p, "main")
  /\ \/ o.error # "" /\ Goto(p, "failed")
     \/ o.error = "" /\ o.action \in {"help", "version"} /\ Goto(p, "ok")
     \/ o.error = "" /\ o.action \in {"update", "repair"} /\ Goto(p, "check")
     \/ o.error = "" /\ o.action = "run"
        /\ Goto(p, IF o.filename \in Sources THEN "front end" ELSE "failed")
  /\ UNCHANGED opts

\* A process may be killed between any two of its steps.
Kill(p) == pc[p] \notin Ends /\ Goto(p, "killed") /\ UNCHANGED opts
=============================================================================
