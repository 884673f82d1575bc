---------------------------- MODULE MCToolchain -----------------------------
(***************************************************************************)
(* Two runs of pinum, every pair of command lines; three commits, the last *)
(* two of one version.  -o x, -o x.c, -oc x, -oc x.tmp and -oc x.c have    *)
(* paths in common.                                                        *)
(***************************************************************************)
EXTENDS Toolchain, TLC

CONSTANTS p1, p2, d1, d2

MCProcs == {p1, p2}
MCDirs == {d1, d2}
\* No definition tells one process, or one directory, from another.
MCSymmetry == Permutations(MCProcs) \cup Permutations(MCDirs)
MCVersionOf == <<1, 2, 2>>
MCDotted == {"p.pn", "x.c", "x.tmp", "p.txt"}
MCSources == {"p.pn"}
MCCFiles == {"x.c"}
MCCommandLines ==
  { <<"p.pn">>, <<"qbe", "o", "x", "p.pn">>, <<"o", "x.c", "p.pn">>, <<"oc", "x", "p.pn">>,
    <<"oc", "x.tmp", "p.pn">>, <<"oc", "x.c", "p.pn">>, <<"o", "a.out", "p.pn", "bad">>,
    <<"o">>, <<"o", "x">>, <<"bad">>, <<"p.txt">>,
    <<"help">>, <<"update">>, <<"debug-ast", "repair">> }
MCOneVersion == <<1>>
MCLeftovers == { {}, {"a.out", "a.out.c", "x", "x.c", "x.tmp", "x.tmp.c", "x.c.c"} }

\* Two names that come to the same path.
MCNothingThere == {{}}
MCLikeNames == {<<"o", "x", "p.pn">>, <<"oc", "x.tmp", "p.pn">>}

\* The C file of a finished -oc name is kept, whatever is compiled under other
\* names (CLI_OUT_BOTH).
CIsKept ==
  \A p \in Procs : /\ Compiler(p) /\ opts[p].mode = "both" /\ pc[p] = "ok"
                   /\ \A q \in Procs \ {p} : Compiler(q) => opts[q].name # opts[p].name
                 => files[CPath(opts[p])].of = p
=============================================================================
