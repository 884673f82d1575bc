------------------------------ MODULE Compiler ------------------------------
(***************************************************************************)
(* Parser and C back end one after the other, as main runs them, and what  *)
(* the two promise each other and the analyser between them.  Of the       *)
(* analyser only the rules are kept that bear on what is written (Sema has *)
(* all of them); the declarations of the variables are taken as given by   *)
(* NameType.                                                               *)
(***************************************************************************)
EXTENDS Parser, CodegenC

VARIABLE output   \* the C file, <<>> before code generation

vars == <<tokens, current, input, todo, done, rng_counter, status, punned, output>>

\* sem_analyze_node, from a declaration down: names are declared, elements are
\* assigned to vectors only, methods are those of the table.
AcceptRule(n, kid, env) ==
  /\ n.kind \in {"identifier", "access", "assign", "assign_element"}
       => n.words[1] \in DOMAIN env.vars
  /\ n.kind = "read" => n.words[2] \in DOMAIN env.vars
  /\ n.kind = "assign_element" => env.vars[n.words[1]] \in VecTypes
  /\ n.kind = "member" /\ Len(n.kids) > 1 => IsVec(n.kids[1], env) /\ n.words[1] = "append"
  /\ n.kind # "call" => \A i \in DOMAIN n.kids : kid[i]
Accepted(n, env) == FoldTree(LAMBDA m, kid : AcceptRule(m, kid, env), n)

\* What semantic_analyze requires of the tree.
Analysed(program) ==
  LET kids == program.kids IN
  /\ \A i \in DOMAIN kids : kids[i].kind \in {"func", "decl", "directive"}
  /\ \E i \in DOMAIN kids : kids[i].kind = "func" /\ kids[i].words[2] = "main"
  /\ \A i, j \in DOMAIN kids : kids[i].kind = "func" /\ kids[j].kind = "func" /\ i # j
       => kids[i].words[2] # kids[j].words[2]
  /\ \A i \in DOMAIN kids : Accepted(kids[i], Env(program, i))

CompilerInit == Init /\ output = <<>>

Generate == /\ status = "parsed" /\ output = <<>> /\ Analysed(tree)
            /\ output' = CodegenC(tree)
            /\ UNCHANGED parserVars

Next == (Parse /\ UNCHANGED output) \/ Generate

\* The parser is sequential code without a wait in it: it keeps running.
Spec == CompilerInit /\ [][Next]_vars /\ WF_vars(Parse /\ UNCHANGED output)

-----------------------------------------------------------------------------
\* Nodes whose code ends with a semicolon of its own although they may stand
\* inside an expression.
EndsItself(n) == n.kind \in Assignments \/ (n.kind = "member" /\ Len(n.kids) > 1)

\* Each assignment and method call is a statement, or an assignment that opens
\* or advances a for loop; each expression statement is one of them or a call.
InStatements(program) ==
  \A n \in Subtrees(program) : \A i \in DOMAIN n.kids :
    LET kid == n.kids[i] IN
    /\ EndsItself(kid) => \/ n.kind = "block"
                          \/ n.kind = "for" /\ i \in {1, 3} /\ kid.kind \in Assignments
    /\ n.kind = "block" /\ kid.kind \in Expressions => EndsItself(kid) \/ kid.kind = "call"

Marks(code, m, i) == Cardinality({j \in 1 .. i : code[j] = m})
OpenParens(code, i) == Marks(code, LParen, i) - Marks(code, RParen, i)
OpenBraces(code, i) == Marks(code, LBrace, i) - Marks(code, RBrace, i)

\* Statements of C: parentheses and braces nest, and braces are outside of
\* parentheses; so are semicolons, but for the two of each loop header; the last
\* one is ended.
WellFormed(code) ==
  LET len == Len(code) IN
  code # <<>> =>
    /\ code[len] \in {Semicolon, RBrace}
    /\ OpenParens(code, len) = 0 /\ OpenBraces(code, len) = 0
    /\ \A i \in 1 .. len : /\ OpenParens(code, i) >= 0 /\ OpenBraces(code, i) >= 0
                           /\ code[i] \in {LBrace, RBrace} => OpenParens(code, i) = 0
    /\ Cardinality({i \in 1 .. len : code[i] = Semicolon /\ OpenParens(code, i) > 0})
         = 2 * Marks(code, For, len)

-----------------------------------------------------------------------------
\* The type in C of what is written for an expression the analyser has seen,
\* as far as formats tell types apart.
Converted(a, b) == IF {a, b} \subseteq {"int", "char", "ushort"} THEN "int" ELSE "other"
ValueOfType(t) ==
  CASE t \in {"int8", "int16", "int32", "bool", "int"} -> "int"
    [] t \in {"uint8", "uint16"}     -> "ushort"
    [] t = "uint32"                  -> "unsigned"
    [] t \in {"int64", "uint64", "char"} -> t
    [] t \in {"float32", "float64"}  -> "double"
    [] t \in {"char*", "string"}     -> "char*"
    [] OTHER                         -> "other"
ValueRule(n, kid, env) ==
  CASE n.kind = "string" -> "char*" [] n.kind = "float" -> "double"
    [] n.kind = "char"   -> "char"  [] n.kind \in {"int", "bool"} -> "int"
    [] n.kind \in {"identifier", "call"} -> ValueOfType(Resolved(n, env))
    [] n.kind = "access" -> IF TypeIn(env.vars, n.words[1]) \in VecTypes
                            THEN ValueOfType(Resolved(n, env)) ELSE "other"
    [] n.kind = "member" -> IF Len(n.kids) = 1 /\ n.words[1] \in {"size", "capacity"}
                            THEN "size_t" ELSE "other"
    [] n.kind = "unary"  -> IF n.words[1] = "!" THEN "int" ELSE Converted(kid[1], kid[1])
    [] n.kind = "binary" -> IF Helper(n, env) # NoHelper THEN "char*"
                            ELSE IF n.words[1] \notin {"*", "/", "%", "+", "-"} THEN "int"
                            ELSE Converted(kid[1], kid[2])
    [] n.kind = "ternary" -> IF kid[2] = kid[3] THEN kid[2] ELSE Converted(kid[2], kid[3])
    [] OTHER -> "other"
CValue(n, env) == FoldTree(LAMBDA m, kid : ValueRule(m, kid, env), n)
Fitting(format) ==
  CASE format = "%d" -> {"int", "char"} [] format = "%s" -> {"char*"} [] format = "%c" -> {"char"}
    [] format = "%f" -> {"double"}      [] format = "%zu" -> {"size_t"}
    [] format = "%u" -> {"unsigned", "ushort"}
    [] format = "%lld" -> {"int64"}     [] format = "%llu" -> {"uint64"}

\* There are formats for the types of variables, and for arithmetic of int only;
\* text a function returns is not known as text.
RegularRule(n, kid, env) ==
  CASE n.kind = "ternary" -> CValue(n.kids[2], env) = CValue(n.kids[3], env) /\ kid[2]
    [] n.kind = "call"    -> CValue(n, env) # "other" /\ Resolved(n, env) # "string"
    [] OTHER              -> CValue(n, env) # "other"
Regular(n, env) == FoldTree(LAMBDA m, kid : RegularRule(m, kid, env), n)

-----------------------------------------------------------------------------
\* The parser comes to an end on every token list, complete or not.
Terminates == <>(status # "parsing")

\* Where assignments and method calls stand as statements, each statement of
\* the generated C is ended, and so is each declaration of the file; no
\* semicolon is inside an expression (codegen_node, codegen_stmt and
\* codegen_for_param share the task).
StatementsTerminate ==
  output # <<>> /\ InStatements(tree) =>
    \A i \in DOMAIN tree.kids :
      LET env == Env(tree, i) IN
      /\ WellFormed(Code(tree.kids[i], env))
      /\ \A n \in Subtrees(tree.kids[i]) : n.kind = "block" =>
           \A k \in DOMAIN n.kids : WellFormed(StmtCode(n.kids[k], Code(n.kids[k], env)))

\* Each argument of a print is written once and in its place, vectors by
\* themselves, the scalars around them together (codegen_node, NODE_PRINT).
PrintsEachOnce ==
  output # <<>> =>
    \A i \in DOMAIN tree.kids : \A n \in Subtrees(tree.kids[i]) : n.kind = "print" =>
      LET groups == PrintGroups(n.kids, Env(tree, i))
          Vector(k) == IsVec(n.kids[k], Env(tree, i))
      IN
      /\ n.kids # <<>> => groups # <<>> /\ Last(groups)[2] = Len(n.kids)
      /\ \A g \in DOMAIN groups :
           /\ groups[g][1] = (IF g = 1 THEN 1 ELSE groups[g - 1][2] + 1)
           /\ groups[g][1] <= groups[g][2]
           /\ groups[g][2] \in DOMAIN n.kids
           /\ (\E k \in groups[g][1] .. groups[g][2] : Vector(k)) => groups[g][1] = groups[g][2]
           /\ g > 1 => Vector(groups[g][1]) \/ Vector(groups[g - 1][2])

\* The format chosen for a printed value is the one for its type in C, text
\* that is built by repeating or joining included (codegen_specifier decides
\* by the tree what BinaryCode decides again when it writes the value).
FormatsFit ==
  output # <<>> =>
    \A i \in DOMAIN tree.kids : \A n \in Subtrees(tree.kids[i]) : n.kind = "print" =>
      LET env == Env(tree, i) IN
      \A k \in DOMAIN n.kids :
        Regular(n.kids[k], env) => CValue(n.kids[k], env) \in Fitting(Specifier(n.kids[k], env))
=============================================================================
