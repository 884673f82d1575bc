------------------------------ MODULE CodegenC ------------------------------
(***************************************************************************)
(* The C back end: what codegen_node writes for each node, as a sequence   *)
(* of symbols.  A symbol is one of the marks the structure of C hangs on,  *)
(* or a stretch of text without any of them (a string, a cast).            *)
(*                                                                         *)
(* The types the analyser wrote into the tree are found again from env:    *)
(* those of the variables and those of the functions it had met.  It does  *)
(* not visit the arguments of a call: their env is Unseen.                 *)
(***************************************************************************)
EXTENDS SyntaxTree

CONSTANT NameType   \* resolved type of each variable

-----------------------------------------------------------------------------
NoType == "none"
VecOf == [int8 |-> "vec_int8", int16 |-> "vec_int16", int32 |-> "vec_int32",
          int64 |-> "vec_int64", uint8 |-> "vec_uint8", uint16 |-> "vec_uint16",
          uint32 |-> "vec_uint32", uint64 |-> "vec_uint64", float32 |-> "vec_float32",
          float64 |-> "vec_float64", char |-> "vec_char", bool |-> "vec_bool",
          string |-> "vec_string"]
VecTypes == {VecOf[t] : t \in DOMAIN VecOf}
\* What sem_fulltype makes of a declared type; hidden indices are of type int.
FullTypes == (DOMAIN VecOf \ {"string"}) \cup {"char*", "int"} \cup VecTypes
ASSUME NameTypeAssumption == \A name \in DOMAIN NameType : NameType[name] \in FullTypes

ElementType(t) == LET e == CHOOSE e \in DOMAIN VecOf : VecOf[e] = t
                  IN  IF e = "string" THEN "char*" ELSE e

\* What the analyser knows at the i-th declaration of the file: a call has a
\* type if its function is defined there or above.
Env(program, i) ==
  LET defs == {d \in {program.kids[j] : j \in 1 .. i} : d.kind = "func"}
      Type(d) == IF d.words[3] = "vec" THEN VecOf[d.words[4]] ELSE d.words[3]
  IN  [vars |-> NameType,
       funcs |-> [f \in {d.words[2] : d \in defs} |-> Type(CHOOSE d \in defs : d.words[2] = f)]]
Unseen == [vars |-> <<>>, funcs |-> <<>>]
TypeIn(types, name) == IF name \in DOMAIN types THEN types[name] ELSE NoType

\* resolved_type, as the analyser leaves it.
Resolved(n, env) ==
  CASE n.kind = "identifier" -> TypeIn(env.vars, n.words[1])
    [] n.kind = "call"       -> TypeIn(env.funcs, n.words[1])
    [] n.kind = "access"     -> LET t == TypeIn(env.vars, n.words[1])
                                IN  IF t \in VecTypes THEN ElementType(t) ELSE t
    [] n.kind = "member" /\ env # Unseen -> "int32"
    [] OTHER                 -> NoType

IsVec(n, env) == Resolved(n, env) \in VecTypes

IsChar(n, env) ==
  n.kind = "char" \/ (n.kind = "identifier" /\ Resolved(n, env) = "char")

StringRule(n, kid, env) ==
  \/ n.kind = "string"
  \/ n.kind = "identifier" /\ Resolved(n, env) = "char*"
  \/ n.kind = "binary" /\ n.words[1] = "+" /\ kid[1] /\ kid[2]
  \/ /\ n.kind = "binary" /\ n.words[1] = "*"
     /\ kid[1] \/ kid[2] \/ IsChar(n.kids[1], env) \/ IsChar(n.kids[2], env)
IsString(n, env) == FoldTree(LAMBDA m, kid : StringRule(m, kid, env), n)

SpecifierForType(t) ==
  CASE t = "char*" -> "%s" [] t = "char" -> "%c"
    [] t \in {"uint8", "uint16", "uint32"} -> "%u"
    [] t = "int64" -> "%lld" [] t = "uint64" -> "%llu"
    [] t \in {"float32", "float64"} -> "%f"
    [] OTHER -> "%d"

\* Mutant: a repetition is printed as a number.
SpecifierRuleOfNumbers(n, kid, env) ==
  CASE n.kind = "string" -> "%s" [] n.kind = "float" -> "%f" [] n.kind = "char" -> "%c"
    [] n.kind = "ternary" -> kid[2]
    [] n.kind = "binary"  -> IF n.words[1] = "+" /\ IsString(n, env) THEN "%s" ELSE "%d"
    [] n.kind \in {"identifier", "access", "call"} -> SpecifierForType(Resolved(n, env))
    [] n.kind = "member"  -> "%zu"
    [] OTHER -> "%d"

\* codegen_specifier.
SpecifierRule(n, kid, env) ==
  LET op == n.words[1]  l == n.kids[1]  r == n.kids[2] IN
  CASE n.kind = "string" -> "%s" [] n.kind = "float" -> "%f" [] n.kind = "char" -> "%c"
    [] n.kind = "ternary" -> kid[2]
    [] n.kind = "binary"  -> IF \/ op = "*" /\ (IsChar(l, env) \/ IsChar(r, env))
                                \/ op = "*" /\ (IsString(l, env) \/ IsString(r, env))
                                \/ op = "+" /\ IsString(l, env) /\ IsString(r, env)
                             THEN "%s" ELSE "%d"
    [] n.kind \in {"identifier", "access", "call"} -> SpecifierForType(Resolved(n, env))
    [] n.kind = "member"  -> "%zu"
    [] OTHER -> "%d"
Specifier(n, env) == FoldTree(LAMBDA m, kid : SpecifierRule(m, kid, env), n)

-----------------------------------------------------------------------------
\* Symbols.
Text(w) == [mark |-> "none", text |-> w]
Mark(m) == [mark |-> m, text |-> "none"]
LParen == Mark("lparen")
RParen == Mark("rparen")
LBrace == Mark("lbrace")
RBrace == Mark("rbrace")
Semicolon == Mark("semicolon")
For == Mark("for")
Texts(words) == [i \in DOMAIN words |-> Text(words[i])]

Commas(codes) ==
  FlattenSeq([i \in DOMAIN codes |-> IF i = 1 THEN codes[i] ELSE <<Mark("comma")>> \o codes[i]])
Enclosed(code) == <<LParen>> \o code \o <<RParen>>
CCall(f, codes) == Texts(f) \o Enclosed(Commas(codes))
End(code) == Append(code, Semicolon)
ElementAt(name, index) ==
  Texts(<<name, ".data[">>) \o
  CCall(<<"__pinum_check_bounds">>, <<Texts(<<name, ".size">>), index>>) \o Texts(<<"]">>)

CTypes == [int8 |-> "int8_t", int16 |-> "int16_t", int32 |-> "int32_t", int64 |-> "int64_t",
           uint8 |-> "uint8_t", uint16 |-> "uint16_t", uint32 |-> "uint32_t",
           uint64 |-> "uint64_t", float32 |-> "float", float64 |-> "double", string |-> "char*"]
CodegenType(t) == IF t \in DOMAIN CTypes THEN CTypes[t] ELSE t
\* The type that starts at words[i], in front of a name.
Typed(words, i, name) ==
  IF words[i] = "vec" THEN Texts(<<"vec_", words[i + 1], name>>)
  ELSE Texts(<<CodegenType(words[i]), name>>)

-----------------------------------------------------------------------------
Flushed(g, i) == IF i > g.start THEN Append(g.out, <<g.start, i - 1>>) ELSE g.out

\* Mutant: the scalars before a vector are printed once more at the end.
PrintGroupsFromStart(args, env) ==
  LET group[i \in 0 .. Len(args)] ==
        IF i = 0 THEN [start |-> 1, out |-> <<>>]
        ELSE IF IsVec(args[i], env)
        THEN [group[i - 1] EXCEPT !.out = Append(Flushed(group[i - 1], i), <<i, i>>)]
        ELSE group[i - 1]
  IN  Flushed(group[Len(args)], Len(args) + 1)

\* The loop of NODE_PRINT: the arguments in groups, one call each, as pairs of
\* first and last; the scalars read so far are flushed before a vector.
PrintGroups(args, env) ==
  LET group[i \in 0 .. Len(args)] ==
        IF i = 0 THEN [start |-> 1, out |-> <<>>]
        ELSE IF IsVec(args[i], env)
        THEN [start |-> i + 1, out |-> Append(Flushed(group[i - 1], i), <<i, i>>)]
        ELSE group[i - 1]
  IN  Flushed(group[Len(args)], Len(args) + 1)

\* The calls of the runtime that * and + on text become, the text first.
NoHelper == [f |-> "none", first |-> 1, second |-> 2]
Helper(n, env) ==
  LET l == n.kids[1]  r == n.kids[2]  op == n.words[1] IN
  IF op = "*" /\ IsChar(l, env)
    THEN [f |-> "__pinum_repeat_char", first |-> 1, second |-> 2]
  ELSE IF op = "*" /\ IsChar(r, env)
    THEN [f |-> "__pinum_repeat_char", first |-> 2, second |-> 1]
  ELSE IF op = "*" /\ IsString(l, env)
    THEN [f |-> "__pinum_repeat_string", first |-> 1, second |-> 2]
  ELSE IF op = "*" /\ IsString(r, env)
    THEN [f |-> "__pinum_repeat_string", first |-> 2, second |-> 1]
  ELSE IF op = "+" /\ IsString(l, env) /\ IsString(r, env)
    THEN [f |-> "__pinum_add_string", first |-> 1, second |-> 2]
  ELSE NoHelper

-----------------------------------------------------------------------------
\* The code of a node n from that of its children: kid[i][<<"node", env>>] is
\* what codegen_node writes for the i-th, kid[i][<<"param", env>>] what
\* codegen_for_param does.

\* Declarations and assignments without their end.
DeclCode(n, kid, env) ==
  Typed(n.words, 1, Last(n.words)) \o
  (IF n.kids = <<>> THEN <<>> ELSE <<Text("=")>> \o kid[1][<<"node", env>>])
AssignCode(n, kid, env) ==
  IF n.kind = "assign" THEN Texts(<<n.words[1], "=">>) \o kid[1][<<"node", env>>]
  ELSE ElementAt(n.words[1], kid[1][<<"node", env>>]) \o <<Text("=")>> \o kid[2][<<"node", env>>]

\* A printf for a group of scalars, the vector's own helper for a vector.
PrintGroup(args, codes, g, env) ==
  IF IsVec(args[g[1]], env)
  THEN End(CCall(<<"__pinum_", Resolved(args[g[1]], env), "_print">>, <<codes[g[1]]>>))
  ELSE LET format == [i \in 1 .. g[2] - g[1] + 1 |-> Specifier(args[g[1] + i - 1], env)]
       IN  End(CCall(<<"printf">>, <<Texts(format)>> \o SubSeq(codes, g[1], g[2])))
PrintCode(n, codes, env) ==
  LET groups == PrintGroups(n.kids, env)
  IN  FlattenSeq([i \in DOMAIN groups |-> PrintGroup(n.kids, codes, groups[i], env)]) \o
      (IF n.words[1] = "println" THEN End(CCall(<<"printf">>, <<Texts(<<"newline">>)>>)) ELSE <<>>)

BinaryCode(n, codes, env) ==
  LET helper == Helper(n, env)
  IN  IF helper = NoHelper THEN Enclosed(codes[1] \o <<Text(n.words[1])>> \o codes[2])
      ELSE CCall(<<helper.f>>, <<codes[helper.first], codes[helper.second]>>)

\* With arguments a method of the table, without a property; the method of an
\* object without a type is looked up with a null pointer.
MemberCode(n, codes, env) ==
  IF Len(n.kids) = 1 THEN codes[1] \o Texts(<<".", n.words[1]>>)
  ELSE IF IsVec(n.kids[1], env)
  THEN End(CCall(<<"__pinum_", Resolved(n.kids[1], env), "_append">>,
                 <<<<Text("&")>> \o codes[1], codes[2]>>))
  ELSE <<Text("crash")>>

FuncCode(n, kid, env) ==
  LET m == Len(n.kids) IN
  (IF n.words[2] = "main" THEN CCall(<<"int", "main">>, <<Texts(<<"void">>)>>)
   ELSE Typed(n.words, 3, n.words[2]) \o
        Enclosed(Commas([i \in 1 .. m - 1 |-> kid[i][<<"param", env>>]])))
  \o kid[m][<<"node", env>>]

\* codegen_stmt, on a child.
StmtCode(n, code) == IF n.kind = "call" THEN End(code) ELSE code

\* codegen_node.
NodeCode(n, kid, env) ==
  LET codes == [i \in DOMAIN n.kids |-> kid[i][<<"node", env>>]]
      unseen == [i \in DOMAIN n.kids |-> kid[i][<<"node", Unseen>>]]
  IN CASE n.kind \in {"int", "float", "bool", "char", "identifier"} -> Texts(<<n.words[1]>>)
       [] n.kind = "string"    -> Texts(<<"text">>)
       [] n.kind = "list"      -> CCall(<<"__pinum_vec_init">>, <<Texts(<<"count">>)>> \o
                                        [i \in DOMAIN codes |-> <<Text("cast")>> \o codes[i]])
       [] n.kind = "access"    -> ElementAt(n.words[1], codes[1])
       [] n.kind = "binary"    -> BinaryCode(n, codes, env)
       [] n.kind = "unary"     -> Enclosed(<<Text(n.words[1])>> \o codes[1])
       [] n.kind = "ternary"   -> Enclosed(codes[1] \o <<Text("?")>> \o codes[2] \o
                                           <<Text(":")>> \o codes[3])
       [] n.kind = "decl"      -> End(DeclCode(n, kid, env))
       [] n.kind \in Assignments -> End(AssignCode(n, kid, env))
       [] n.kind = "block"     -> <<LBrace>> \o
                                  FlattenSeq([i \in DOMAIN codes |-> StmtCode(n.kids[i], codes[i])])
                                  \o <<RBrace>>
       [] n.kind = "if"        -> <<Text("if")>> \o Enclosed(codes[1]) \o codes[2] \o
                                  (IF Len(codes) = 3 THEN <<Text("else")>> \o codes[3] ELSE <<>>)
       [] n.kind = "while"     -> <<Text("while")>> \o Enclosed(codes[1]) \o codes[2]
       [] n.kind = "for"       -> <<For>> \o
                                  Enclosed(End(kid[1][<<"param", env>>]) \o
                                           End(IF n.kids[2].kind = "null" THEN <<>> ELSE codes[2]) \o
                                           kid[3][<<"param", env>>]) \o codes[4]
       [] n.kind = "return"    -> End(<<Text("return")>> \o codes[1])
       [] n.kind = "read"      -> LET type == TypeIn(env.vars, n.words[2])
                                  IN  End(CCall(<<"scanf">>, <<Texts(<<SpecifierForType(type)>>),
                                                              Texts(<<"&", n.words[2]>>)>>))
       [] n.kind \in {"break", "continue"} -> End(Texts(<<n.words[1]>>))
       [] n.kind = "print"     -> PrintCode(n, codes, env)
       [] n.kind = "call"      -> CCall(<<n.words[1]>>, unseen)
       [] n.kind = "member"    -> MemberCode(n, codes, env)
       [] n.kind = "directive" -> <<>>
       [] n.kind = "func"      -> FuncCode(n, kid, env)
       [] OTHER                -> Texts(<<"comment">>)

\* Mutant: assignments in the header of a for end like statements.
ForParamAsStatement(n, kid, env) ==
  CASE n.kind = "null" -> <<>>
    [] n.kind = "decl" -> DeclCode(n, kid, env)
    [] OTHER           -> NodeCode(n, kid, env)
\* codegen_for_param: the parts of a for header, and parameters.
ForParam(n, kid, env) ==
  CASE n.kind = "null" -> <<>>
    [] n.kind = "decl" -> DeclCode(n, kid, env)
    [] n.kind \in Assignments -> AssignCode(n, kid, env)
    [] OTHER           -> NodeCode(n, kid, env)

\* Both, for n and whatever is below it.
WrittenRule(n, kid, env) ==
  [as \in {"node", "param"} \X {env, Unseen} |->
     IF as[1] = "node" THEN NodeCode(n, kid, as[2]) ELSE ForParam(n, kid, as[2])]
Written(n, env) == FoldTree(LAMBDA m, kid : WrittenRule(m, kid, env), n)
Code(n, env) == Written(n, env)[<<"node", env>>]

\* codegen_c: the declarations and functions of the file, in its order.
CodegenC(program) ==
  Texts(<<"include">>) \o
  FlattenSeq([i \in DOMAIN program.kids |->
                IF program.kids[i].kind \in {"func", "decl"}
                THEN Code(program.kids[i], Env(program, i)) ELSE <<>>])
=============================================================================
