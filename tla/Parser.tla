------------------------------- MODULE Parser -------------------------------
(***************************************************************************)
(* The recursive descent parser.  The C call stack is todo: the calls and  *)
(* half-finished functions that remain, next one first.  A function that   *)
(* only calls others in a fixed order is a sequence of work items; one     *)
(* that looks at the next token is an action.  done holds the nodes whose  *)
(* parent is not made yet, and the words kept for it; a node takes over    *)
(* everything put there since its function was entered, which the work     *)
(* item remembers as base.                                                 *)
(*                                                                         *)
(* The token list is chosen one token at a time as the cursor reaches it,  *)
(* from the alphabet of one of Inputs, so a behaviour is one program and   *)
(* its parse.  A token is its kind; a name stands for TOKEN_ID with it.    *)
(* Between quotes the lexer lists other tokens than outside: "qchar" is    *)
(* one with a single character, "qtext" one with more.                     *)
(*                                                                         *)
(* punned is a history variable: an index was put on what is not a name.   *)
(***************************************************************************)
EXTENDS SyntaxTree, FiniteSets

CONSTANTS Names,    \* identifiers
          Scalars,  \* the type keywords other than vec
          Inputs    \* records: start, the first tokens; kinds of the others; limit

VARIABLES tokens,       \* the token list as far as the cursor reached
          current,      \* index of the next token
          input, todo, done,
          rng_counter,  \* numbers the hidden indices of range loops
          status,       \* "parsing", "parsed" or what the process ends with
          punned

parserVars == <<tokens, current, input, todo, done, rng_counter, status, punned>>

-----------------------------------------------------------------------------
Types == Scalars \cup {"vec"}
Quotes == {"dq", "sq"}
QuotedTokens == {"qchar", "qtext"}
\* Tokens that only separate or enclose; = belongs to declarations too.
Separators == {"(", ")", "{", "}", "[", "]", "<", ">", ",", ";", ":", ".", "nl", "eof",
               "dq", "sq", "=", "else"}
Numbers == {"inum", "fnum"}      \* the tokens whose value is NULL
Literals == [inum |-> "int", fnum |-> "float", true |-> "bool", false |-> "bool"]

\* The operators each of the binary levels accepts, parse_logical_or first.
Operators(level) ==
  CASE level = 1 -> {"||"} [] level = 2 -> {"&&"} [] level = 3 -> {"==", "!="}
    [] level = 4 -> {"<", ">", "<=", ">="} [] level = 5 -> {"+", "-"}
    [] level = 6 -> {"*", "/", "%"}

\* Compound assignments and the operator each stands for.
Compound == [t \in {"+=", "-=", "*=", "/=", "%="} |->
               CASE t = "+=" -> "+" [] t = "-=" -> "-" [] t = "*=" -> "*"
                 [] t = "/=" -> "/" [] t = "%=" -> "%"]
Step == [t \in {"++", "--"} |-> IF t = "++" THEN "+" ELSE "-"]

\* No name and no type is one of the tokens that mean the same in every program.
Fixed == Separators \cup QuotedTokens \cup (UNION {Operators(level) : level \in 1 .. 6})
         \cup DOMAIN Compound \cup DOMAIN Step \cup {"!", "?", "@"}
ASSUME NamesAssumption == (Names \cup Scalars) \cap Fixed = {}

\* name = (name op value), which x++ and x += v are turned into.
Update(name, op, value) ==
  Node("assign", name.words, name.keeps,
       <<Node("binary", <<op>>, {}, <<Node("identifier", name.words, {}, <<>>), value>>)>>)
One == Node("int", <<"1">>, {}, <<>>)

\* What data.identifier.name is when the node is of another kind: the union
\* member that lies there is a name in some, a pointer or a number in others.
NameOf(n) ==
  IF n.kind \in {"identifier", "access", "call", "assign", "string"}
  THEN [words |-> <<Head(n.words \o <<"">>)>>, keeps |-> n.keeps]
  ELSE [words |-> <<"garbage">>, keeps |-> {}]

-----------------------------------------------------------------------------
\* The cursor.
Peek == tokens[IF current > Len(tokens) THEN Len(tokens) ELSE current]

\* Whether a literal is open behind the first n tokens, and what can stand next
\* to a list: in a literal only its content and the quote that opened it.
QuotesIn(list, n) == {i \in 1 .. n : list[i] \in Quotes}
InLiteral(list, n) == Cardinality(QuotesIn(list, n)) % 2 = 1
Listed(list, t) == IF InLiteral(list, Len(list))
                   THEN t \in QuotedTokens \cup {list[Max(QuotesIn(list, Len(list)))]}
                   ELSE t \notin QuotedTokens

\* Inputs start with a list the lexer can give.
ASSUME InputsAssumption ==
  \A i \in Inputs : /\ i \in [start : Seq(STRING), kinds : SUBSET STRING, limit : Nat]
                    /\ i.start # <<>> /\ "eof" \notin ToSet(i.start)
                    /\ \A k \in DOMAIN i.start : Listed(SubSeq(i.start, 1, k - 1), i.start[k])

\* What may follow in the token list; the last token is EOF.
Reveal ==
  IF current < Len(tokens) \/ Last(tokens) = "eof" THEN UNCHANGED tokens
  ELSE \E t \in {"eof"} \cup {k \in input.kinds : Len(tokens) < input.limit /\ Listed(tokens, k)} :
         tokens' = Append(tokens, t)

Advance == /\ current' = IF current > Len(tokens) THEN current ELSE current + 1
           /\ Reveal

-----------------------------------------------------------------------------
\* Work items.  base is the number of pieces that were there before.
Item(f, arg, base) == [do |-> f, arg |-> arg, base |-> base]
Do(f) == Item(f, "none", Len(done))
With(f, arg) == Item(f, arg, Len(done))
Build(kind) == Item("build", kind, Len(done))
Finish(f, arg) == Item(f, arg, Head(todo).base)   \* the node the current item began
Again == Head(todo)
Eat(t) == With("consume", t)
Parens(items) == <<Eat("(")>> \o items \o <<Eat(")")>>

Doing(f) == status = "parsing" /\ todo # <<>> /\ Head(todo).do = f
Then(items) == todo' = items \o Tail(todo) /\ UNCHANGED <<input, status>>
NoNode == UNCHANGED <<done, rng_counter, punned>>
Push(n) == done' = Append(done, n) /\ UNCHANGED <<rng_counter, punned>>
Stay == UNCHANGED <<tokens, current>>

Go(items) == Then(items) /\ Stay /\ NoNode
Skip(items) == Then(items) /\ Advance /\ NoNode
Take(items) == Then(items) /\ Advance /\ Push(Word(Peek, {current}))
Fail(code) == status' = code /\ UNCHANGED <<tokens, current, input, todo, done, rng_counter, punned>>

\* The pieces of the node that ends here, and the node in their place.
Pieces == SubSeq(done, Head(todo).base + 1, Len(done))
\* Mutant: the pieces stay where the node is put.
ReducedOnTop(n) == done' = Append(done, n)
Reduced(n) == done' = Append(SubSeq(done, 1, Head(todo).base), n)
Reduce(n) == Then(<<>>) /\ Stay /\ Reduced(n) /\ UNCHANGED <<rng_counter, punned>>

-----------------------------------------------------------------------------
\* The functions that only call others.
Decl == <<Do("type"), Do("name"), Do("initializer"), Do("end"), Build("decl")>>
Param == <<Do("type"), Do("name"), Build("decl")>>
FuncDef == <<Do("name")>> \o Parens(<<With("list", "param")>>) \o
           <<Do("return_type"), Do("block"), Build("func")>>
PrintRest == Parens(<<With("list", "expr")>>) \o <<Do("end"), Build("print")>>
ReadRest == Parens(<<Do("name")>>) \o <<Do("end"), Build("read")>>
IfRest == Parens(<<Do("expr")>>) \o <<Do("block"), Do("else"), Build("if")>>
WhileRest == Parens(<<Do("expr")>>) \o <<Do("block"), Build("while")>>
ReturnRest == <<Do("expr"), Do("end"), Build("return")>>
ForRest == <<With("optional", ";"), Eat(";"), With("optional", ")"), Eat(")"),
             Do("block"), Finish("build", "for")>>

\* parse_logical_or down to parse_factors, from one of the levels on: the
\* first operand, then the loops of these levels, one inside the other.
Chain(level) == <<Do("unary"), With("operators", level)>>

\* The comma lists: what closes each kind and what each holds.
Close(kind) == IF kind = "element" THEN "]" ELSE ")"
Element(kind) == IF kind = "param" THEN Param ELSE <<Do("expr")>>

-----------------------------------------------------------------------------
Init == /\ input \in Inputs
        /\ tokens = input.start /\ current = 1
        /\ todo = <<Item("program", "none", 0), Item("build", "program", 0)>>
        /\ done = <<>>
        /\ rng_counter = 0 /\ status = "parsing" /\ punned = FALSE

\* consume.
Consume == /\ Doing("consume")
           /\ \/ Peek = Head(todo).arg /\ Skip(<<>>)
              \/ Peek # Head(todo).arg /\ Fail("ERR_EXPECTED")

ConsumeName == /\ Doing("name")
               /\ \/ Peek \in Names /\ Take(<<>>)
                  \/ Peek \notin Names /\ Fail("ERR_EXPECTED")

ConsumeEndOfStatement ==
  /\ Doing("end")
  /\ \/ Peek \in {";", "nl"} /\ Skip(<<>>)
     \/ Peek = "eof" /\ Go(<<>>)
     \/ Peek \notin {";", "nl", "eof"} /\ Fail("ERR_EXPECTED")

BuildNode == /\ Doing("build")
             /\ Head(todo).arg \notin {"range", "access", "assign", "compound"}
             /\ Reduce(Make(Head(todo).arg, Pieces))

\* Mutant: newlines between statements are seen and not consumed.
ParseProgramAtNewline ==
  /\ Doing("program")
  /\ \/ Peek = "eof" /\ Go(<<>>)
     \/ Peek = "nl" /\ Go(<<Again>>)
     \/ Peek = "fn" /\ Take(FuncDef \o <<Again>>)
     \/ Peek \notin {"eof", "nl", "fn"} /\ Go(<<Do("stmt"), Again>>)
ParseProgram ==
  /\ Doing("program")
  /\ \/ Peek = "eof" /\ Go(<<>>)
     \/ Peek = "nl" /\ Skip(<<Again>>)
     \/ Peek = "fn" /\ Take(FuncDef \o <<Again>>)
     \/ Peek \notin {"eof", "nl", "fn"} /\ Go(<<Do("stmt"), Again>>)

ParseBlock ==
  \/ Doing("block") /\ Go(<<Eat("{"), Do("stmts"), Eat("}"), Build("block")>>)
  \/ /\ Doing("stmts")
     /\ \/ Peek \in {"}", "eof"} /\ Go(<<>>)
        \/ Peek = "nl" /\ Skip(<<Again>>)
        \/ Peek \notin {"}", "eof", "nl"} /\ Go(<<Do("stmt"), Again>>)

-----------------------------------------------------------------------------
\* Declarations and functions.
ParseType ==
  \/ /\ Doing("type")
     /\ \/ Peek \in Scalars /\ Take(<<>>)
        \/ Peek = "vec" /\ Take(<<Eat("<"), Do("element_type"), Eat(">")>>)
        \/ Peek \notin Types /\ Fail("ERR_EXPECTED")
  \/ /\ Doing("element_type")
     /\ \/ Peek \in Scalars /\ Take(<<>>)
        \/ Peek \notin Scalars /\ Fail("ERR_EXPECTED")

Initializer == /\ Doing("initializer")
               /\ \/ Peek = "=" /\ Skip(<<Do("expr")>>)
                  \/ Peek # "=" /\ Go(<<>>)

ReturnType ==
  /\ Doing("return_type")
  /\ \/ Peek = ":" /\ Skip(<<Do("type")>>)
     \/ Peek # ":" /\ Then(<<>>) /\ Stay /\ Push(Word("void", {}))

\* Parameters, arguments and vector elements, and what follows each.
List == /\ Doing("list")
        /\ LET kind == Head(todo).arg IN
           \/ Peek = Close(kind) /\ Go(<<>>)
           \/ Peek # Close(kind) /\ Go(Element(kind) \o <<With("more", kind)>>)

More == /\ Doing("more")
        /\ \/ Peek = "," /\ Skip(Element(Head(todo).arg) \o <<Again>>)
           \/ Peek # "," /\ Go(<<>>)

-----------------------------------------------------------------------------
\* Statements.
ParseStatement ==
  /\ Doing("stmt")
  /\ \/ Peek \in Types /\ Go(Decl)
     \/ Peek \in {"print", "println"} /\ Take(PrintRest)
     \/ Peek = "read" /\ Take(ReadRest)
     \/ Peek = "if" /\ Take(IfRest)
     \/ Peek = "while" /\ Take(WhileRest)
     \/ Peek = "for" /\ Take(<<Eat("("), Do("for_init")>>)
     \/ Peek = "return" /\ Take(ReturnRest)
     \/ Peek \in {"break", "continue"} /\ Take(<<Do("end"), Build(Peek)>>)
     \/ Peek = "@" /\ Take(<<Do("directive"), Build("directive")>>)
     \/ /\ Peek \notin Types \cup {"print", "println", "read", "if", "while", "for",
                                   "return", "break", "continue", "@"}
        /\ Go(<<Do("expr"), Do("end")>>)

\* The token after @ is taken whatever it is and its value copied, which a
\* number does not have (make_directive_node); no end of statement follows.
Directive ==
  \/ /\ Doing("directive")
     /\ \/ Peek \notin Numbers /\ Take(<<Do("directive_value")>>)
        \/ Peek \in Numbers /\ Fail("crash")
  \/ /\ Doing("directive_value")
     /\ \/ Peek \in Names \cup {"lib"} /\ Take(<<>>)
        \/ Peek \notin Names \cup {"lib"} /\ Go(<<>>)

\* Mutant: a statement of any kind may follow else.
ElseStatement ==
  \/ /\ Doing("else")
     /\ \/ Peek = "else" /\ Skip(<<Do("branch")>>)
        \/ Peek # "else" /\ Go(<<>>)
  \/ /\ Doing("branch")
     /\ \/ Peek = "if" /\ Take(IfRest)
        \/ Peek # "if" /\ Go(<<Do("stmt")>>)
ElseBranch ==
  \/ /\ Doing("else")
     /\ \/ Peek = "else" /\ Skip(<<Do("branch")>>)
        \/ Peek # "else" /\ Go(<<>>)
  \/ /\ Doing("branch")
     /\ \/ Peek = "if" /\ Take(IfRest)
        \/ Peek # "if" /\ Go(<<Do("block")>>)

\* The first part of a for: a declaration, which ends with its own end of
\* statement, nothing, or an expression, which may turn out to be a range.
ParseForStatement ==
  \/ /\ Doing("for_init")
     /\ \/ Peek \in Types /\ Go(Decl \o ForRest)
        \/ Peek = ";" /\ Then(ForRest) /\ Advance /\ Push(Null)
        \/ Peek \notin Types \cup {";"} /\ Go(<<Do("expr"), Finish("range?", "none")>>)
  \/ /\ Doing("range?")
     /\ \/ Peek = ")" /\ Skip(<<Do("block"), Finish("build", "range")>>)
        \/ Peek # ")" /\ Go(<<Eat(";")>> \o ForRest)
  \/ /\ Doing("optional")
     /\ \/ Peek = Head(todo).arg /\ Then(<<>>) /\ Stay /\ Push(Null)
        \/ Peek # Head(todo).arg /\ Go(<<Do("expr")>>)

\* for (range) {} becomes a for over a hidden index; the counter is read after
\* the body was parsed.
BuildRange ==
  /\ Doing("build") /\ Head(todo).arg = "range"
  /\ LET for == Pieces[1]  range == Pieces[2]  body == Pieces[3]
         idx == Word("__pinum_i" \o ToString(rng_counter), {})
         use == Node("identifier", idx.words, {}, <<>>)
     IN  Reduced(Node("for", for.words, for.keeps,
           <<Make("decl", <<Word("int", {}), idx, Node("int", <<"0">>, {}, <<>>)>>),
             Node("binary", <<"<">>, {}, <<use, range>>),
             Update(idx, "+", One),
             body>>))
  /\ rng_counter' = rng_counter + 1
  /\ Then(<<>>) /\ Stay /\ UNCHANGED punned

-----------------------------------------------------------------------------
\* Expressions.
ParseExpression ==
  \/ Doing("expr") /\ Go(<<Do("ternary"), Do("assignment")>>)
  \/ Doing("ternary") /\ Go(Chain(1) \o <<Do("question")>>)
  \/ Doing("operand") /\ Go(Chain(Head(todo).arg))
  \/ Doing("call") /\ Go(<<Do("primary"), Do("postfix")>>)

ParseAssignment ==
  /\ Doing("assignment")
  /\ \/ Peek = "=" /\ Take(<<Do("expr"), Finish("build", "assign")>>)
     \/ Peek \in DOMAIN Compound /\ Take(<<Do("expr"), Finish("build", "compound")>>)
     \/ Peek \notin {"="} \cup DOMAIN Compound /\ Go(<<>>)

\* The target is looked at when the value has been parsed.
AssignTo ==
  LET target == Pieces[1]  op == Pieces[2]  value == Pieces[3]
      name == Word(target.words[1], target.keeps \cup op.keeps)
  IN
  /\ Doing("build")
  /\ \/ /\ Head(todo).arg = "assign" /\ target.kind = "access"
        /\ Reduce(Make("assign_element", <<name>> \o target.kids \o <<value>>))
     \/ /\ Head(todo).arg = "assign" /\ target.kind = "identifier"
        /\ Reduce(Make("assign", <<name, value>>))
     \/ /\ Head(todo).arg = "compound" /\ target.kind = "identifier"
        /\ Reduce(Update(name, Compound[op.words[1]], value))
     \/ /\ \/ Head(todo).arg = "assign" /\ target.kind \notin {"access", "identifier"}
           \/ Head(todo).arg = "compound" /\ target.kind # "identifier"
        /\ Fail("ERR_INVALID_ASSIGN_TARGET")

ParseTernary ==
  /\ Doing("question")
  /\ \/ Peek = "?" /\ Take(<<Do("ternary"), Eat(":"), Do("ternary"), Finish("build", "ternary")>>)
     \/ Peek # "?" /\ Go(<<>>)

\* Mutant: the right operand takes in operators of the same level.
RightOperandSameLevel(level) ==
  IF level = 6 THEN Do("call") ELSE With("operand", level)
\* What stands to the right of an operator; to the right of * / % no unary one.
RightOperand(level) ==
  IF level = 6 THEN Do("call") ELSE With("operand", level + 1)

\* The loops of the binary levels from one on: the operator is taken by the
\* loop of its level.  The tighter loops inside have ended by then, the right
\* operand has taken all that was theirs.
ParseOperator ==
  /\ Doing("operators")
  /\ \/ \E level \in Head(todo).arg .. 6 :
          /\ Peek \in Operators(level)
          /\ Take(<<RightOperand(level), Finish("build", "binary"), Again>>)
     \/ /\ \A level \in Head(todo).arg .. 6 : Peek \notin Operators(level)
        /\ Go(<<>>)

ParseUnary ==
  /\ Doing("unary")
  /\ \/ Peek \in {"!", "-"} /\ Take(<<Do("unary"), Build("unary")>>)
     \/ Peek \notin {"!", "-"} /\ Go(<<Do("primary"), Do("postfix")>>)

Postfix == {"(", "[", "."} \cup DOMAIN Step

\* The loop of parse_call over what may follow a primary expression.
ParseCall ==
  LET node == Last(done) IN
  /\ Doing("postfix")
  /\ \/ /\ Peek = "(" /\ node.kind = "identifier"
        /\ Then(<<With("list", "arg"), Eat(")"), Finish("build", "call"), Again>>)
        /\ Advance
        /\ Reduced(Word(node.words[1], node.keeps)) /\ UNCHANGED <<rng_counter, punned>>
     \/ Peek = "(" /\ node.kind # "identifier" /\ Fail("ERR_INVALID_CALL_TARGET")
     \/ Peek = "[" /\ Skip(<<Do("expr"), Eat("]"), Finish("build", "access"), Again>>)
     \/ Peek = "." /\ Skip(<<Do("name"), Do("method"), Finish("build", "member"), Again>>)
     \/ /\ Peek \in DOMAIN Step /\ node.kind = "identifier"
        /\ Then(<<Again>>) /\ Advance
        /\ Reduced(Update(Word(node.words[1], node.keeps \cup {current}), Step[Peek], One))
        /\ UNCHANGED <<rng_counter, punned>>
     \/ Peek \in DOMAIN Step /\ node.kind # "identifier" /\ Fail("ERR_INVALID_ASSIGN_TARGET")
     \/ Peek \notin Postfix /\ Go(<<>>)

MethodArgs == /\ Doing("method")
              /\ \/ Peek = "(" /\ Go(Parens(<<With("list", "arg")>>))
                 \/ Peek # "(" /\ Go(<<>>)

\* x[index]: the name is read from the node, whatever its kind.
BuildAccess ==
  /\ Doing("build") /\ Head(todo).arg = "access"
  /\ LET name == NameOf(Pieces[1])
     IN  Reduced(Node("access", name.words, name.keeps, <<Pieces[2]>>))
  /\ punned' = (punned \/ Pieces[1].kind # "identifier")
  /\ Then(<<>>) /\ Stay /\ UNCHANGED rng_counter

ParsePrimary ==
  /\ Doing("primary")
  /\ \/ /\ Peek \in DOMAIN Literals
        /\ Then(<<>>) /\ Advance /\ Push(Node(Literals[Peek], <<Peek>>, {current}, <<>>))
     \/ /\ Peek \in Names
        /\ Then(<<>>) /\ Advance /\ Push(Node("identifier", <<Peek>>, {current}, <<>>))
     \/ Peek = "(" /\ Go(Parens(<<Do("expr")>>))
     \/ Peek \in Quotes /\ Skip(<<With("quoted", Peek)>>)
     \/ Peek = "[" /\ Skip(<<With("list", "element"), Eat("]"), Build("list")>>)
     \/ /\ Peek \notin DOMAIN Literals \cup Names \cup Quotes \cup {"(", "["}
        /\ Fail("ERR_UNEXPECTED_TOKEN")

\* The literal ends at a quote of either kind or at EOF, which is taken too.
ParseQuoted ==
  /\ Doing("quoted")
  /\ \/ /\ Peek \in Quotes \cup {"eof"}
        /\ Then(<<>>) /\ Advance
        /\ Reduced(Make(IF Head(todo).arg = "sq" /\ Len(Pieces) = 1 /\ Pieces[1].words = <<"qchar">>
                        THEN "char" ELSE "string", Pieces))
        /\ UNCHANGED <<rng_counter, punned>>
     \/ Peek \notin Quotes \cup {"eof"} /\ Take(<<Again>>)

Accept == /\ status = "parsing" /\ todo = <<>>
          /\ status' = "parsed"
          /\ UNCHANGED <<tokens, current, input, todo, done, rng_counter, punned>>

ParseFunction == \/ ParseProgram \/ ParseBlock \/ ParseType \/ Initializer \/ ReturnType
                 \/ List \/ More
ParseStatements == \/ ParseStatement \/ Directive \/ ElseBranch \/ ParseForStatement
                   \/ BuildRange
ParseExpressions == \/ ParseExpression \/ ParseAssignment \/ AssignTo \/ ParseTernary
                    \/ ParseOperator \/ ParseUnary \/ ParseCall \/ MethodArgs
                    \/ BuildAccess \/ ParsePrimary \/ ParseQuoted
Parse == \/ Consume \/ ConsumeName \/ ConsumeEndOfStatement \/ BuildNode
         \/ ParseFunction \/ ParseStatements \/ ParseExpressions \/ Accept

ParserSpec == Init /\ [][Parse]_parserVars

-----------------------------------------------------------------------------
\* The errors the process exits with, and strdup(NULL).
Errors == {"crash", "ERR_EXPECTED", "ERR_UNEXPECTED_TOKEN", "ERR_INVALID_CALL_TARGET",
           "ERR_INVALID_ASSIGN_TARGET"}

\* The cursor is on the list or, once EOF itself was taken, right behind it;
\* every function that is still running finds the pieces it had when it was
\* entered; what remains of a whole parse is the tree.
TypeOK ==
  /\ status \in {"parsing", "parsed"} \cup Errors
  /\ current \in 1 .. Len(tokens) + 1
  /\ current = Len(tokens) + 1 => Last(tokens) = "eof"
  /\ rng_counter \in 0 .. Len(tokens)
  /\ \A i \in DOMAIN todo : todo[i].base <= Len(done)
  /\ status = "parsed" => todo = <<>> /\ Len(done) = 1 /\ Peek = "eof"

-----------------------------------------------------------------------------
\* What a parsed program has become.
tree == done[1]

\* What the tree keeps of the text.
KidsApart(n) ==
  \A i, j \in DOMAIN n.kids : i # j => n.kids[i].covers \cap n.kids[j].covers = {}

Content == {i \in DOMAIN tokens : tokens[i] \notin Separators}

\* The operators of the text.
\* How the operators of the language bind: those of C.
Rank(t) == CASE t \in {"*", "/", "%"} -> 6
             [] t \in {"+", "-"} -> 5
             [] t \in {"<", ">", "<=", ">="} -> 4
             [] t \in {"==", "!="} -> 3
             [] t = "&&" -> 2
             [] t = "||" -> 1
             [] t \in {"?", "="} \cup DOMAIN Compound -> 0
             [] OTHER -> 9
OperandEnds == Names \cup DOMAIN Literals \cup Quotes \cup DOMAIN Step \cup {")", "]"}
IsOperator(q) == q > 1 /\ Rank(tokens[q]) # 9 /\ tokens[q - 1] \in OperandEnds
Count(S, q) == Cardinality({i \in 1 .. q : tokens[i] \in S})
Depth(q) == Count({"(", "[", "{"}, q) - Count({")", "]", "}"}, q)

\* The operators behind the first token of n, up to its last, as deep as p is.
Beside(n, p) ==
  LET K == n.covers
  IN  {q \in DOMAIN tokens : /\ \E i \in K : i < q
                             /\ \E i \in K : q <= i
                             /\ q # p /\ IsOperator(q) /\ Depth(q) = Depth(p)}

\* A sign spans no operator; what stands beside an operation binds tighter, or
\* as tightly and to its left.
Grouped(n) ==
  /\ n.kind = "unary" => \A p \in n.keeps : Beside(n, p) = {}
  /\ n.kind = "binary" =>
       \A p \in n.keeps : \A q \in Beside(n, p) :
         /\ Rank(tokens[q]) >= Rank(tokens[p])
         /\ q > p => Rank(tokens[q]) > Rank(tokens[p])

\* Every tree the parser builds has the shape the analyser and the generator
\* index into without looking: bodies are blocks, an else is a block or an if,
\* functions stand at file scope only, no list of statements holds a NULL.
TreesAreWalkable ==
  status = "parsed" => \A n \in Subtrees(tree) : Placed(n)

\* Nothing of a parsed program is lost on the way into the tree, and nothing is
\* in it twice: every name, literal, operator and keyword belongs to exactly
\* one node.  Only an index put on something that is not a name breaks this
\* (parse_call takes the name from a node whose kind it does not test).
NothingDropped ==
  status = "parsed" /\ ~ punned =>
    /\ Content \subseteq tree.covers
    /\ \A n \in Subtrees(tree) : KidsApart(n)

\* The tree groups operators as C does: in the text an operation spans, no
\* other operator beside it binds less tightly, and one to its right that
\* binds as tightly is outside of it; a sign spans no operator at all
\* (parse_assignment down to parse_unary).
GroupedByPrecedence ==
  status = "parsed" => \A n \in Subtrees(tree) : Grouped(n)
=============================================================================
