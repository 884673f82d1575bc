-------------------------------- MODULE Sema --------------------------------
(***************************************************************************)
(* The semantic analyser: the recursive walk of sem_analyze_node over the  *)
(* syntax tree, on top of the scope stack of ScopeTable.  The tree is not  *)
(* fixed in advance: each visit chooses the next node among those the      *)
(* parser can put there, so a behaviour is one program and its analysis.   *)
(* The C call stack is todo, the work that remains, next piece first.      *)
(*                                                                         *)
(* headers, calls and defects are history variables that say what is       *)
(* wrong with the program text whatever the analyser does about it; they   *)
(* are stated with LexicalScope, not with the analyser's tables.           *)
(***************************************************************************)
EXTENDS ScopeTable, FiniteSets

CONSTANTS Fns,          \* function names
          Main,         \* "main"
          SourceTypes,  \* the declared types in use, as Fulltype takes them
          ReturnTypes,  \* the function result types in use
          MaxNodes,     \* bound: statements and compound expressions visited
          MaxParams, MaxArgs

VARIABLES todo,       \* the nodes and half-visited nodes still to be walked
          functions,  \* a->functions: name to signature
          result,     \* resolved_type of the expression visited last
          status,     \* "analyzing", "accepted" or the error the process exits with
          budget, headers, calls, defects

semVars == <<todo, functions, result, status, budget, headers, calls, defects>>
vars == <<frames, capacity, path, fresh, decls, answer,
          todo, functions, result, status, budget, headers, calls, defects>>

-----------------------------------------------------------------------------
\* sem_fulltype, on one scalar, string and the two vectors over them.
Fulltype(s) == CASE s = "string"      -> "char *"
                 [] s = "vec<int32>"  -> "vec_int32"
                 [] s = "vec<string>" -> "vec_string"
                 [] OTHER             -> s

ASSUME BoundsAssumption == MaxNodes \in Nat
ASSUME SourceTypesAssumption == \A s \in SourceTypes : Fulltype(s) \in Types

IsVec(t) == t \in {"vec_int32", "vec_string"}    \* strncmp(type, "vec_", 4) == 0

\* The resolved type of arr[i]; a type that is no vector is passed through.
ElementType(t) == CASE t = "vec_int32"  -> "int32"
                    [] t = "vec_string" -> "char *"
                    [] OTHER            -> t

MethodLookup(t, m) == IsVec(t) /\ m = "append"

\* Mutant: counts one parameter too many.
SignatureOffByOne(k, r) == [params |-> k + 1, returns |-> r]
Signature(k, r) == [params |-> k, returns |-> r]

\* Mutant: extra parameters may be left out.
ArityAgreesAtMost(f, k) == functions[f].params >= k
ArityAgrees(f, k) == functions[f].params = k

Item(k) == [do |-> k, args |-> 0, name |-> "", type |-> NoType]
Yield(t) == [Item("yield") EXCEPT !.type = t]
MemberItem(m, k) == [Item("member") EXCEPT !.name = m, !.args = k]
Times(k, item) == [i \in 1 .. k |-> item]
Exprs(k) == Times(k, Item("expr"))

-----------------------------------------------------------------------------
\* Defects of the program text.
Undeclared(n) == IF Lexical!Meaning(n) = NoType THEN {"ERR_UNDECLARED_VAR"} ELSE {}
NotAVector(n) ==
  IF Lexical!Meaning(n) # NoType /\ ~ IsVec(Lexical!Meaning(n)) THEN {"ERR_UNKNOWN"} ELSE {}
UndeclaredArgs(A) ==
  IF \E n \in A : Lexical!Meaning(n) = NoType THEN {"undeclared call argument"} ELSE {}

Redeclared(n) ==
  IF Lexical!Declares(path[Len(path)], n) THEN {"ERR_REDECLARED_VAR"} ELSE {}

WrongArity(f, k) ==
  IF f \in DOMAIN headers /\ headers[f] # k THEN {"ERR_ARG_COUNT"} ELSE {}
EarlierWrongArity(f, k) ==
  IF \E c \in calls : c.fn = f /\ c.args # k THEN {"forward call arity"} ELSE {}

BadMethod(t, m, k, parens) ==
  IF MethodLookup(t, m) THEN {}
  ELSE IF k > 0 THEN {"ERR_UNKNOWN"}
  ELSE IF parens THEN {"unknown method without arguments"} ELSE {}

-----------------------------------------------------------------------------
Init == /\ ScopeInit
        /\ todo = <<Item("program")>>
        /\ functions = [f \in {} |-> NoType]
        /\ result = NoType
        /\ status = "analyzing"
        /\ budget = MaxNodes
        /\ headers = [f \in {} |-> 0] /\ calls = {} /\ defects = {}

Doing(k) == status = "analyzing" /\ todo # <<>> /\ Head(todo).do = k
Then(items) == todo' = items \o Tail(todo) /\ UNCHANGED status
Keep(items) == todo' = items \o todo /\ UNCHANGED status
Fail(code) == status' = code /\ UNCHANGED todo
Spend == budget > 0 /\ budget' = budget - 1
Note(D) == defects' = defects \cup D
NoCalls == UNCHANGED <<functions, headers, calls>>

\* sem_resolve and the error its caller reports for an unknown name; Found is
\* what a known name leads to.
Use(n, D, Found) ==
  /\ Resolve(n)
  /\ Note(Undeclared(n) \cup D)
  /\ \/ Resolved(n) = NoType /\ Fail("ERR_UNDECLARED_VAR")
     \/ Resolved(n) # NoType /\ Found

\* Mutant: the error is reported but the process goes on.
IntroduceGoesOn(n, t, Declared) ==
  /\ Note(Redeclared(n))
  /\ \/ Declare(n, t) /\ Declared
     \/ Redeclare(n) /\ Declared

\* sem_declare and its error.
Introduce(n, t, Declared) ==
  /\ Note(Redeclared(n))
  /\ \/ Declare(n, t) /\ Declared
     \/ Redeclare(n) /\ Fail("ERR_REDECLARED_VAR")

-----------------------------------------------------------------------------
\* NODE_PROGRAM and NODE_BLOCK: a scope around a statement list.
Program == /\ Doing("program")
           /\ PushScope
           /\ Then(<<Item("toplevel"), Item("pop")>>)
           /\ NoCalls /\ UNCHANGED <<result, budget, defects>>

\* Mutant: the scope of a block is never closed.
BlockNeverCloses == /\ Doing("block")
                    /\ PushScope
                    /\ Then(<<Item("stmts")>>)
                    /\ NoCalls /\ UNCHANGED <<result, budget, defects>>

Block == /\ Doing("block")
         /\ PushScope
         /\ Then(<<Item("stmts"), Item("pop")>>)
         /\ NoCalls /\ UNCHANGED <<result, budget, defects>>

CloseScope == /\ Doing("pop")
              /\ PopScope
              /\ Then(<<>>)
              /\ NoCalls /\ UNCHANGED <<result, budget, defects>>

ListEnd == /\ Doing("toplevel") \/ Doing("stmts")
           /\ Then(<<>>)
           /\ NoCalls /\ UNCHANGED <<scopeVars, result, budget, defects>>

\* File scope takes declarations and directives only.
TopLevelStmt == /\ Doing("toplevel") /\ Spend
                /\ Fail("ERR_TOP_LEVEL_STMT")
                /\ NoCalls /\ UNCHANGED <<scopeVars, result, defects>>

\* NODE_VAR_DECL, at file scope, in a block or as the init of a for: the name
\* is declared first, then the initializer is walked.
VarDecl(n, s, k) ==
  /\ \/ /\ Doing("toplevel") \/ Doing("stmts")
        /\ Introduce(n, Fulltype(s), Keep(Exprs(k)))
        /\ Spend
     \/ /\ Doing("init")
        /\ Introduce(n, Fulltype(s), Then(Exprs(k)))
        /\ UNCHANGED budget
  /\ NoCalls /\ UNCHANGED result

\* NODE_FUNC_DEF: the signature is registered, the parameters are declared in
\* a scope of their own (one "param" item each), the body block opens another.
FuncDef(f, k, r) ==
  /\ Doing("toplevel") /\ Spend
  /\ \/ /\ f \in DOMAIN functions
        /\ Fail("ERR_DUPLICATED_FUNC")
        /\ NoCalls /\ Note({"ERR_DUPLICATED_FUNC"})
        /\ UNCHANGED <<scopeVars, result>>
     \/ /\ f \notin DOMAIN functions
        /\ functions' = Insert(functions, f, Signature(k, r))
        /\ PushScope
        /\ Keep(Times(k, Item("param")) \o <<Item("block"), Item("pop")>>)
        /\ headers' = Insert(headers, f, k)
        /\ Note(EarlierWrongArity(f, k))
        /\ UNCHANGED <<calls, result>>

Param(n, s) == /\ Doing("param")
               /\ Introduce(n, Fulltype(s), Then(<<>>))
               /\ NoCalls /\ UNCHANGED <<result, budget>>

-----------------------------------------------------------------------------
\* Statements of a block.

\* NODE_PRINT, NODE_RETURN and an expression as a statement: each expression
\* in turn.
ExprStmt(k) == /\ Doing("stmts") /\ Spend
               /\ Keep(Exprs(k))
               /\ NoCalls /\ UNCHANGED <<scopeVars, result, defects>>

Read(n) == /\ Doing("stmts") /\ Spend
           /\ Use(n, {}, Keep(<<>>))
           /\ NoCalls /\ UNCHANGED result

\* NODE_IF_STAT: condition, then block, else branch.  An else branch that is
\* an if again is walked right there, so a chain of them is one list.
Branch == <<Item("expr"), Item("block")>>
If(elseIf, else) ==
  /\ Doing("stmts") /\ Spend
  /\ Keep(Branch \o elseIf \o else)
  /\ NoCalls /\ UNCHANGED <<scopeVars, result, defects>>

While == /\ Doing("stmts") /\ Spend
         /\ Keep(<<Item("expr"), Item("block")>>)
         /\ NoCalls /\ UNCHANGED <<scopeVars, result, defects>>

\* NODE_FOR: a scope of its own holds the init declaration.
For(init, k) ==
  /\ Doing("stmts") /\ Spend
  /\ PushScope
  /\ Keep(init \o Exprs(k) \o <<Item("block"), Item("pop")>>)
  /\ NoCalls /\ UNCHANGED <<result, defects>>

-----------------------------------------------------------------------------
\* Expressions.
Literal == /\ Doing("expr")
           /\ Then(<<>>)
           /\ result' = NoType
           /\ NoCalls /\ UNCHANGED <<scopeVars, budget, defects>>

\* Binary, unary, ternary and list nodes walk their operands and get no type.
Operation(k) == /\ Doing("expr") /\ Spend
                /\ Then(Exprs(k) \o <<Yield(NoType)>>)
                /\ NoCalls /\ UNCHANGED <<scopeVars, result, defects>>

\* Mutant: the visited node is not left.
TypedStays == /\ Doing("yield")
              /\ Keep(<<>>)
              /\ result' = Head(todo).type
              /\ NoCalls /\ UNCHANGED <<scopeVars, budget, defects>>

Typed == /\ Doing("yield")
         /\ Then(<<>>)
         /\ result' = Head(todo).type
         /\ NoCalls /\ UNCHANGED <<scopeVars, budget, defects>>

Identifier(n) == /\ Doing("expr") /\ Spend
                 /\ Use(n, {}, Then(<<>>))
                 /\ result' = Resolved(n)
                 /\ NoCalls

ArrayAccess(n) ==
  /\ Doing("expr") /\ Spend
  /\ Use(n, {}, Then(<<Item("expr"), Yield(ElementType(Resolved(n)))>>))
  /\ NoCalls /\ UNCHANGED result

Assign(n) == /\ Doing("expr") /\ Spend
             /\ Use(n, {}, Then(<<Item("expr"), Yield(NoType)>>))
             /\ NoCalls /\ UNCHANGED result

\* arr[i] = v: the array must be a vector.
AssignElement(n) ==
  /\ Doing("expr") /\ Spend
  /\ Use(n, NotAVector(n),
         \/ IsVec(Resolved(n)) /\ Then(Exprs(2) \o <<Yield(NoType)>>)
         \/ ~ IsVec(Resolved(n)) /\ Fail("ERR_UNKNOWN"))
  /\ NoCalls /\ UNCHANGED result

\* NODE_MEMBER_ACCESS: the object, then, when there are arguments, the method
\* table, then the arguments.  parens tells obj.m() from obj.m.
MemberAccess(m, k) == /\ Doing("expr") /\ Spend
                      /\ Then(<<Item("expr"), MemberItem(m, k)>>)
                      /\ NoCalls /\ UNCHANGED <<scopeVars, result, defects>>

Member(parens) ==
  LET m == Head(todo).name  k == Head(todo).args IN
  /\ Doing("member")
  /\ k > 0 => parens
  /\ Note(BadMethod(result, m, k, parens))
  /\ \/ k > 0 /\ ~ MethodLookup(result, m) /\ Fail("ERR_UNKNOWN")
     \/ (k > 0 => MethodLookup(result, m)) /\ Then(Exprs(k) \o <<Yield("int32")>>)
  /\ NoCalls /\ UNCHANGED <<scopeVars, result, budget>>

\* NODE_FUNC_CALL: the number of arguments is compared when the function is
\* known; the arguments, which mention the names in A, are not walked.
FuncCall(f, k, A) ==
  /\ Doing("expr") /\ Spend
  /\ \/ f \notin DOMAIN functions /\ Then(<<>>) /\ result' = NoType
     \/ /\ f \in DOMAIN functions
        /\ result' = functions[f].returns
        /\ \/ ~ ArityAgrees(f, k) /\ Fail("ERR_ARG_COUNT")
           \/ ArityAgrees(f, k) /\ Then(<<>>)
  /\ Note(WrongArity(f, k) \cup UndeclaredArgs(A))
  /\ calls' = calls \cup {[fn |-> f, args |-> k]}
  /\ UNCHANGED <<scopeVars, functions, headers>>

-----------------------------------------------------------------------------
\* semantic_analyze after the walk.
Finish == /\ status = "analyzing" /\ todo = <<>>
          /\ status' = IF Main \in DOMAIN functions THEN "accepted" ELSE "ERR_NO_MAIN"
          /\ Note(IF Main \in DOMAIN headers THEN {} ELSE {"ERR_NO_MAIN"})
          /\ NoCalls /\ UNCHANGED <<scopeVars, todo, result, budget>>

WalkDeclaration ==
  \/ \E n \in Names, s \in SourceTypes, k \in 0 .. 1 : VarDecl(n, s, k)
  \/ \E f \in Fns, k \in 0 .. MaxParams, r \in ReturnTypes :
       FuncDef(f, k, r)
  \/ \E n \in Names, s \in SourceTypes : Param(n, s)

WalkStatement ==
  \/ \E k \in 0 .. MaxArgs : ExprStmt(k)
  \/ \E n \in Names : Read(n)
  \/ \E elseIf \in {<<>>, Branch}, else \in {<<>>, <<Item("block")>>} : If(elseIf, else)
  \/ While
  \/ \E init \in {<<>>, <<Item("init")>>, <<Item("expr")>>}, k \in 0 .. 2 : For(init, k)

WalkExpression ==
  \/ Literal
  \/ \E k \in 1 .. 3 : Operation(k)
  \/ Typed
  \/ \E n \in Names : \/ Identifier(n)
                      \/ ArrayAccess(n)
                      \/ Assign(n)
                      \/ AssignElement(n)
  \/ \E m \in {"append", "length"}, k \in 0 .. MaxArgs : MemberAccess(m, k)
  \/ \E parens \in BOOLEAN : Member(parens)
  \/ \E f \in Fns, k \in 0 .. MaxArgs : \E A \in SUBSET Names :
       (A # {} => k > 0) /\ FuncCall(f, k, A)

Next == \/ Program
        \/ Block
        \/ CloseScope
        \/ ListEnd
        \/ TopLevelStmt
        \/ WalkDeclaration
        \/ WalkStatement
        \/ WalkExpression
        \/ Finish

Spec == Init /\ [][Next]_vars
FairSpec == Spec /\ WF_vars(Next)

-----------------------------------------------------------------------------
Errors == {"ERR_UNDECLARED_VAR", "ERR_REDECLARED_VAR", "ERR_ARG_COUNT",
           "ERR_DUPLICATED_FUNC", "ERR_NO_MAIN", "ERR_UNKNOWN"}

\* The values of the walk's own state.
TypeOK ==
  /\ status \in {"analyzing", "accepted", "ERR_TOP_LEVEL_STMT"} \cup Errors
  /\ budget \in 0 .. MaxNodes
  /\ DOMAIN functions \subseteq Fns
  /\ \A f \in DOMAIN functions : functions[f].params \in 0 .. MaxParams
  /\ DOMAIN headers \subseteq Fns
  /\ calls \subseteq [fn : Fns, args : 0 .. MaxArgs]

\* A program that passes the analysis has none of the errors the analyser
\* knows, in any node it walks: every name outside call arguments is declared
\* in an enclosing scope, no scope declares a name twice, every call to an
\* already defined function has its number of arguments (sem_analyze_node).
AcceptedIsClean == status = "accepted" => defects \cap Errors = {}

\* The converse: an error is only reported for a program that has it.  A scope
\* left on the stack, a frame popped too early or a signature kept from
\* elsewhere would reject a correct program.
RejectedForCause == status \in Errors => status \in defects

\* The signatures calls are compared with are those the program text has shown.
SignaturesMatchText ==
  /\ DOMAIN functions = DOMAIN headers
  /\ \A f \in DOMAIN headers : functions[f].params = headers[f]

\* The inductive invariant behind the verdict: as long as the walk goes on the
\* text read so far has no error the analyser knows.
VerdictInv ==
  /\ ScopeInv
  /\ SignaturesMatchText
  /\ status = "analyzing" => answer # "redeclared" /\ defects \cap Errors = {}
  /\ AcceptedIsClean
  /\ RejectedForCause

\* The pieces of a list of work that close a scope.
Pops(work) == {i \in DOMAIN work : work[i].do = "pop"}

\* Each open scope has exactly one piece of pending work that will close it,
\* so the walk ends with the stack it started with, on every path.
ScopeBalance ==
  status = "analyzing" => Len(frames) = Cardinality(Pops(todo))

\* The walk always comes to a verdict (every kind of node is handled and
\* consumed), given that the analyser keeps running.
Termination == <>(status # "analyzing")

\* The analyser drives its scope stack as ScopeTable describes, hence as
\* lexical scoping promises.
UsesScopeTable == ScopeSpec
=============================================================================
