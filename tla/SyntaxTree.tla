----------------------------- MODULE SyntaxTree -----------------------------
(***************************************************************************)
(* The syntax tree: the node kinds, the constructors, and the shape that   *)
(* the analyser and the generator take for granted.                        *)
(*                                                                         *)
(* What a parse function has read of a node and not yet put into it is a   *)
(* sequence of pieces: the nodes made for its children, and the words      *)
(* (names, operators, keywords) it keeps itself.  A word is written as a   *)
(* node of kind "word".                                                    *)
(*                                                                         *)
(* Three fields are history: keeps, the tokens the node itself was made    *)
(* from; covers, those of the whole tree under it; height, of that tree.   *)
(***************************************************************************)
EXTENDS Integers, Sequences, SequencesExt

Node(kind, words, keeps, kids) ==
  [kind |-> kind, words |-> words, keeps |-> keeps, kids |-> kids,
   covers |-> keeps \cup UNION {kids[i].covers : i \in DOMAIN kids},
   height |-> 1 + Max({0} \cup {kids[i].height : i \in DOMAIN kids})]

Null == Node("null", <<>>, {}, <<>>)
Word(w, keeps) == Node("word", <<w>>, keeps, <<>>)
IsWord(n) == n.kind = "word"

\* The pieces that become children, in order: f[i] those among the first i.
Children(pieces) ==
  LET f[i \in 0 .. Len(pieces)] == IF i = 0 THEN <<>>
                                   ELSE IF IsWord(pieces[i]) THEN f[i - 1]
                                   ELSE Append(f[i - 1], pieces[i])
  IN  f[Len(pieces)]
Spelled(pieces) ==
  LET own == SelectSeq(pieces, IsWord)
  IN  FlattenSeq([i \in DOMAIN own |-> own[i].words])
KeptBy(pieces) == UNION {pieces[i].keeps : i \in {j \in DOMAIN pieces : IsWord(pieces[j])}}

\* Mutant: a list loses its elements after the second.
MakeNotGrown(kind, pieces) ==
  LET kids == Children(pieces)
  IN  Node(kind, Spelled(pieces), KeptBy(pieces),
           IF kind = "list" /\ Len(kids) > 2 THEN SubSeq(kids, 1, 2) ELSE kids)
\* A node of its pieces: words are its own fields, nodes its children.  The
\* arrays the children are added to, and their capacities, are left out.
Make(kind, pieces) == Node(kind, Spelled(pieces), KeptBy(pieces), Children(pieces))

\* n and all nodes below it, level by level.
Subtrees(n) ==
  LET level[d \in 0 .. n.height] ==
        IF d = 0 THEN {n} ELSE UNION {ToSet(m.kids) : m \in level[d - 1]}
  IN  UNION {level[d] : d \in 0 .. n.height}

\* A walk from the leaves up: what Op makes of n and of the answers for its children.
FoldTree(Op(_, _), n) ==
  LET f[m \in Subtrees(n)] == Op(m, [i \in DOMAIN m.kids |-> f[m.kids[i]]])
  IN  f[n]

-----------------------------------------------------------------------------
\* The places of the tree.
Literal == {"int", "float", "bool", "char", "string"}
Assignments == {"assign", "assign_element"}
Expressions == Literal \cup Assignments \cup
               {"identifier", "list", "access", "binary", "unary", "ternary", "call", "member"}
Statements == Expressions \cup {"decl", "print", "read", "if", "while", "for", "return",
                                "break", "continue", "directive"}
Kinds(n) == [i \in DOMAIN n.kids |-> n.kids[i].kind]
All(kinds, S) == ToSet(kinds) \subseteq S

\* The children each kind of node may have, as the cases of sem_analyze_node
\* take them.
Inner == {"program", "block", "func", "decl", "if", "while", "for", "print", "list", "call",
          "member", "return", "access", "unary", "binary", "ternary"} \cup Assignments
Placed(n) ==
  LET k == Kinds(n)  m == Len(n.kids) IN
  /\ n.kind = "program" => All(k, Statements \cup {"func"})
  /\ n.kind = "block"   => All(k, Statements)
  /\ n.kind = "func"    => m > 0 /\ k[m] = "block" /\ All(Front(k), {"decl"})
  /\ n.kind = "decl"    => m <= 1 /\ All(k, Expressions)
  /\ n.kind = "if"      => /\ m \in 2 .. 3 /\ k[1] \in Expressions /\ k[2] = "block"
                           /\ m = 3 => k[3] \in {"block", "if"}
  /\ n.kind = "while"   => m = 2 /\ k[1] \in Expressions /\ k[2] = "block"
  /\ n.kind = "for"     => /\ m = 4 /\ k[1] \in Expressions \cup {"decl", "null"}
                           /\ All(SubSeq(k, 2, 3), Expressions \cup {"null"}) /\ k[4] = "block"
  /\ n.kind \in {"print", "list", "call"} => All(k, Expressions)
  /\ n.kind = "member"  => m >= 1 /\ All(k, Expressions)
  /\ n.kind \in {"return", "access", "unary", "assign"} => m = 1 /\ All(k, Expressions)
  /\ n.kind \in {"binary", "assign_element"} => m = 2 /\ All(k, Expressions)
  /\ n.kind = "ternary" => m = 3 /\ All(k, Expressions)
  /\ n.kind \notin Inner => m = 0
=============================================================================
