--------------------------- MODULE Grouping_proofs ---------------------------
(***************************************************************************)
(* The parser groups operators by precedence, on token lists of any        *)
(* length, over any names and types.                                       *)
(*                                                                         *)
(* The descent of the parser is a list of things to do (todo), so what one *)
(* function knows of its caller is a fact about that list.  Expects says   *)
(* it: the items left to do are ready for a value that began at a token f, *)
(* binds as tightly as r, and lies on n pieces.  It is a chain, one link   *)
(* for each item, from the innermost call to the statement; every step     *)
(* takes its head off, or puts items before it.  Over says what is true of *)
(* the text of such a value: its brackets are even, and no operator        *)
(* outside of them binds less than r.                                      *)
(*                                                                         *)
(* The literals need care.  Between quotes the lexer lists what is no      *)
(* operator of the program, so the parser must know where it is as the     *)
(* lexer does (InStep).  It may lose it: an @ takes whatever comes, a      *)
(* quote too.  From then on (Astray) what it reads as an expression is the *)
(* inside of a literal, where the lexer lists no operator and nothing but  *)
(* a quote begins an expression.                                           *)
(*                                                                         *)
(* GroupInv adds that every finished piece is a tree of nodes that group   *)
(* their operators (AllRated), which the last step carries to the tree of  *)
(* the program.                                                            *)
(***************************************************************************)
EXTENDS Parser_proofs, FiniteSetTheorems

-----------------------------------------------------------------------------
\* Counting tokens.
\* The brackets that open, and the ones that close.
Openers == {"(", "[", "{"}
Enders == {")", "]", "}"}

LEMMA CountNext ==
  \A S, k : k \in Nat \ {0} =>
    /\ Count(S, k - 1) \in Nat /\ Count(S, k) \in Nat
    /\ tokens[k] \in S => Count(S, k) = Count(S, k - 1) + 1
    /\ tokens[k] \notin S => Count(S, k) = Count(S, k - 1)
  <1>. SUFFICES ASSUME NEW S, NEW k \in Nat \ {0}
                PROVE  /\ Count(S, k - 1) \in Nat /\ Count(S, k) \in Nat
                       /\ tokens[k] \in S => Count(S, k) = Count(S, k - 1) + 1
                       /\ tokens[k] \notin S => Count(S, k) = Count(S, k - 1)
    OBVIOUS
  <1>. DEFINE A == {i \in 1 .. k - 1 : tokens[i] \in S}  B == {i \in 1 .. k : tokens[i] \in S}
  <1>1. IsFiniteSet(1 .. k - 1) /\ A \subseteq 1 .. k - 1  BY FS_Interval
  <1>2. IsFiniteSet(A) /\ Cardinality(A) \in Nat  BY <1>1, FS_Subset, FS_CardinalityType
  <1>3. k \notin A  OBVIOUS
  <1>4. tokens[k] \in S => B = A \cup {k}  OBVIOUS
  <1>5. tokens[k] \notin S => B = A  OBVIOUS
  <1>6. Cardinality(A \cup {k}) = Cardinality(A) + 1  BY <1>2, <1>3, FS_AddElement
  <1>7. Count(S, k) = Cardinality(B) /\ Count(S, k - 1) = Cardinality(A)  BY DEF Count
  <1>8. CASE tokens[k] \in S
    <2>1. Count(S, k) = Count(S, k - 1) + 1  BY <1>4, <1>6, <1>7, <1>8, Zenon
    <2>2. Count(S, k - 1) \in Nat  BY <1>2, <1>7, Zenon
    <2>. QED  BY <1>8, <2>1, <2>2
  <1>9. CASE tokens[k] \notin S
    <2>1. Count(S, k) = Count(S, k - 1)  BY <1>5, <1>7, <1>9, Zenon
    <2>2. Count(S, k - 1) \in Nat  BY <1>2, <1>7, Zenon
    <2>. QED  BY <1>9, <2>1, <2>2
  <1>. QED  BY <1>8, <1>9

LEMMA BracketsAre ==
  /\ "(" \in Openers /\ "[" \in Openers /\ ")" \in Enders /\ "]" \in Enders
  /\ Openers \cap Enders = {}
  BY Zenon DEF Openers, Enders

\* Depth goes up at an opening bracket and down at a closing one.
LEMMA DepthNext ==
  \A k : k \in Nat \ {0} =>
    /\ Depth(k - 1) \in Int /\ Depth(k) \in Int
    /\ tokens[k] \in Openers => Depth(k) = Depth(k - 1) + 1
    /\ tokens[k] \in Enders => Depth(k) = Depth(k - 1) - 1
    /\ tokens[k] \notin Openers \cup Enders => Depth(k) = Depth(k - 1)
  <1>. SUFFICES ASSUME NEW k \in Nat \ {0}
                PROVE  /\ Depth(k - 1) \in Int /\ Depth(k) \in Int
                       /\ tokens[k] \in Openers => Depth(k) = Depth(k - 1) + 1
                       /\ tokens[k] \in Enders => Depth(k) = Depth(k - 1) - 1
                       /\ tokens[k] \notin Openers \cup Enders => Depth(k) = Depth(k - 1)
    OBVIOUS
  <1>1. \A n : Depth(n) = Count(Openers, n) - Count(Enders, n)
    BY Zenon DEF Depth, Openers, Enders
  <1>2. Openers \cap Enders = {}  BY BracketsAre
  <1>. HIDE DEF Openers, Enders
  <1>3. /\ Count(Openers, k - 1) \in Nat /\ Count(Openers, k) \in Nat
        /\ tokens[k] \in Openers => Count(Openers, k) = Count(Openers, k - 1) + 1
        /\ tokens[k] \notin Openers => Count(Openers, k) = Count(Openers, k - 1)
    BY CountNext
  <1>4. /\ Count(Enders, k - 1) \in Nat /\ Count(Enders, k) \in Nat
        /\ tokens[k] \in Enders => Count(Enders, k) = Count(Enders, k - 1) + 1
        /\ tokens[k] \notin Enders => Count(Enders, k) = Count(Enders, k - 1)
    BY CountNext
  <1>5. Depth(k) = Count(Openers, k) - Count(Enders, k)  BY <1>1
  <1>6. Depth(k - 1) = Count(Openers, k - 1) - Count(Enders, k - 1)  BY <1>1
  <1>. QED  BY <1>2, <1>3, <1>4, <1>5, <1>6

\* From a to b the brackets are even; and no operator outside of them, behind a,
\* binds less than r.
Even(a, b) ==
  /\ a \in Nat \ {0} /\ b \in Nat /\ a <= b + 1
  /\ Depth(b) = Depth(a - 1) /\ \A q \in a .. b : Depth(q) >= Depth(a - 1)
Over(a, b, r) ==
  Even(a, b) /\ \A q \in a + 1 .. b : IsOperator(q) /\ Depth(q) = Depth(a - 1) => Rank(tokens[q]) >= r
\* A token that is neither a bracket nor an operator of a binary level.
Quiet(t) == t \notin Openers \cup Enders /\ Rank(t) = 9

LEMMA DepthType == \A k \in Nat : Depth(k) \in Int
  <1>. TAKE k \in Nat
  <1>1. k + 1 \in Nat \ {0} /\ (k + 1) - 1 = k  OBVIOUS
  <1>. QED  BY <1>1, DepthNext, Zenon

LEMMA NothingRead == \A a \in Nat \ {0} : Even(a, a - 1) /\ \A r : Over(a, a - 1, r)
  <1>. TAKE a \in Nat \ {0}
  <1>1. a - 1 \in Nat /\ a <= (a - 1) + 1 /\ a .. a - 1 = {} /\ a + 1 .. a - 1 = {}  OBVIOUS
  <1>. QED  BY <1>1 DEF Even, Over

LEMMA EvenNext ==
  \A a, b : Even(a, b) /\ tokens[b + 1] \notin Openers \cup Enders => Even(a, b + 1)
  <1>. TAKE a, b
  <1>. HAVE Even(a, b) /\ tokens[b + 1] \notin Openers \cup Enders
  <1>0. a \in Nat \ {0} /\ b \in Nat /\ a <= b + 1 /\ Depth(b) = Depth(a - 1)
        /\ \A q \in a .. b : Depth(q) >= Depth(a - 1)
    BY DEF Even
  <1>1. b + 1 \in Nat \ {0} /\ (b + 1) - 1 = b  BY <1>0
  <1>2. Depth(b) \in Int /\ Depth(b + 1) = Depth(b)  BY <1>1, DepthNext, Zenon
  <1>3. \A q \in a .. b + 1 : q \in a .. b \/ q = b + 1  BY <1>0
  <1>4. \A q \in a .. b + 1 : Depth(q) >= Depth(a - 1)
    BY <1>0, <1>2, <1>3
  <1>. QED  BY <1>0, <1>1, <1>2, <1>4 DEF Even

LEMMA OverNext ==
  \A a, b, r : /\ Over(a, b, r) /\ tokens[b + 1] \notin Openers \cup Enders
               /\ ~ IsOperator(b + 1) \/ Rank(tokens[b + 1]) >= r
               => Over(a, b + 1, r)
  <1>. TAKE a, b, r
  <1>. HAVE /\ Over(a, b, r) /\ tokens[b + 1] \notin Openers \cup Enders
            /\ ~ IsOperator(b + 1) \/ Rank(tokens[b + 1]) >= r
  <1>1. Even(a, b + 1)  BY EvenNext DEF Over
  <1>2. a \in Nat \ {0} /\ b \in Nat  BY DEF Over, Even
  <1>3. \A q \in a + 1 .. b + 1 : q \in a + 1 .. b \/ q = b + 1  BY <1>2
  <1>. QED  BY <1>1, <1>3 DEF Over

LEMMA EvenJoin == \A a, b, c : Even(a, b) /\ Even(b + 1, c) => Even(a, c)
  <1>. TAKE a, b, c
  <1>. HAVE Even(a, b) /\ Even(b + 1, c)
  <1>1. /\ a \in Nat \ {0} /\ b \in Nat /\ c \in Nat /\ a <= b + 1 /\ b <= c
        /\ (b + 1) - 1 = b
    BY DEF Even
  <1>2. Depth(b) = Depth(a - 1) /\ Depth(c) = Depth(b)  BY <1>1 DEF Even
  <1>3. \A q \in a .. c : q \in a .. b \/ q \in b + 1 .. c  BY <1>1
  <1>4. \A q \in a .. b : Depth(q) >= Depth(a - 1)  BY DEF Even
  <1>5. \A q \in b + 1 .. c : Depth(q) >= Depth(b)  BY <1>1 DEF Even
  <1>6. \A q \in a .. c : Depth(q) >= Depth(a - 1)  BY <1>2, <1>3, <1>4, <1>5, Zenon
  <1>. QED  BY <1>1, <1>2, <1>6 DEF Even

LEMMA OverJoin ==
  \A a, b, c, r : Over(a, b, r) /\ Over(b + 1, c, r) /\ ~ IsOperator(b + 1) => Over(a, c, r)
  <1>. TAKE a, b, c, r
  <1>. HAVE Over(a, b, r) /\ Over(b + 1, c, r) /\ ~ IsOperator(b + 1)
  <1>1. Even(a, c) /\ Even(a, b) /\ Even(b + 1, c)  BY EvenJoin DEF Over
  <1>2. /\ a \in Nat \ {0} /\ b \in Nat /\ c \in Nat /\ (b + 1) - 1 = b
        /\ Depth(b) = Depth(a - 1)
    BY <1>1 DEF Even
  <1>3. \A q \in a + 1 .. c : q \in a + 1 .. b \/ q = b + 1 \/ q \in (b + 1) + 1 .. c  BY <1>2
  <1>4. \A q \in a + 1 .. b : IsOperator(q) /\ Depth(q) = Depth(a - 1) => Rank(tokens[q]) >= r
    BY DEF Over
  <1>5. \A q \in (b + 1) + 1 .. c : IsOperator(q) /\ Depth(q) = Depth(a - 1) => Rank(tokens[q]) >= r
    BY <1>2 DEF Over
  <1>6. \A q \in a + 1 .. c : IsOperator(q) /\ Depth(q) = Depth(a - 1) => Rank(tokens[q]) >= r
    BY <1>3, <1>4, <1>5, Zenon
  <1>. QED  BY <1>1, <1>6 DEF Over

LEMMA RankOfBrackets == \A t \in Openers \cup Enders : Rank(t) = 9
  BY DEF Rank, Openers, Enders, Compound

\* What is put in brackets is outside of every operation beside it.
LEMMA Bracketed ==
  \A a, o, e, r :
    /\ o \in Nat \ {0} /\ Over(a, o - 1, r) /\ tokens[o] \in Openers
    /\ Even(o + 1, e) /\ tokens[e + 1] \in Enders
    => Over(a, e + 1, r)
  <1>. TAKE a, o, e, r
  <1>. HAVE /\ o \in Nat \ {0} /\ Over(a, o - 1, r) /\ tokens[o] \in Openers
            /\ Even(o + 1, e) /\ tokens[e + 1] \in Enders
  <1>1. /\ a \in Nat \ {0} /\ o \in Nat \ {0} /\ e \in Nat /\ a <= (o - 1) + 1 /\ o <= e
        /\ (o + 1) - 1 = o /\ e + 1 \in Nat \ {0} /\ (e + 1) - 1 = e
    BY DEF Over, Even
  <1>2. Depth(o - 1) = Depth(a - 1) /\ Depth(o - 1) \in Int /\ Depth(o) = Depth(o - 1) + 1
    BY DepthNext DEF Over, Even
  <1>3. Depth(e) = Depth(o) /\ \A q \in o + 1 .. e : Depth(q) >= Depth(o)
    BY <1>1 DEF Even
  <1>4. Depth(e + 1) = Depth(e) - 1  BY <1>1, DepthNext, Zenon
  <1>5. \A q \in a .. o - 1 : Depth(q) >= Depth(a - 1)  BY DEF Over, Even
  <1>6. \A q \in a .. e + 1 : q \in a .. o - 1 \/ q = o \/ q \in o + 1 .. e \/ q = e + 1
    BY <1>1
  <1>7. \A q \in Nat : Depth(q) \in Int  BY DepthType
  <1>8. \A q \in o + 1 .. e : Depth(q) >= Depth(a - 1) + 1  BY <1>1, <1>2, <1>3, <1>7
  <1>9. Depth(o) >= Depth(a - 1) + 1 /\ Depth(e + 1) = Depth(a - 1) /\ Depth(a - 1) \in Int
    BY <1>2, <1>3, <1>4
  <1>10. \A q \in o + 1 .. e : Depth(q) >= Depth(a - 1) /\ Depth(q) # Depth(a - 1)
    BY <1>1, <1>7, <1>8, <1>9
  <1>11. Depth(o) >= Depth(a - 1) /\ Depth(o) # Depth(a - 1) /\ Depth(e + 1) >= Depth(a - 1)
    BY <1>1, <1>7, <1>9
  <1>12. \A q \in a .. e + 1 : Depth(q) >= Depth(a - 1)
    BY <1>5, <1>6, <1>10, <1>11, Zenon
  <1>13. Even(a, e + 1)  BY <1>1, <1>9, <1>12 DEF Even
  <1>14. ~ IsOperator(e + 1)  BY RankOfBrackets DEF IsOperator
  <1>15. \A q \in a + 1 .. o - 1 : IsOperator(q) /\ Depth(q) = Depth(a - 1) => Rank(tokens[q]) >= r
    BY DEF Over
  <1>16. \A q \in a + 1 .. e + 1 : q \in a + 1 .. o - 1 \/ q = o \/ q \in o + 1 .. e \/ q = e + 1
    BY <1>1
  <1>17. \A q \in a + 1 .. e + 1 : IsOperator(q) /\ Depth(q) = Depth(a - 1) => Rank(tokens[q]) >= r
    BY <1>10, <1>11, <1>14, <1>15, <1>16, Zenon
  <1>. QED  BY <1>13, <1>17 DEF Over

LEMMA OverWeaker ==
  /\ \A a, b, r : Over(a, b, r) => Even(a, b)
  /\ \A a, b : \A r, s \in Int : Over(a, b, r) /\ s <= r => Over(a, b, s)
  <1>1. \A t : Rank(t) \in Int  BY DEF Rank
  <1>. QED  BY <1>1 DEF Over

LEMMA QuietNext ==
  \A a, b, r : Over(a, b, r) /\ Quiet(tokens[b + 1]) => Over(a, b + 1, r)
  BY OverNext, Zenon DEF Quiet, IsOperator

LEMMA OneToken ==
  \A a \in Nat \ {0} : tokens[a] \notin Openers \cup Enders => \A r : Over(a, a, r)
  <1>. TAKE a \in Nat \ {0}
  <1>. HAVE tokens[a] \notin Openers \cup Enders
  <1>1. Even(a, a - 1) /\ (a - 1) + 1 = a  BY NothingRead
  <1>2. Even(a, a)  BY <1>1, EvenNext, Zenon
  <1>3. a + 1 .. a = {}  OBVIOUS
  <1>. QED  BY <1>2, <1>3 DEF Over

LEMMA RankType == \A t : Rank(t) \in 0 .. 6 \cup {9}
  BY DEF Rank

LEMMA LevelsAre == \A l \in 1 .. 6 : l = 1 \/ l = 2 \/ l = 3 \/ l = 4 \/ l = 5 \/ l = 6
  OBVIOUS

\* The tokens that are no operators between two operands.
LEMMA RankOfOperators ==
  \A l \in 1 .. 6 : \A t \in Operators(l) :
    /\ Rank(t) = l /\ t \in Fixed /\ t # "eof" /\ t \notin Quotes
    /\ t \notin DOMAIN Literals \cup Quotes \cup DOMAIN Step \cup {")", "]"}
    /\ t \notin {"(", "[", ")", "]"} /\ t # "{" /\ t # "}"
  <1>. SUFFICES ASSUME NEW l \in 1 .. 6, NEW t \in Operators(l)
                PROVE  /\ Rank(t) = l /\ t \in Fixed /\ t # "eof" /\ t \notin Quotes
                       /\ t \notin DOMAIN Literals \cup Quotes \cup DOMAIN Step \cup {")", "]"}
                       /\ t \notin {"(", "[", ")", "]"} /\ t # "{" /\ t # "}"
    OBVIOUS
  <1>1. t \in Fixed  BY Zenon DEF Fixed
  <1>2. \/ l = 1 /\ t = "||"
        \/ l = 2 /\ t = "&&"
        \/ l = 3 /\ t = "=="
        \/ l = 3 /\ t = "!="
        \/ l = 4 /\ t = "<"
        \/ l = 4 /\ t = ">"
        \/ l = 4 /\ t = "<="
        \/ l = 4 /\ t = ">="
        \/ l = 5 /\ t = "+"
        \/ l = 5 /\ t = "-"
        \/ l = 6 /\ t = "*"
        \/ l = 6 /\ t = "/"
        \/ l = 6 /\ t = "%"
    <2>1. l = 1 \/ l = 2 \/ l = 3 \/ l = 4 \/ l = 5 \/ l = 6  BY LevelsAre
    <2>. QED  BY <2>1 DEF Operators
  <1>3. Rank(t) = l  BY <1>2 DEF Rank, Compound
  <1>4. t # "eof" /\ t \notin {"(", "[", ")", "]"} /\ t \notin Quotes
        /\ t \notin DOMAIN Literals \cup Quotes \cup DOMAIN Step \cup {")", "]"}
    BY <1>2 DEF Quotes, Literals, Step
  <1>5. t # "{" /\ t # "}"
    BY <1>2, Zenon
  <1>. QED  BY <1>1, <1>3, <1>4, <1>5

LEMMA OperatorsSplit ==
  \A l \in 1 .. 6 : \A t \in Operators(l) :
    Rank(t) = l /\ t \notin Openers \cup Enders /\ t \notin OperandEnds /\ t # "eof" /\ t \notin Quotes
  <1>. TAKE l \in 1 .. 6
  <1>. TAKE t \in Operators(l)
  <1>1. /\ Rank(t) = l /\ t \in Fixed /\ t # "eof" /\ t \notin Quotes
        /\ t \notin DOMAIN Literals \cup Quotes \cup DOMAIN Step \cup {")", "]"}
        /\ t \notin {"(", "[", ")", "]"} /\ t # "{" /\ t # "}"
    BY RankOfOperators, Zenon
  <1>2. t \notin Names  BY <1>1, NamesAssumption, Zenon
  <1>3. t \notin OperandEnds  BY <1>1, <1>2, Zenon DEF OperandEnds
  <1>4. t \notin Openers \cup Enders  BY <1>1, Zenon DEF Openers, Enders
  <1>. QED  BY <1>1, <1>3, <1>4

LEMMA SignsAre ==
  \A t \in {"!", "-"} : t \notin Openers \cup Enders /\ t \notin OperandEnds /\ t # "eof" /\ t \notin Quotes
  <1>1. "-" \in Operators(5) /\ 5 \in 1 .. 6  BY DEF Operators
  <1>2. "-" \notin Openers \cup Enders /\ "-" \notin OperandEnds /\ "-" # "eof" /\ "-" \notin Quotes
    BY <1>1, OperatorsSplit, Zenon
  <1>3. "!" \in Fixed /\ "!" # "eof" /\ "!" \notin Quotes  BY Zenon DEF Fixed, Quotes
  <1>4. "!" \notin DOMAIN Literals \cup Quotes \cup DOMAIN Step \cup {")", "]"}
    BY DEF Literals, Quotes, Step
  <1>5. "!" \notin OperandEnds  BY <1>3, <1>4, NamesAssumption, Zenon DEF OperandEnds
  <1>6. "!" \notin Openers \cup Enders  BY Zenon DEF Openers, Enders
  <1>. QED  BY <1>2, <1>3, <1>5, <1>6, Zenon

\* The tokens of an operand.
LEMMA NamesAreQuiet == \A t \in Names : Quiet(t) /\ t # "eof" /\ t \notin Quotes \cup QuotedTokens
  <1>. TAKE t \in Names
  <1>1. t \notin Fixed  BY NamesAssumption, Zenon
  <1>2. t \notin Separators /\ t \notin DOMAIN Compound /\ t \notin {"!", "?", "@"}
        /\ t \notin QuotedTokens
    BY <1>1, Zenon DEF Fixed
  <1>3. \A l \in 1 .. 6 : t \notin Operators(l)  BY <1>1, Zenon DEF Fixed
  <1>4. t \notin Operators(1) /\ t \notin Operators(2) /\ t \notin Operators(3)
        /\ t \notin Operators(4) /\ t \notin Operators(5) /\ t \notin Operators(6)
    BY <1>3
  <1>5. t \notin {"*", "/", "%"} /\ t \notin {"+", "-"} /\ t \notin {"<", ">", "<=", ">="}
        /\ t \notin {"==", "!="} /\ t # "&&" /\ t # "||"
    BY <1>4 DEF Operators
  <1>6. t # "="  BY <1>2, SeparatorsAre, Zenon
  <1>7. Rank(t) = 9  BY <1>2, <1>5, <1>6 DEF Rank
  <1>8. t \notin Openers \cup Enders /\ t # "eof" /\ t \notin Quotes
    BY <1>2, SeparatorsAre, Zenon DEF Openers, Enders, Quotes
  <1>. QED  BY <1>2, <1>7, <1>8 DEF Quiet

LEMMA LiteralsAreQuiet ==
  \A t \in DOMAIN Literals \cup DOMAIN Step \cup Quotes \cup QuotedTokens \cup {".", "eof"} : Quiet(t)
  <1>. TAKE t \in DOMAIN Literals \cup DOMAIN Step \cup Quotes \cup QuotedTokens \cup {".", "eof"}
  <1>1. t \in {"inum", "fnum", "true", "false", "++", "--", "dq", "sq", "qchar", "qtext", ".", "eof"}
    BY DEF Literals, Step, Quotes, QuotedTokens
  <1>2. Rank(t) = 9  BY <1>1 DEF Rank, Compound
  <1>3. t \notin Openers \cup Enders  BY <1>1, Zenon DEF Openers, Enders
  <1>. QED  BY <1>2, <1>3 DEF Quiet

LEMMA NoBrackets ==
  \A t : t \in {"?", "=", ":", ","} \cup DOMAIN Compound => t \notin Openers \cup Enders /\ t \notin Quotes /\ t # "eof"
  <1>. TAKE t
  <1>. HAVE t \in {"?", "=", ":", ","} \cup DOMAIN Compound
  <1>0. t \in {"?", "=", ":"} \cup DOMAIN Compound \/ t = ","  BY Zenon
  <1>1. CASE t = ","  BY <1>1, Zenon DEF Openers, Enders, Quotes
  <1>2. CASE t \in {"?", "=", ":"} \cup DOMAIN Compound
    <2>1. t \in {"?", "=", ":", "+=", "-=", "*=", "/=", "%="}  BY <1>2 DEF Compound
    <2>. QED  BY <2>1, Zenon DEF Openers, Enders, Quotes
  <1>. QED  BY <1>0, <1>1, <1>2

LEMMA BracketsAreNoQuotes ==
  /\ "(" # "eof" /\ "[" # "eof" /\ ")" # "eof" /\ "]" # "eof"
  /\ "(" \notin Quotes /\ "[" \notin Quotes /\ ")" \notin Quotes /\ "]" \notin Quotes
  BY DEF Quotes

-----------------------------------------------------------------------------
\* What the list ahead brings changes nothing of the text read.
Kept == Len(tokens) \in Nat /\ \A k \in 1 .. Len(tokens) : tokens'[k] = tokens[k]

LEMMA DepthStays ==
  ASSUME Kept
  PROVE  \A q \in 0 .. Len(tokens) : Depth(q)' = Depth(q)
  <1>. SUFFICES ASSUME NEW q \in 0 .. Len(tokens) PROVE Depth(q)' = Depth(q)
    OBVIOUS
  <1>1. \A k \in 1 .. q : tokens'[k] = tokens[k]  BY DEF Kept
  <1>2. \A S : Count(S, q)' = Count(S, q)
    <2>. TAKE S
    <2>1. {i \in 1 .. q : tokens[i] \in S}' = {i \in 1 .. q : tokens[i] \in S}  BY <1>1
    <2>. QED  BY <2>1 DEF Count
  <1>3. Count({"(", "[", "{"}, q)' = Count({"(", "[", "{"}, q)  BY <1>2, Zenon
  <1>4. Count({")", "]", "}"}, q)' = Count({")", "]", "}"}, q)  BY <1>2, Zenon
  <1>. QED  BY <1>3, <1>4, Zenon DEF Depth

LEMMA OperatorStays ==
  ASSUME Kept
  PROVE  \A q \in 1 .. Len(tokens) : IsOperator(q)' = IsOperator(q) /\ tokens'[q] = tokens[q]
  <1>. SUFFICES ASSUME NEW q \in 1 .. Len(tokens)
                PROVE  IsOperator(q)' = IsOperator(q) /\ tokens'[q] = tokens[q]
    OBVIOUS
  <1>1. tokens'[q] = tokens[q]  BY DEF Kept
  <1>2. q > 1 => tokens'[q - 1] = tokens[q - 1]
    <2>1. q > 1 => q - 1 \in 1 .. Len(tokens)  BY DEF Kept
    <2>. QED  BY <2>1 DEF Kept
  <1>3. Rank(tokens'[q]) = Rank(tokens[q])  BY <1>1
  <1>. QED  BY <1>1, <1>2, <1>3 DEF IsOperator, OperandEnds, Rank

LEMMA EvenStays ==
  ASSUME Kept
  PROVE  \A a, b : b <= Len(tokens) /\ Even(a, b) => Even(a, b)'
  <1>. SUFFICES ASSUME NEW a, NEW b, b <= Len(tokens), Even(a, b)
                PROVE  Even(a, b)'
    OBVIOUS
  <1>1. /\ a \in Nat \ {0} /\ b \in Nat /\ a <= b + 1
        /\ Depth(b) = Depth(a - 1) /\ \A q \in a .. b : Depth(q) >= Depth(a - 1)
    BY DEF Even
  <1>2. Len(tokens) \in Nat  BY DEF Kept
  <1>3. Depth(b)' = Depth(b) /\ Depth(a - 1)' = Depth(a - 1)
    <2>1. b \in 0 .. Len(tokens) /\ a - 1 \in 0 .. Len(tokens)  BY <1>1, <1>2
    <2>. QED  BY <2>1, DepthStays
  <1>4. \A q \in a .. b : q \in 0 .. Len(tokens)  BY <1>1, <1>2
  <1>5. \A q \in a .. b : Depth(q)' = Depth(q)  BY <1>4, DepthStays
  <1>. QED  BY <1>1, <1>3, <1>5 DEF Even

LEMMA OverStays ==
  ASSUME Kept
  PROVE  \A a, b, r : b <= Len(tokens) /\ Over(a, b, r) => Over(a, b, r)'
  <1>. SUFFICES ASSUME NEW a, NEW b, NEW r, b <= Len(tokens), Over(a, b, r)
                PROVE  Over(a, b, r)'
    OBVIOUS
  <1>1. /\ a \in Nat \ {0} /\ b \in Nat /\ a <= b + 1
        /\ Depth(b) = Depth(a - 1) /\ \A q \in a .. b : Depth(q) >= Depth(a - 1)
        /\ \A q \in a + 1 .. b : IsOperator(q) /\ Depth(q) = Depth(a - 1) => Rank(tokens[q]) >= r
    BY DEF Over, Even
  <1>2. Len(tokens) \in Nat  BY DEF Kept
  <1>3. Depth(b)' = Depth(b) /\ Depth(a - 1)' = Depth(a - 1)
    <2>1. b \in 0 .. Len(tokens) /\ a - 1 \in 0 .. Len(tokens)  BY <1>1, <1>2
    <2>. QED  BY <2>1, DepthStays
  <1>4. \A q \in a .. b : q \in 0 .. Len(tokens) /\ q \in 1 .. Len(tokens)  BY <1>1, <1>2
  <1>5. \A q \in a + 1 .. b : q \in a .. b  BY <1>1
  <1>6. \A q \in a .. b : Depth(q)' = Depth(q)  BY <1>4, DepthStays
  <1>7. \A q \in a + 1 .. b : IsOperator(q)' = IsOperator(q) /\ tokens'[q] = tokens[q]
    BY <1>4, <1>5, OperatorStays
  <1>8. Depth(b)' = Depth(a - 1)' /\ \A q \in a .. b : Depth(q)' >= Depth(a - 1)'
    BY <1>1, <1>3, <1>6
  <1>9. \A q \in a + 1 .. b :
          IsOperator(q)' /\ Depth(q)' = Depth(a - 1)' => Rank(tokens'[q]) >= r
    BY <1>1, <1>3, <1>5, <1>6, <1>7
  <1>. QED  BY <1>1, <1>8, <1>9 DEF Over, Even

\* Items, the kinds of nodes that are a postfix expression or an expression of
\* the lowest rank.
Postfixed == {"call", "access", "member", "list"}
\* The nodes of the lowest rank: a ternary expression and the assignments.
Lowest == {"ternary", "assign", "compound"}
\* The item that builds a node of one of the kinds K.
Builds1(x, K) == x.do = "build" /\ x.arg \in K
\* An item that stands behind what a bracket closes.
AfterBracket(x) == x.do = "postfix" \/ Builds1(x, Postfixed)
\* An item that neither reads an expression nor puts pieces of one together.
Tame(x) ==
  /\ x.do \notin {"ternary", "operand", "call", "unary", "primary", "operators", "question",
                  "assignment", "postfix", "quoted", "method"}
  /\ ~ Builds1(x, Postfixed \cup Lowest \cup {"unary", "binary"})
  /\ x.do = "consume" => x.arg \notin Quotes
\* Nothing of an expression is left to do.
Flat(q) == \A i \in 1 .. Len(q) : Tame(q[i])
\* The pieces m + 1 to n were read from the text f to e.
Within(m, n, f, e) == \A j \in m + 1 .. n : done[j].covers \subseteq f .. e

\* What an item y does with the value that ends here, which began at f, is of rank
\* r or tighter and lies on n pieces: the item makes of it a value that begins at
\* g, of rank s, on m pieces, which the items p go on with.  An item of a level
\* looks for operators, a loop of what follows gathers more, an item that builds
\* puts its pieces together, a bracket or a comma closes what was read before it.
After(y, z, f, r, n, p, g, s, m) ==
  \/ y.do = "operators" /\ y.arg \in 1 .. 6 /\ y.arg <= r /\ y.base = n
     /\ p = z /\ g = f /\ s = y.arg /\ m = n
  \/ y.do \in {"question", "assignment"} /\ r <= 1 /\ y.base = n
     /\ p = z /\ g = f /\ s = 0 /\ m = n
  \/ y.do = "postfix" /\ r = 7 /\ y.base = n
     /\ p = z /\ g = f /\ s = 7 /\ m = n
  \/ Builds1(y, {"unary"}) /\ r = 7 /\ n = y.base + 1 /\ done[n].keeps = {f - 1}
     /\ Within(y.base, n, f - 1, f - 1) /\ tokens[f - 1] \in {"!", "-"}
     /\ p = z /\ g = f - 1 /\ s = 7 /\ m = y.base
  \/ Builds1(y, {"binary"}) /\ n = y.base + 2 /\ done[n].keeps = {f - 1}
     /\ s \in 1 .. 6 /\ r = s + 1 /\ tokens[f - 1] \in Operators(s)
     /\ Over(g, f - 2, s) /\ Within(y.base, n, g, f - 1)
     /\ (\E o, w : IsSequence(w) /\ z = Cons(o, w) /\ o.do = "operators")
     /\ p = z /\ m = y.base
  \/ Builds1(y, Lowest) /\ r = 0 /\ Even(g, f - 1) /\ Within(y.base, n, g, f - 1)
     /\ p = z /\ s = 0 /\ m = y.base
  \/ y.do = "consume" /\ y.arg = ":" /\ Even(g, f - 1)
     /\ (\E a, b : z = Cons(a, Cons(b, p)) /\ a.do = "ternary" /\ Builds1(b, {"ternary"})
                   /\ m = b.base /\ Within(m, n, g, f - 1))
     /\ s = 0
  \/ y.do = "consume" /\ y.arg \in {")", "]"}
     /\ (\E o \in g .. f - 1 : tokens[o] \in {"(", "["} /\ Even(o + 1, f - 1) /\ Over(g, o - 1, 7))
     /\ (\E a : z = Cons(a, p) /\ AfterBracket(a) /\ m = a.base /\ Within(m, n, g, f - 1))
     /\ s = 7
  \/ y.do = "more" /\ y.arg # "param"
     /\ (\E o, w : IsSequence(w) /\ z = Cons(o, w) /\ o.do = "consume")
     /\ p = z /\ g = f /\ s = 0 /\ m = n

\* The bounds of these: a value may only grow to the left and over more pieces.
Spans(f, r, n, g, s, m) ==
  /\ f \in Nat \ {0} /\ n \in Nat /\ r \in 0 .. 7
  /\ g \in 1 .. f /\ m \in 0 .. n /\ s \in 0 .. 7

\* One link of the chain: the first item, and what the others go on with.
Leads(q, f, r, n, p, g, s, m) ==
  /\ Spans(f, r, n, g, s, m) /\ IsSequence(p)
  /\ \E y, z : IsSequence(z) /\ q = Cons(y, z) /\ After(y, z, f, r, n, p, g, s, m)

\* The items q are ready for a value that begins at f, of rank r, on n pieces: one
\* link leads to the next until nothing of an expression is left.
Expects(q, f, r, n) ==
  \E R : /\ <<q, f, r, n>> \in R
         /\ \A a, b, c, d : <<a, b, c, d>> \in R =>
              \/ Flat(a)
              \/ \E p, g, s, m : <<p, g, s, m>> \in R /\ Leads(a, b, c, d, p, g, s, m)

LEMMA FlatExpects == \A q, f, r, n : Flat(q) => Expects(q, f, r, n)
  <1>. TAKE q, f, r, n
  <1>. HAVE Flat(q)
  <1>. DEFINE R == {<<q, f, r, n>>}
  <1>1. <<q, f, r, n>> \in R  OBVIOUS
  <1>2. \A a, b, c, d : <<a, b, c, d>> \in R => a = q  OBVIOUS
  <1>3. \A a, b, c, d : <<a, b, c, d>> \in R => Flat(a)  BY <1>2, Zenon
  <1>. HIDE DEF R
  <1>. QED  BY <1>1, <1>3, Zenon DEF Expects

LEMMA ExpectsUnfolds ==
  \A q, f, r, n : Expects(q, f, r, n) =>
    Flat(q) \/ \E p, g, s, m : Expects(p, g, s, m) /\ Leads(q, f, r, n, p, g, s, m)
  <1>. TAKE q, f, r, n
  <1>. HAVE Expects(q, f, r, n)
  <1>1. PICK R : /\ <<q, f, r, n>> \in R
                 /\ \A a, b, c, d : <<a, b, c, d>> \in R =>
                      \/ Flat(a)
                      \/ \E p, g, s, m : <<p, g, s, m>> \in R /\ Leads(a, b, c, d, p, g, s, m)
    BY Zenon DEF Expects
  <1>2. CASE Flat(q)  BY <1>2
  <1>3. CASE \E p, g, s, m : <<p, g, s, m>> \in R /\ Leads(q, f, r, n, p, g, s, m)
    <2>1. PICK p, g, s, m : <<p, g, s, m>> \in R /\ Leads(q, f, r, n, p, g, s, m)  BY <1>3, Zenon
    <2>2. Expects(p, g, s, m)  BY <1>1, <2>1, Zenon DEF Expects
    <2>. QED  BY <2>1, <2>2, Zenon
  <1>. QED  BY <1>1, <1>2, <1>3, Zenon

LEMMA ExpectsFolds ==
  \A q, f, r, n, p, g, s, m :
    Leads(q, f, r, n, p, g, s, m) /\ Expects(p, g, s, m) => Expects(q, f, r, n)
  <1>. TAKE q, f, r, n, p, g, s, m
  <1>. HAVE Leads(q, f, r, n, p, g, s, m) /\ Expects(p, g, s, m)
  <1>1. PICK R : /\ <<p, g, s, m>> \in R
                 /\ \A a, b, c, d : <<a, b, c, d>> \in R =>
                      \/ Flat(a)
                      \/ \E p1, g1, s1, m1 : <<p1, g1, s1, m1>> \in R /\ Leads(a, b, c, d, p1, g1, s1, m1)
    BY Zenon DEF Expects
  <1>. DEFINE Q == R \cup {<<q, f, r, n>>}
  <1>2. <<q, f, r, n>> \in Q /\ \A t : t \in R => t \in Q  OBVIOUS
  <1>3. ASSUME NEW a, NEW b, NEW c, NEW d, <<a, b, c, d>> \in Q
        PROVE  \/ Flat(a)
               \/ \E p1, g1, s1, m1 : <<p1, g1, s1, m1>> \in Q /\ Leads(a, b, c, d, p1, g1, s1, m1)
    <2>1. <<a, b, c, d>> \in R \/ (a = q /\ b = f /\ c = r /\ d = n)  BY <1>3
    <2>. HIDE DEF Q
    <2>2. CASE <<a, b, c, d>> \in R  BY <1>1, <1>2, <2>2, Zenon
    <2>3. CASE a = q /\ b = f /\ c = r /\ d = n
      <3>1. Leads(a, b, c, d, p, g, s, m)  BY <2>3, Zenon
      <3>. QED  BY <1>1, <1>2, <3>1, Zenon
    <2>. QED  BY <2>1, <2>2, <2>3
  <1>. HIDE DEF Q
  <1>. QED  BY <1>2, <1>3, Zenon DEF Expects

-----------------------------------------------------------------------------
\* A step leaves what is expected as long as it leaves the pieces below.
KeptBelow(n) == Kept /\ n \in Nat /\ \A j \in 1 .. n : done'[j] = done[j]

LEMMA WithinStays ==
  ASSUME NEW n0, KeptBelow(n0)
  PROVE  \A m \in Nat : \A n, f, e : n \in Nat /\ n <= n0 /\ Within(m, n, f, e) => Within(m, n, f, e)'
  <1>. SUFFICES ASSUME NEW m \in Nat, NEW n, NEW f, NEW e, n \in Nat, n <= n0, Within(m, n, f, e)
                PROVE  Within(m, n, f, e)'
    OBVIOUS
  <1>1. \A j \in m + 1 .. n : j \in 1 .. n0  BY DEF KeptBelow
  <1>2. \A j \in m + 1 .. n : done'[j] = done[j]  BY <1>1 DEF KeptBelow
  <1>. QED  BY <1>2 DEF Within

LEMMA AfterStays ==
  ASSUME NEW n0, KeptBelow(n0), NEW y, NEW z, NEW f, NEW r, NEW n, NEW p, NEW g, NEW s, NEW m,
         Spans(f, r, n, g, s, m), f <= Len(tokens) + 1, n <= n0, After(y, z, f, r, n, p, g, s, m)
  PROVE  After(y, z, f, r, n, p, g, s, m)'
  <1>0. /\ f \in Nat \ {0} /\ n \in Nat /\ r \in 0 .. 7 /\ g \in 1 .. f /\ m \in 0 .. n /\ s \in 0 .. 7
        /\ Len(tokens) \in Nat /\ Kept
    BY DEF Spans, KeptBelow, Kept
  <1>1. \A a, b, c : b <= Len(tokens) /\ Over(a, b, c) => Over(a, b, c)'  BY <1>0, OverStays
  <1>2. \A a, b : b <= Len(tokens) /\ Even(a, b) => Even(a, b)'  BY <1>0, EvenStays
  <1>3. \A a, b : Within(m, n, a, b) => Within(m, n, a, b)'  BY <1>0, WithinStays
  <1>4. \A k \in 1 .. f - 1 : tokens'[k] = tokens[k]  BY <1>0 DEF Kept
  <1>5. n > 0 => done'[n] = done[n]  BY <1>0 DEF KeptBelow
  <1>6. f - 1 <= Len(tokens) /\ f - 2 <= Len(tokens) /\ f - 1 \in Nat  BY <1>0
  <1>7. CASE y.do = "operators" /\ y.arg \in 1 .. 6 /\ y.arg <= r /\ y.base = n
             /\ p = z /\ g = f /\ s = y.arg /\ m = n
    BY <1>7, Zenon DEF After
  <1>8. CASE y.do \in {"question", "assignment"} /\ r <= 1 /\ y.base = n
             /\ p = z /\ g = f /\ s = 0 /\ m = n
    BY <1>8, Zenon DEF After
  <1>9. CASE y.do = "postfix" /\ r = 7 /\ y.base = n /\ p = z /\ g = f /\ s = 7 /\ m = n
    BY <1>9, Zenon DEF After
  <1>10. CASE Builds1(y, {"unary"}) /\ r = 7 /\ n = y.base + 1 /\ done[n].keeps = {f - 1}
             /\ Within(y.base, n, f - 1, f - 1) /\ tokens[f - 1] \in {"!", "-"}
             /\ p = z /\ g = f - 1 /\ s = 7 /\ m = y.base
    <2>1. Within(y.base, n, f - 1, f - 1)'  BY <1>3, <1>10
    <2>2. done'[n] = done[n] /\ tokens'[f - 1] = tokens[f - 1]  BY <1>0, <1>4, <1>5, <1>10
    <2>. QED  BY <1>10, <2>1, <2>2, Zenon DEF After
  <1>11. CASE Builds1(y, {"binary"}) /\ n = y.base + 2 /\ done[n].keeps = {f - 1}
             /\ s \in 1 .. 6 /\ r = s + 1 /\ tokens[f - 1] \in Operators(s)
             /\ Over(g, f - 2, s) /\ Within(y.base, n, g, f - 1)
             /\ (\E o, w : IsSequence(w) /\ z = Cons(o, w) /\ o.do = "operators")
             /\ p = z /\ m = y.base
    <2>1. Within(y.base, n, g, f - 1)'  BY <1>3, <1>11
    <2>2. Over(g, f - 2, s)'  BY <1>1, <1>6, <1>11
    <2>3. done'[n] = done[n]  BY <1>0, <1>5, <1>11
    <2>4. f - 1 \in 1 .. f - 1  BY <1>0, <1>11 DEF Over, Even
    <2>5. tokens'[f - 1] = tokens[f - 1]  BY <1>4, <2>4
    <2>. QED  BY <1>11, <2>1, <2>2, <2>3, <2>5, Zenon DEF After
  <1>12. CASE Builds1(y, Lowest) /\ r = 0 /\ Even(g, f - 1) /\ Within(y.base, n, g, f - 1)
             /\ p = z /\ s = 0 /\ m = y.base
    <2>1. Within(y.base, n, g, f - 1)'  BY <1>3, <1>12
    <2>2. Even(g, f - 1)'  BY <1>2, <1>6, <1>12
    <2>. QED  BY <1>12, <2>1, <2>2, Zenon DEF After
  <1>13. CASE y.do = "consume" /\ y.arg = ":" /\ Even(g, f - 1)
             /\ (\E a, b : z = Cons(a, Cons(b, p)) /\ a.do = "ternary" /\ Builds1(b, {"ternary"})
                           /\ m = b.base /\ Within(m, n, g, f - 1))
             /\ s = 0
    <2>1. Within(m, n, g, f - 1)'  BY <1>3, <1>13
    <2>2. Even(g, f - 1)'  BY <1>2, <1>6, <1>13
    <2>. QED  BY <1>13, <2>1, <2>2, Zenon DEF After
  <1>14. CASE y.do = "consume" /\ y.arg \in {")", "]"}
             /\ (\E o \in g .. f - 1 : tokens[o] \in {"(", "["} /\ Even(o + 1, f - 1) /\ Over(g, o - 1, 7))
             /\ (\E a : z = Cons(a, p) /\ AfterBracket(a) /\ m = a.base /\ Within(m, n, g, f - 1))
             /\ s = 7
    <2>1. Within(m, n, g, f - 1)'  BY <1>3, <1>14
    <2>2. PICK o \in g .. f - 1 : tokens[o] \in {"(", "["} /\ Even(o + 1, f - 1) /\ Over(g, o - 1, 7)
      BY <1>14
    <2>3. o \in 1 .. f - 1 /\ o - 1 <= Len(tokens)  BY <1>0
    <2>4. tokens'[o] = tokens[o]  BY <1>4, <2>3
    <2>5. Even(o + 1, f - 1)' /\ Over(g, o - 1, 7)'  BY <1>1, <1>2, <1>6, <2>2, <2>3
    <2>6. \E o1 \in g .. f - 1 : /\ tokens'[o1] \in {"(", "["} /\ Even(o1 + 1, f - 1)' /\ Over(g, o1 - 1, 7)'
      BY <2>2, <2>4, <2>5
    <2>. QED  BY <1>14, <2>1, <2>6, Zenon DEF After
  <1>15. CASE y.do = "more" /\ y.arg # "param"
             /\ (\E o, w : IsSequence(w) /\ z = Cons(o, w) /\ o.do = "consume")
             /\ p = z /\ g = f /\ s = 0 /\ m = n
    BY <1>15, Zenon DEF After
  <1>. QED
    BY <1>7, <1>8, <1>9, <1>10, <1>11, <1>12, <1>13, <1>14, <1>15, Zenon DEF After

LEMMA LeadsStays ==
  ASSUME NEW n0, KeptBelow(n0)
  PROVE  \A q, f, r, n, p, g, s, m :
           Leads(q, f, r, n, p, g, s, m) /\ f <= Len(tokens) + 1 /\ n <= n0
             => Leads(q, f, r, n, p, g, s, m)' /\ g <= Len(tokens) + 1 /\ m <= n0
  <1>. SUFFICES ASSUME NEW q, NEW f, NEW r, NEW n, NEW p, NEW g, NEW s, NEW m,
                       Leads(q, f, r, n, p, g, s, m), f <= Len(tokens) + 1, n <= n0
                PROVE  Leads(q, f, r, n, p, g, s, m)' /\ g <= Len(tokens) + 1 /\ m <= n0
    OBVIOUS
  <1>1. Spans(f, r, n, g, s, m) /\ IsSequence(p)  BY Zenon DEF Leads
  <1>2. g <= Len(tokens) + 1 /\ m <= n0  BY <1>1 DEF Spans, KeptBelow, Kept
  <1>3. PICK y, z : IsSequence(z) /\ q = Cons(y, z) /\ After(y, z, f, r, n, p, g, s, m)
    BY Zenon DEF Leads
  <1>4. After(y, z, f, r, n, p, g, s, m)'  BY <1>1, <1>3, AfterStays
  <1>5. Leads(q, f, r, n, p, g, s, m)'  BY <1>1, <1>3, <1>4, Zenon DEF Leads
  <1>. QED  BY <1>2, <1>5

LEMMA ExpectsStays ==
  ASSUME NEW n0, KeptBelow(n0)
  PROVE  \A q, f, r, n :
           Expects(q, f, r, n) /\ f <= Len(tokens) + 1 /\ n <= n0 => Expects(q, f, r, n)'
  <1>. SUFFICES ASSUME NEW q, NEW f, NEW r, NEW n,
                       Expects(q, f, r, n), f <= Len(tokens) + 1, n <= n0
                PROVE  Expects(q, f, r, n)'
    OBVIOUS
  <1>1. PICK R : /\ <<q, f, r, n>> \in R
                 /\ \A a, b, c, d : <<a, b, c, d>> \in R =>
                      \/ Flat(a)
                      \/ \E p, g, s, m : <<p, g, s, m>> \in R /\ Leads(a, b, c, d, p, g, s, m)
    BY Zenon DEF Expects
  <1>. DEFINE Q == {t \in R : t[2] <= Len(tokens) + 1 /\ t[4] <= n0}
  <1>2. \A a, b, c, d : <<a, b, c, d>> \in Q <=> <<a, b, c, d>> \in R /\ b <= Len(tokens) + 1 /\ d <= n0
    OBVIOUS
  <1>. HIDE DEF Q
  <1>3. <<q, f, r, n>> \in Q  BY <1>1, <1>2, Zenon
  <1>4. ASSUME NEW a, NEW b, NEW c, NEW d, <<a, b, c, d>> \in Q
        PROVE  \/ Flat(a)
               \/ \E p, g, s, m : <<p, g, s, m>> \in Q /\ Leads(a, b, c, d, p, g, s, m)'
    <2>1. <<a, b, c, d>> \in R /\ b <= Len(tokens) + 1 /\ d <= n0  BY <1>2, <1>4, Zenon
    <2>2. CASE Flat(a)  BY <2>2
    <2>3. CASE \E p, g, s, m : <<p, g, s, m>> \in R /\ Leads(a, b, c, d, p, g, s, m)
      <3>1. PICK p, g, s, m : <<p, g, s, m>> \in R /\ Leads(a, b, c, d, p, g, s, m)  BY <2>3, Zenon
      <3>2. Leads(a, b, c, d, p, g, s, m)' /\ g <= Len(tokens) + 1 /\ m <= n0
        BY <2>1, <3>1, LeadsStays
      <3>3. <<p, g, s, m>> \in Q  BY <1>2, <3>1, <3>2, Zenon
      <3>. QED  BY <3>2, <3>3, Zenon
    <2>. QED  BY <1>1, <2>1, <2>2, <2>3, Zenon
  <1>5. \E S : /\ <<q, f, r, n>> \in S
               /\ \A a, b, c, d : <<a, b, c, d>> \in S =>
                    \/ Flat(a)
                    \/ \E p, g, s, m : <<p, g, s, m>> \in S /\ Leads(a, b, c, d, p, g, s, m)'
    BY <1>3, <1>4, Zenon
  <1>. QED  BY <1>5, Zenon DEF Expects

LEMMA SameCons ==
  \A a, b, q, r : IsSequence(q) /\ IsSequence(r) /\ Cons(a, q) = Cons(b, r) => a = b /\ q = r
  <1>. SUFFICES ASSUME NEW a, NEW b, NEW q, NEW r, IsSequence(q), IsSequence(r), Cons(a, q) = Cons(b, r)
                PROVE  a = b /\ q = r
    OBVIOUS
  <1>1. Head(Cons(a, q)) = a /\ Tail(Cons(a, q)) = q  BY ConsParts
  <1>2. Head(Cons(b, r)) = b /\ Tail(Cons(b, r)) = r  BY ConsParts
  <1>. QED  BY <1>1, <1>2, Zenon

LEMMA FlatCons == \A y, z : IsSequence(z) => (Flat(Cons(y, z)) <=> Tame(y) /\ Flat(z))
  <1>. SUFFICES ASSUME NEW y, NEW z, IsSequence(z)
                PROVE  Flat(Cons(y, z)) <=> Tame(y) /\ Flat(z)
    OBVIOUS
  <1>. DEFINE w == Cons(y, z)
  <1>1. /\ Len(w) = Len(z) + 1 /\ Len(z) \in Nat /\ w[1] = y
        /\ \A i \in 1 .. Len(z) : w[i + 1] = z[i]
    BY ConsIs
  <1>. HIDE DEF w
  <1>2. ASSUME Flat(w) PROVE Tame(y) /\ Flat(z)
    <2>1. 1 \in 1 .. Len(w) /\ \A i \in 1 .. Len(z) : i + 1 \in 1 .. Len(w)  BY <1>1
    <2>2. Tame(w[1])  BY <1>2, <2>1 DEF Flat
    <2>3. ASSUME NEW i \in 1 .. Len(z) PROVE Tame(z[i])
      <3>1. Tame(w[i + 1])  BY <1>2, <2>1 DEF Flat
      <3>. QED  BY <1>1, <3>1
    <2>. QED  BY <1>1, <2>2, <2>3 DEF Flat
  <1>3. ASSUME Tame(y), Flat(z) PROVE Flat(w)
    <2>1. ASSUME NEW i \in 1 .. Len(w) PROVE Tame(w[i])
      <3>1. CASE i = 1  BY <1>1, <1>3, <3>1
      <3>2. CASE i # 1
        <4>1. i - 1 \in 1 .. Len(z) /\ (i - 1) + 1 = i  BY <1>1, <3>2
        <4>2. w[i] = z[i - 1]  BY <1>1, <4>1
        <4>. QED  BY <1>3, <4>1, <4>2 DEF Flat
      <3>. QED  BY <3>1, <3>2
    <2>. QED  BY <2>1 DEF Flat
  <1>. QED  BY <1>2, <1>3 DEF w

\* What the first item does, with the chain that goes on behind it.
Goes1(y, z, f, r, n, p, g, s, m) ==
  IsSequence(p) /\ Expects(p, g, s, m) /\ Spans(f, r, n, g, s, m) /\ After(y, z, f, r, n, p, g, s, m)

LEMMA ExpectsTells ==
  \A y, z, f, r, n : IsSequence(z) /\ Expects(Cons(y, z), f, r, n) =>
    (Tame(y) /\ Flat(z)) \/ \E p, g, s, m : Goes1(y, z, f, r, n, p, g, s, m)
  <1>. TAKE y, z, f, r, n
  <1>. HAVE IsSequence(z) /\ Expects(Cons(y, z), f, r, n)
  <1>1. Flat(Cons(y, z)) \/ \E p, g, s, m : Expects(p, g, s, m) /\ Leads(Cons(y, z), f, r, n, p, g, s, m)
    BY ExpectsUnfolds, Zenon
  <1>2. CASE Flat(Cons(y, z))  BY <1>2, FlatCons, Zenon
  <1>3. CASE \E p, g, s, m : Expects(p, g, s, m) /\ Leads(Cons(y, z), f, r, n, p, g, s, m)
    <2>1. PICK p, g, s, m : Expects(p, g, s, m) /\ Leads(Cons(y, z), f, r, n, p, g, s, m)
      BY <1>3, Zenon
    <2>2. PICK a, b : IsSequence(b) /\ Cons(y, z) = Cons(a, b) /\ After(a, b, f, r, n, p, g, s, m)
      BY <2>1, Zenon DEF Leads
    <2>3. a = y /\ b = z  BY <2>2, SameCons, Zenon
    <2>4. After(y, z, f, r, n, p, g, s, m)  BY <2>2, <2>3, Zenon
    <2>5. Spans(f, r, n, g, s, m) /\ IsSequence(p)  BY <2>1, Zenon DEF Leads
    <2>. QED  BY <2>1, <2>4, <2>5, Zenon DEF Goes1
  <1>. QED  BY <1>1, <1>2, <1>3, Zenon

\* The items that go on from a value.
Carries(y) ==
  \/ y.do \in {"operators", "question", "assignment", "postfix", "consume", "more"}
  \/ Builds1(y, Lowest \cup {"unary", "binary"})

LEMMA ExpectsOther ==
  \A y, z, f, r, n : IsSequence(z) /\ Expects(Cons(y, z), f, r, n) /\ ~ Carries(y) =>
    Tame(y) /\ Flat(z)
  <1>1. \A y, z, f, r, n, p, g, s, m : After(y, z, f, r, n, p, g, s, m) => Carries(y)
    BY DEF After, Carries, Builds1
  <1>. QED  BY <1>1, ExpectsTells, Zenon DEF Goes1

LEMMA ExpectsOperators ==
  \A y, z, f, r, n : IsSequence(z) /\ Expects(Cons(y, z), f, r, n) /\ y.do = "operators" =>
    /\ f \in Nat \ {0} /\ n \in Nat /\ r \in 0 .. 7
    /\ y.arg \in 1 .. 6 /\ y.arg <= r /\ y.base = n /\ Expects(z, f, y.arg, n)
  <1>. TAKE y, z, f, r, n
  <1>. HAVE IsSequence(z) /\ Expects(Cons(y, z), f, r, n) /\ y.do = "operators"
  <1>1. ~ Tame(y)  BY DEF Tame
  <1>2. PICK p, g, s, m : Goes1(y, z, f, r, n, p, g, s, m)  BY <1>1, ExpectsTells, Zenon
  <1>3. /\ y.arg \in 1 .. 6 /\ y.arg <= r /\ y.base = n
        /\ p = z /\ g = f /\ s = y.arg /\ m = n
    BY <1>2 DEF After, Goes1, Builds1
  <1>4. Expects(p, g, s, m) /\ f \in Nat \ {0} /\ n \in Nat /\ r \in 0 .. 7
    BY <1>2, Zenon DEF Goes1, Spans
  <1>. QED  BY <1>3, <1>4, Zenon

LEMMA ExpectsLow ==
  \A y, z, f, r, n : IsSequence(z) /\ Expects(Cons(y, z), f, r, n) /\ y.do \in {"question", "assignment"} =>
    /\ f \in Nat \ {0} /\ n \in Nat /\ r \in 0 .. 1
    /\ y.base = n /\ Expects(z, f, 0, n)
  <1>. TAKE y, z, f, r, n
  <1>. HAVE IsSequence(z) /\ Expects(Cons(y, z), f, r, n) /\ y.do \in {"question", "assignment"}
  <1>1. ~ Tame(y)  BY DEF Tame
  <1>2. PICK p, g, s, m : Goes1(y, z, f, r, n, p, g, s, m)  BY <1>1, ExpectsTells, Zenon
  <1>3. r <= 1 /\ y.base = n /\ p = z /\ g = f /\ s = 0 /\ m = n
    BY <1>2 DEF After, Goes1, Builds1
  <1>4. Expects(p, g, s, m) /\ f \in Nat \ {0} /\ n \in Nat /\ r \in 0 .. 7
    BY <1>2, Zenon DEF Goes1, Spans
  <1>5. r \in 0 .. 1  BY <1>3, <1>4
  <1>. QED  BY <1>3, <1>4, <1>5, Zenon

LEMMA ExpectsPostfix ==
  \A y, z, f, r, n : IsSequence(z) /\ Expects(Cons(y, z), f, r, n) /\ y.do = "postfix" =>
    /\ f \in Nat \ {0} /\ n \in Nat /\ r = 7 /\ y.base = n /\ Expects(z, f, 7, n)
  <1>. TAKE y, z, f, r, n
  <1>. HAVE IsSequence(z) /\ Expects(Cons(y, z), f, r, n) /\ y.do = "postfix"
  <1>1. ~ Tame(y)  BY DEF Tame
  <1>2. PICK p, g, s, m : Goes1(y, z, f, r, n, p, g, s, m)  BY <1>1, ExpectsTells, Zenon
  <1>3. r = 7 /\ y.base = n /\ p = z /\ g = f /\ s = 7 /\ m = n
    BY <1>2 DEF After, Goes1, Builds1
  <1>4. Expects(p, g, s, m) /\ f \in Nat \ {0} /\ n \in Nat
    BY <1>2, Zenon DEF Goes1, Spans
  <1>. QED  BY <1>3, <1>4, Zenon

LEMMA ExpectsUnary ==
  \A y, z, f, r, n : IsSequence(z) /\ Expects(Cons(y, z), f, r, n) /\ Builds1(y, {"unary"}) =>
    /\ f - 1 \in Nat \ {0} /\ f \in Nat \ {0} /\ r = 7 /\ y.base \in Nat /\ n = y.base + 1
    /\ done[n].keeps = {f - 1} /\ Within(y.base, n, f - 1, f - 1)
    /\ tokens[f - 1] \in {"!", "-"} /\ Expects(z, f - 1, 7, y.base)
  <1>. TAKE y, z, f, r, n
  <1>. HAVE IsSequence(z) /\ Expects(Cons(y, z), f, r, n) /\ Builds1(y, {"unary"})
  <1>1. ~ Tame(y)  BY DEF Tame, Builds1
  <1>2. PICK p, g, s, m : Goes1(y, z, f, r, n, p, g, s, m)  BY <1>1, ExpectsTells, Zenon
  <1>3. /\ r = 7 /\ n = y.base + 1 /\ done[n].keeps = {f - 1}
        /\ Within(y.base, n, f - 1, f - 1) /\ tokens[f - 1] \in {"!", "-"}
        /\ p = z /\ g = f - 1 /\ s = 7 /\ m = y.base
    <2>1. After(y, z, f, r, n, p, g, s, m)  BY <1>2, Zenon DEF Goes1
    <2>2. y.do = "build" /\ y.arg = "unary"  BY DEF Builds1
    <2>3. y.arg \notin Lowest /\ y.arg # "binary"  BY <2>2 DEF Lowest
    <2>. QED  BY <2>1, <2>2, <2>3 DEF After, Builds1
  <1>4. Expects(p, g, s, m) /\ Spans(f, r, n, g, s, m)  BY <1>2, Zenon DEF Goes1
  <1>5. f - 1 \in Nat \ {0} /\ f \in Nat \ {0} /\ y.base \in Nat  BY <1>3, <1>4 DEF Spans
  <1>6. Expects(z, f - 1, 7, y.base)  BY <1>3, <1>4, Zenon
  <1>. QED  BY <1>3, <1>5, <1>6, Zenon

LEMMA ExpectsBinary ==
  \A y, z, f, r, n : IsSequence(z) /\ Expects(Cons(y, z), f, r, n) /\ Builds1(y, {"binary"}) =>
    \E g, s :
      /\ f \in Nat \ {0} /\ s \in 1 .. 6 /\ r = s + 1 /\ g \in 1 .. f /\ y.base \in Nat /\ n = y.base + 2
      /\ done[n].keeps = {f - 1} /\ Within(y.base, n, g, f - 1) /\ tokens[f - 1] \in Operators(s)
      /\ Over(g, f - 2, s) /\ (\E o, w : IsSequence(w) /\ z = Cons(o, w) /\ o.do = "operators")
      /\ Expects(z, g, s, y.base)
  <1>. TAKE y, z, f, r, n
  <1>. HAVE IsSequence(z) /\ Expects(Cons(y, z), f, r, n) /\ Builds1(y, {"binary"})
  <1>1. ~ Tame(y)  BY DEF Tame, Builds1
  <1>2. PICK p, g, s, m : Goes1(y, z, f, r, n, p, g, s, m)  BY <1>1, ExpectsTells, Zenon
  <1>3. /\ n = y.base + 2 /\ done[n].keeps = {f - 1} /\ Within(y.base, n, g, f - 1)
        /\ s \in 1 .. 6 /\ r = s + 1 /\ tokens[f - 1] \in Operators(s) /\ Over(g, f - 2, s)
        /\ (\E o, w : IsSequence(w) /\ z = Cons(o, w) /\ o.do = "operators")
        /\ p = z /\ m = y.base
    <2>1. After(y, z, f, r, n, p, g, s, m)  BY <1>2, Zenon DEF Goes1
    <2>2. y.do = "build" /\ y.arg = "binary"  BY DEF Builds1
    <2>3. y.arg \notin Lowest /\ y.arg # "unary"  BY <2>2 DEF Lowest
    <2>. QED  BY <2>1, <2>2, <2>3 DEF After, Builds1
  <1>4. Expects(p, g, s, m) /\ Spans(f, r, n, g, s, m)  BY <1>2, Zenon DEF Goes1
  <1>5. f \in Nat \ {0} /\ g \in 1 .. f /\ y.base \in Nat  BY <1>3, <1>4 DEF Spans
  <1>6. Expects(z, g, s, y.base)  BY <1>3, <1>4, Zenon
  <1>. QED  BY <1>3, <1>5, <1>6, Zenon

LEMMA ExpectsLowest ==
  \A y, z, f, r, n : IsSequence(z) /\ Expects(Cons(y, z), f, r, n) /\ Builds1(y, Lowest) =>
    \E g :
      /\ f \in Nat \ {0} /\ r = 0 /\ g \in 1 .. f /\ y.base \in Nat /\ y.base <= n /\ n \in Nat
      /\ Even(g, f - 1) /\ Within(y.base, n, g, f - 1) /\ Expects(z, g, 0, y.base)
  <1>. TAKE y, z, f, r, n
  <1>. HAVE IsSequence(z) /\ Expects(Cons(y, z), f, r, n) /\ Builds1(y, Lowest)
  <1>1. ~ Tame(y)  BY DEF Tame, Builds1
  <1>2. PICK p, g, s, m : Goes1(y, z, f, r, n, p, g, s, m)  BY <1>1, ExpectsTells, Zenon
  <1>3. /\ r = 0 /\ Even(g, f - 1) /\ Within(y.base, n, g, f - 1)
        /\ p = z /\ s = 0 /\ m = y.base
    <2>1. After(y, z, f, r, n, p, g, s, m)  BY <1>2, Zenon DEF Goes1
    <2>2. y.do = "build" /\ y.arg \in Lowest  BY DEF Builds1
    <2>3. y.arg # "unary" /\ y.arg # "binary"  BY <2>2 DEF Lowest
    <2>. QED  BY <2>1, <2>2, <2>3 DEF After, Builds1
  <1>4. Expects(p, g, s, m) /\ Spans(f, r, n, g, s, m)  BY <1>2, Zenon DEF Goes1
  <1>5. f \in Nat \ {0} /\ g \in 1 .. f /\ y.base \in Nat /\ y.base <= n /\ n \in Nat
    BY <1>3, <1>4 DEF Spans
  <1>6. Expects(z, g, 0, y.base)  BY <1>3, <1>4, Zenon
  <1>. QED  BY <1>3, <1>5, <1>6, Zenon

LEMMA ExpectsMore ==
  \A y, z, f, r, n : IsSequence(z) /\ Expects(Cons(y, z), f, r, n) /\ y.do = "more" =>
    \/ Tame(y) /\ Flat(z)
    \/ /\ f \in Nat \ {0} /\ n \in Nat /\ y.arg # "param"
       /\ (\E o, w : IsSequence(w) /\ z = Cons(o, w) /\ o.do = "consume")
       /\ Expects(z, f, 0, n)
  <1>. TAKE y, z, f, r, n
  <1>. HAVE IsSequence(z) /\ Expects(Cons(y, z), f, r, n) /\ y.do = "more"
  <1>1. CASE Tame(y) /\ Flat(z)  BY <1>1
  <1>2. CASE ~ (Tame(y) /\ Flat(z))
    <2>2. PICK p, g, s, m : Goes1(y, z, f, r, n, p, g, s, m)  BY <1>2, ExpectsTells, Zenon
    <2>3. /\ y.arg # "param"
          /\ (\E o, w : IsSequence(w) /\ z = Cons(o, w) /\ o.do = "consume")
          /\ p = z /\ g = f /\ s = 0 /\ m = n
      <3>1. After(y, z, f, r, n, p, g, s, m)  BY <2>2, Zenon DEF Goes1
      <3>. QED  BY <3>1 DEF After, Builds1
    <2>4. Expects(p, g, s, m) /\ f \in Nat \ {0} /\ n \in Nat
      BY <2>2, Zenon DEF Goes1, Spans
    <2>. QED  BY <2>3, <2>4, Zenon
  <1>. QED  BY <1>1, <1>2

LEMMA ExpectsConsume ==
  \A y, z, f, r, n : IsSequence(z) /\ Expects(Cons(y, z), f, r, n) /\ y.do = "consume" =>
    \/ Tame(y) /\ Flat(z)
    \/ /\ y.arg = ":" /\ f \in Nat \ {0} /\ n \in Nat
       /\ \E a, b, p, g :
            /\ IsSequence(p) /\ z = Cons(a, Cons(b, p)) /\ a.do = "ternary" /\ Builds1(b, {"ternary"})
            /\ g \in 1 .. f /\ b.base \in 0 .. n /\ Even(g, f - 1) /\ Within(b.base, n, g, f - 1)
            /\ Expects(p, g, 0, b.base)
    \/ /\ y.arg \in {")", "]"} /\ f \in Nat \ {0} /\ n \in Nat
       /\ \E a, p, g, o :
            /\ IsSequence(p) /\ z = Cons(a, p) /\ AfterBracket(a)
            /\ g \in 1 .. f /\ a.base \in 0 .. n /\ o \in g .. f - 1
            /\ tokens[o] \in {"(", "["} /\ Even(o + 1, f - 1) /\ Over(g, o - 1, 7)
            /\ Within(a.base, n, g, f - 1) /\ Expects(p, g, 7, a.base)
  <1>. TAKE y, z, f, r, n
  <1>. HAVE IsSequence(z) /\ Expects(Cons(y, z), f, r, n) /\ y.do = "consume"
  <1>1. CASE Tame(y) /\ Flat(z)  BY <1>1
  <1>2. CASE ~ (Tame(y) /\ Flat(z))
    <2>2. PICK p, g, s, m : Goes1(y, z, f, r, n, p, g, s, m)  BY <1>2, ExpectsTells, Zenon
    <2>4. Expects(p, g, s, m) /\ Spans(f, r, n, g, s, m) /\ IsSequence(p) /\ After(y, z, f, r, n, p, g, s, m)
      BY <2>2, Zenon DEF Goes1
    <2>5. f \in Nat \ {0} /\ n \in Nat /\ g \in 1 .. f /\ m \in 0 .. n  BY <2>4 DEF Spans
    <2>6. \/ y.arg = ":" /\ Even(g, f - 1)
             /\ (\E a, b : z = Cons(a, Cons(b, p)) /\ a.do = "ternary" /\ Builds1(b, {"ternary"})
                           /\ m = b.base /\ Within(m, n, g, f - 1))
             /\ s = 0
          \/ y.arg \in {")", "]"}
             /\ (\E o \in g .. f - 1 : tokens[o] \in {"(", "["} /\ Even(o + 1, f - 1) /\ Over(g, o - 1, 7))
             /\ (\E a : z = Cons(a, p) /\ AfterBracket(a) /\ m = a.base /\ Within(m, n, g, f - 1))
             /\ s = 7
      BY <2>4 DEF After, Builds1
    <2>7. CASE y.arg = ":" /\ Even(g, f - 1)
             /\ (\E a, b : z = Cons(a, Cons(b, p)) /\ a.do = "ternary" /\ Builds1(b, {"ternary"})
                           /\ m = b.base /\ Within(m, n, g, f - 1))
             /\ s = 0
      BY <2>4, <2>5, <2>7, Zenon
    <2>8. CASE y.arg \in {")", "]"}
             /\ (\E o \in g .. f - 1 : tokens[o] \in {"(", "["} /\ Even(o + 1, f - 1) /\ Over(g, o - 1, 7))
             /\ (\E a : z = Cons(a, p) /\ AfterBracket(a) /\ m = a.base /\ Within(m, n, g, f - 1))
             /\ s = 7
      BY <2>4, <2>5, <2>8, Zenon
    <2>. QED  BY <2>6, <2>7, <2>8, Zenon
  <1>. QED  BY <1>1, <1>2

\* What is expected when an item is put before the others.
FoldsOperators ==
  \A y, z, f, r, n :
    /\ IsSequence(z) /\ y.do = "operators" /\ y.arg \in 1 .. 6 /\ r \in 0 .. 7 /\ y.arg <= r
    /\ f \in Nat \ {0} /\ n \in Nat /\ y.base = n /\ Expects(z, f, y.arg, n)
    => Expects(Cons(y, z), f, r, n)
\* One statement for each item: it may be put before items that are ready for what
\* it makes.  First ? and = behind a value ...
FoldsLow ==
  \A y, z, f, r, n :
    /\ IsSequence(z) /\ y.do \in {"question", "assignment"} /\ r \in 0 .. 1
    /\ f \in Nat \ {0} /\ n \in Nat /\ y.base = n /\ Expects(z, f, 0, n)
    => Expects(Cons(y, z), f, r, n)
\* ... then the loop of what follows a primary expression ...
FoldsPostfix ==
  \A y, z, f, n :
    /\ IsSequence(z) /\ y.do = "postfix"
    /\ f \in Nat \ {0} /\ n \in Nat /\ y.base = n /\ Expects(z, f, 7, n)
    => Expects(Cons(y, z), f, 7, n)
\* ... a sign before its operand ...
FoldsUnary ==
  \A y, z, e, b :
    /\ IsSequence(z) /\ Builds1(y, {"unary"}) /\ e \in Nat \ {0} /\ b \in Nat /\ y.base = b
    /\ done[b + 1].keeps = {e} /\ done[b + 1].covers \subseteq e .. e /\ tokens[e] \in {"!", "-"}
    /\ Expects(z, e, 7, b)
    => Expects(Cons(y, z), e + 1, 7, b + 1)
\* ... an operator before its right operand ...
FoldsBinary ==
  \A y, o, w, e, b, g, s :
    /\ IsSequence(w) /\ o.do = "operators" /\ Builds1(y, {"binary"})
    /\ e \in Nat \ {0} /\ b \in Nat /\ y.base = b /\ s \in 1 .. 6
    /\ done[b + 2].keeps = {e} /\ tokens[e] \in Operators(s)
    /\ Over(g, e - 1, s) /\ Within(b, b + 2, g, e) /\ Expects(Cons(o, w), g, s, b)
    => Expects(Cons(y, Cons(o, w)), e + 1, s + 1, b + 2)
\* ... a ternary expression or an assignment before its last part ...
FoldsLowest ==
  \A y, z, e, b, n, g :
    /\ IsSequence(z) /\ Builds1(y, Lowest) /\ n \in Nat /\ b \in 0 .. n /\ y.base = b
    /\ Even(g, e) /\ Within(b, n, g, e) /\ Expects(z, g, 0, b)
    => Expects(Cons(y, z), e + 1, 0, n)
\* ... the colon of a ternary expression ...
FoldsColon ==
  \A y, a, x, p, e, b, n, g :
    /\ IsSequence(p) /\ y.do = "consume" /\ y.arg = ":" /\ a.do = "ternary" /\ Builds1(x, {"ternary"})
    /\ n \in Nat /\ b \in 0 .. n /\ x.base = b
    /\ Even(g, e) /\ Within(b, n, g, e) /\ Expects(p, g, 0, b)
    => Expects(Cons(y, Cons(a, Cons(x, p))), e + 1, 0, n)
\* ... a bracket that closes ...
FoldsBracket ==
  \A y, a, p, e, b, n, g, o :
    /\ IsSequence(p) /\ y.do = "consume" /\ y.arg \in {")", "]"} /\ AfterBracket(a)
    /\ n \in Nat /\ b \in 0 .. n /\ a.base = b /\ o \in Nat
    /\ tokens[o] \in {"(", "["} /\ Even(o + 1, e) /\ Over(g, o - 1, 7)
    /\ Within(b, n, g, e) /\ Expects(p, g, 7, b)
    => Expects(Cons(y, Cons(a, p)), e + 1, 0, n)
\* ... and the comma of a list.
FoldsMore ==
  \A y, o, w, f, n :
    /\ IsSequence(w) /\ o.do = "consume" /\ y.do = "more" /\ y.arg # "param"
    /\ f \in Nat \ {0} /\ n \in Nat /\ Expects(Cons(o, w), f, 0, n)
    => Expects(Cons(y, Cons(o, w)), f, 0, n)

LEMMA Folds ==
  \A y, z, f, r, n, g, s, m : \A p :
    /\ IsSequence(z) /\ IsSequence(p) /\ Spans(f, r, n, g, s, m)
    /\ After(y, z, f, r, n, p, g, s, m) /\ Expects(p, g, s, m)
    => Expects(Cons(y, z), f, r, n)
  <1>. TAKE y, z, f, r, n, g, s, m
  <1>. TAKE p
  <1>. HAVE /\ IsSequence(z) /\ IsSequence(p) /\ Spans(f, r, n, g, s, m)
            /\ After(y, z, f, r, n, p, g, s, m) /\ Expects(p, g, s, m)
  <1>1. Leads(Cons(y, z), f, r, n, p, g, s, m)  BY Zenon DEF Leads
  <1>. QED  BY <1>1, ExpectsFolds, Zenon

LEMMA FoldOperators == FoldsOperators
  <1>. SUFFICES ASSUME NEW y, NEW z, NEW f, NEW r, NEW n,
                  IsSequence(z), y.do = "operators", y.arg \in 1 .. 6, r \in 0 .. 7, y.arg <= r,
                  f \in Nat \ {0}, n \in Nat, y.base = n, Expects(z, f, y.arg, n)
                PROVE  Expects(Cons(y, z), f, r, n)
    BY Zenon DEF FoldsOperators
  <1>1. Spans(f, r, n, f, y.arg, n)  BY DEF Spans
  <1>2. After(y, z, f, r, n, z, f, y.arg, n)  BY Zenon DEF After
  <1>. QED  BY <1>1, <1>2, Folds, Zenon

LEMMA FoldLow == FoldsLow
  <1>. SUFFICES ASSUME NEW y, NEW z, NEW f, NEW r, NEW n,
                  IsSequence(z), y.do \in {"question", "assignment"}, r \in 0 .. 1,
                  f \in Nat \ {0}, n \in Nat, y.base = n, Expects(z, f, 0, n)
                PROVE  Expects(Cons(y, z), f, r, n)
    BY Zenon DEF FoldsLow
  <1>1. Spans(f, r, n, f, 0, n) /\ r <= 1  BY DEF Spans
  <1>2. After(y, z, f, r, n, z, f, 0, n)  BY <1>1, Zenon DEF After
  <1>. QED  BY <1>1, <1>2, Folds, Zenon

LEMMA FoldPostfix == FoldsPostfix
  <1>. SUFFICES ASSUME NEW y, NEW z, NEW f, NEW n,
                  IsSequence(z), y.do = "postfix",
                  f \in Nat \ {0}, n \in Nat, y.base = n, Expects(z, f, 7, n)
                PROVE  Expects(Cons(y, z), f, 7, n)
    BY Zenon DEF FoldsPostfix
  <1>1. Spans(f, 7, n, f, 7, n)  BY DEF Spans
  <1>2. After(y, z, f, 7, n, z, f, 7, n)  BY Zenon DEF After
  <1>. QED  BY <1>1, <1>2, Folds, Zenon

LEMMA FoldUnary == FoldsUnary
  <1>. SUFFICES ASSUME NEW y, NEW z, NEW e, NEW b,
                  IsSequence(z), Builds1(y, {"unary"}), e \in Nat \ {0}, b \in Nat, y.base = b,
                  done[b + 1].keeps = {e}, done[b + 1].covers \subseteq e .. e, tokens[e] \in {"!", "-"},
                  Expects(z, e, 7, b)
                PROVE  Expects(Cons(y, z), e + 1, 7, b + 1)
    BY Zenon DEF FoldsUnary
  <1>. DEFINE f == e + 1  n == b + 1
  <1>1. Spans(f, 7, n, e, 7, b) /\ f - 1 = e  BY DEF Spans
  <1>2. Within(b, n, e, e)  BY DEF Within
  <1>3. After(y, z, f, 7, n, z, e, 7, b)  BY <1>1, <1>2 DEF After
  <1>. HIDE DEF f, n
  <1>4. Leads(Cons(y, z), f, 7, n, z, e, 7, b)  BY <1>1, <1>3, Zenon DEF Leads
  <1>5. Expects(z, e, 7, b)  OBVIOUS
  <1>6. Expects(Cons(y, z), f, 7, n)  BY ONLY <1>4, <1>5, ExpectsFolds, Zenon
  <1>. QED  BY <1>6 DEF f, n

LEMMA FoldBinary == FoldsBinary
  <1>. USE DEF FoldsBinary
  <1>. TAKE y, o, w, e, b, g, s
  <1>. HAVE /\ IsSequence(w) /\ o.do = "operators" /\ Builds1(y, {"binary"})
            /\ e \in Nat \ {0} /\ b \in Nat /\ y.base = b /\ s \in 1 .. 6
            /\ done[b + 2].keeps = {e} /\ tokens[e] \in Operators(s)
            /\ Over(g, e - 1, s) /\ Within(b, b + 2, g, e) /\ Expects(Cons(o, w), g, s, b)
  <1>. DEFINE z == Cons(o, w)
  <1>0. IsSequence(z)  BY ConsIs
  <1>01. \E o1, w1 : IsSequence(w1) /\ z = Cons(o1, w1) /\ o1.do = "operators"  BY Zenon
  <1>02. Expects(z, g, s, b)  OBVIOUS
  <1>. HIDE DEF z
  <1>1. g \in 1 .. e + 1 /\ (e + 1) - 1 = e /\ (e + 1) - 2 = e - 1  BY DEF Over, Even
  <1>2. Spans(e + 1, s + 1, b + 2, g, s, b)  BY <1>1 DEF Spans
  <1>3. After(y, z, e + 1, s + 1, b + 2, z, g, s, b)  BY <1>01, <1>1, Zenon DEF After
  <1>4. Expects(Cons(y, z), e + 1, s + 1, b + 2)  BY <1>0, <1>02, <1>2, <1>3, Folds, Zenon
  <1>. QED  BY <1>4 DEF z

LEMMA FoldLowest == FoldsLowest
  <1>. SUFFICES ASSUME NEW y, NEW z, NEW e, NEW b, NEW n, NEW g,
                  IsSequence(z), Builds1(y, Lowest), n \in Nat, b \in 0 .. n, y.base = b,
                  Even(g, e), Within(b, n, g, e), Expects(z, g, 0, b)
                PROVE  Expects(Cons(y, z), e + 1, 0, n)
    BY Zenon DEF FoldsLowest
  <1>1. e \in Nat /\ g \in 1 .. e + 1 /\ (e + 1) - 1 = e  BY DEF Even
  <1>2. Spans(e + 1, 0, n, g, 0, b)  BY <1>1 DEF Spans
  <1>3. After(y, z, e + 1, 0, n, z, g, 0, b)  BY <1>1, Zenon DEF After
  <1>. QED  BY <1>2, <1>3, Folds, Zenon

LEMMA FoldColon == FoldsColon
  <1>. SUFFICES ASSUME NEW y, NEW a, NEW x, NEW p, NEW e, NEW b, NEW n, NEW g,
                  IsSequence(p), y.do = "consume", y.arg = ":", a.do = "ternary", Builds1(x, {"ternary"}),
                  n \in Nat, b \in 0 .. n, x.base = b,
                  Even(g, e), Within(b, n, g, e), Expects(p, g, 0, b)
                PROVE  Expects(Cons(y, Cons(a, Cons(x, p))), e + 1, 0, n)
    BY DEF FoldsColon
  <1>. DEFINE z == Cons(a, Cons(x, p))
  <1>0. IsSequence(Cons(x, p))  BY ConsIs
  <1>01. IsSequence(z)  BY <1>0, ConsIs
  <1>1. e \in Nat /\ g \in 1 .. e + 1 /\ (e + 1) - 1 = e  BY DEF Even
  <1>2. Spans(e + 1, 0, n, g, 0, b)  BY <1>1 DEF Spans
  <1>3. \E a1, x1 : z = Cons(a1, Cons(x1, p)) /\ a1.do = "ternary" /\ Builds1(x1, {"ternary"})
                    /\ b = x1.base /\ Within(b, n, g, e)
    BY Zenon
  <1>. HIDE DEF z
  <1>4. After(y, z, e + 1, 0, n, p, g, 0, b)  BY <1>1, <1>3, Zenon DEF After
  <1>5. Expects(Cons(y, z), e + 1, 0, n)  BY <1>01, <1>2, <1>4, Folds, Zenon
  <1>. QED  BY <1>5 DEF z

LEMMA FoldBracket == FoldsBracket
  <1>. SUFFICES ASSUME NEW y, NEW a, NEW p, NEW e, NEW b, NEW n, NEW g, NEW o,
                  IsSequence(p), y.do = "consume", y.arg \in {")", "]"}, AfterBracket(a),
                  n \in Nat, b \in 0 .. n, a.base = b, o \in Nat,
                  tokens[o] \in {"(", "["}, Even(o + 1, e), Over(g, o - 1, 7),
                  Within(b, n, g, e), Expects(p, g, 7, b)
                PROVE  Expects(Cons(y, Cons(a, p)), e + 1, 0, n)
    BY DEF FoldsBracket
  <1>. DEFINE z == Cons(a, p)
  <1>01. IsSequence(z)  BY ConsIs
  <1>0. o - 1 \in Nat /\ g \in Nat \ {0} /\ g <= (o - 1) + 1  BY DEF Over, Even
  <1>00. e \in Nat /\ o + 1 \in Nat \ {0} /\ o + 1 <= e + 1  BY DEF Even
  <1>1. g \in 1 .. e + 1 /\ (e + 1) - 1 = e /\ o \in g .. e
    <2>1. o \in Int  OBVIOUS
    <2>. QED  BY <1>0, <1>00, <2>1
  <1>2. Spans(e + 1, 0, n, g, 7, b)  BY <1>1, <1>00 DEF Spans
  <1>3. \E a1 : z = Cons(a1, p) /\ AfterBracket(a1) /\ b = a1.base /\ Within(b, n, g, e)
    BY Zenon
  <1>. HIDE DEF z
  <1>4. After(y, z, e + 1, 0, n, p, g, 7, b)  BY <1>1, <1>3, Zenon DEF After
  <1>5. Leads(Cons(y, z), e + 1, 0, n, p, g, 7, b)  BY <1>01, <1>2, <1>4, Zenon DEF Leads
  <1>6. Expects(Cons(y, z), e + 1, 0, n)  BY <1>5, ExpectsFolds, Zenon
  <1>. QED  BY <1>6 DEF z

LEMMA FoldMore == FoldsMore
  <1>. SUFFICES ASSUME NEW y, NEW o, NEW w, NEW f, NEW n,
                  IsSequence(w), o.do = "consume", y.do = "more", y.arg # "param",
                  f \in Nat \ {0}, n \in Nat, Expects(Cons(o, w), f, 0, n)
                PROVE  Expects(Cons(y, Cons(o, w)), f, 0, n)
    BY Zenon DEF FoldsMore
  <1>. DEFINE z == Cons(o, w)
  <1>0. IsSequence(z)  BY ConsIs
  <1>01. \E o1, w1 : IsSequence(w1) /\ z = Cons(o1, w1) /\ o1.do = "consume"  BY Zenon
  <1>02. Expects(z, f, 0, n)  OBVIOUS
  <1>. HIDE DEF z
  <1>2. Spans(f, 0, n, f, 0, n)  BY DEF Spans
  <1>3. After(y, z, f, 0, n, z, f, 0, n)  BY <1>01, Zenon DEF After
  <1>4. Expects(Cons(y, z), f, 0, n)  BY <1>0, <1>02, <1>2, <1>3, Folds, Zenon
  <1>. QED  BY <1>4 DEF z

LEMMA FoldsAfter ==
  /\ FoldsOperators' /\ FoldsLow' /\ FoldsPostfix' /\ FoldsUnary' /\ FoldsBinary' /\ FoldsLowest'
  /\ FoldsColon' /\ FoldsBracket' /\ FoldsMore'
  <1>1. /\ FoldsOperators /\ FoldsLow /\ FoldsPostfix /\ FoldsUnary /\ FoldsBinary /\ FoldsLowest
        /\ FoldsColon /\ FoldsBracket /\ FoldsMore
    BY FoldOperators, FoldLow, FoldPostfix, FoldUnary, FoldBinary, FoldLowest, FoldColon,
       FoldBracket, FoldMore
  <1>. QED  BY <1>1, PTL

\* A comma or a bracket that closes looks back at all that was read since.
LEMMA Shift ==
  \A y, z, f, r, n, e, k :
    /\ IsSequence(z) /\ y.do \in {"consume", "more"} /\ Expects(Cons(y, z), f, r, n)
    /\ Even(f, e) /\ k \in Nat /\ n <= k /\ Within(n, k, f, e)
    => Expects(Cons(y, z), e + 1, 0, k)
  <1>1. \A y, z, f, r, n, e, k :
          /\ IsSequence(z) /\ y.do = "consume" /\ Expects(Cons(y, z), f, r, n)
          /\ Even(f, e) /\ k \in Nat /\ n <= k /\ Within(n, k, f, e)
          => Expects(Cons(y, z), e + 1, 0, k)
    <2>. SUFFICES ASSUME NEW y, NEW z, NEW f, NEW r, NEW n, NEW e, NEW k,
                    IsSequence(z), y.do = "consume", Expects(Cons(y, z), f, r, n),
                    Even(f, e), k \in Nat, n <= k, Within(n, k, f, e)
                  PROVE  Expects(Cons(y, z), e + 1, 0, k)
      BY Zenon
    <2>0. /\ f \in Nat \ {0} /\ e \in Nat /\ (f - 1) + 1 = f /\ f - 1 \in Nat /\ f <= e + 1
      BY DEF Even
    <2>00. ASSUME NEW b, NEW g, n \in Nat, b \in 0 .. n, g \in 1 .. f, Within(b, n, g, f - 1)
           PROVE  Within(b, k, g, e) /\ b \in 0 .. k
      <3>1. f .. e \subseteq g .. e /\ g .. f - 1 \subseteq g .. e  BY <2>0, <2>00
      <3>2. \A j \in b + 1 .. k : j \in b + 1 .. n \/ j \in n + 1 .. k  BY <2>00
      <3>. QED  BY <2>00, <3>1, <3>2 DEF Within
    <2>01. \A b, g : n \in Nat /\ b \in 0 .. n /\ g \in 1 .. f /\ Within(b, n, g, f - 1)
             => Within(b, k, g, e) /\ b \in 0 .. k
      BY <2>00, Zenon
    <2>02. \A a, b : Even(a, f - 1) => Even(a, e)  BY <2>0, EvenJoin, Zenon
    <2>1. CASE Tame(y) /\ Flat(z)  BY <2>1, FlatCons, FlatExpects, Zenon
    <2>4. \/ Tame(y) /\ Flat(z)
          \/ /\ y.arg = ":" /\ f \in Nat \ {0} /\ n \in Nat
             /\ \E a, b, p, g :
                  /\ IsSequence(p) /\ z = Cons(a, Cons(b, p)) /\ a.do = "ternary" /\ Builds1(b, {"ternary"})
                  /\ g \in 1 .. f /\ b.base \in 0 .. n /\ Even(g, f - 1) /\ Within(b.base, n, g, f - 1)
                  /\ Expects(p, g, 0, b.base)
          \/ /\ y.arg \in {")", "]"} /\ f \in Nat \ {0} /\ n \in Nat
             /\ \E a, p, g, o :
                  /\ IsSequence(p) /\ z = Cons(a, p) /\ AfterBracket(a)
                  /\ g \in 1 .. f /\ a.base \in 0 .. n /\ o \in g .. f - 1
                  /\ tokens[o] \in {"(", "["} /\ Even(o + 1, f - 1) /\ Over(g, o - 1, 7)
                  /\ Within(a.base, n, g, f - 1) /\ Expects(p, g, 7, a.base)
      BY ExpectsConsume, Zenon
    <2>. DEFINE Colon(a, b, p, g) ==
            /\ IsSequence(p) /\ z = Cons(a, Cons(b, p)) /\ a.do = "ternary" /\ Builds1(b, {"ternary"})
            /\ g \in 1 .. f /\ b.base \in 0 .. n /\ Even(g, f - 1) /\ Within(b.base, n, g, f - 1)
            /\ Expects(p, g, 0, b.base)
           Bracket(a, p, g, o) ==
            /\ IsSequence(p) /\ z = Cons(a, p) /\ AfterBracket(a)
            /\ g \in 1 .. f /\ a.base \in 0 .. n /\ o \in g .. f - 1
            /\ tokens[o] \in {"(", "["} /\ Even(o + 1, f - 1) /\ Over(g, o - 1, 7)
            /\ Within(a.base, n, g, f - 1) /\ Expects(p, g, 7, a.base)
    <2>5. \/ Tame(y) /\ Flat(z)
          \/ y.arg = ":" /\ n \in Nat /\ \E a, b, p, g : Colon(a, b, p, g)
          \/ y.arg \in {")", "]"} /\ n \in Nat /\ \E a, p, g, o : Bracket(a, p, g, o)
      BY <2>4, Zenon
    <2>6. CASE y.arg = ":" /\ n \in Nat /\ \E a, b, p, g : Colon(a, b, p, g)
      <3>1. PICK a, b, p, g : Colon(a, b, p, g)  BY <2>6, Zenon
      <3>2. Even(g, e) /\ Within(b.base, k, g, e) /\ b.base \in 0 .. k  BY <2>01, <2>02, <2>6, <3>1, Zenon
      <3>3. Expects(Cons(y, Cons(a, Cons(b, p))), e + 1, 0, k)
        BY <2>6, <3>1, <3>2, FoldColon, Zenon DEF FoldsColon
      <3>. QED  BY <3>1, <3>3, Zenon
    <2>7. CASE y.arg \in {")", "]"} /\ n \in Nat /\ \E a, p, g, o : Bracket(a, p, g, o)
      <3>1. PICK a, p, g, o : Bracket(a, p, g, o)  BY <2>7, Zenon
      <3>2. Even(o + 1, e) /\ Within(a.base, k, g, e) /\ a.base \in 0 .. k  BY <2>01, <2>02, <2>7, <3>1, Zenon
      <3>3. o \in Nat  BY <2>0, <3>1
      <3>4. Expects(Cons(y, Cons(a, p)), e + 1, 0, k)
        BY <2>7, <3>1, <3>2, <3>3, FoldBracket, Zenon DEF FoldsBracket
      <3>. QED  BY <3>1, <3>4, Zenon
    <2>. QED  BY <2>1, <2>5, <2>6, <2>7, Zenon
  <1>2. \A y, z, f, r, n, e, k :
          /\ IsSequence(z) /\ y.do = "more" /\ Expects(Cons(y, z), f, r, n)
          /\ Even(f, e) /\ k \in Nat /\ n <= k /\ Within(n, k, f, e)
          => Expects(Cons(y, z), e + 1, 0, k)
    <2>. SUFFICES ASSUME NEW y, NEW z, NEW f, NEW r, NEW n, NEW e, NEW k,
                    IsSequence(z), y.do = "more", Expects(Cons(y, z), f, r, n),
                    Even(f, e), k \in Nat, n <= k, Within(n, k, f, e)
                  PROVE  Expects(Cons(y, z), e + 1, 0, k)
      BY Zenon
    <2>1. CASE Tame(y) /\ Flat(z)  BY <2>1, FlatCons, FlatExpects, Zenon
    <2>2. CASE ~ (Tame(y) /\ Flat(z))
      <3>1. /\ y.arg # "param" /\ (\E o, w : IsSequence(w) /\ z = Cons(o, w) /\ o.do = "consume")
            /\ Expects(z, f, 0, n)
        BY <2>2, ExpectsMore, Zenon
      <3>2. PICK o, w : IsSequence(w) /\ z = Cons(o, w) /\ o.do = "consume"  BY <3>1, Zenon
      <3>3. Expects(Cons(o, w), f, 0, n)  BY <3>1, <3>2, Zenon
      <3>4. Expects(Cons(o, w), e + 1, 0, k)  BY <1>1, <3>2, <3>3, Zenon
      <3>5. e + 1 \in Nat \ {0}  BY DEF Even
      <3>6. Expects(Cons(y, Cons(o, w)), e + 1, 0, k)
        BY <3>1, <3>2, <3>4, <3>5, FoldMore, Zenon DEF FoldsMore
      <3>. QED  BY <3>2, <3>6, Zenon
    <2>. QED  BY <2>1, <2>2
  <1>3. \A y : y.do \in {"consume", "more"} => y.do = "consume" \/ y.do = "more"  BY Zenon
  <1>. QED  BY <1>1, <1>2, <1>3, Zenon

-----------------------------------------------------------------------------
\* The literal the cursor is in.
InQuotes == InLiteral(tokens, current - 1)
\* The next item is a literal's.
Quoting == todo # <<>> /\ Head(todo).do = "quoted"
\* The parser is in a literal where the lexer is in one.
InStep == current > Len(tokens) \/ (InQuotes <=> Quoting)
\* The parser took a quote for another token, or takes the inside of a literal for
\* its outside.
Astray == current > Len(tokens) \/ ~ (InQuotes <=> Quoting)
\* What the lexer lists in a literal: text, values, quotes, or the end.
Listing ==
  \A k \in 1 .. Len(tokens) :
    InLiteral(tokens, k - 1) => tokens[k] \in QuotedTokens \cup Quotes \cup {"eof"}

LEMMA QuoteNext ==
  \A k : k \in Nat \ {0} =>
    /\ tokens[k] \in Quotes => (InLiteral(tokens, k) <=> ~ InLiteral(tokens, k - 1))
    /\ tokens[k] \notin Quotes => (InLiteral(tokens, k) <=> InLiteral(tokens, k - 1))
  <1>. TAKE k
  <1>. HAVE k \in Nat \ {0}
  <1>1. \A n : InLiteral(tokens, n) <=> Count(Quotes, n) % 2 = 1  BY DEF InLiteral, QuotesIn, Count
  <1>2. /\ Count(Quotes, k - 1) \in Nat
        /\ tokens[k] \in Quotes => Count(Quotes, k) = Count(Quotes, k - 1) + 1
        /\ tokens[k] \notin Quotes => Count(Quotes, k) = Count(Quotes, k - 1)
    BY CountNext
  <1>3. \A c \in Nat : (c + 1) % 2 = 1 <=> ~ (c % 2 = 1)  OBVIOUS
  <1>. QED  BY <1>1, <1>2, <1>3

LEMMA LiteralStays ==
  ASSUME Kept
  PROVE  \A k \in 0 .. Len(tokens) : InLiteral(tokens', k) <=> InLiteral(tokens, k)
  <1>. TAKE k \in 0 .. Len(tokens)
  <1>1. \A i \in 1 .. k : tokens'[i] = tokens[i]  BY DEF Kept
  <1>2. QuotesIn(tokens', k) = QuotesIn(tokens, k)  BY <1>1 DEF QuotesIn
  <1>. QED  BY <1>2 DEF InLiteral

LEMMA QuotesMove ==
  ASSUME CursorInv, EofIsLast, UNCHANGED input, Advance
  PROVE  /\ current > Len(tokens) \/ Peek = "eof" => current' > Len(tokens')
         /\ current <= Len(tokens) =>
              /\ Peek \in Quotes => (InQuotes' <=> ~ InQuotes)
              /\ Peek \notin Quotes => (InQuotes' <=> InQuotes)
  <1>1. /\ current \in Nat /\ Len(tokens) \in Nat
        /\ \A k \in 1 .. Len(tokens) : tokens'[k] = tokens[k]
        /\ \/ current' = current /\ current = Len(tokens) + 1 /\ Peek = "eof"
           \/ current' = current + 1 /\ current <= Len(tokens) /\ tokens[current] = Peek
    BY TokensMove
  <1>2. current \in Nat \ {0} /\ current \in 1 .. Len(tokens) + 1  BY <1>1 DEF CursorInv
  <1>3. Kept  BY <1>1 DEF Kept
  <1>4. ASSUME current <= Len(tokens)
        PROVE  /\ Peek \in Quotes => (InQuotes' <=> ~ InQuotes)
               /\ Peek \notin Quotes => (InQuotes' <=> InQuotes)
    <2>1. current' - 1 = current /\ tokens[current] = Peek /\ current \in 0 .. Len(tokens)
      BY <1>1, <1>2, <1>4
    <2>2. InQuotes' <=> InLiteral(tokens', current)  BY <2>1 DEF InQuotes
    <2>3. InQuotes' <=> InLiteral(tokens, current)  BY <1>3, <2>1, <2>2, LiteralStays
    <2>. QED  BY <1>2, <2>1, <2>3, QuoteNext DEF InQuotes
  <1>5. ASSUME current > Len(tokens) \/ Peek = "eof" PROVE current' > Len(tokens')
    <2>1. Last(tokens) = "eof" /\ current >= Len(tokens)
      <3>1. CASE current > Len(tokens)  BY <1>1, <1>2, <3>1 DEF CursorInv
      <3>2. CASE current <= Len(tokens)
        <4>1. tokens[current] = "eof" /\ current \in 1 .. Len(tokens)  BY <1>1, <1>2, <1>5, <3>2
        <4>2. current = Len(tokens)  BY <1>1, <4>1 DEF EofIsLast
        <4>. QED  BY <4>1, <4>2 DEF Last
      <3>. QED  BY <1>1, <3>1, <3>2
    <2>2. tokens' = tokens  BY <2>1 DEF Advance, Reveal
    <2>3. current' = IF current > Len(tokens) THEN current ELSE current + 1  BY DEF Advance
    <2>. QED  BY <1>1, <2>1, <2>2, <2>3
  <1>. QED  BY <1>4, <1>5

\* A step that leaves a literal, or goes into one, knows it; another one leaves
\* the cursor where it was, in it or out of it.
LEMMA StaysInStep ==
  ASSUME CursorInv, EofIsLast, UNCHANGED input,
         \/ Stay /\ (Quoting' <=> Quoting)
         \/ Advance /\ Peek \notin Quotes /\ (Quoting' <=> Quoting)
         \/ Advance /\ Peek \in Quotes /\ (Quoting' <=> ~ Quoting)
         \/ Advance /\ Peek = "eof"
  PROVE  (InStep => InStep') /\ (Astray => Astray')
  <1>0. current \in Nat /\ Len(tokens) \in Nat  BY DomainIs DEF CursorInv
  <1>1. CASE Stay /\ (Quoting' <=> Quoting)
    <2>1. UNCHANGED <<tokens, current>>  BY <1>1 DEF Stay
    <2>2. InQuotes' <=> InQuotes  BY <2>1 DEF InQuotes
    <2>. QED  BY <1>1, <2>1, <2>2 DEF InStep, Astray
  <1>2. CASE Advance /\ (Peek = "eof" \/ current > Len(tokens))
    <2>1. current' > Len(tokens')  BY <1>2, QuotesMove
    <2>. QED  BY <2>1 DEF InStep, Astray
  <1>3. CASE Advance /\ Peek \notin Quotes /\ (Quoting' <=> Quoting) /\ ~ (current > Len(tokens))
    <2>1. InQuotes' <=> InQuotes  BY <1>0, <1>3, QuotesMove
    <2>. QED  BY <1>3, <2>1 DEF InStep, Astray
  <1>4. CASE Advance /\ Peek \in Quotes /\ (Quoting' <=> ~ Quoting) /\ ~ (current > Len(tokens))
    <2>1. InQuotes' <=> ~ InQuotes  BY <1>0, <1>4, QuotesMove
    <2>. QED  BY <1>4, <2>1 DEF InStep, Astray
  <1>. QED  BY <1>1, <1>2, <1>3, <1>4

\* A quote that is taken for another token.
LEMMA FallsOut ==
  ASSUME CursorInv, EofIsLast, UNCHANGED input, Advance, Peek \in Quotes, InStep, Quoting' <=> Quoting
  PROVE  Astray'
  <1>0. current \in Nat /\ Len(tokens) \in Nat  BY DomainIs DEF CursorInv
  <1>1. CASE current > Len(tokens)  BY <1>1, QuotesMove DEF Astray
  <1>2. CASE ~ (current > Len(tokens))
    <2>1. InQuotes' <=> ~ InQuotes  BY <1>0, <1>2, QuotesMove
    <2>. QED  BY <1>2, <2>1 DEF InStep, Astray
  <1>. QED  BY <1>1, <1>2

LEMMA InLiteralPeek ==
  ASSUME CursorInv, Listing, current > Len(tokens) \/ InQuotes
  PROVE  Peek \in QuotedTokens \cup Quotes \cup {"eof"}
  <1>0. current \in Nat \ {0} /\ Len(tokens) \in Nat  BY DomainIs DEF CursorInv
  <1>1. CASE current > Len(tokens)  BY <1>1, PeekTells
  <1>2. CASE ~ (current > Len(tokens))
    <2>1. current \in 1 .. Len(tokens) /\ Peek = tokens[current]  BY <1>0, <1>2 DEF Peek
    <2>2. InLiteral(tokens, current - 1)  BY <1>2 DEF InQuotes
    <2>. QED  BY <2>1, <2>2 DEF Listing
  <1>. QED  BY <1>1, <1>2

LEMMA LastOne ==
  ASSUME NEW Q, NEW L \in Nat, Q \subseteq 1 .. L, Q # {}
  PROVE  Max(Q) \in Q
  <1>. DEFINE Top(i) == Q \cap 1 .. i = {} \/ \E m \in Q \cap 1 .. i : \A k \in Q \cap 1 .. i : m >= k
              T == {i \in Nat : Top(i)}
  <1>1. 0 \in T  OBVIOUS
  <1>2. ASSUME NEW i \in Nat, i \in T PROVE i + 1 \in T
    <2>1. CASE i + 1 \in Q
      <3>1. \A k \in Q \cap 1 .. i + 1 : i + 1 >= k  OBVIOUS
      <3>. QED  BY <2>1, <3>1
    <2>2. CASE i + 1 \notin Q
      <3>1. Q \cap 1 .. i + 1 = Q \cap 1 .. i  BY <2>2
      <3>2. Top(i)  BY <1>2
      <3>. QED  BY <3>1, <3>2
    <2>. QED  BY <2>1, <2>2
  <1>. HIDE DEF T
  <1>3. Nat \subseteq T  BY <1>1, <1>2, Induction
  <1>4. Top(L)  BY <1>3 DEF T
  <1>5. Q \cap 1 .. L = Q  OBVIOUS
  <1>6. \E m \in Q : \A k \in Q : m >= k  BY <1>4, <1>5
  <1>. QED  BY <1>6 DEF Max

\* What the lexer lists in a literal.
LEMMA ListedInLiteral ==
  \A list, t : InLiteral(list, Len(list)) /\ Listed(list, t) /\ Len(list) \in Nat
                 => t \in QuotedTokens \cup Quotes \cup {"eof"}
  <1>. TAKE list, t
  <1>. HAVE InLiteral(list, Len(list)) /\ Listed(list, t) /\ Len(list) \in Nat
  <1>. DEFINE Q == QuotesIn(list, Len(list))
  <1>1. Q \subseteq 1 .. Len(list)  BY DEF QuotesIn
  <1>3. Q # {}
    <2>1. Cardinality({}) = 0  BY FS_EmptySet
    <2>2. 0 % 2 # 1  OBVIOUS
    <2>. QED  BY <2>1, <2>2 DEF InLiteral
  <1>5. Max(Q) \in Q
    <2>. HIDE DEF Q
    <2>. QED  BY <1>1, <1>3, LastOne
  <1>6. list[Max(Q)] \in Quotes  BY <1>5 DEF QuotesIn
  <1>7. t \in QuotedTokens \cup {list[Max(Q)]}  BY Zenon DEF Listed
  <1>. QED  BY <1>6, <1>7

LEMMA InitLists == Init => Listing
  <1>. SUFFICES ASSUME Init PROVE Listing  OBVIOUS
  <1>1. input \in Inputs /\ tokens = input.start  BY DEF Init
  <1>2. /\ tokens \in Seq(STRING)
        /\ \A k \in DOMAIN tokens : Listed(SubSeq(tokens, 1, k - 1), tokens[k])
    BY <1>1, InputsAssumption
  <1>. SUFFICES ASSUME NEW k \in 1 .. Len(tokens), InLiteral(tokens, k - 1)
                PROVE  tokens[k] \in QuotedTokens \cup Quotes \cup {"eof"}
    BY DEF Listing
  <1>. DEFINE s == SubSeq(tokens, 1, k - 1)
  <1>3. Len(s) = k - 1 /\ \A i \in 1 .. k - 1 : s[i] = tokens[i]
    BY <1>2
  <1>4. QuotesIn(s, Len(s)) = QuotesIn(tokens, k - 1)  BY <1>3 DEF QuotesIn
  <1>5. InLiteral(s, Len(s))  BY <1>3, <1>4 DEF InLiteral
  <1>6. Listed(s, tokens[k])  BY <1>2
  <1>. HIDE DEF s
  <1>. QED  BY <1>3, <1>5, <1>6, ListedInLiteral

LEMMA ListingNext ==
  ASSUME CursorInv, Listing, Stay \/ Advance
  PROVE  Listing'
  <1>0. Len(tokens) \in Nat  BY DomainIs DEF CursorInv
  <1>1. CASE UNCHANGED tokens
    <2>1. \A k \in 1 .. Len(tokens) : InLiteral(tokens', k - 1) <=> InLiteral(tokens, k - 1)  BY <1>1
    <2>. QED  BY <1>1, <2>1 DEF Listing
  <1>2. ASSUME NEW t, tokens' = Append(tokens, t), t = "eof" \/ Listed(tokens, t)
        PROVE  Listing'
    <2>1. /\ Len(tokens') = Len(tokens) + 1 /\ tokens'[Len(tokens) + 1] = t
          /\ \A k \in 1 .. Len(tokens) : tokens'[k] = tokens[k]
      <3>. DEFINE s == tokens
      <3>1. PICK E : s \in Seq(E)  BY DEF CursorInv, IsSequence
      <3>2. s \in Seq(E \cup {t})  BY <3>1
      <3>. HIDE DEF s
      <3>3. /\ Len(Append(s, t)) = Len(s) + 1 /\ Append(s, t)[Len(s) + 1] = t
            /\ \A k \in 1 .. Len(s) : Append(s, t)[k] = s[k]
        BY <3>2
      <3>. QED  BY <1>2, <3>3 DEF s
    <2>2. Kept  BY <1>0, <2>1 DEF Kept
    <2>3. \A k \in 0 .. Len(tokens) : InLiteral(tokens', k) <=> InLiteral(tokens, k)
      BY <2>2, LiteralStays
    <2>. SUFFICES ASSUME NEW k \in 1 .. Len(tokens'), InLiteral(tokens', k - 1)
                  PROVE  tokens'[k] \in QuotedTokens \cup Quotes \cup {"eof"}
      BY DEF Listing
    <2>4. k - 1 \in 0 .. Len(tokens)  BY <1>0, <2>1
    <2>5. InLiteral(tokens, k - 1)  BY <2>3, <2>4
    <2>6. CASE k \in 1 .. Len(tokens)
      <3>1. tokens[k] \in QuotedTokens \cup Quotes \cup {"eof"}  BY <2>5, <2>6 DEF Listing
      <3>. QED  BY <2>1, <2>6, <3>1
    <2>7. CASE k = Len(tokens) + 1
      <3>1. InLiteral(tokens, Len(tokens))  BY <1>0, <2>5, <2>7
      <3>2. t \in QuotedTokens \cup Quotes \cup {"eof"}  BY <1>0, <1>2, <3>1, ListedInLiteral
      <3>. QED  BY <2>1, <2>7, <3>2
    <2>. QED  BY <1>0, <2>1, <2>6, <2>7
  <1>. QED  BY <1>1, <1>2 DEF Stay, Advance, Reveal

-----------------------------------------------------------------------------
\* Where in an expression the cursor c can be, with n pieces and t ahead, when
\* x is the next item and q the others: at a value, behind one, in one, before
\* the first one of a list or a bracket.
Headed(w, f) == \E o, v : IsSequence(v) /\ w = Cons(o, v) /\ o.do = f
\* The rank of the value an item calls for.
Yield(x) == IF x.do \in {"expr", "ternary"} THEN 0 ELSE IF x.do = "operand" THEN x.arg ELSE 7
\* The token t behind a value of rank r binds less than it, or as much as it when the
\* level that was read looks for one more.
Below(w, r, t) ==
  \A l \in 1 .. 6 : t \in Operators(l) => l < r \/ (l = r /\ Headed(w, "operators"))

\* At c a value comes, and x reads it.
AtValue(x, q, c, n) ==
  /\ x.do \in Operands /\ Expects(q, c, Yield(x), n)
  /\ x.do = "primary" => Headed(q, "postfix")
\* A value has been read up to the cursor; it is the last piece.
Behind(w, c, n, t) ==
  n \in Nat \ {0} /\ \E f \in 1 .. c - 1, r \in 0 .. 7 :
    /\ Expects(w, f, r, n - 1) /\ Over(f, c - 1, r) /\ done[n].covers \subseteq f .. c - 1
    /\ Below(w, r, t)
\* The pieces above x.base are parts of one postfix expression, up to the cursor.
Gathered(x, q, c, n) ==
  /\ x.base \in Nat /\ x.base <= n
  /\ \E f \in 1 .. c - 1 : Over(f, c - 1, 7) /\ Within(x.base, n, f, c - 1) /\ Expects(q, f, 7, x.base)
\* The cursor is at the name of a member, or at what may follow it.
InMember(x, q, c, n) ==
  x.do = "method" /\ \E b, p : IsSequence(p) /\ q = Cons(b, p) /\ Builds1(b, {"member"}) /\ Gathered(b, p, c, n)
\* The cursor is in a postfix expression.
InValue(x, q, c, n) ==
  \/ Builds1(x, Postfixed) /\ Gathered(x, q, c, n)
  \/ InMember(x, q, c, n)
  \/ x.do = "name" /\ \E m, p : IsSequence(p) /\ q = Cons(m, p) /\ InMember(m, p, c, n)
\* Behind the bracket at c an expression or a list of them comes.
Enters(q, c, n) ==
  \E y, p : /\ IsSequence(p) /\ q = Cons(y, p)
            /\ y.do = "expr" \/ (y.do = "list" /\ y.arg # "param" /\ Headed(p, "consume"))
            /\ Expects(p, c + 1, 0, n)
\* A list, or a bracket, is ahead.
BeforeValue(x, q, c, n, t) ==
  \/ x.do = "list" /\ x.arg # "param" /\ Headed(q, "consume") /\ Expects(q, c, 0, n)
  \/ x.do = "consume" /\ Expects(Cons(x, q), c, 0, n)
  \/ x.do = "consume" /\ x.arg = "(" /\ t = "(" /\ c <= Len(tokens) /\ Enters(q, c, n)

\* The cursor is in an expression, at one of the four places.
Reads(w, c, n, t) ==
  \E x, q : /\ IsSequence(q) /\ w = Cons(x, q)
            /\ \/ AtValue(x, q, c, n) \/ Behind(w, c, n, t)
               \/ InValue(x, q, c, n) \/ BeforeValue(x, q, c, n, t)
\* It is there, or nothing of an expression is left to do.
ReadsOn(w, c, n, t) == Flat(w) \/ Reads(w, c, n, t)
\* The cursor is in a literal.
ReadsLiteral(w, c, n) ==
  \E x, q : IsSequence(q) /\ w = Cons(x, q) /\ x.do = "quoted" /\ Gathered(x, q, c, n)

\* What can be left to do when a quote was taken for another token.
Blunt(x) ==
  /\ \/ Tame(x) /\ x.do # "directive"
     \/ x.do \in Operands \cup {"operators", "question", "assignment", "postfix"}
\* Every item is one of these.
AllBlunt(q) == \A i \in 1 .. Len(q) : Blunt(q[i])
\* A literal is read astray.
BluntLiteral(w) == \E x, q : IsSequence(q) /\ w = Cons(x, q) /\ x.do = "quoted" /\ AllBlunt(q)

\* The invariant of reading: in step with the lexer, the cursor is where the items
\* left to do expect it; astray, no item is left that reads an operator.
ReadInv ==
  status = "parsing" =>
    \/ InStep /\ (ReadsOn(todo, current, Len(done), Peek) \/ ReadsLiteral(todo, current, Len(done)))
    \/ Astray /\ (AllBlunt(todo) \/ BluntLiteral(todo))

-----------------------------------------------------------------------------
LEMMA FlatNil == \A w : IsSequence(w) /\ (\A x, q : IsSequence(q) => w # Cons(x, q)) => Flat(w)
  <1>. TAKE w
  <1>. HAVE IsSequence(w) /\ (\A x, q : IsSequence(q) => w # Cons(x, q))
  <1>1. CASE Len(w) = 0  BY <1>1 DEF Flat
  <1>2. CASE Len(w) # 0
    <2>1. w # <<>> /\ Len(w) \in Nat  BY <1>2, DomainIs
    <2>2. /\ IsSequence(Tail(w)) /\ Len(Tail(w)) = Len(w) - 1
          /\ \A i \in 1 .. Len(w) - 1 : Tail(w)[i] = w[i + 1]
      BY <2>1, TailLength
    <2>. DEFINE r == Tail(w)
    <2>. HIDE DEF r
    <2>3. IsSequence(r) /\ Len(w) = Len(r) + 1 /\ \A i \in 1 .. Len(r) : w[i + 1] = r[i]
      BY <2>1, <2>2 DEF r
    <2>4. w = Cons(w[1], r)  BY <2>3, IsCons
    <2>. QED  BY <2>3, <2>4
  <1>. QED  BY <1>1, <1>2

\* A value that has been read is one of the four.
LEMMA BehindReads == \A w, c, n, t : IsSequence(w) /\ Behind(w, c, n, t) => ReadsOn(w, c, n, t)
  BY FlatNil, Zenon DEF ReadsOn, Reads

LEMMA AtReads == \A x, q, c, n, t : IsSequence(q) /\ AtValue(x, q, c, n) => ReadsOn(Cons(x, q), c, n, t)
  BY Zenon DEF ReadsOn, Reads
LEMMA InReads == \A x, q, c, n, t : IsSequence(q) /\ InValue(x, q, c, n) => ReadsOn(Cons(x, q), c, n, t)
  BY Zenon DEF ReadsOn, Reads
LEMMA BeforeReads ==
  \A x, q, c, n, t : IsSequence(q) /\ BeforeValue(x, q, c, n, t) => ReadsOn(Cons(x, q), c, n, t)
  BY Zenon DEF ReadsOn, Reads

\* What the next item says of where the cursor is.
Holds(x, q, c, n, t) ==
  /\ x.do \in Operands => AtValue(x, q, c, n)
  /\ x.do \in {"operators", "question", "assignment", "postfix"} \/ Builds1(x, Lowest \cup {"unary", "binary"})
       => Behind(Cons(x, q), c, n, t)
  /\ x.do = "method" \/ Builds1(x, Postfixed) => InValue(x, q, c, n)
  /\ x.do = "name" => Flat(q) \/ InValue(x, q, c, n)
  /\ x.do = "list" => Flat(q) \/ BeforeValue(x, q, c, n, t)
  /\ x.do = "more" => Flat(q) \/ Behind(Cons(x, q), c, n, t)
  /\ x.do = "consume" => Flat(q) \/ Behind(Cons(x, q), c, n, t) \/ BeforeValue(x, q, c, n, t)
  /\ x.do # "quoted"
  /\ \/ Tame(x) /\ Flat(q)
     \/ x.do \in Operands \cup {"operators", "question", "assignment", "postfix", "method", "name", "list",
                                "more", "consume"}
     \/ Builds1(x, Lowest \cup {"unary", "binary"} \cup Postfixed)

LEMMA Tells ==
  \A x, q, c, n, t : IsSequence(q) /\ ReadsOn(Cons(x, q), c, n, t) => Holds(x, q, c, n, t)
  <1>. TAKE x, q, c, n, t
  <1>. HAVE IsSequence(q) /\ ReadsOn(Cons(x, q), c, n, t)
  <1>1. CASE Flat(Cons(x, q))
    <2>1. Tame(x) /\ Flat(q)  BY <1>1, FlatCons
    <2>2. Expects(q, c, Yield(x), n)  BY <2>1, FlatExpects
    <2>3. Expects(Cons(x, q), c, 0, n)  BY <1>1, FlatExpects
    <2>4. x.do \in Operands => AtValue(x, q, c, n)
      <3>1. x.do \in Operands => x.do = "expr"  BY <2>1 DEF Tame, Operands
      <3>. QED  BY <2>2, <3>1 DEF AtValue
    <2>5. /\ x.do \notin {"operators", "question", "assignment", "postfix", "method", "quoted"}
          /\ ~ Builds1(x, Lowest \cup {"unary", "binary"}) /\ ~ Builds1(x, Postfixed)
      BY <2>1 DEF Tame, Builds1
    <2>. DEFINE S == {"operators", "question", "assignment", "postfix"}
    <2>6. /\ x.do # "method" /\ x.do # "quoted" /\ x.do \notin S  BY <2>5
    <2>. HIDE DEF S
    <2>7. x.do \in S \/ Builds1(x, Lowest \cup {"unary", "binary"}) => FALSE  BY <2>5, <2>6
    <2>8. x.do = "method" \/ Builds1(x, Postfixed) => FALSE  BY <2>5, <2>6
    <2>. QED  BY <2>1, <2>4, <2>6, <2>7, <2>8, Zenon DEF Holds, S
  <1>2. CASE Reads(Cons(x, q), c, n, t)
    <2>1. PICK y, p : /\ IsSequence(p) /\ Cons(x, q) = Cons(y, p)
                      /\ \/ AtValue(y, p, c, n) \/ Behind(Cons(x, q), c, n, t)
                         \/ InValue(y, p, c, n) \/ BeforeValue(y, p, c, n, t)
      BY <1>2, Zenon DEF Reads
    <2>2. x = y /\ q = p  BY <2>1, SameCons, Zenon
    <2>3. CASE AtValue(x, q, c, n)
      BY <2>3 DEF Holds, AtValue, Operands, Builds1
    <2>4. CASE Behind(Cons(x, q), c, n, t)
      <3>1. CASE Carries(x)
        <4>1. /\ x.do \notin Operands /\ x.do # "method" /\ x.do # "name" /\ x.do # "list" /\ x.do # "quoted"
              /\ ~ Builds1(x, Postfixed)
          BY <3>1 DEF Carries, Operands, Builds1, Postfixed, Lowest
        <4>2. \/ x.do \in Operands \cup {"operators", "question", "assignment", "postfix", "method", "name",
                                         "list", "more", "consume"}
              \/ Builds1(x, Lowest \cup {"unary", "binary"} \cup Postfixed)
          BY <3>1 DEF Carries, Builds1
        <4>. QED  BY <2>4, <4>1, <4>2, Zenon DEF Holds
      <3>2. CASE ~ Carries(x)
        <4>1. PICK f, r : Expects(Cons(x, q), f, r, n - 1)  BY <2>4, Zenon DEF Behind
        <4>2. Tame(x) /\ Flat(q)  BY <3>2, <4>1, ExpectsOther, Zenon
        <4>3. Flat(Cons(x, q))  BY <4>2, FlatCons, Zenon
        <4>. QED  BY <1>1, <4>3
      <3>. QED  BY <3>1, <3>2
    <2>5. CASE InValue(x, q, c, n)
      BY <2>5 DEF Holds, InValue, InMember, Operands, Builds1, Lowest, Postfixed
    <2>6. CASE BeforeValue(x, q, c, n, t)
      BY <2>6 DEF Holds, BeforeValue, Operands, Builds1
    <2>. QED  BY <2>1, <2>2, <2>3, <2>4, <2>5, <2>6, Zenon
  <1>. QED  BY <1>1, <1>2 DEF ReadsOn

\* No literal is open then.
LEMMA NoLiteral ==
  \A w, c, n, t : IsSequence(w) /\ ReadsOn(w, c, n, t) => ~ (w # <<>> /\ Head(w).do = "quoted")
  <1>. TAKE w, c, n, t
  <1>. HAVE IsSequence(w) /\ ReadsOn(w, c, n, t)
  <1>1. CASE \E x, q : IsSequence(q) /\ w = Cons(x, q)
    <2>1. PICK x, q : IsSequence(q) /\ w = Cons(x, q)  BY <1>1
    <2>2. Head(w) = x  BY <2>1, ConsParts
    <2>3. x.do # "quoted"  BY <2>1, Tells DEF Holds
    <2>. QED  BY <2>2, <2>3
  <1>2. CASE \A x, q : IsSequence(q) => w # Cons(x, q)
    <2>1. w = <<>>
      <3>1. SUFFICES ASSUME w # <<>> PROVE FALSE  OBVIOUS
      <3>2. /\ IsSequence(Tail(w)) /\ Len(Tail(w)) = Len(w) - 1 /\ Len(w) \in Nat
            /\ \A i \in 1 .. Len(w) - 1 : Tail(w)[i] = w[i + 1]
        BY <3>1, TailLength, DomainIs
      <3>. DEFINE r == Tail(w)
      <3>. HIDE DEF r
      <3>3. IsSequence(r) /\ Len(w) = Len(r) + 1 /\ \A i \in 1 .. Len(r) : w[i + 1] = r[i]
        BY <3>2 DEF r
      <3>4. w = Cons(w[1], r)  BY <3>3, IsCons
      <3>. QED  BY <1>2, <3>3, <3>4
    <2>. QED  BY <2>1
  <1>. QED  BY <1>1, <1>2

-----------------------------------------------------------------------------
\* What a step leaves of where the cursor is.
LEMMA GatheredStays ==
  ASSUME NEW n, KeptBelow(n), NEW c, c \in Nat, c <= Len(tokens) + 1
  PROVE  \A x, q : Gathered(x, q, c, n) => Gathered(x, q, c, n)'
  <1>. SUFFICES ASSUME NEW x, NEW q, Gathered(x, q, c, n) PROVE Gathered(x, q, c, n)'
    OBVIOUS
  <1>0. Kept /\ n \in Nat /\ Len(tokens) \in Nat  BY DEF KeptBelow, Kept
  <1>1. x.base \in Nat /\ x.base <= n  BY DEF Gathered
  <1>2. PICK f \in 1 .. c - 1 : Over(f, c - 1, 7) /\ Within(x.base, n, f, c - 1) /\ Expects(q, f, 7, x.base)
    BY DEF Gathered
  <1>3. c - 1 <= Len(tokens) /\ f <= Len(tokens) + 1 /\ n <= n  BY <1>0
  <1>. DEFINE e == c - 1
  <1>4. Over(f, e, 7) /\ Within(x.base, n, f, e) /\ e <= Len(tokens)  BY <1>2, <1>3
  <1>. HIDE DEF e
  <1>5. Over(f, e, 7)'  BY <1>0, <1>4, OverStays, Zenon
  <1>6. Within(x.base, n, f, e)'  BY <1>0, <1>1, <1>3, <1>4, WithinStays, Zenon
  <1>7. Expects(q, f, 7, x.base)'  BY <1>1, <1>2, <1>3, ExpectsStays, Zenon
  <1>. QED  BY <1>1, <1>5, <1>6, <1>7 DEF Gathered, e

LEMMA BehindStays ==
  ASSUME NEW n, KeptBelow(n), NEW c, c \in Nat, c <= Len(tokens) + 1
  PROVE  \A w, t : Behind(w, c, n, t) => Behind(w, c, n, t)'
  <1>. SUFFICES ASSUME NEW w, NEW t, Behind(w, c, n, t) PROVE Behind(w, c, n, t)'
    OBVIOUS
  <1>0. Kept /\ n \in Nat \ {0} /\ Len(tokens) \in Nat  BY DEF KeptBelow, Kept, Behind
  <1>2. PICK f \in 1 .. c - 1, r \in 0 .. 7 :
          /\ Expects(w, f, r, n - 1) /\ Over(f, c - 1, r) /\ done[n].covers \subseteq f .. c - 1
          /\ Below(w, r, t)
    BY DEF Behind
  <1>3. c - 1 <= Len(tokens) /\ f <= Len(tokens) + 1 /\ n - 1 <= n  BY <1>0
  <1>. DEFINE e == c - 1  m == n - 1
  <1>4. Expects(w, f, r, m) /\ Over(f, e, r) /\ e <= Len(tokens) /\ m <= n  BY <1>2, <1>3
  <1>. HIDE DEF e, m
  <1>5. Over(f, e, r)'  BY <1>0, <1>4, OverStays, Zenon
  <1>6. Expects(w, f, r, m)'  BY <1>3, <1>4, ExpectsStays, Zenon
  <1>7. done'[n].covers \subseteq f .. c - 1
    <2>1. done'[n] = done[n]  BY <1>0 DEF KeptBelow
    <2>. QED  BY <1>2, <2>1
  <1>8. Below(w, r, t)'  BY <1>2 DEF Below, Headed
  <1>. QED  BY <1>0, <1>5, <1>6, <1>7, <1>8 DEF Behind, e, m

LEMMA AtStays ==
  ASSUME NEW n, KeptBelow(n), NEW c, c \in Nat, c <= Len(tokens) + 1
  PROVE  \A x, q : AtValue(x, q, c, n) => AtValue(x, q, c, n)'
  <1>. SUFFICES ASSUME NEW x, NEW q, AtValue(x, q, c, n) PROVE AtValue(x, q, c, n)'
    OBVIOUS
  <1>0. n <= n  BY DEF KeptBelow
  <1>. DEFINE y == Yield(x)
  <1>1. x.do \in Operands /\ Expects(q, c, y, n) /\ (x.do = "primary" => Headed(q, "postfix"))
    BY DEF AtValue
  <1>. HIDE DEF y
  <1>2. Expects(q, c, y, n)'  BY <1>0, <1>1, ExpectsStays, Zenon
  <1>. QED  BY <1>1, <1>2 DEF AtValue, y, Yield, Headed

LEMMA InStays ==
  ASSUME NEW n, KeptBelow(n), NEW c, c \in Nat, c <= Len(tokens) + 1
  PROVE  \A x, q : InValue(x, q, c, n) => InValue(x, q, c, n)'
  <1>0. \A x, q : Gathered(x, q, c, n) => Gathered(x, q, c, n)'  BY GatheredStays
  <1>1. \A x, q : InMember(x, q, c, n) => InMember(x, q, c, n)'
    <2>. TAKE x, q
    <2>. HAVE InMember(x, q, c, n)
    <2>1. x.do = "method" /\ \E b, p : IsSequence(p) /\ q = Cons(b, p) /\ Builds1(b, {"member"}) /\ Gathered(b, p, c, n)
      BY DEF InMember
    <2>2. PICK b, p : IsSequence(p) /\ q = Cons(b, p) /\ Builds1(b, {"member"}) /\ Gathered(b, p, c, n)
      BY <2>1
    <2>3. Gathered(b, p, c, n)'  BY <1>0, <2>2
    <2>4. Builds1(b, {"member"})'  BY <2>2 DEF Builds1
    <2>. QED  BY <2>1, <2>2, <2>3, <2>4, Zenon DEF InMember
  <1>. TAKE x, q
  <1>. HAVE InValue(x, q, c, n)
  <1>2. CASE Builds1(x, Postfixed) /\ Gathered(x, q, c, n)
    BY <1>0, <1>2 DEF InValue
  <1>3. CASE InMember(x, q, c, n)
    BY <1>1, <1>3 DEF InValue
  <1>4. CASE x.do = "name" /\ \E m, p : IsSequence(p) /\ q = Cons(m, p) /\ InMember(m, p, c, n)
    <2>1. PICK m, p : IsSequence(p) /\ q = Cons(m, p) /\ InMember(m, p, c, n)  BY <1>4
    <2>2. InMember(m, p, c, n)'  BY <1>1, <2>1
    <2>. QED  BY <1>4, <2>1, <2>2, Zenon DEF InValue
  <1>. QED  BY <1>2, <1>3, <1>4 DEF InValue

LEMMA BeforeStays ==
  ASSUME NEW n, KeptBelow(n), NEW c, c \in Nat, c <= Len(tokens) + 1, Len(tokens) <= Len(tokens')
  PROVE  \A x, q, t : BeforeValue(x, q, c, n, t) => BeforeValue(x, q, c, n, t)'
  <1>. TAKE x, q, t
  <1>. HAVE BeforeValue(x, q, c, n, t)
  <1>0. n <= n /\ Len(tokens) \in Nat  BY DEF KeptBelow, Kept
  <1>1. CASE x.do = "list" /\ x.arg # "param" /\ Headed(q, "consume") /\ Expects(q, c, 0, n)
    <2>1. Expects(q, c, 0, n)'  BY <1>0, <1>1, ExpectsStays
    <2>. QED  BY <1>1, <2>1 DEF BeforeValue, Headed
  <1>2. CASE x.do = "consume" /\ Expects(Cons(x, q), c, 0, n)
    <2>. DEFINE w == Cons(x, q)
    <2>1. Expects(w, c, 0, n)  BY <1>2
    <2>. HIDE DEF w
    <2>2. Expects(w, c, 0, n)'  BY <1>0, <2>1, ExpectsStays
    <2>. QED  BY <1>2, <2>2 DEF BeforeValue, w
  <1>3. CASE x.do = "consume" /\ x.arg = "(" /\ t = "(" /\ c <= Len(tokens) /\ Enters(q, c, n)
    <2>. DEFINE d == c + 1
    <2>1. PICK y, p :
            /\ IsSequence(p) /\ q = Cons(y, p)
            /\ y.do = "expr" \/ (y.do = "list" /\ y.arg # "param" /\ Headed(p, "consume"))
            /\ Expects(p, d, 0, n)
      BY <1>3 DEF Enters
    <2>2. d <= Len(tokens) + 1  BY <1>0, <1>3
    <2>. HIDE DEF d
    <2>3. Expects(p, d, 0, n)'  BY <1>0, <2>1, <2>2, ExpectsStays
    <2>4. Enters(q, c, n)'  BY <2>1, <2>3 DEF Enters, d, Headed
    <2>5. c <= Len(tokens')
      <3>1. c <= Len(tokens) /\ Len(tokens) <= Len(tokens')  BY <1>3
      <3>. QED  BY <1>0, <3>1
    <2>. QED  BY <1>3, <2>4, <2>5 DEF BeforeValue
  <1>. QED  BY <1>1, <1>2, <1>3, Zenon DEF BeforeValue

-----------------------------------------------------------------------------
\* Where the cursor stands, put together.
NowReads ==
  \A w, c, n, t :
    w = todo /\ c = current /\ n = Len(done) /\ t = Peek =>
      /\ InStep /\ ReadsOn(w, c, n, t) => ReadInv
      /\ InStep /\ ReadsLiteral(w, c, n) => ReadInv
      /\ Astray /\ AllBlunt(w) => ReadInv
      /\ Astray /\ BluntLiteral(w) => ReadInv
LEMMA NowReadsHolds == NowReads  BY Zenon DEF NowReads, ReadInv
LEMMA ThenReads == NowReads'  BY NowReadsHolds, PTL

\* Where an expression is read, no literal is open.
NoLiterals ==
  \A w, c, n, t : IsSequence(w) /\ ReadsOn(w, c, n, t) => ~ (w # <<>> /\ Head(w).do = "quoted")
LEMMA NoLiteralThen == NoLiterals'
  <1>1. NoLiterals  BY NoLiteral DEF NoLiterals
  <1>. QED  BY <1>1, PTL

LEMMA CursorSteps ==
  ASSUME ParseInv, EofIsLast, UNCHANGED input, Advance, Peek # "eof"
  PROVE  /\ current \in Nat \ {0} /\ current <= Len(tokens) /\ Len(tokens) \in Nat
         /\ current' = current + 1 /\ tokens[current] = Peek /\ Kept /\ tokens'[current] = Peek
         /\ Len(tokens') \in Nat /\ Len(tokens) <= Len(tokens')
  <1>0. CursorInv  BY DEF ParseInv
  <1>1. /\ current \in Nat /\ Len(tokens) \in Nat
        /\ \A k \in 1 .. Len(tokens) : tokens'[k] = tokens[k]
        /\ current' = current + 1 /\ current <= Len(tokens) /\ tokens[current] = Peek
    BY <1>0, TokensMove
  <1>2. current \in 1 .. Len(tokens)  BY <1>0, <1>1 DEF CursorInv
  <1>3. Len(tokens') \in Nat /\ Len(tokens) <= Len(tokens')
    <2>1. tokens' = tokens \/ \E t : tokens' = Append(tokens, t)  BY Zenon DEF Advance, Reveal
    <2>2. \A t : Len(Append(tokens, t)) = Len(tokens) + 1  BY <1>0, PushLength DEF CursorInv
    <2>. QED  BY <1>1, <2>1, <2>2
  <1>4. current \in Nat \ {0}  BY <1>2
  <1>5. tokens'[current] = Peek  BY <1>1, <1>2
  <1>6. Kept  BY <1>1 DEF Kept
  <1>. QED  BY <1>1, <1>3, <1>4, <1>5, <1>6

LEMMA CursorRests ==
  ASSUME ParseInv, Stay
  PROVE  /\ current \in Nat \ {0} /\ current <= Len(tokens) + 1 /\ Len(tokens) \in Nat
         /\ current' = current /\ tokens' = tokens /\ Kept /\ Peek' = Peek
         /\ Len(tokens') \in Nat /\ Len(tokens) <= Len(tokens')
  <1>0. CursorInv  BY DEF ParseInv
  <1>1. Len(tokens) \in Nat  BY <1>0, DomainIs DEF CursorInv
  <1>2. tokens' = tokens /\ current' = current  BY DEF Stay
  <1>3. Kept  BY <1>1, <1>2 DEF Kept
  <1>4. Peek' = Peek  BY <1>2 DEF Peek
  <1>. QED  BY <1>0, <1>1, <1>2, <1>3, <1>4 DEF CursorInv

LEMMA NotQuoting == \A f : Doing(f) /\ f # "quoted" => ~ Quoting
  BY DEF Doing, Quoting

\* A step after which the cursor is where it should be.
LEMMA Rests ==
  ASSUME ParseInv, EofIsLast, UNCHANGED input, InStep, ~ Quoting, Stay \/ (Advance /\ Peek \notin Quotes),
         NEW w, NEW c, NEW n, NEW t, w = todo', c = current', n = Len(done'), t = Peek',
         IsSequence(w), ReadsOn(w, c, n, t)'
  PROVE  ReadInv'
  <1>1. ~ (w # <<>> /\ Head(w).do = "quoted")  BY NoLiteralThen, Zenon DEF NoLiterals
  <1>2. ~ Quoting'  BY <1>1 DEF Quoting
  <1>3. InStep'
    <2>1. CursorInv  BY DEF ParseInv
    <2>. QED  BY <1>2, <2>1, StaysInStep
  <1>. QED  BY <1>3, ThenReads, Zenon DEF NowReads

LEMMA ReadsStays ==
  ASSUME NEW n, KeptBelow(n), NEW c, c \in Nat, c <= Len(tokens) + 1, Len(tokens) <= Len(tokens')
  PROVE  \A w, t : ReadsOn(w, c, n, t) => ReadsOn(w, c, n, t)'
  <1>. TAKE w, t
  <1>. HAVE ReadsOn(w, c, n, t)
  <1>1. CASE Flat(w)
    <2>1. Flat(w)'  BY <1>1 DEF Flat, Tame, Builds1
    <2>. QED  BY <2>1 DEF ReadsOn
  <1>2. CASE Reads(w, c, n, t)
    <2>1. PICK x, q : /\ IsSequence(q) /\ w = Cons(x, q)
                      /\ \/ AtValue(x, q, c, n) \/ Behind(w, c, n, t)
                         \/ InValue(x, q, c, n) \/ BeforeValue(x, q, c, n, t)
      BY <1>2, Zenon DEF Reads
    <2>2. \/ AtValue(x, q, c, n)' \/ Behind(w, c, n, t)'
          \/ InValue(x, q, c, n)' \/ BeforeValue(x, q, c, n, t)'
      BY <2>1, AtStays, BehindStays, InStays, BeforeStays
    <2>3. Reads(w, c, n, t)'  BY <2>1, <2>2, Zenon DEF Reads
    <2>. QED  BY <2>3 DEF ReadsOn
  <1>. QED  BY <1>1, <1>2 DEF ReadsOn

\* The pieces are the same, and the cursor where it should be already.
LEMMA Lands ==
  ASSUME ParseInv, EofIsLast, UNCHANGED <<input, done>>, InStep, ~ Quoting,
         NEW w, NEW c, NEW n, NEW t, w = todo', c = current', n = Len(done), t = Peek',
         Stay \/ (Advance /\ Peek \notin Quotes /\ Peek # "eof"),
         IsSequence(w), ReadsOn(w, c, n, t)
  PROVE  ReadInv'
  <1>1. /\ Kept /\ Len(tokens) <= Len(tokens') /\ Len(tokens) \in Nat
        /\ c \in Nat /\ c <= Len(tokens) + 1
    <2>1. CASE Stay  BY <2>1, CursorRests
    <2>2. CASE Advance /\ Peek # "eof"
      <3>1. /\ Kept /\ Len(tokens) <= Len(tokens') /\ Len(tokens) \in Nat
            /\ current' = current + 1 /\ current \in Nat /\ current <= Len(tokens)
        BY <2>2, CursorSteps
      <3>. QED  BY <3>1
    <2>. QED  BY <2>1, <2>2
  <1>2. n \in Nat /\ n = Len(done')  BY NowIs
  <1>3. KeptBelow(n)  BY <1>1, <1>2 DEF KeptBelow
  <1>4. ReadsOn(w, c, n, t)'  BY <1>1, <1>3, ReadsStays
  <1>. QED  BY <1>2, <1>4, Rests

\* The next item, the others and where the cursor is.
Sits(x, q, c, n, t) ==
  /\ Frame(x, q, n) /\ c = current /\ t = Peek /\ c \in Nat \ {0}
  /\ ReadsOn(Cons(x, q), c, n, t) /\ Holds(x, q, c, n, t) /\ InStep
  /\ EofIsLast /\ Listing

LEMMA Sitting ==
  ASSUME ParseInv, TextInv, Listing, InStep, NEW f, Doing(f), f # "quoted",
         ReadsOn(todo, current, Len(done), Peek)
  PROVE  \E x, q, c, n, t : x.do = f /\ Sits(x, q, c, n, t)
  <1>1. PICK x, q, n : x.do = f /\ Frame(x, q, n)  BY Framed
  <1>2. IsSequence(q) /\ todo = Cons(x, q) /\ n = Len(done)  BY <1>1, Anew DEF Frame
  <1>3. PICK c, t, w : c = current /\ t = Peek /\ w = todo  OBVIOUS
  <1>4. ReadsOn(Cons(x, q), c, n, t)  BY <1>2, <1>3
  <1>5. Holds(x, q, c, n, t)  BY <1>2, <1>4, Tells
  <1>6. c \in Nat \ {0}
    <2>1. Len(tokens) \in Nat  BY DomainIs DEF ParseInv, CursorInv
    <2>. QED  BY <1>3, <2>1 DEF ParseInv, CursorInv
  <1>. QED  BY <1>1, <1>3, <1>4, <1>5, <1>6 DEF Sits, TextInv

LEMMA GoLands ==
  ASSUME ParseInv, NEW x, NEW q, NEW c, NEW n, NEW t, Sits(x, q, c, n, t),
         NEW items, Go(items), NEW w, w = items \o q, IsSequence(w), ReadsOn(w, c, n, t)
  PROVE  ReadInv'
  <1>1. q = Tail(todo) /\ x = Head(todo) /\ n = Len(done) /\ c = current /\ t = Peek
        /\ EofIsLast /\ InStep /\ Holds(x, q, c, n, t)
    BY DEF Sits, Frame
  <1>2. w = todo' /\ Stay /\ UNCHANGED <<input, done>>  BY <1>1, Zenon DEF Go, Then, NoNode
  <1>3. ~ Quoting  BY <1>1 DEF Holds, Quoting
  <1>4. c = current' /\ t = Peek'  BY <1>1, <1>2, CursorRests
  <1>. QED  BY <1>1, <1>2, <1>3, <1>4, Lands

LEMMA SkipLands ==
  ASSUME ParseInv, NEW x, NEW q, NEW c, NEW n, NEW t, Sits(x, q, c, n, t),
         NEW items, Skip(items), t # "eof", t \notin Quotes,
         NEW w, w = items \o q, IsSequence(w), \A u : ReadsOn(w, c + 1, n, u)
  PROVE  ReadInv'
  <1>1. q = Tail(todo) /\ x = Head(todo) /\ n = Len(done) /\ c = current /\ t = Peek
        /\ EofIsLast /\ InStep /\ Holds(x, q, c, n, t)
    BY DEF Sits, Frame
  <1>2. w = todo' /\ Advance /\ UNCHANGED <<input, done>>  BY <1>1, Zenon DEF Skip, Then, NoNode
  <1>3. ~ Quoting  BY <1>1 DEF Holds, Quoting
  <1>. DEFINE d == c + 1
  <1>4. d = current'  BY <1>1, <1>2, CursorSteps
  <1>5. \A u : ReadsOn(w, d, n, u)  OBVIOUS
  <1>. HIDE DEF d
  <1>6. PICK u : u = Peek'  OBVIOUS
  <1>7. ReadsOn(w, d, n, u)  BY <1>5
  <1>. QED  BY <1>1, <1>2, <1>3, <1>4, <1>6, <1>7, Lands

-----------------------------------------------------------------------------
\* The functions that call others for the value.
LEMMA ItemsAre ==
  \A n : n = Len(done) =>
    /\ \A f : Do(f) = Item(f, "none", n)
    /\ \A f, a : With(f, a) = Item(f, a, n)
    /\ \A a : Eat(a) = Item("consume", a, n)
    /\ \A a : Build(a) = Item("build", a, n)
  BY Zenon DEF Do, With, Eat, Build

LEMMA SitsHas ==
  \A x, q, c, n, t : Sits(x, q, c, n, t) =>
    /\ IsSequence(q) /\ n \in Nat /\ n = Len(done) /\ c \in Nat \ {0} /\ c = current /\ t = Peek
    /\ x = Head(todo) /\ q = Tail(todo) /\ Again = x /\ Holds(x, q, c, n, t)
    /\ x.base \in Nat /\ x.base <= n /\ EofIsLast /\ InStep /\ Listing /\ Ready(x, now)
    /\ now.len = n
  <1>. TAKE x, q, c, n, t
  <1>. HAVE Sits(x, q, c, n, t)
  <1>1. /\ Frame(x, q, n) /\ c = current /\ t = Peek /\ c \in Nat \ {0}
        /\ Holds(x, q, c, n, t) /\ InStep /\ EofIsLast /\ Listing
    BY DEF Sits
  <1>2. /\ IsSequence(q) /\ n \in Nat /\ n = Len(done) /\ x = Head(todo) /\ q = Tail(todo)
        /\ x.base \in Nat /\ x.base <= n /\ Ready(x, now) /\ now.len = n
    BY <1>1 DEF Frame
  <1>. QED  BY <1>1, <1>2 DEF Again

LEMMA ExpressionReads ==
  ASSUME ParseInv, NEW x, NEW q, NEW c, NEW n, NEW t, Sits(x, q, c, n, t),
         x.do = "expr", Go(<<Do("ternary"), Do("assignment")>>)
  PROVE  ReadInv'
  <1>. DEFINE A == Item("ternary", "none", n)  B == Item("assignment", "none", n)
  <1>1. /\ IsSequence(q) /\ n \in Nat /\ n = Len(done) /\ c \in Nat \ {0} /\ Holds(x, q, c, n, t)
    BY SitsHas
  <1>2. A.do = "ternary" /\ B.do = "assignment" /\ B.base = n  BY ItemHas
  <1>3. Do("ternary") = A /\ Do("assignment") = B  BY <1>1, ItemsAre, Zenon
  <1>. HIDE DEF A, B
  <1>4. Go(<<A, B>>)  BY <1>3
  <1>5. Expects(q, c, 0, n)
    <2>1. x.do \in Operands /\ Yield(x) = 0  BY DEF Operands, Yield
    <2>. QED  BY <1>1, <2>1 DEF Holds, AtValue
  <1>6. Expects(Cons(B, q), c, 0, n)
    <2>1. B.do \in {"question", "assignment"} /\ 0 \in 0 .. 1  BY <1>2
    <2>. QED  BY <1>1, <1>2, <1>5, <2>1, FoldLow, Zenon DEF FoldsLow
  <1>7. AtValue(A, Cons(B, q), c, n)
    <2>1. A.do \in Operands /\ Yield(A) = 0 /\ A.do # "primary"  BY <1>2 DEF Operands, Yield
    <2>. QED  BY <1>6, <2>1 DEF AtValue
  <1>8. <<A, B>> \o q = Cons(A, Cons(B, q)) /\ IsSequence(Cons(B, q)) /\ IsSequence(Cons(A, Cons(B, q)))
    BY <1>1, ConsIs, Put2, Zenon
  <1>. DEFINE w == Cons(A, Cons(B, q))
  <1>9. ReadsOn(w, c, n, t)  BY <1>7, <1>8, AtReads, Zenon
  <1>10. w = <<A, B>> \o q /\ IsSequence(w)  BY <1>8
  <1>. HIDE DEF w
  <1>. QED  BY <1>4, <1>9, <1>10, GoLands

\* The chain of the binary levels, and what follows it.
LEMMA ChainExpects ==
  ASSUME NEW q, IsSequence(q), NEW c, NEW n, c \in Nat \ {0}, n \in Nat, NEW l, l \in 1 .. 6,
         Expects(q, c, l, n), NEW A, NEW B, A = Item("unary", "none", n), B = Item("operators", l, n)
  PROVE  /\ \A t : ReadsOn(Cons(A, Cons(B, q)), c, n, t)
         /\ IsSequence(Cons(B, q)) /\ IsSequence(Cons(A, Cons(B, q)))
  <1>1. A.do = "unary" /\ B.do = "operators" /\ B.arg = l /\ B.base = n  BY ItemHas
  <1>2. Expects(Cons(B, q), c, 7, n)
    <2>1. 7 \in 0 .. 7 /\ B.arg <= 7 /\ B.arg \in 1 .. 6 /\ Expects(q, c, B.arg, n)  BY <1>1
    <2>. QED  BY <1>1, <2>1, FoldOperators, Zenon DEF FoldsOperators
  <1>3. AtValue(A, Cons(B, q), c, n)
    <2>1. A.do \in Operands /\ Yield(A) = 7 /\ A.do # "primary"  BY <1>1 DEF Operands, Yield
    <2>. QED  BY <1>2, <2>1 DEF AtValue
  <1>4. IsSequence(Cons(B, q)) /\ IsSequence(Cons(A, Cons(B, q)))  BY ConsIs, Zenon
  <1>. QED  BY <1>3, <1>4, AtReads, Zenon

LEMMA TernaryReads ==
  ASSUME ParseInv, NEW x, NEW q, NEW c, NEW n, NEW t, Sits(x, q, c, n, t),
         x.do = "ternary", Go(Chain(1) \o <<Do("question")>>)
  PROVE  ReadInv'
  <1>. DEFINE A == Item("unary", "none", n)  B == Item("operators", 1, n)  C == Item("question", "none", n)
  <1>1. /\ IsSequence(q) /\ n \in Nat /\ n = Len(done) /\ c \in Nat \ {0} /\ Holds(x, q, c, n, t)
    BY SitsHas
  <1>2. C.do = "question" /\ C.base = n  BY ItemHas
  <1>3. Do("unary") = A /\ With("operators", 1) = B /\ Do("question") = C  BY <1>1, ItemsAre, Zenon
  <1>. HIDE DEF A, B, C
  <1>4. Go(<<A, B, C>>)
    <2>1. Chain(1) \o <<Do("question")>> = <<A, B>> \o <<C>>  BY <1>3, Zenon DEF Chain
    <2>. QED  BY <2>1, Triple, Zenon
  <1>5. Expects(q, c, 0, n)
    <2>1. x.do \in Operands /\ Yield(x) = 0  BY DEF Operands, Yield
    <2>. QED  BY <1>1, <2>1 DEF Holds, AtValue
  <1>6. Expects(Cons(C, q), c, 1, n) /\ IsSequence(Cons(C, q))
    <2>1. C.do \in {"question", "assignment"} /\ 1 \in 0 .. 1  BY <1>2
    <2>2. IsSequence(Cons(C, q))  BY <1>1, ConsIs
    <2>. QED  BY <1>1, <1>2, <1>5, <2>1, <2>2, FoldLow, Zenon DEF FoldsLow
  <1>. DEFINE w == Cons(A, Cons(B, Cons(C, q)))
  <1>7. ReadsOn(w, c, n, t) /\ IsSequence(w)
    <2>1. 1 \in 1 .. 6  OBVIOUS
    <2>. QED  BY <1>1, <1>6, <2>1, ChainExpects, Zenon DEF A, B
  <1>8. w = <<A, B, C>> \o q  BY <1>1, Put3, Zenon
  <1>. HIDE DEF w
  <1>. QED  BY <1>4, <1>7, <1>8, GoLands

LEMMA OperandReads ==
  ASSUME ParseInv, TextInv, NEW x, NEW q, NEW c, NEW n, NEW t, Sits(x, q, c, n, t),
         x.do = "operand", Doing("operand"), Go(Chain(Head(todo).arg))
  PROVE  ReadInv'
  <1>. DEFINE l == x.arg  A == Item("unary", "none", n)  B == Item("operators", l, n)
  <1>1. /\ IsSequence(q) /\ n \in Nat /\ n = Len(done) /\ c \in Nat \ {0} /\ Holds(x, q, c, n, t)
        /\ x = Head(todo)
    BY SitsHas
  <1>2. l \in 1 .. 6
    <2>2. Proper(Head(todo))  BY AgainProper DEF Again
    <2>. QED  BY <1>1, <2>2 DEF Proper
  <1>3. Do("unary") = A /\ With("operators", l) = B  BY <1>1, ItemsAre, Zenon
  <1>4. Go(<<A, B>>)  BY <1>1, <1>3, Zenon DEF Chain
  <1>5. Expects(q, c, l, n)
    <2>1. x.do \in Operands /\ Yield(x) = l  BY DEF Operands, Yield
    <2>. QED  BY <1>1, <2>1 DEF Holds, AtValue
  <1>. HIDE DEF l, A, B
  <1>. DEFINE w == Cons(A, Cons(B, q))
  <1>7. ReadsOn(w, c, n, t) /\ IsSequence(w)
    BY <1>1, <1>2, <1>5, ChainExpects, Zenon DEF A, B
  <1>8. w = <<A, B>> \o q  BY <1>1, Put2, Zenon
  <1>. HIDE DEF w
  <1>. QED  BY <1>4, <1>7, <1>8, GoLands

LEMMA CallReads ==
  ASSUME ParseInv, NEW x, NEW q, NEW c, NEW n, NEW t, Sits(x, q, c, n, t),
         x.do \in {"call", "unary"}, Go(<<Do("primary"), Do("postfix")>>)
  PROVE  ReadInv'
  <1>. DEFINE A == Item("primary", "none", n)  B == Item("postfix", "none", n)
  <1>1. /\ IsSequence(q) /\ n \in Nat /\ n = Len(done) /\ c \in Nat \ {0} /\ Holds(x, q, c, n, t)
    BY SitsHas
  <1>2. A.do = "primary" /\ B.do = "postfix" /\ B.base = n  BY ItemHas
  <1>3. Do("primary") = A /\ Do("postfix") = B  BY <1>1, ItemsAre, Zenon
  <1>. HIDE DEF A, B
  <1>4. Go(<<A, B>>)  BY <1>3
  <1>5. Expects(q, c, 7, n)
    <2>1. x.do \in Operands /\ Yield(x) = 7  BY DEF Operands, Yield
    <2>. QED  BY <1>1, <2>1 DEF Holds, AtValue
  <1>6. Expects(Cons(B, q), c, 7, n)
    BY <1>1, <1>2, <1>5, FoldPostfix, Zenon DEF FoldsPostfix
  <1>7. AtValue(A, Cons(B, q), c, n)
    <2>1. A.do \in Operands /\ Yield(A) = 7  BY <1>2 DEF Operands, Yield
    <2>2. Headed(Cons(B, q), "postfix")  BY <1>1, <1>2, Zenon DEF Headed
    <2>. QED  BY <1>6, <2>1, <2>2 DEF AtValue
  <1>8. <<A, B>> \o q = Cons(A, Cons(B, q)) /\ IsSequence(Cons(B, q)) /\ IsSequence(Cons(A, Cons(B, q)))
    BY <1>1, ConsIs, Put2, Zenon
  <1>. DEFINE w == Cons(A, Cons(B, q))
  <1>9. ReadsOn(w, c, n, t)  BY <1>7, <1>8, AtReads, Zenon
  <1>10. w = <<A, B>> \o q /\ IsSequence(w)  BY <1>8
  <1>. HIDE DEF w
  <1>. QED  BY <1>4, <1>9, <1>10, GoLands

-----------------------------------------------------------------------------
\* A token is taken, and a piece put on the others.
LEMMA Pushes ==
  ASSUME ParseInv, NEW x, NEW q, NEW c, NEW n, NEW t, Sits(x, q, c, n, t),
         UNCHANGED input, Advance, NEW v, done' = Append(done, v), t # "eof"
  PROVE  /\ c <= Len(tokens) /\ Len(tokens) \in Nat /\ tokens[c] = t /\ tokens'[c] = t
         /\ Kept /\ KeptBelow(n) /\ Len(tokens) <= Len(tokens')
         /\ current' = c + 1 /\ Len(done') = n + 1 /\ done'[n + 1] = v
  <1>1. c = current /\ t = Peek /\ EofIsLast /\ n \in Nat /\ n = Len(done)  BY SitsHas
  <1>2. /\ current <= Len(tokens) /\ Len(tokens) \in Nat
        /\ current' = current + 1 /\ tokens[current] = Peek /\ Kept /\ tokens'[current] = Peek
        /\ Len(tokens) <= Len(tokens')
    BY <1>1, CursorSteps
  <1>3. /\ Len(done') = Len(done) + 1 /\ done'[Len(done) + 1] = v
        /\ \A j \in 1 .. Len(done) : done'[j] = done[j]
    BY PushLength DEF ParseInv
  <1>4. KeptBelow(n)  BY <1>1, <1>2, <1>3 DEF KeptBelow
  <1>. QED  BY <1>1, <1>2, <1>3, <1>4

LEMMA PushLands ==
  ASSUME ParseInv, NEW x, NEW q, NEW c, NEW n, NEW t, Sits(x, q, c, n, t),
         UNCHANGED input, Advance, NEW v, done' = Append(done, v), t # "eof", t \notin Quotes,
         NEW w, w = todo', IsSequence(w), NEW d, d = c + 1, NEW k, k = n + 1,
         \A u : ReadsOn(w, d, k, u)'
  PROVE  ReadInv'
  <1>1. t = Peek /\ EofIsLast /\ InStep /\ Holds(x, q, c, n, t) /\ x = Head(todo)  BY SitsHas
  <1>2. d = current' /\ k = Len(done')  BY Pushes
  <1>3. ~ Quoting  BY <1>1 DEF Holds, Quoting
  <1>4. PICK u : u = Peek'  OBVIOUS
  <1>5. ReadsOn(w, d, k, u)'  OBVIOUS
  <1>. QED  BY <1>1, <1>2, <1>3, <1>4, <1>5, Rests

\* Each of the four places is one where the parser reads on.
ReadingHolds ==
  /\ \A w, c, n, t : IsSequence(w) /\ Behind(w, c, n, t) => ReadsOn(w, c, n, t)
  /\ \A x, q, c, n, t : IsSequence(q) /\ AtValue(x, q, c, n) => ReadsOn(Cons(x, q), c, n, t)
  /\ \A x, q, c, n, t : IsSequence(q) /\ InValue(x, q, c, n) => ReadsOn(Cons(x, q), c, n, t)
  /\ \A x, q, c, n, t : IsSequence(q) /\ BeforeValue(x, q, c, n, t) => ReadsOn(Cons(x, q), c, n, t)
LEMMA ReadingThen == ReadingHolds'
  <1>1. ReadingHolds
    BY BehindReads, AtReads, InReads, BeforeReads, Zenon DEF ReadingHolds
  <1>. QED  BY <1>1, PTL

\* A sign: what comes behind it is its operand.
LEMMA SignReads ==
  ASSUME ParseInv, NEW x, NEW q, NEW c, NEW n, NEW t, Sits(x, q, c, n, t),
         x.do = "unary", t \in {"!", "-"}, Take(<<Do("unary"), Build("unary")>>)
  PROVE  ReadInv'
  <1>. DEFINE A == Item("unary", "none", n)  B == Item("build", "unary", n)  v == Word(t, {c})
              d == c + 1  k == n + 1
  <1>1. /\ IsSequence(q) /\ n \in Nat /\ n = Len(done) /\ c \in Nat \ {0} /\ Holds(x, q, c, n, t)
        /\ c = current /\ t = Peek /\ q = Tail(todo)
    BY SitsHas
  <1>2. A.do = "unary" /\ B.do = "build" /\ B.arg = "unary" /\ B.base = n  BY ItemHas
  <1>3. Do("unary") = A /\ Build("unary") = B  BY <1>1, ItemsAre, Zenon
  <1>4. v.keeps = {c} /\ v.covers = {c}  BY WordSound
  <1>. HIDE DEF A, B, v
  <1>. DEFINE w == Cons(A, Cons(B, q))
  <1>5. /\ Advance /\ UNCHANGED input /\ done' = Append(done, v) /\ todo' = <<A, B>> \o q
    BY <1>1, <1>3, Zenon DEF Take, Then, Push, v
  <1>6. w = todo' /\ IsSequence(w) /\ IsSequence(Cons(B, q))
    <2>1. IsSequence(Cons(B, q))  BY <1>1, ConsIs
    <2>2. IsSequence(w)  BY <2>1, ConsIs
    <2>3. w = todo'  BY <1>1, <1>5, Put2, Zenon
    <2>. QED  BY <2>1, <2>2, <2>3
  <1>7. t # "eof" /\ t \notin Quotes  BY SignsAre, Zenon
  <1>8. /\ c <= Len(tokens) /\ Len(tokens) \in Nat /\ tokens'[c] = t /\ KeptBelow(n)
        /\ done'[n + 1] = v
    BY <1>5, <1>7, Pushes
  <1>9. Expects(q, c, 7, n)
    <2>1. x.do \in Operands /\ Yield(x) = 7  BY DEF Operands, Yield
    <2>. QED  BY <1>1, <2>1 DEF Holds, AtValue
  <1>10. Expects(q, c, 7, n)'
    <2>1. c <= Len(tokens) + 1 /\ n <= n  BY <1>1, <1>8
    <2>. QED  BY <1>8, <1>9, <2>1, ExpectsStays, Zenon
  <1>11. Expects(Cons(B, q), d, 7, k)'
    <2>1. (done'[n + 1]).keeps = {c} /\ (done'[n + 1]).covers \subseteq c .. c /\ tokens'[c] \in {"!", "-"}
      BY <1>1, <1>4, <1>8
    <2>2. Builds1(B, {"unary"})'  BY <1>2 DEF Builds1
    <2>. QED  BY <1>1, <1>2, <1>10, <2>1, <2>2, FoldsAfter, Zenon DEF FoldsUnary
  <1>. HIDE DEF d, k
  <1>12. AtValue(A, Cons(B, q), d, k)'
    <2>1. A.do \in Operands /\ Yield(A) = 7 /\ A.do # "primary"  BY <1>2 DEF Operands, Yield
    <2>. QED  BY <1>11, <2>1 DEF AtValue, Yield
  <1>13. \A u : ReadsOn(w, d, k, u)'  BY <1>6, <1>12, ReadingThen, Zenon DEF ReadingHolds
  <1>14. d = c + 1 /\ k = n + 1  BY DEF d, k
  <1>. HIDE DEF w
  <1>. QED  BY <1>5, <1>6, <1>7, <1>13, <1>14, PushLands

\* A literal or a name: a value that has been read.
LEMMA Read1 ==
  ASSUME ParseInv, NEW x, NEW q, NEW c, NEW n, NEW t, Sits(x, q, c, n, t),
         x.do = "primary", NEW v, v.covers = {c}, Quiet(t), t # "eof", t \notin Quotes,
         Then(<<>>), Advance, Push(v)
  PROVE  ReadInv'
  <1>. DEFINE d == c + 1  k == n + 1
  <1>1. /\ IsSequence(q) /\ n \in Nat /\ n = Len(done) /\ c \in Nat \ {0} /\ Holds(x, q, c, n, t)
        /\ c = current /\ t = Peek /\ q = Tail(todo)
    BY SitsHas
  <1>2. UNCHANGED input /\ done' = Append(done, v)  BY DEF Then, Push
  <1>3. q = todo'
    <2>1. todo' = <<>> \o q  BY <1>1 DEF Then
    <2>. QED  BY <1>1, <2>1, Unrolled
  <1>4. /\ c <= Len(tokens) /\ Len(tokens) \in Nat /\ tokens'[c] = t /\ KeptBelow(n) /\ Kept
        /\ done'[n + 1] = v /\ tokens[c] = t
    BY <1>2, Pushes
  <1>5. Expects(q, c, 7, n)
    <2>1. x.do \in Operands /\ Yield(x) = 7  BY DEF Operands, Yield
    <2>. QED  BY <1>1, <2>1 DEF Holds, AtValue
  <1>6. Expects(q, c, 7, n)'
    <2>1. c <= Len(tokens) + 1 /\ n <= n  BY <1>1, <1>4
    <2>. QED  BY <1>4, <1>5, <2>1, ExpectsStays, Zenon
  <1>7. Over(c, c, 7)'
    <2>1. Over(c, c, 7)  BY <1>1, <1>4, OneToken DEF Quiet
    <2>. QED  BY <1>4, <2>1, OverStays, Zenon
  <1>8. \A u : Behind(q, d, k, u)'
    <2>1. k \in Nat \ {0} /\ k - 1 = n /\ d - 1 = c /\ c \in 1 .. d - 1 /\ 7 \in 0 .. 7  BY <1>1
    <2>2. (done'[k]).covers \subseteq c .. d - 1  BY <1>1, <1>4, <2>1
    <2>. HIDE DEF d, k
    <2>3. Expects(q, c, 7, k - 1)' /\ Over(c, d - 1, 7)'  BY <1>6, <1>7, <2>1
    <2>4. \A u : Below(q, 7, u)'
      <3>1. \A l \in 1 .. 6 : l < 7  OBVIOUS
      <3>. QED  BY <3>1 DEF Below
    <2>. QED  BY <2>1, <2>2, <2>3, <2>4, Zenon DEF Behind
  <1>. HIDE DEF d, k
  <1>9. \A u : ReadsOn(q, d, k, u)'  BY <1>1, <1>8, ReadingThen, Zenon DEF ReadingHolds
  <1>10. d = c + 1 /\ k = n + 1  BY DEF d, k
  <1>. QED  BY <1>1, <1>2, <1>3, <1>9, <1>10, PushLands

-----------------------------------------------------------------------------
\* The value that is called for, and a token that is there.
LEMMA CalledFor ==
  ASSUME NEW x, NEW q, NEW c, NEW n, NEW t, Sits(x, q, c, n, t), x.do = "primary"
  PROVE  \E a, p : /\ IsSequence(p) /\ q = Cons(a, p) /\ a.do = "postfix" /\ a.base = n
                   /\ Expects(p, c, 7, n) /\ Expects(q, c, 7, n)
  <1>1. IsSequence(q) /\ n \in Nat /\ Holds(x, q, c, n, t)  BY SitsHas
  <1>2. x.do \in Operands /\ Yield(x) = 7  BY DEF Operands, Yield
  <1>3. Expects(q, c, 7, n) /\ Headed(q, "postfix")  BY <1>1, <1>2 DEF Holds, AtValue
  <1>4. PICK a, p : IsSequence(p) /\ q = Cons(a, p) /\ a.do = "postfix"  BY <1>3 DEF Headed
  <1>5. Expects(Cons(a, p), c, 7, n)  BY <1>3, <1>4
  <1>6. a.base = n /\ Expects(p, c, 7, n)  BY <1>4, <1>5, ExpectsPostfix, Zenon
  <1>. QED  BY <1>3, <1>4, <1>6

LEMMA ThereIs ==
  ASSUME ParseInv, Peek # "eof"
  PROVE  current <= Len(tokens) /\ tokens[current] = Peek /\ Len(tokens) \in Nat /\ current \in Nat \ {0}
  <1>1. CursorInv  BY DEF ParseInv
  <1>2. Len(tokens) \in Nat  BY <1>1, DomainIs DEF CursorInv
  <1>3. current \in Nat \ {0}  BY <1>1, <1>2 DEF CursorInv
  <1>4. ~ (current > Len(tokens))  BY <1>1, PeekTells
  <1>. QED  BY <1>2, <1>3, <1>4 DEF Peek

\* A bracket opens at c: what closes it looks back at it.
LEMMA Opening ==
  ASSUME NEW p, IsSequence(p), NEW c, c \in Nat \ {0}, tokens[c] \in {"(", "["}, NEW n, n \in Nat,
         NEW y, y.do = "consume", y.arg \in {")", "]"}, NEW a, AfterBracket(a),
         NEW b, b \in 0 .. n, a.base = b, NEW g, Over(g, c - 1, 7), Within(b, n, g, c), Expects(p, g, 7, b)
  PROVE  Expects(Cons(y, Cons(a, p)), c + 1, 0, n)
  <1>1. Even(c + 1, (c + 1) - 1) /\ c + 1 \in Nat \ {0} /\ (c + 1) - 1 = c  BY NothingRead
  <1>2. Even(c + 1, c) /\ c \in Nat  BY <1>1
  <1>. QED  BY <1>2, FoldBracket, Zenon DEF FoldsBracket

LEMMA GroupReads ==
  ASSUME ParseInv, NEW x, NEW q, NEW c, NEW n, NEW t, Sits(x, q, c, n, t),
         x.do = "primary", t = "(", Go(Parens(<<Do("expr")>>))
  PROVE  ReadInv'
  <1>1. /\ IsSequence(q) /\ n \in Nat /\ n = Len(done) /\ c \in Nat \ {0} /\ c = current /\ t = Peek
    BY SitsHas
  <1>2. PICK a, p : /\ IsSequence(p) /\ q = Cons(a, p) /\ a.do = "postfix" /\ a.base = n
                    /\ Expects(p, c, 7, n) /\ Expects(q, c, 7, n)
    BY CalledFor
  <1>. DEFINE O == Item("consume", "(", n)  E == Item("expr", "none", n)  K == Item("consume", ")", n)
  <1>3. O.do = "consume" /\ O.arg = "(" /\ E.do = "expr" /\ K.do = "consume" /\ K.arg = ")"  BY ItemHas
  <1>4. Eat("(") = O /\ Do("expr") = E /\ Eat(")") = K  BY <1>1, ItemsAre, Zenon
  <1>. HIDE DEF O, E, K
  <1>5. Parens(<<Do("expr")>>) \o q = Cons(O, Cons(E, Cons(K, q)))
    BY <1>1, <1>4, ParensCons
  <1>6. IsSequence(Cons(K, q)) /\ IsSequence(Cons(E, Cons(K, q))) /\ IsSequence(Cons(O, Cons(E, Cons(K, q))))
    <2>1. IsSequence(Cons(K, q))  BY <1>1, ConsIs
    <2>2. IsSequence(Cons(E, Cons(K, q)))  BY <2>1, ConsIs
    <2>. QED  BY <2>1, <2>2, ConsIs
  <1>7. c <= Len(tokens) /\ tokens[c] = "("
    <2>1. "(" # "eof"  BY BracketsAreNoQuotes
    <2>. QED  BY <1>1, <2>1, ThereIs
  <1>8. Expects(Cons(K, q), c + 1, 0, n)
    <2>1. AfterBracket(a)  BY <1>2 DEF AfterBracket
    <2>2. n \in 0 .. n /\ tokens[c] \in {"(", "["} /\ K.arg \in {")", "]"}  BY <1>1, <1>3, <1>7
    <2>3. Over(c, c - 1, 7)  BY <1>1, NothingRead
    <2>4. Within(n, n, c, c)  BY <1>1 DEF Within
    <2>. QED  BY <1>1, <1>2, <1>3, <2>1, <2>2, <2>3, <2>4, Opening
  <1>9. Enters(Cons(E, Cons(K, q)), c, n)
    BY <1>3, <1>6, <1>8 DEF Enters
  <1>10. BeforeValue(O, Cons(E, Cons(K, q)), c, n, t)
    BY <1>3, <1>7, <1>9 DEF BeforeValue
  <1>. DEFINE w == Cons(O, Cons(E, Cons(K, q)))
  <1>11. ReadsOn(w, c, n, t)  BY <1>6, <1>10, BeforeReads, Zenon
  <1>12. w = Parens(<<Do("expr")>>) \o q /\ IsSequence(w)  BY <1>5, <1>6
  <1>. HIDE DEF w
  <1>. QED  BY <1>11, <1>12, GoLands

LEMMA ElementsRead ==
  ASSUME ParseInv, NEW x, NEW q, NEW c, NEW n, NEW t, Sits(x, q, c, n, t),
         x.do = "primary", t = "[", Skip(<<With("list", "element"), Eat("]"), Build("list")>>)
  PROVE  ReadInv'
  <1>1. /\ IsSequence(q) /\ n \in Nat /\ n = Len(done) /\ c \in Nat \ {0} /\ c = current /\ t = Peek
    BY SitsHas
  <1>2. Expects(q, c, 7, n)
    BY CalledFor
  <1>. DEFINE L == Item("list", "element", n)  K == Item("consume", "]", n)  B == Item("build", "list", n)
  <1>3. /\ L.do = "list" /\ L.arg = "element" /\ K.do = "consume" /\ K.arg = "]"
        /\ B.do = "build" /\ B.arg = "list" /\ B.base = n
    BY ItemHas
  <1>4. With("list", "element") = L /\ Build("list") = B /\ Eat("]") = K  BY <1>1, ItemsAre, Zenon
  <1>. HIDE DEF L, K, B
  <1>5. Skip(<<L, K, B>>)  BY <1>4
  <1>6. /\ IsSequence(Cons(B, q)) /\ IsSequence(Cons(K, Cons(B, q)))
        /\ IsSequence(Cons(L, Cons(K, Cons(B, q))))
    <2>1. IsSequence(Cons(B, q))  BY <1>1, ConsIs
    <2>2. IsSequence(Cons(K, Cons(B, q)))  BY <2>1, ConsIs
    <2>. QED  BY <2>1, <2>2, ConsIs
  <1>0. t # "eof" /\ t \notin Quotes  BY BracketsAreNoQuotes
  <1>7. c <= Len(tokens) /\ tokens[c] = "["  BY <1>0, <1>1, ThereIs
  <1>8. Expects(Cons(K, Cons(B, q)), c + 1, 0, n)
    <2>1. AfterBracket(B)  BY <1>3 DEF AfterBracket, Builds1, Postfixed
    <2>2. n \in 0 .. n /\ tokens[c] \in {"(", "["} /\ K.arg \in {")", "]"}  BY <1>1, <1>3, <1>7
    <2>3. Over(c, c - 1, 7)  BY <1>1, NothingRead
    <2>4. Within(n, n, c, c)  BY <1>1 DEF Within
    <2>. QED  BY <1>1, <1>2, <1>3, <2>1, <2>2, <2>3, <2>4, Opening
  <1>9. \A u : BeforeValue(L, Cons(K, Cons(B, q)), c + 1, n, u)
    <2>1. Headed(Cons(K, Cons(B, q)), "consume")  BY <1>3, <1>6, Zenon DEF Headed
    <2>2. L.arg # "param"  BY <1>3
    <2>. QED  BY <1>3, <1>8, <2>1, <2>2, Zenon DEF BeforeValue
  <1>. DEFINE w == Cons(L, Cons(K, Cons(B, q)))
  <1>10. \A u : ReadsOn(w, c + 1, n, u)
    <2>. DEFINE d == c + 1  r == Cons(K, Cons(B, q))
    <2>1. \A u : BeforeValue(L, r, d, n, u)  BY <1>9
    <2>2. IsSequence(r) /\ w = Cons(L, r)  BY <1>6
    <2>. HIDE DEF d, r, w
    <2>3. \A u : ReadsOn(Cons(L, r), d, n, u)  BY <2>1, <2>2, BeforeReads, Zenon
    <2>4. d = c + 1  BY DEF d
    <2>5. \A u : ReadsOn(w, d, n, u)  BY <2>2, <2>3
    <2>. QED  BY <2>4, <2>5
  <1>11. w = <<L, K, B>> \o q /\ IsSequence(w)
    <2>1. w = <<L, K, B>> \o q  BY <1>1, Put3, Zenon
    <2>. QED  BY <1>6, <2>1
  <1>. HIDE DEF w
  <1>. QED  BY <1>0, <1>5, <1>10, <1>11, SkipLands

LEMMA QuoteReads ==
  ASSUME ParseInv, NEW x, NEW q, NEW c, NEW n, NEW t, Sits(x, q, c, n, t),
         x.do = "primary", t \in Quotes, Skip(<<With("quoted", Peek)>>)
  PROVE  ReadInv'
  <1>1. /\ IsSequence(q) /\ n \in Nat /\ n = Len(done) /\ c \in Nat \ {0} /\ c = current /\ t = Peek
        /\ q = Tail(todo) /\ EofIsLast /\ InStep /\ x = Head(todo)
    BY SitsHas
  <1>2. Expects(q, c, 7, n)  BY CalledFor
  <1>. DEFINE Q == Item("quoted", t, n)  d == c + 1
  <1>3. Q.do = "quoted" /\ Q.base = n  BY ItemHas
  <1>4. With("quoted", Peek) = Q  BY <1>1, ItemsAre, Zenon
  <1>. HIDE DEF Q
  <1>. DEFINE w == Cons(Q, q)
  <1>5. w = todo' /\ Advance /\ UNCHANGED <<input, done>> /\ IsSequence(w)
    <2>1. todo' = <<Q>> \o q /\ Advance /\ UNCHANGED <<input, done>>
      BY <1>1, <1>4, Zenon DEF Skip, Then, NoNode
    <2>2. w = todo'  BY <1>1, <2>1, Put1, Zenon
    <2>. QED  BY <1>1, <2>1, <2>2, ConsIs
  <1>6. t # "eof" /\ Quiet(t)  BY LiteralsAreQuiet DEF Quotes
  <1>7. /\ c <= Len(tokens) /\ Len(tokens) \in Nat /\ tokens[c] = t /\ Kept /\ current' = d
    BY <1>1, <1>5, <1>6, CursorSteps
  <1>8. Gathered(Q, q, d, n)
    <2>1. c \in 1 .. d - 1 /\ d - 1 = c  BY <1>1
    <2>2. Over(c, c, 7)  BY <1>1, <1>6, <1>7, OneToken DEF Quiet
    <2>3. Within(n, n, c, c)  BY <1>1 DEF Within
    <2>. HIDE DEF d
    <2>. QED  BY <1>1, <1>2, <1>3, <2>1, <2>2, <2>3 DEF Gathered
  <1>9. KeptBelow(n)  BY <1>1, <1>5, <1>7 DEF KeptBelow
  <1>10. Gathered(Q, q, d, n)'
    <2>1. d \in Nat /\ d <= Len(tokens) + 1  BY <1>1, <1>7
    <2>. HIDE DEF d
    <2>. QED  BY <1>8, <1>9, <2>1, GatheredStays
  <1>11. ReadsLiteral(w, d, n)'  BY <1>1, <1>3, <1>10, Zenon DEF ReadsLiteral
  <1>12. Quoting' /\ ~ Quoting
    <2>1. Head(w) = Q  BY <1>1, ConsParts
    <2>2. w # <<>>
      <3>1. Len(w) # 0  BY <1>1, ConsIs
      <3>. QED  BY <3>1
    <2>. HIDE DEF w
    <2>. QED  BY <1>1, <1>3, <1>5, <2>1, <2>2 DEF Quoting
  <1>13. InStep'
    <2>1. CursorInv  BY DEF ParseInv
    <2>. QED  BY <1>1, <1>5, <1>12, <2>1, StaysInStep
  <1>14. n = Len(done')  BY <1>1, <1>5
  <1>15. PICK u : u = Peek'  OBVIOUS
  <1>. HIDE DEF w, d
  <1>. QED  BY <1>5, <1>7, <1>11, <1>13, <1>14, <1>15, ThenReads, Zenon DEF NowReads

-----------------------------------------------------------------------------
\* The loops that look at what follows a value.
TightBehind ==
  \A w, f, c, k :
    /\ k \in Nat \ {0} /\ f \in 1 .. c - 1 /\ Expects(w, f, 7, k - 1) /\ Over(f, c - 1, 7)
    /\ done[k].covers \subseteq f .. c - 1
    => \A u : Behind(w, c, k, u)
LEMMA TightIsBehind == TightBehind
  <1>1. \A w, u : Below(w, 7, u)
    <2>1. \A l \in 1 .. 6 : l < 7  OBVIOUS
    <2>. QED  BY <2>1 DEF Below
  <1>2. 7 \in 0 .. 7  OBVIOUS
  <1>. QED  BY <1>1, <1>2, Zenon DEF TightBehind, Behind
LEMMA TightThen == TightBehind'
  BY TightIsBehind, PTL

LEMMA BehindLoop ==
  ASSUME NEW x, NEW q, IsSequence(q), NEW c, NEW n, NEW t, Behind(Cons(x, q), c, n, t), c \in Nat \ {0},
         x.do \in {"operators", "question", "assignment", "postfix"}
  PROVE  \E f \in 1 .. c - 1, r \in 0 .. 7 :
           /\ n \in Nat \ {0} /\ x.base = n - 1 /\ Over(f, c - 1, r) /\ done[n].covers \subseteq f .. c - 1
           /\ Expects(Cons(x, q), f, r, n - 1)
           /\ x.do = "operators" => x.arg \in 1 .. 6 /\ x.arg <= r /\ Expects(q, f, x.arg, n - 1)
           /\ x.do \in {"question", "assignment"} => r \in 0 .. 1 /\ Expects(q, f, 0, n - 1)
           /\ x.do = "postfix" => r = 7 /\ Expects(q, f, 7, n - 1)
           /\ \A l \in 1 .. 6 : t \in Operators(l) => l < r \/ (l = r /\ x.do = "operators")
  <1>1. PICK f \in 1 .. c - 1, r \in 0 .. 7 :
          /\ n \in Nat \ {0} /\ Expects(Cons(x, q), f, r, n - 1) /\ Over(f, c - 1, r)
          /\ done[n].covers \subseteq f .. c - 1 /\ Below(Cons(x, q), r, t)
    BY DEF Behind
  <1>2. \A l \in 1 .. 6 : t \in Operators(l) => l < r \/ (l = r /\ x.do = "operators")
    <2>1. Headed(Cons(x, q), "operators") => x.do = "operators"
      BY SameCons, Zenon DEF Headed
    <2>. QED  BY <1>1, <2>1 DEF Below
  <1>. DEFINE m == n - 1
  <1>3. Expects(Cons(x, q), f, r, m)  BY <1>1
  <1>. HIDE DEF m
  <1>4. x.do = "operators" => x.arg \in 1 .. 6 /\ x.arg <= r /\ Expects(q, f, x.arg, m) /\ x.base = m
    BY <1>3, ExpectsOperators, Zenon
  <1>5. x.do \in {"question", "assignment"} => r \in 0 .. 1 /\ Expects(q, f, 0, m) /\ x.base = m
    BY <1>3, ExpectsLow, Zenon
  <1>6. x.do = "postfix" => r = 7 /\ Expects(q, f, 7, m) /\ x.base = m
    <2>. SUFFICES ASSUME x.do = "postfix" PROVE r = 7 /\ Expects(q, f, 7, m) /\ x.base = m
      OBVIOUS
    <2>. QED  BY <1>3, ExpectsPostfix
  <1>7. x.base = m  BY <1>4, <1>5, <1>6
  <1>8. m = n - 1  BY DEF m
  <1>9. /\ x.do = "operators" => x.arg \in 1 .. 6 /\ x.arg <= r /\ Expects(q, f, x.arg, n - 1)
        /\ x.do \in {"question", "assignment"} => r \in 0 .. 1 /\ Expects(q, f, 0, n - 1)
        /\ x.do = "postfix" => r = 7 /\ Expects(q, f, 7, n - 1)
        /\ x.base = n - 1
    BY <1>4, <1>5, <1>6, <1>7, <1>8
  <1>. QED  BY <1>1, <1>2, <1>9, Zenon

LEMMA LoopSits ==
  ASSUME NEW x, NEW q, NEW c, NEW n, NEW t, Sits(x, q, c, n, t),
         x.do \in {"operators", "question", "assignment", "postfix"}
  PROVE  \E f \in 1 .. c - 1, r \in 0 .. 7 :
           /\ n \in Nat \ {0} /\ x.base = n - 1 /\ Over(f, c - 1, r) /\ done[n].covers \subseteq f .. c - 1
           /\ Expects(Cons(x, q), f, r, n - 1)
           /\ x.do = "operators" => x.arg \in 1 .. 6 /\ x.arg <= r /\ Expects(q, f, x.arg, n - 1)
           /\ x.do \in {"question", "assignment"} => r \in 0 .. 1 /\ Expects(q, f, 0, n - 1)
           /\ x.do = "postfix" => r = 7 /\ Expects(q, f, 7, n - 1)
           /\ \A l \in 1 .. 6 : t \in Operators(l) => l < r \/ (l = r /\ x.do = "operators")
  <1>1. IsSequence(q) /\ c \in Nat \ {0} /\ Holds(x, q, c, n, t)  BY SitsHas
  <1>2. Behind(Cons(x, q), c, n, t)  BY <1>1 DEF Holds
  <1>. QED  BY <1>1, <1>2, BehindLoop

LEMMA LoopEnds ==
  ASSUME ParseInv, NEW x, NEW q, NEW c, NEW n, NEW t, Sits(x, q, c, n, t),
         \/ x.do \in {"question", "assignment", "postfix"}
         \/ x.do = "operators" /\ \A l \in x.arg .. 6 : t \notin Operators(l),
         Go(<<>>)
  PROVE  ReadInv'
  <1>1. /\ IsSequence(q) /\ n \in Nat /\ n = Len(done) /\ c \in Nat \ {0}
    BY SitsHas
  <1>0. x.do \in {"operators", "question", "assignment", "postfix"}  OBVIOUS
  <1>2. PICK f \in 1 .. c - 1, r \in 0 .. 7 :
           /\ n \in Nat \ {0} /\ x.base = n - 1 /\ Over(f, c - 1, r) /\ done[n].covers \subseteq f .. c - 1
           /\ x.do = "operators" => x.arg \in 1 .. 6 /\ x.arg <= r /\ Expects(q, f, x.arg, n - 1)
           /\ x.do \in {"question", "assignment"} => r \in 0 .. 1 /\ Expects(q, f, 0, n - 1)
           /\ x.do = "postfix" => r = 7 /\ Expects(q, f, 7, n - 1)
           /\ \A l \in 1 .. 6 : t \in Operators(l) => l < r \/ (l = r /\ x.do = "operators")
    BY <1>0, LoopSits
  <1>3. \E s \in 0 .. 7 : s <= r /\ Expects(q, f, s, n - 1) /\ Below(q, s, t)
    <2>1. CASE x.do = "operators"
      <3>1. x.arg \in 0 .. 7 /\ x.arg <= r /\ Expects(q, f, x.arg, n - 1)  BY <1>2, <2>1
      <3>2. \A l \in 1 .. 6 : t \in Operators(l) => l < x.arg
        <4>1. x.arg \in 1 .. 6 /\ \A l \in x.arg .. 6 : t \notin Operators(l)  BY <1>2, <2>1
        <4>. QED  BY <4>1
      <3>. QED  BY <3>1, <3>2 DEF Below
    <2>2. CASE x.do \in {"question", "assignment"}
      <3>1. 0 \in 0 .. 7 /\ 0 <= r /\ Expects(q, f, 0, n - 1)  BY <1>2, <2>2
      <3>2. \A l \in 1 .. 6 : t \notin Operators(l)
        <4>1. r \in 0 .. 1 /\ \A l \in 1 .. 6 : t \in Operators(l) => l < r  BY <1>2, <2>2
        <4>. QED  BY <4>1
      <3>. QED  BY <3>1, <3>2 DEF Below
    <2>3. CASE x.do = "postfix"
      <3>1. r = 7 /\ Expects(q, f, 7, n - 1)  BY <1>2, <2>3
      <3>2. Below(q, 7, t)
        <4>1. \A l \in 1 .. 6 : l < 7  OBVIOUS
        <4>. QED  BY <4>1 DEF Below
      <3>. QED  BY <3>1, <3>2
    <2>. QED  BY <1>0, <2>1, <2>2, <2>3
  <1>4. PICK s \in 0 .. 7 : s <= r /\ Expects(q, f, s, n - 1) /\ Below(q, s, t)  BY <1>3
  <1>5. Over(f, c - 1, s)
    <2>1. s \in Int /\ r \in Int  OBVIOUS
    <2>. QED  BY <1>2, <1>4, <2>1, OverWeaker
  <1>6. Behind(q, c, n, t)  BY <1>2, <1>4, <1>5 DEF Behind
  <1>7. ReadsOn(q, c, n, t)  BY <1>1, <1>6, BehindReads
  <1>8. q = <<>> \o q  BY <1>1, Unrolled
  <1>. QED  BY <1>1, <1>7, <1>8, GoLands

-----------------------------------------------------------------------------
\* A token is taken as a piece of its own.
LEMMA Taken ==
  ASSUME NEW x, NEW q, NEW c, NEW n, NEW t, Sits(x, q, c, n, t),
         NEW items, Take(items)
  PROVE  /\ Advance /\ UNCHANGED input /\ done' = Append(done, Word(t, {c})) /\ todo' = items \o q
  <1>1. c = current /\ t = Peek /\ q = Tail(todo)  BY SitsHas
  <1>. QED  BY <1>1, Zenon DEF Take, Then, Push

LEMMA TakenIs ==
  ASSUME ParseInv, NEW x, NEW q, NEW c, NEW n, NEW t, Sits(x, q, c, n, t), t # "eof",
         NEW items, Take(items)
  PROVE  /\ c <= Len(tokens) /\ Len(tokens) \in Nat /\ tokens[c] = t /\ tokens'[c] = t
         /\ Kept /\ KeptBelow(n)
         /\ (done'[n + 1]).keeps = {c} /\ (done'[n + 1]).covers = {c}
  <1>. DEFINE v == Word(t, {c})
  <1>2. Advance /\ UNCHANGED input /\ done' = Append(done, v)
    BY Taken
  <1>3. v.keeps = {c} /\ v.covers = {c}  BY WordSound
  <1>. HIDE DEF v
  <1>4. /\ c <= Len(tokens) /\ Len(tokens) \in Nat /\ tokens[c] = t /\ tokens'[c] = t
        /\ Kept /\ KeptBelow(n) /\ done'[n + 1] = v
    BY <1>2, Pushes
  <1>. QED  BY <1>3, <1>4

LEMMA WithinPush ==
  ASSUME NEW n, KeptBelow(n), NEW c, c \in Nat \ {0}, (done'[n + 1]).covers = {c}
  PROVE  \A b, f : b \in 0 .. n /\ f \in 1 .. c /\ Within(b, n, f, c - 1) => Within(b, n + 1, f, c)'
  <1>. SUFFICES ASSUME NEW b \in 0 .. n, NEW f \in 1 .. c, Within(b, n, f, c - 1)
                PROVE  Within(b, n + 1, f, c)'
    OBVIOUS
  <1>0. n \in Nat  BY DEF KeptBelow
  <1>. SUFFICES ASSUME NEW j \in b + 1 .. n + 1 PROVE (done'[j]).covers \subseteq f .. c
    BY DEF Within
  <1>1. CASE j = n + 1
    <2>1. (done'[j]).covers = {c}  BY <1>1
    <2>. QED  BY <1>1, <2>1
  <1>2. CASE j # n + 1
    <2>1. j \in b + 1 .. n /\ j \in 1 .. n  BY <1>0, <1>2
    <2>2. done'[j] = done[j]  BY <2>1 DEF KeptBelow
    <2>3. done[j].covers \subseteq f .. c - 1  BY <2>1 DEF Within
    <2>4. f .. c - 1 \subseteq f .. c  OBVIOUS
    <2>. QED  BY <2>2, <2>3, <2>4
  <1>. QED  BY <1>1, <1>2

LEMMA TakeLands ==
  ASSUME ParseInv, NEW x, NEW q, NEW c, NEW n, NEW t, Sits(x, q, c, n, t), t # "eof", t \notin Quotes,
         NEW items, Take(items), NEW w, w = items \o q, IsSequence(w),
         NEW d, d = c + 1, NEW k, k = n + 1, \A u : ReadsOn(w, d, k, u)'
  PROVE  ReadInv'
  <1>. DEFINE v == Word(t, {c})
  <1>1. Advance /\ UNCHANGED input /\ done' = Append(done, v) /\ todo' = items \o q  BY Taken
  <1>2. w = todo'  BY <1>1
  <1>. HIDE DEF v
  <1>. QED  BY <1>1, <1>2, PushLands

\* An operator of one of the levels: its right operand is read.
LEMMA OperatorReads ==
  ASSUME ParseInv, NEW x, NEW q, NEW c, NEW n, NEW t, Sits(x, q, c, n, t),
         x.do = "operators", NEW l \in x.arg .. 6, t \in Operators(l),
         Take(<<RightOperand(l), Finish("build", "binary"), Again>>)
  PROVE  ReadInv'
  <1>1. /\ IsSequence(q) /\ n \in Nat /\ n = Len(done) /\ c \in Nat \ {0} /\ x = Head(todo) /\ Again = x
    BY SitsHas
  <1>2. PICK f \in 1 .. c - 1, r \in 0 .. 7 :
           /\ n \in Nat \ {0} /\ x.base = n - 1 /\ Over(f, c - 1, r) /\ done[n].covers \subseteq f .. c - 1
           /\ x.arg \in 1 .. 6 /\ x.arg <= r /\ Expects(q, f, x.arg, n - 1)
           /\ \A i \in 1 .. 6 : t \in Operators(i) => i < r \/ i = r
    BY LoopSits
  <1>3. l \in 1 .. 6 /\ x.arg <= l /\ l <= r /\ l + 1 \in 1 .. 7  BY <1>2
  <1>. DEFINE R == IF l = 6 THEN Item("call", "none", n) ELSE Item("operand", l + 1, n)  b == n - 1  B == Item("build", "binary", b)  d == c + 1  k == n + 1
              e == c - 1
  <1>4. B.do = "build" /\ B.arg = "binary" /\ B.base = b  BY ItemHas
  <1>5. Finish("build", "binary") = B  BY <1>1, <1>2, Zenon DEF Finish
  <1>05. RightOperand(l) = R  BY <1>1, ItemsAre, Zenon DEF RightOperand
  <1>6. R.do \in Operands /\ Yield(R) = l + 1 /\ R.do # "primary"
    <2>1. CASE l = 6
      <3>1. R.do = "call"  BY <2>1, ItemHas
      <3>. QED  BY <2>1, <3>1 DEF Operands, Yield
    <2>2. CASE l # 6
      <3>1. R.do = "operand" /\ R.arg = l + 1  BY <2>2, ItemHas
      <3>. QED  BY <3>1 DEF Operands, Yield
    <2>. QED  BY <2>1, <2>2
  <1>7. t # "eof" /\ t \notin Quotes  BY <1>3, OperatorsSplit, Zenon
  <1>8. b \in Nat /\ b \in 0 .. n /\ b + 2 = k /\ b + 1 = n /\ b <= n  BY <1>1, <1>2
  <1>09. /\ c <= Len(tokens) /\ Len(tokens) \in Nat /\ tokens'[c] = t /\ Kept /\ KeptBelow(n)
         /\ (done'[n + 1]).keeps = {c} /\ (done'[n + 1]).covers = {c}
    BY <1>7, TakenIs
  <1>9. /\ c <= Len(tokens) /\ Len(tokens) \in Nat /\ tokens'[c] = t /\ Kept /\ KeptBelow(n)
        /\ (done'[k]).keeps = {c}
        /\ \A i, g : i \in 0 .. n /\ g \in 1 .. c /\ Within(i, n, g, c - 1) => Within(i, k, g, c)'
    BY <1>1, <1>09, WithinPush
  <1>10. Within(b, n, f, e)
    <2>1. \A j \in b + 1 .. n : j = n  BY <1>8
    <2>. QED  BY <1>2, <2>1 DEF Within
  <1>11. f \in 1 .. c /\ e <= Len(tokens) /\ f <= Len(tokens) + 1 /\ f \in Nat \ {0} /\ l \in 0 .. 7
    BY <1>1, <1>3, <1>9
  <1>12. Over(f, e, l)
    <2>1. l \in Int /\ r \in Int  OBVIOUS
    <2>. QED  BY <1>2, <1>3, <2>1, OverWeaker
  <1>13. Expects(q, f, x.arg, b)  BY <1>2
  <1>. HIDE DEF b, B, R, e, d, k
  <1>14. Expects(Cons(x, q), f, l, b)
    <2>1. x.base = b  BY <1>2 DEF b
    <2>. QED  BY <1>1, <1>2, <1>3, <1>8, <1>11, <1>13, <2>1, FoldOperators, Zenon DEF FoldsOperators
  <1>15. Expects(Cons(x, q), f, l, b)'  BY <1>8, <1>9, <1>11, <1>14, ExpectsStays, Zenon
  <1>16. Over(f, e, l)'  BY <1>9, <1>11, <1>12, OverStays, Zenon
  <1>17. Within(b, k, f, c)'  BY <1>8, <1>9, <1>10, <1>11 DEF e
  <1>18. Expects(Cons(B, Cons(x, q)), c + 1, l + 1, b + 2)'
    <2>1. Builds1(B, {"binary"})'  BY <1>4 DEF Builds1
    <2>2. (done'[b + 2]).keeps = {c} /\ Within(b, b + 2, f, c)'  BY <1>8, <1>9, <1>17
    <2>3. Over(f, c - 1, l)'  BY <1>16 DEF e
    <2>4. tokens'[c] \in Operators(l)  BY <1>9
    <2>. QED  BY <1>1, <1>3, <1>4, <1>8, <1>15, <2>1, <2>2, <2>3, <2>4, FoldsAfter, Zenon DEF FoldsBinary
  <1>19. Expects(Cons(B, Cons(x, q)), d, l + 1, k)'  BY <1>8, <1>18 DEF d
  <1>20. IsSequence(Cons(x, q)) /\ IsSequence(Cons(B, Cons(x, q)))
    <2>1. IsSequence(Cons(x, q))  BY <1>1, ConsIs
    <2>. QED  BY <2>1, ConsIs
  <1>. DEFINE p == Cons(B, Cons(x, q))  w == Cons(R, p)
  <1>21. IsSequence(p) /\ IsSequence(w)  BY <1>20, ConsIs
  <1>22. AtValue(R, p, d, k)'  BY <1>6, <1>19 DEF AtValue, Yield
  <1>. HIDE DEF p
  <1>23. \A u : ReadsOn(w, d, k, u)'  BY <1>21, <1>22, ReadingThen, Zenon DEF ReadingHolds
  <1>24. w = <<R, B, x>> \o q  BY <1>1, Put3, Zenon DEF p
  <1>25. Take(<<R, B, x>>)  BY <1>1, <1>5, <1>05, Zenon
  <1>26. d = c + 1 /\ k = n + 1  BY DEF d, k
  <1>. HIDE DEF w
  <1>. QED  BY <1>7, <1>21, <1>23, <1>24, <1>25, <1>26, TakeLands

-----------------------------------------------------------------------------
\* What follows a value of the lowest rank.
LEMMA LowTaken ==
  ASSUME ParseInv, NEW x, NEW q, NEW c, NEW n, NEW t, Sits(x, q, c, n, t),
         x.do \in {"question", "assignment"}, t \in {"?", "="} \cup DOMAIN Compound,
         NEW items, Take(items)
  PROVE  \E f, b : /\ b \in Nat /\ b = n - 1 /\ b \in 0 .. n + 1 /\ x.base = b
                   /\ Even(f, c)' /\ Within(b, n + 1, f, c)' /\ Expects(q, f, 0, b)'
  <1>1. /\ IsSequence(q) /\ n \in Nat /\ n = Len(done) /\ c \in Nat \ {0}
    BY SitsHas
  <1>0. x.do \in {"operators", "question", "assignment", "postfix"}  OBVIOUS
  <1>2. PICK f \in 1 .. c - 1, r \in 0 .. 7 :
           /\ n \in Nat \ {0} /\ x.base = n - 1 /\ Over(f, c - 1, r) /\ done[n].covers \subseteq f .. c - 1
           /\ Expects(q, f, 0, n - 1)
    BY <1>0, LoopSits
  <1>3. t \notin Openers \cup Enders /\ t # "eof"
    <2>1. t \in {"?", "=", ":", ","} \cup DOMAIN Compound  BY Zenon
    <2>. QED  BY <2>1, NoBrackets, Zenon
  <1>4. /\ c <= Len(tokens) /\ Len(tokens) \in Nat /\ tokens[c] = t /\ Kept /\ KeptBelow(n)
        /\ (done'[n + 1]).covers = {c}
    BY <1>3, TakenIs
  <1>5. Even(f, c)'
    <2>. DEFINE e == c - 1
    <2>1. Even(f, e) /\ e + 1 = c  BY <1>1, <1>2, OverWeaker
    <2>. HIDE DEF e
    <2>0. tokens[e + 1] \notin Openers \cup Enders  BY <1>3, <1>4, <2>1
    <2>3. Even(f, e + 1)  BY <2>0, <2>1, EvenNext, Zenon
    <2>2. Even(f, c)  BY <2>1, <2>3
    <2>. QED  BY <1>4, <2>2, EvenStays, Zenon
  <1>6. Within(n - 1, n + 1, f, c)'
    <2>1. \A j \in (n - 1) + 1 .. n : j = n  BY <1>1
    <2>2. Within(n - 1, n, f, c - 1)  BY <1>2, <2>1 DEF Within
    <2>3. n - 1 \in 0 .. n /\ f \in 1 .. c  BY <1>1, <1>2
    <2>. QED  BY <1>1, <1>4, <2>2, <2>3, WithinPush
  <1>7. Expects(q, f, 0, n - 1)'
    <2>1. f <= Len(tokens) + 1 /\ n - 1 <= n  BY <1>1, <1>4
    <2>. QED  BY <1>2, <1>4, <2>1, ExpectsStays, Zenon
  <1>8. n - 1 \in Nat /\ n - 1 \in 0 .. n + 1  BY <1>2
  <1>. QED  BY <1>2, <1>5, <1>6, <1>7, <1>8

LEMMA QuestionReads ==
  ASSUME ParseInv, NEW x, NEW q, NEW c, NEW n, NEW t, Sits(x, q, c, n, t),
         x.do = "question", t = "?",
         Take(<<Do("ternary"), Eat(":"), Do("ternary"), Finish("build", "ternary")>>)
  PROVE  ReadInv'
  <1>1. /\ IsSequence(q) /\ n \in Nat /\ n = Len(done) /\ c \in Nat \ {0} /\ x = Head(todo)
    BY SitsHas
  <1>2. t # "eof" /\ t \notin Quotes  BY NoBrackets, Zenon
  <1>3. PICK f, b : /\ b \in Nat /\ b = n - 1 /\ b \in 0 .. n + 1 /\ x.base = b
                    /\ Even(f, c)' /\ Within(b, n + 1, f, c)' /\ Expects(q, f, 0, b)'
    BY LowTaken
  <1>. DEFINE A == Item("ternary", "none", n)  K == Item("consume", ":", n)  B == Item("build", "ternary", b)
              d == c + 1  k == n + 1
  <1>4. /\ A.do = "ternary" /\ K.do = "consume" /\ K.arg = ":"
        /\ B.do = "build" /\ B.arg = "ternary" /\ B.base = b
    BY ItemHas
  <1>5. Do("ternary") = A /\ Eat(":") = K /\ Finish("build", "ternary") = B
    <2>1. Do("ternary") = A  BY <1>1, ItemsAre, Zenon
    <2>2. Eat(":") = K  BY <1>1, ItemsAre, Zenon
    <2>3. Finish("build", "ternary") = B  BY <1>1, <1>3, Zenon DEF Finish
    <2>. QED  BY <2>1, <2>2, <2>3
  <1>. HIDE DEF A, K, B
  <1>6. Take(<<A, K, A, B>>)  BY <1>5
  <1>7. k \in Nat /\ b \in 0 .. k  BY <1>1, <1>3
  <1>8. Expects(Cons(K, Cons(A, Cons(B, q))), d, 0, k)'
    <2>1. Builds1(B, {"ternary"})'  BY <1>4 DEF Builds1
    <2>2. Even(f, c)' /\ Within(b, k, f, c)' /\ Expects(q, f, 0, b)'  BY <1>3
    <2>. HIDE DEF k
    <2>3. Expects(Cons(K, Cons(A, Cons(B, q))), c + 1, 0, k)'
      BY <1>1, <1>4, <1>7, <2>1, <2>2, FoldsAfter, Zenon DEF FoldsColon
    <2>. QED  BY <2>3 DEF d
  <1>. HIDE DEF d, k
  <1>9. /\ IsSequence(Cons(B, q)) /\ IsSequence(Cons(A, Cons(B, q)))
        /\ IsSequence(Cons(K, Cons(A, Cons(B, q))))
    <2>1. IsSequence(Cons(B, q))  BY <1>1, ConsIs
    <2>2. IsSequence(Cons(A, Cons(B, q)))  BY <2>1, ConsIs
    <2>. QED  BY <2>1, <2>2, ConsIs
  <1>. DEFINE p == Cons(K, Cons(A, Cons(B, q)))  w == Cons(A, p)
  <1>10. IsSequence(p) /\ IsSequence(w)  BY <1>9, ConsIs
  <1>11. AtValue(A, p, d, k)'
    <2>1. A.do \in Operands /\ Yield(A) = 0 /\ A.do # "primary"  BY <1>4 DEF Operands, Yield
    <2>. QED  BY <1>8, <2>1 DEF AtValue, Yield
  <1>12. w = <<A, K, A, B>> \o q  BY <1>1, Put4, Zenon
  <1>. HIDE DEF p
  <1>13. \A u : ReadsOn(w, d, k, u)'  BY <1>10, <1>11, ReadingThen, Zenon DEF ReadingHolds
  <1>14. d = c + 1 /\ k = n + 1  BY DEF d, k
  <1>. HIDE DEF w
  <1>. QED  BY <1>2, <1>6, <1>10, <1>12, <1>13, <1>14, TakeLands

LEMMA AssignmentReads ==
  ASSUME ParseInv, NEW x, NEW q, NEW c, NEW n, NEW t, Sits(x, q, c, n, t),
         x.do = "assignment", t \in {"="} \cup DOMAIN Compound, NEW m, m \in {"assign", "compound"},
         Take(<<Do("expr"), Finish("build", m)>>)
  PROVE  ReadInv'
  <1>1. /\ IsSequence(q) /\ n \in Nat /\ n = Len(done) /\ c \in Nat \ {0} /\ x = Head(todo)
    BY SitsHas
  <1>02. t \in {"?", "="} \cup DOMAIN Compound  BY Zenon
  <1>2. t # "eof" /\ t \notin Quotes  BY NoBrackets, Zenon
  <1>3. PICK f, b : /\ b \in Nat /\ b = n - 1 /\ b \in 0 .. n + 1 /\ x.base = b
                    /\ Even(f, c)' /\ Within(b, n + 1, f, c)' /\ Expects(q, f, 0, b)'
    <2>1. x.do \in {"question", "assignment"}  OBVIOUS
    <2>. QED  BY <1>02, <2>1, LowTaken
  <1>. DEFINE A == Item("expr", "none", n)  B == Item("build", m, b)
              d == c + 1  k == n + 1
  <1>4. /\ A.do = "expr" /\ B.do = "build" /\ B.arg = m /\ B.base = b
    BY ItemHas
  <1>5. Do("expr") = A /\ Finish("build", m) = B
    <2>1. Do("expr") = A  BY <1>1, ItemsAre, Zenon
    <2>3. Finish("build", m) = B  BY <1>1, <1>3, Zenon DEF Finish
    <2>. QED  BY <2>1, <2>3
  <1>. HIDE DEF A, B
  <1>6. Take(<<A, B>>)  BY <1>5
  <1>7. k \in Nat /\ b \in 0 .. k  BY <1>1, <1>3
  <1>8. Expects(Cons(B, q), d, 0, k)'
    <2>1. Builds1(B, Lowest)'  BY <1>4 DEF Builds1, Lowest
    <2>2. Even(f, c)' /\ Within(b, k, f, c)' /\ Expects(q, f, 0, b)'  BY <1>3
    <2>. HIDE DEF k
    <2>3. Expects(Cons(B, q), c + 1, 0, k)'
      BY <1>1, <1>4, <1>7, <2>1, <2>2, FoldsAfter, Zenon DEF FoldsLowest
    <2>. QED  BY <2>3 DEF d
  <1>. HIDE DEF d, k
  <1>. DEFINE p == Cons(B, q)  w == Cons(A, p)
  <1>10. IsSequence(p) /\ IsSequence(w)
    <2>1. IsSequence(p)  BY <1>1, ConsIs
    <2>. QED  BY <2>1, ConsIs
  <1>11. AtValue(A, p, d, k)'
    <2>1. A.do \in Operands /\ Yield(A) = 0 /\ A.do # "primary"  BY <1>4 DEF Operands, Yield
    <2>. QED  BY <1>8, <2>1 DEF AtValue, Yield
  <1>12. w = <<A, B>> \o q  BY <1>1, Put2, Zenon
  <1>. HIDE DEF p
  <1>13. \A u : ReadsOn(w, d, k, u)'  BY <1>10, <1>11, ReadingThen, Zenon DEF ReadingHolds
  <1>14. d = c + 1 /\ k = n + 1  BY DEF d, k
  <1>. HIDE DEF w
  <1>. QED  BY <1>2, <1>6, <1>10, <1>12, <1>13, <1>14, TakeLands

-----------------------------------------------------------------------------
\* What follows a primary expression.
LEMMA PostfixSits ==
  ASSUME NEW x, NEW q, NEW c, NEW n, NEW t, Sits(x, q, c, n, t), x.do = "postfix"
  PROVE  \E f \in 1 .. c - 1, b \in Nat :
           /\ b = n - 1 /\ n \in Nat \ {0} /\ b \in 0 .. n /\ x.base = b
           /\ Over(f, c - 1, 7) /\ done[n].covers \subseteq f .. c - 1
           /\ Within(b, n, f, c - 1) /\ Within(b, n, f, c) /\ Expects(q, f, 7, b) /\ Expects(Cons(x, q), f, 7, b)
  <1>0. x.do \in {"operators", "question", "assignment", "postfix"}  OBVIOUS
  <1>1. c \in Nat \ {0}  BY SitsHas
  <1>2. PICK f \in 1 .. c - 1, r \in 0 .. 7 :
           /\ n \in Nat \ {0} /\ x.base = n - 1 /\ Over(f, c - 1, 7) /\ done[n].covers \subseteq f .. c - 1
           /\ Expects(q, f, 7, n - 1) /\ r = 7 /\ Expects(Cons(x, q), f, 7, n - 1)
    BY <1>0, LoopSits
  <1>3. \A j \in (n - 1) + 1 .. n : j = n  BY <1>2
  <1>4. f .. c - 1 \subseteq f .. c  BY <1>1
  <1>5. Within(n - 1, n, f, c - 1) /\ Within(n - 1, n, f, c)  BY <1>2, <1>3, <1>4 DEF Within
  <1>6. n - 1 \in Nat /\ n - 1 \in 0 .. n  BY <1>2
  <1>. QED  BY <1>2, <1>5, <1>6

LEMMA IndexReads ==
  ASSUME ParseInv, NEW x, NEW q, NEW c, NEW n, NEW t, Sits(x, q, c, n, t), x.do = "postfix", t = "[",
         Skip(<<Do("expr"), Eat("]"), Finish("build", "access"), Again>>)
  PROVE  ReadInv'
  <1>1. /\ IsSequence(q) /\ n \in Nat /\ n = Len(done) /\ c \in Nat \ {0} /\ x = Head(todo) /\ Again = x
        /\ c = current /\ t = Peek
    BY SitsHas
  <1>2. PICK f \in 1 .. c - 1, b \in Nat :
           /\ b \in 0 .. n /\ x.base = b
           /\ Over(f, c - 1, 7) /\ Within(b, n, f, c) /\ Expects(Cons(x, q), f, 7, b)
    BY PostfixSits
  <1>. DEFINE A == Item("expr", "none", n)  K == Item("consume", "]", n)  B == Item("build", "access", b)
  <1>3. /\ A.do = "expr" /\ K.do = "consume" /\ K.arg = "]"
        /\ B.do = "build" /\ B.arg = "access" /\ B.base = b
    BY ItemHas
  <1>4. Do("expr") = A /\ Eat("]") = K /\ Finish("build", "access") = B
    <2>1. Do("expr") = A  BY <1>1, ItemsAre, Zenon
    <2>2. Eat("]") = K  BY <1>1, ItemsAre, Zenon
    <2>3. Finish("build", "access") = B  BY <1>1, <1>2, Zenon DEF Finish
    <2>. QED  BY <2>1, <2>2, <2>3
  <1>. HIDE DEF A, K, B
  <1>5. Skip(<<A, K, B, x>>)  BY <1>1, <1>4
  <1>6. t # "eof" /\ t \notin Quotes  BY BracketsAreNoQuotes
  <1>7. c <= Len(tokens) /\ tokens[c] = "["  BY <1>1, <1>6, ThereIs
  <1>8. IsSequence(Cons(x, q)) /\ IsSequence(Cons(B, Cons(x, q))) /\ IsSequence(Cons(K, Cons(B, Cons(x, q))))
    <2>1. IsSequence(Cons(x, q))  BY <1>1, ConsIs
    <2>2. IsSequence(Cons(B, Cons(x, q)))  BY <2>1, ConsIs
    <2>. QED  BY <2>1, <2>2, ConsIs
  <1>9. Expects(Cons(K, Cons(B, Cons(x, q))), c + 1, 0, n)
    <2>1. AfterBracket(B)  BY <1>3 DEF AfterBracket, Builds1, Postfixed
    <2>2. tokens[c] \in {"(", "["} /\ K.arg \in {")", "]"}  BY <1>3, <1>7
    <2>. DEFINE p == Cons(x, q)
    <2>3. IsSequence(p) /\ Expects(p, f, 7, b)  BY <1>2, <1>8
    <2>. HIDE DEF p
    <2>4. Expects(Cons(K, Cons(B, p)), c + 1, 0, n)  BY <1>1, <1>2, <1>3, <2>1, <2>2, <2>3, Opening
    <2>. QED  BY <2>4 DEF p
  <1>. DEFINE r == Cons(K, Cons(B, Cons(x, q)))  w == Cons(A, r)  d == c + 1
  <1>10. IsSequence(r) /\ IsSequence(w)  BY <1>8, ConsIs
  <1>11. Expects(r, d, 0, n)  BY <1>9
  <1>12. w = <<A, K, B, x>> \o q  BY <1>1, Put4, Zenon
  <1>13. d = c + 1  OBVIOUS
  <1>. HIDE DEF r, d
  <1>14. AtValue(A, r, d, n)
    <2>1. A.do \in Operands /\ Yield(A) = 0 /\ A.do # "primary"  BY <1>3 DEF Operands, Yield
    <2>. QED  BY <1>11, <2>1 DEF AtValue
  <1>15. \A u : ReadsOn(w, d, n, u)  BY <1>10, <1>14, AtReads, Zenon
  <1>. HIDE DEF w
  <1>16. \A u : ReadsOn(w, c + 1, n, u)  BY <1>13, <1>15
  <1>. QED  BY <1>5, <1>6, <1>10, <1>12, <1>16, SkipLands

LEMMA MemberReads ==
  ASSUME ParseInv, NEW x, NEW q, NEW c, NEW n, NEW t, Sits(x, q, c, n, t), x.do = "postfix", t = ".",
         Skip(<<Do("name"), Do("method"), Finish("build", "member"), Again>>)
  PROVE  ReadInv'
  <1>1. /\ IsSequence(q) /\ n \in Nat /\ n = Len(done) /\ c \in Nat \ {0} /\ x = Head(todo) /\ Again = x
        /\ c = current /\ t = Peek
    BY SitsHas
  <1>2. PICK f \in 1 .. c - 1, b \in Nat :
           /\ b \in 0 .. n /\ x.base = b
           /\ Over(f, c - 1, 7) /\ Within(b, n, f, c) /\ Expects(Cons(x, q), f, 7, b)
    BY PostfixSits
  <1>. DEFINE A == Item("name", "none", n)  K == Item("method", "none", n)  B == Item("build", "member", b)
  <1>3. /\ A.do = "name" /\ K.do = "method"
        /\ B.do = "build" /\ B.arg = "member" /\ B.base = b
    BY ItemHas
  <1>4. Do("name") = A /\ Do("method") = K /\ Finish("build", "member") = B
    <2>1. Do("name") = A  BY <1>1, ItemsAre, Zenon
    <2>2. Do("method") = K  BY <1>1, ItemsAre, Zenon
    <2>3. Finish("build", "member") = B  BY <1>1, <1>2, Zenon DEF Finish
    <2>. QED  BY <2>1, <2>2, <2>3
  <1>. HIDE DEF A, K, B
  <1>5. Skip(<<A, K, B, x>>)  BY <1>1, <1>4
  <1>6. t # "eof" /\ t \notin Quotes /\ Quiet(t)
    <2>1. t # "eof" /\ t \notin Quotes  BY DEF Quotes
    <2>. QED  BY <2>1, LiteralsAreQuiet, Zenon
  <1>7. c <= Len(tokens) /\ tokens[c] = t  BY <1>1, <1>6, ThereIs
  <1>8. IsSequence(Cons(x, q)) /\ IsSequence(Cons(B, Cons(x, q))) /\ IsSequence(Cons(K, Cons(B, Cons(x, q))))
    <2>1. IsSequence(Cons(x, q))  BY <1>1, ConsIs
    <2>2. IsSequence(Cons(B, Cons(x, q)))  BY <2>1, ConsIs
    <2>. QED  BY <2>1, <2>2, ConsIs
  <1>. DEFINE d == c + 1  p == Cons(x, q)  r == Cons(K, Cons(B, Cons(x, q)))  w == Cons(A, r)
  <1>9. Gathered(B, p, d, n)
    <2>. DEFINE e == c - 1
    <2>1. Over(f, e, 7) /\ e + 1 = c  BY <1>1, <1>2
    <2>. HIDE DEF e
    <2>2. Quiet(tokens[e + 1])  BY <1>6, <1>7, <2>1
    <2>3. Over(f, e + 1, 7)  BY <2>1, <2>2, QuietNext, Zenon
    <2>4. Over(f, c, 7)  BY <2>1, <2>3
    <2>5. d - 1 = c /\ f \in 1 .. d - 1  BY <1>1
    <2>6. Over(f, d - 1, 7) /\ Within(b, n, f, d - 1) /\ Expects(p, f, 7, b)  BY <1>2, <2>4, <2>5
    <2>. HIDE DEF d, p
    <2>. QED  BY <1>2, <1>3, <2>5, <2>6 DEF Gathered
  <1>10. InMember(K, Cons(B, p), d, n)
    <2>1. Builds1(B, {"member"}) /\ IsSequence(p)  BY <1>3, <1>8 DEF Builds1
    <2>. QED  BY <1>3, <1>9, <2>1, Zenon DEF InMember
  <1>11. InValue(A, r, d, n)
    <2>1. r = Cons(K, Cons(B, p)) /\ IsSequence(Cons(B, p))  BY <1>8
    <2>. QED  BY <1>3, <1>10, <2>1, Zenon DEF InValue
  <1>12. IsSequence(r) /\ IsSequence(w)  BY <1>8, ConsIs
  <1>13. w = <<A, K, B, x>> \o q  BY <1>1, Put4, Zenon
  <1>14. d = c + 1  OBVIOUS
  <1>. HIDE DEF r, d
  <1>15. \A u : ReadsOn(w, d, n, u)  BY <1>11, <1>12, InReads, Zenon
  <1>. HIDE DEF w
  <1>16. \A u : ReadsOn(w, c + 1, n, u)  BY <1>14, <1>15
  <1>. QED  BY <1>5, <1>6, <1>12, <1>13, <1>16, SkipLands

-----------------------------------------------------------------------------
\* The pieces of the item that ends are replaced by one.
LEMMA Replaces ==
  ASSUME ParseInv, NEW x, NEW q, NEW c, NEW n, NEW t, Sits(x, q, c, n, t),
         UNCHANGED input, Stay \/ (Advance /\ t # "eof"), NEW v, Reduced(v)
  PROVE  /\ Kept /\ Len(tokens) \in Nat /\ c <= Len(tokens) + 1 /\ Len(tokens) <= Len(tokens')
         /\ x.base \in Nat /\ x.base <= n /\ x.base \in 0 .. n /\ KeptBelow(x.base)
         /\ Len(done') = x.base + 1 /\ done'[x.base + 1] = v
         /\ Stay => current' = c /\ Peek' = t
         /\ ~ Stay => current' = c + 1 /\ tokens[c] = t /\ tokens'[c] = t /\ c <= Len(tokens)
  <1>1. /\ n \in Nat /\ n = Len(done) /\ c = current /\ t = Peek /\ x = Head(todo) /\ EofIsLast
        /\ x.base \in Nat /\ x.base <= n
    BY SitsHas
  <1>. DEFINE b == x.base
  <1>2. IsSequence(done) /\ b \in Nat /\ b <= Len(done)  BY <1>1 DEF ParseInv
  <1>3. done' = Append(SubSeq(done, 1, b), v)  BY <1>1 DEF Reduced
  <1>. HIDE DEF b
  <1>4. Len(done') = b + 1 /\ done'[b + 1] = v /\ \A j \in 1 .. b : done'[j] = done[j]
    BY <1>2, <1>3, ReducedPieces
  <1>5. CASE Stay
    <2>1. /\ current \in Nat \ {0} /\ current <= Len(tokens) + 1 /\ Len(tokens) \in Nat
          /\ current' = current /\ Kept /\ Peek' = Peek /\ Len(tokens) <= Len(tokens')
      BY <1>5, CursorRests
    <2>2. KeptBelow(b)  BY <1>2, <1>4, <2>1 DEF KeptBelow
    <2>. QED  BY <1>1, <1>4, <1>5, <2>1, <2>2 DEF b
  <1>6. CASE Advance /\ t # "eof" /\ ~ Stay
    <2>1. /\ current \in Nat \ {0} /\ current <= Len(tokens) /\ Len(tokens) \in Nat
          /\ current' = current + 1 /\ tokens[current] = Peek /\ Kept /\ tokens'[current] = Peek
          /\ Len(tokens) <= Len(tokens')
      BY <1>1, <1>6, CursorSteps
    <2>2. KeptBelow(b)  BY <1>2, <1>4, <2>1 DEF KeptBelow
    <2>. QED  BY <1>1, <1>4, <1>6, <2>1, <2>2 DEF b
  <1>. QED  BY <1>5, <1>6

LEMMA ReplaceLands ==
  ASSUME ParseInv, NEW x, NEW q, NEW c, NEW n, NEW t, Sits(x, q, c, n, t),
         UNCHANGED input, NEW v, Reduced(v), Stay \/ (Advance /\ t # "eof" /\ t \notin Quotes),
         NEW w, w = todo', IsSequence(w), NEW d, d = current', NEW k, k = Len(done'), NEW u, u = Peek',
         ReadsOn(w, d, k, u)'
  PROVE  ReadInv'
  <1>1. t = Peek /\ EofIsLast /\ InStep /\ Holds(x, q, c, n, t) /\ x = Head(todo)  BY SitsHas
  <1>2. ~ Quoting  BY <1>1 DEF Holds, Quoting
  <1>. QED  BY <1>1, <1>2, Rests

LEMMA UpdateCovers ==
  ASSUME NEW name, NEW op, NEW value
  PROVE  Update(name, op, value).covers = name.keeps \cup value.covers
  <1>. DEFINE a == Node("identifier", name.words, {}, <<>>)
              b == Node("binary", <<op>>, {}, <<a, value>>)
  <1>1. a.covers = {}  BY LeafSound
  <1>2. b.covers = a.covers \cup value.covers
    <2>. HIDE DEF a
    <2>1. DOMAIN <<a, value>> = {1, 2}  OBVIOUS
    <2>2. {<<a, value>>[i].covers : i \in {1, 2}} = {a.covers, value.covers}  OBVIOUS
    <2>. QED  BY <2>1, <2>2 DEF b, Node
  <1>3. Update(name, op, value) = Node("assign", name.words, name.keeps, <<b>>)  BY DEF Update
  <1>. HIDE DEF a, b
  <1>4. Node("assign", name.words, name.keeps, <<b>>).covers = name.keeps \cup b.covers
    <2>1. DOMAIN <<b>> = {1}  OBVIOUS
    <2>2. {<<b>>[i].covers : i \in {1}} = {b.covers}  OBVIOUS
    <2>. QED  BY <2>1, <2>2 DEF Node
  <1>. QED  BY <1>1, <1>2, <1>3, <1>4

\* x++: a value of the same width, and the operator behind it.
LEMMA StepReads ==
  ASSUME ParseInv, NEW x, NEW q, NEW c, NEW n, NEW t, Sits(x, q, c, n, t), x.do = "postfix",
         t \in DOMAIN Step, done[n].keeps \subseteq done[n].covers,
         Then(<<Again>>), Advance, NEW v, v.covers \subseteq done[n].keeps \cup {c}, Reduced(v)
  PROVE  ReadInv'
  <1>1. /\ IsSequence(q) /\ n \in Nat /\ n = Len(done) /\ c \in Nat \ {0} /\ x = Head(todo) /\ Again = x
        /\ c = current /\ t = Peek /\ q = Tail(todo) /\ EofIsLast
    BY SitsHas
  <1>2. PICK f \in 1 .. c - 1, b \in Nat :
           /\ b = n - 1 /\ n \in Nat \ {0} /\ b \in 0 .. n /\ x.base = b
           /\ Over(f, c - 1, 7) /\ done[n].covers \subseteq f .. c - 1
           /\ Within(b, n, f, c - 1) /\ Within(b, n, f, c) /\ Expects(q, f, 7, b) /\ Expects(Cons(x, q), f, 7, b)
    BY ONLY Sits(x, q, c, n, t), x.do = "postfix", PostfixSits
  <1>3. t # "eof" /\ t \notin Quotes /\ Quiet(t)
    <2>1. t \in {"++", "--"}  BY DEF Step
    <2>2. t # "eof" /\ t \notin Quotes  BY <2>1 DEF Quotes
    <2>. QED  BY <2>2, LiteralsAreQuiet, Zenon
  <1>4. UNCHANGED input  BY DEF Then
  <1>5. /\ Kept /\ Len(tokens) \in Nat /\ c <= Len(tokens) /\ KeptBelow(b) /\ Len(done') = n
        /\ done'[n] = v /\ current' = c + 1 /\ tokens[c] = t
    <2>1. ~ Stay
      <3>0. Peek # "eof"  BY <1>1, <1>3
      <3>1. current' = current + 1 /\ current \in Nat  BY <3>0, <1>1, <1>3, <1>4, CursorSteps
      <3>. QED  BY <3>1 DEF Stay
    <2>2. /\ Kept /\ Len(tokens) \in Nat /\ KeptBelow(x.base)
          /\ Len(done') = x.base + 1 /\ done'[x.base + 1] = v
          /\ current' = c + 1 /\ tokens[c] = t /\ c <= Len(tokens)
      BY <1>3, <1>4, <2>1, Replaces
    <2>. QED  BY <1>1, <1>2, <2>2
  <1>. DEFINE d == c + 1  w == Cons(x, q)  e == c - 1
  <1>6. Over(f, c, 7)'
    <2>1. Over(f, e, 7) /\ e + 1 = c  BY <1>1, <1>2
    <2>. HIDE DEF e
    <2>2. Quiet(tokens[e + 1])  BY <1>3, <1>5, <2>1
    <2>3. Over(f, e + 1, 7)  BY <2>1, <2>2, QuietNext, Zenon
    <2>4. Over(f, c, 7)  BY <2>1, <2>3
    <2>. QED  BY <1>5, <2>4, OverStays, Zenon
  <1>7. Expects(w, f, 7, b)'
    <2>1. f <= Len(tokens) + 1 /\ b <= b  BY <1>1, <1>5
    <2>2. Expects(w, f, 7, b)  BY <1>2
    <2>. HIDE DEF w
    <2>. QED  BY <1>5, <2>1, <2>2, ExpectsStays, Zenon
  <1>8. d - 1 = c /\ f \in 1 .. d - 1 /\ n - 1 = b  BY <1>1, <1>2
  <1>9. (done'[n]).covers \subseteq f .. c
    <2>1. f .. c - 1 \subseteq f .. c /\ c \in f .. c  BY <1>1
    <2>. QED  BY <1>2, <1>5, <2>1
  <1>10. IsSequence(w) /\ w = todo'
    <2>1. IsSequence(w)  BY <1>1, ConsIs
    <2>2. todo' = <<x>> \o q  BY <1>1, Zenon DEF Then
    <2>3. w = todo'  BY <1>1, <2>2, Put1, Zenon
    <2>. QED  BY <2>1, <2>3
  <1>. HIDE DEF d, w
  <1>11. \A u : Behind(w, d, n, u)'
    <2>1. Over(f, d - 1, 7)' /\ (done'[n]).covers \subseteq f .. d - 1 /\ Expects(w, f, 7, n - 1)'
      BY <1>6, <1>7, <1>8, <1>9
    <2>. QED  BY <1>2, <1>8, <2>1, TightThen, Zenon DEF TightBehind
  <1>12. PICK u : u = Peek'  OBVIOUS
  <1>13. ReadsOn(w, d, n, u)'  BY <1>10, <1>11, ReadingThen, Zenon DEF ReadingHolds
  <1>14. d = current' /\ n = Len(done')  BY <1>5 DEF d
  <1>. QED  BY <1>3, <1>4, <1>10, <1>12, <1>13, <1>14, ReplaceLands

\* A call: the name is kept, the arguments are read.
LEMMA CalledReads ==
  ASSUME ParseInv, NEW x, NEW q, NEW c, NEW n, NEW t, Sits(x, q, c, n, t), x.do = "postfix",
         t = "(", done[n].keeps \subseteq done[n].covers,
         Then(<<With("list", "arg"), Eat(")"), Finish("build", "call"), Again>>),
         Advance, NEW v, v.covers \subseteq done[n].keeps, Reduced(v)
  PROVE  ReadInv'
  <1>1. /\ IsSequence(q) /\ n \in Nat /\ n = Len(done) /\ c \in Nat \ {0} /\ x = Head(todo) /\ Again = x
        /\ c = current /\ t = Peek /\ q = Tail(todo) /\ EofIsLast
    BY SitsHas
  <1>2. PICK f \in 1 .. c - 1, b \in Nat :
           /\ b = n - 1 /\ n \in Nat \ {0} /\ b \in 0 .. n /\ x.base = b
           /\ Over(f, c - 1, 7) /\ done[n].covers \subseteq f .. c - 1
           /\ Within(b, n, f, c - 1) /\ Within(b, n, f, c) /\ Expects(q, f, 7, b) /\ Expects(Cons(x, q), f, 7, b)
    BY ONLY Sits(x, q, c, n, t), x.do = "postfix", PostfixSits
  <1>3. t # "eof" /\ t \notin Quotes  BY BracketsAreNoQuotes
  <1>4. UNCHANGED input  BY DEF Then
  <1>5. /\ Kept /\ Len(tokens) \in Nat /\ c <= Len(tokens) /\ KeptBelow(b) /\ Len(done') = n
        /\ done'[n] = v /\ current' = c + 1 /\ tokens'[c] = t
    <2>1. ~ Stay
      <3>0. Peek # "eof"  BY <1>1, <1>3
      <3>1. current' = current + 1 /\ current \in Nat  BY <3>0, <1>1, <1>3, <1>4, CursorSteps
      <3>. QED  BY <3>1 DEF Stay
    <2>2. /\ Kept /\ Len(tokens) \in Nat /\ KeptBelow(x.base)
          /\ Len(done') = x.base + 1 /\ done'[x.base + 1] = v
          /\ current' = c + 1 /\ tokens'[c] = t /\ c <= Len(tokens)
      BY <1>3, <1>4, <2>1, Replaces
    <2>. QED  BY <1>1, <1>2, <2>2
  <1>. DEFINE L == Item("list", "arg", n)  K == Item("consume", ")", n)  B == Item("build", "call", b)
  <1>6. /\ L.do = "list" /\ L.arg = "arg" /\ K.do = "consume" /\ K.arg = ")"
        /\ B.do = "build" /\ B.arg = "call" /\ B.base = b
    BY ItemHas
  <1>7. With("list", "arg") = L /\ Eat(")") = K /\ Finish("build", "call") = B
    <2>1. With("list", "arg") = L  BY <1>1, ItemsAre, Zenon
    <2>2. Eat(")") = K  BY <1>1, ItemsAre, Zenon
    <2>3. Finish("build", "call") = B  BY <1>1, <1>2, Zenon DEF Finish
    <2>. QED  BY <2>1, <2>2, <2>3
  <1>. HIDE DEF L, K, B
  <1>. DEFINE e == c - 1  p == Cons(x, q)  d == c + 1  r == Cons(K, Cons(B, p))  w == Cons(L, r)
  <1>8. e <= Len(tokens) /\ Over(f, e, 7) /\ IsSequence(p) /\ Expects(p, f, 7, b) /\ f <= Len(tokens) + 1
    BY <1>1, <1>2, <1>5, ConsIs
  <1>9. IsSequence(Cons(B, p)) /\ IsSequence(r) /\ IsSequence(w)
    <2>. HIDE DEF p
    <2>1. IsSequence(Cons(B, p))  BY <1>8, ConsIs
    <2>2. IsSequence(r)  BY <2>1, ConsIs
    <2>. HIDE DEF r
    <2>. QED  BY <2>1, <2>2, ConsIs
  <1>10. w = todo'
    <2>1. todo' = <<L, K, B, x>> \o q  BY <1>1, <1>7, Zenon DEF Then
    <2>. QED  BY <1>1, <2>1, Put4, Zenon
  <1>11. d = current' /\ d = c + 1  BY <1>5
  <1>. HIDE DEF e, p, d
  <1>12. Over(f, e, 7)'  BY <1>5, <1>8, OverStays, Zenon
  <1>13. Expects(p, f, 7, b)'
    <2>1. b <= b  OBVIOUS
    <2>. QED  BY <1>5, <1>8, <2>1, ExpectsStays, Zenon
  <1>14. Expects(r, d, 0, n)'
    <2>1. Even(c + 1, c)'
      <3>1. c + 1 \in Nat \ {0} /\ c \in Nat /\ c + 1 <= c + 1 /\ (c + 1) - 1 = c /\ c + 1 .. c = {}
        BY <1>1
      <3>. QED  BY <3>1 DEF Even
    <2>2. Over(f, c - 1, 7)'  BY <1>12 DEF e
    <2>3. Within(b, n, f, c)'
      <3>1. \A j \in b + 1 .. n : j = n  BY <1>1, <1>2
      <3>2. f .. c - 1 \subseteq f .. c  BY <1>1
      <3>3. (done'[n]).covers \subseteq f .. c  BY <1>2, <1>5, <3>2
      <3>. QED  BY <3>1, <3>3 DEF Within
    <2>4. AfterBracket(B)'  BY <1>6 DEF AfterBracket, Builds1, Postfixed
    <2>5. tokens'[c] \in {"(", "["} /\ K.arg \in {")", "]"} /\ c \in Nat  BY <1>1, <1>5, <1>6
    <2>6. Expects(Cons(K, Cons(B, p)), c + 1, 0, n)'
      BY <1>1, <1>2, <1>6, <1>8, <1>13, <2>1, <2>2, <2>3, <2>4, <2>5, FoldsAfter, Zenon DEF FoldsBracket
    <2>. QED  BY <1>11, <2>6
  <1>15. \A u : BeforeValue(L, r, d, n, u)'
    <2>1. Headed(r, "consume")'  BY <1>6, <1>9, Zenon DEF Headed
    <2>2. L.arg # "param"  BY <1>6
    <2>. HIDE DEF r
    <2>. QED  BY <1>6, <1>14, <2>1, <2>2, Zenon DEF BeforeValue
  <1>. HIDE DEF r
  <1>16. PICK u : u = Peek'  OBVIOUS
  <1>17. ReadsOn(w, d, n, u)'  BY <1>9, <1>15, ReadingThen, Zenon DEF ReadingHolds
  <1>. HIDE DEF w
  <1>18. n = Len(done')  BY <1>5
  <1>. QED  BY <1>3, <1>4, <1>9, <1>10, <1>11, <1>16, <1>17, <1>18, ReplaceLands

-----------------------------------------------------------------------------
\* The text a node that is built was read from.
BuiltFrom(x, q, c, n, t, g, s) ==
  /\ Over(g, c - 1, s) /\ Within(x.base, n, g, c - 1) /\ Expects(q, g, s, x.base) /\ Below(q, s, t)

LEMMA JoinWithin ==
  \A b, m, n, g, f, e, d :
    /\ b \in Nat /\ m \in Nat /\ n \in Nat /\ Within(b, m, g, e) /\ Within(m, n, f, d)
    /\ g \in Nat /\ f \in Nat /\ e \in Nat /\ d \in Nat /\ g <= f /\ e <= d
    => Within(b, n, g, d)
  <1>. TAKE b, m, n, g, f, e, d
  <1>. HAVE /\ b \in Nat /\ m \in Nat /\ n \in Nat /\ Within(b, m, g, e) /\ Within(m, n, f, d)
            /\ g \in Nat /\ f \in Nat /\ e \in Nat /\ d \in Nat /\ g <= f /\ e <= d
  <1>1. \A j \in b + 1 .. n : j \in b + 1 .. m \/ j \in m + 1 .. n  OBVIOUS
  <1>2. g .. e \subseteq g .. d /\ f .. d \subseteq g .. d  OBVIOUS
  <1>. QED  BY <1>1, <1>2 DEF Within

\* The next item finds a value behind the cursor.
LEMMA BuildSits ==
  ASSUME NEW x, NEW q, NEW c, NEW n, NEW t, Sits(x, q, c, n, t),
         Builds1(x, Lowest \cup {"unary", "binary"})
  PROVE  \E f \in 1 .. c - 1, r \in 0 .. 7 :
           /\ n \in Nat \ {0} /\ c \in Nat \ {0} /\ IsSequence(q)
           /\ Expects(Cons(x, q), f, r, n - 1) /\ Over(f, c - 1, r) /\ done[n].covers \subseteq f .. c - 1
           /\ Within(n - 1, n, f, c - 1)
           /\ \A l \in 1 .. 6 : t \in Operators(l) => l < r
  <1>1. IsSequence(q) /\ c \in Nat \ {0} /\ Holds(x, q, c, n, t)  BY SitsHas
  <1>2. Behind(Cons(x, q), c, n, t)  BY <1>1 DEF Holds
  <1>3. PICK f \in 1 .. c - 1, r \in 0 .. 7 :
          /\ n \in Nat \ {0} /\ Expects(Cons(x, q), f, r, n - 1) /\ Over(f, c - 1, r)
          /\ done[n].covers \subseteq f .. c - 1 /\ Below(Cons(x, q), r, t)
    BY <1>2 DEF Behind
  <1>4. \A l \in 1 .. 6 : t \in Operators(l) => l < r
    <2>1. x.do # "operators"  BY DEF Builds1
    <2>2. ~ Headed(Cons(x, q), "operators")
      BY <1>1, <2>1, SameCons, Zenon DEF Headed
    <2>. QED  BY <1>3, <2>2 DEF Below
  <1>5. \A j \in (n - 1) + 1 .. n : j = n  BY <1>3
  <1>6. Within(n - 1, n, f, c - 1)  BY <1>3, <1>5 DEF Within
  <1>. QED  BY <1>1, <1>3, <1>4, <1>6

LEMMA UnaryFrom ==
  ASSUME NEW x, NEW q, NEW c, NEW n, NEW t, Sits(x, q, c, n, t), Builds1(x, {"unary"})
  PROVE  \E g \in 1 .. c - 1 :
           /\ BuiltFrom(x, q, c, n, t, g, 7) /\ n - 1 = x.base + 1 /\ n \in Nat /\ x.base \in Nat
           /\ done[n - 1].keeps = {g} /\ tokens[g] \in {"!", "-"}
  <1>0. Builds1(x, Lowest \cup {"unary", "binary"})  BY DEF Builds1
  <1>1. PICK f \in 1 .. c - 1, r \in 0 .. 7 :
           /\ n \in Nat \ {0} /\ c \in Nat \ {0} /\ IsSequence(q)
           /\ Expects(Cons(x, q), f, r, n - 1) /\ Over(f, c - 1, r)
           /\ Within(n - 1, n, f, c - 1)
    BY <1>0, BuildSits
  <1>. DEFINE m == n - 1  g == f - 1
  <1>2. Expects(Cons(x, q), f, r, m)  BY <1>1
  <1>. HIDE DEF m, g
  <1>3. /\ f - 1 \in Nat \ {0} /\ r = 7 /\ x.base \in Nat /\ m = x.base + 1
        /\ done[m].keeps = {f - 1} /\ Within(x.base, m, f - 1, f - 1)
        /\ tokens[f - 1] \in {"!", "-"} /\ Expects(q, f - 1, 7, x.base)
    <2>1. /\ f - 1 \in Nat \ {0} /\ f \in Nat \ {0} /\ r = 7 /\ x.base \in Nat /\ m = x.base + 1
          /\ done[m].keeps = {f - 1} /\ Within(x.base, m, f - 1, f - 1)
          /\ tokens[f - 1] \in {"!", "-"} /\ Expects(q, f - 1, 7, x.base)
      BY <1>1, <1>2, ExpectsUnary
    <2>. QED  BY <2>1
  <1>4. g \in Nat \ {0} /\ g + 1 = f /\ g <= f /\ g <= c - 1 /\ f \in Nat /\ c - 1 \in Nat /\ m \in Nat
    BY <1>1, <1>3 DEF g, m
  <1>5. tokens[g] \in {"!", "-"} /\ done[m].keeps = {g} /\ Within(x.base, m, g, g) /\ Expects(q, g, 7, x.base)
    BY <1>3 DEF g
  <1>6. tokens[g] \notin Openers \cup Enders /\ tokens[g] \notin OperandEnds  BY <1>5, SignsAre, Zenon
  <1>7. Over(g, g, 7)  BY <1>4, <1>6, OneToken
  <1>8. ~ IsOperator(g + 1)  BY <1>4, <1>6 DEF IsOperator
  <1>9. Over(g + 1, c - 1, 7)  BY <1>1, <1>3, <1>4
  <1>10. Over(g, c - 1, 7)
    <2>. DEFINE e == c - 1
    <2>1. Over(g + 1, e, 7)  BY <1>9
    <2>. HIDE DEF e
    <2>2. Over(g, e, 7)  BY <1>7, <1>8, <2>1, OverJoin, Zenon
    <2>. QED  BY <2>2 DEF e
  <1>11. Within(x.base, n, g, c - 1)
    <2>1. Within(m, n, f, c - 1)  BY <1>1 DEF m
    <2>. QED  BY <1>1, <1>3, <1>4, <1>5, <2>1, JoinWithin
  <1>12. Below(q, 7, t)
    <2>1. \A l \in 1 .. 6 : l < 7  OBVIOUS
    <2>. QED  BY <2>1 DEF Below
  <1>13. BuiltFrom(x, q, c, n, t, g, 7)  BY <1>5, <1>10, <1>11, <1>12 DEF BuiltFrom
  <1>14. g \in 1 .. c - 1 /\ n - 1 = m  BY <1>1, <1>4 DEF m
  <1>. QED  BY <1>1, <1>3, <1>5, <1>13, <1>14

LEMMA BinaryFrom ==
  ASSUME NEW x, NEW q, NEW c, NEW n, NEW t, Sits(x, q, c, n, t), Builds1(x, {"binary"})
  PROVE  \E g \in 1 .. c - 1, s \in 1 .. 6, e \in 1 .. c - 1 :
           /\ BuiltFrom(x, q, c, n, t, g, s) /\ n - 1 = x.base + 2 /\ n \in Nat /\ x.base \in Nat
           /\ done[n - 1].keeps = {e} /\ tokens[e] \in Operators(s) /\ Over(e + 1, c - 1, s + 1)
           /\ Depth(e) = Depth(g - 1) /\ ~ IsOperator(e + 1)
  <1>0. Builds1(x, Lowest \cup {"unary", "binary"})  BY DEF Builds1
  <1>1. PICK f \in 1 .. c - 1, r \in 0 .. 7 :
           /\ n \in Nat \ {0} /\ c \in Nat \ {0} /\ IsSequence(q)
           /\ Expects(Cons(x, q), f, r, n - 1) /\ Over(f, c - 1, r)
           /\ Within(n - 1, n, f, c - 1) /\ \A l \in 1 .. 6 : t \in Operators(l) => l < r
    BY <1>0, BuildSits
  <1>. DEFINE m == n - 1  e == f - 1
  <1>2. Expects(Cons(x, q), f, r, m)  BY <1>1
  <1>. HIDE DEF m, e
  <1>3. PICK g, s :
          /\ f \in Nat \ {0} /\ s \in 1 .. 6 /\ r = s + 1 /\ g \in 1 .. f /\ x.base \in Nat /\ m = x.base + 2
          /\ done[m].keeps = {f - 1} /\ Within(x.base, m, g, f - 1) /\ tokens[f - 1] \in Operators(s)
          /\ Over(g, f - 2, s) /\ (\E o, w : IsSequence(w) /\ q = Cons(o, w) /\ o.do = "operators")
          /\ Expects(q, g, s, x.base)
    BY <1>1, <1>2, ExpectsBinary
  <1>4. /\ f - 2 \in Nat /\ g \in Nat \ {0} /\ g <= (f - 2) + 1
    BY <1>3 DEF Over, Even
  <1>5. /\ e \in Nat \ {0} /\ e + 1 = f /\ e - 1 = f - 2 /\ (e - 1) + 1 = e /\ c - 1 \in Nat /\ m \in Nat
        /\ e <= c - 1 /\ g <= e /\ g <= f
    BY <1>1, <1>3, <1>4 DEF e, m
  <1>6. done[m].keeps = {e} /\ tokens[e] \in Operators(s) /\ Within(x.base, m, g, e)  BY <1>3 DEF e
  <1>. DEFINE h == e - 1  d == c - 1
  <1>06. h + 1 = e /\ Over(g, h, s) /\ Over(e + 1, d, r)  BY <1>1, <1>3, <1>5
  <1>. HIDE DEF h, d
  <1>7. /\ tokens[e] \notin Openers \cup Enders /\ tokens[e] \notin OperandEnds /\ Rank(tokens[e]) = s
    BY <1>3, <1>6, OperatorsSplit, Zenon
  <1>8. Over(g, e, s)
    <2>1. s \in Int  BY <1>3
    <2>2. tokens[h + 1] \notin Openers \cup Enders /\ Rank(tokens[h + 1]) >= s  BY <1>06, <1>7, <2>1
    <2>3. Over(g, h + 1, s)  BY <1>06, <2>2, OverNext, Zenon
    <2>. QED  BY <1>06, <2>3
  <1>9. ~ IsOperator(e + 1)  BY <1>5, <1>7 DEF IsOperator
  <1>10. Over(e + 1, d, s)
    <2>1. s \in Int /\ r \in Int /\ s <= r  BY <1>3
    <2>. QED  BY <1>06, <2>1, OverWeaker
  <1>11. Over(g, d, s)  BY <1>8, <1>9, <1>10, OverJoin, Zenon
  <1>12. Depth(e) = Depth(g - 1)  BY <1>8 DEF Over, Even
  <1>13. Within(x.base, n, g, c - 1)
    <2>1. Within(m, n, f, c - 1)  BY <1>1 DEF m
    <2>2. n \in Nat /\ f \in Nat /\ g \in Nat /\ e \in Nat /\ x.base \in Nat  BY <1>1, <1>3, <1>5
    <2>. QED  BY <1>1, <1>5, <1>6, <2>1, <2>2, JoinWithin
  <1>14. Below(q, s, t)
    <2>1. Headed(q, "operators")  BY <1>3, Zenon DEF Headed
    <2>2. \A l \in 1 .. 6 : t \in Operators(l) => l < s \/ l = s  BY <1>1, <1>3
    <2>. QED  BY <2>1, <2>2 DEF Below
  <1>15. BuiltFrom(x, q, c, n, t, g, s)  BY <1>3, <1>11, <1>13, <1>14 DEF BuiltFrom, d
  <1>16. g \in 1 .. c - 1 /\ e \in 1 .. c - 1 /\ n - 1 = m  BY <1>1, <1>4, <1>5 DEF m
  <1>17. Over(e + 1, c - 1, s + 1)  BY <1>3, <1>06 DEF d
  <1>. QED  BY <1>1, <1>3, <1>6, <1>9, <1>12, <1>15, <1>16, <1>17

LEMMA LowestFrom ==
  ASSUME NEW x, NEW q, NEW c, NEW n, NEW t, Sits(x, q, c, n, t), Builds1(x, Lowest)
  PROVE  \E g \in 1 .. c - 1 : BuiltFrom(x, q, c, n, t, g, 0)
  <1>0. Builds1(x, Lowest \cup {"unary", "binary"})  BY DEF Builds1
  <1>1. PICK f \in 1 .. c - 1, r \in 0 .. 7 :
           /\ n \in Nat \ {0} /\ c \in Nat \ {0} /\ IsSequence(q)
           /\ Expects(Cons(x, q), f, r, n - 1) /\ Over(f, c - 1, r)
           /\ Within(n - 1, n, f, c - 1) /\ \A l \in 1 .. 6 : t \in Operators(l) => l < r
    BY <1>0, BuildSits
  <1>. DEFINE m == n - 1  d == c - 1
  <1>2. Expects(Cons(x, q), f, r, m) /\ Over(f, d, r) /\ d = c - 1  BY <1>1
  <1>. HIDE DEF m, d
  <1>3. PICK g :
          /\ f \in Nat \ {0} /\ r = 0 /\ g \in 1 .. f /\ x.base \in Nat /\ x.base <= m /\ m \in Nat
          /\ Even(g, f - 1) /\ Within(x.base, m, g, f - 1) /\ Expects(q, g, 0, x.base)
    BY <1>1, <1>2, ExpectsLowest
  <1>4. Even(g, d)
    <2>. DEFINE e == f - 1
    <2>1. Even(g, e) /\ Even(e + 1, d)
      <3>1. Even(f, d) /\ (f - 1) + 1 = f  BY <1>2, OverWeaker
      <3>. QED  BY <1>3, <3>1
    <2>. HIDE DEF e
    <2>. QED  BY <2>1, EvenJoin, Zenon
  <1>5. Over(g, d, 0)
    <2>1. \A k : Rank(k) >= 0
      <3>. TAKE k
      <3>1. Rank(k) \in 0 .. 6 \cup {9}  BY RankType
      <3>. QED  BY <3>1
    <2>. QED  BY <1>4, <2>1 DEF Over
  <1>6. Within(x.base, n, g, c - 1)
    <2>1. Within(m, n, f, c - 1)  BY <1>1 DEF m
    <2>2. n \in Nat /\ f \in Nat /\ g \in Nat /\ f - 1 \in Nat /\ c - 1 \in Nat /\ g <= f /\ f - 1 <= c - 1
      BY <1>1, <1>3
    <2>. DEFINE e == f - 1
    <2>3. Within(x.base, m, g, e) /\ e \in Nat /\ e <= c - 1  BY <1>3, <2>2
    <2>. HIDE DEF e
    <2>. QED  BY <1>3, <2>1, <2>2, <2>3, JoinWithin
  <1>7. Below(q, 0, t)
    <2>1. \A l \in 1 .. 6 : ~ (l < 0)  OBVIOUS
    <2>2. \A l \in 1 .. 6 : t \notin Operators(l)  BY <1>1, <1>3
    <2>. QED  BY <2>2 DEF Below
  <1>8. BuiltFrom(x, q, c, n, t, g, 0)  BY <1>2, <1>3, <1>5, <1>6, <1>7 DEF BuiltFrom
  <1>9. g \in 1 .. c - 1  BY <1>1, <1>3
  <1>. QED  BY <1>8, <1>9

LEMMA PostfixedFrom ==
  ASSUME NEW x, NEW q, NEW c, NEW n, NEW t, Sits(x, q, c, n, t), Builds1(x, Postfixed)
  PROVE  \E g \in 1 .. c - 1 : BuiltFrom(x, q, c, n, t, g, 7)
  <1>1. Holds(x, q, c, n, t)  BY SitsHas
  <1>2. InValue(x, q, c, n)  BY <1>1 DEF Holds
  <1>3. Gathered(x, q, c, n)
    <2>1. x.do # "method" /\ x.do # "name"  BY DEF Builds1
    <2>. QED  BY <1>2, <2>1 DEF InValue, InMember
  <1>4. PICK g \in 1 .. c - 1 : Over(g, c - 1, 7) /\ Within(x.base, n, g, c - 1) /\ Expects(q, g, 7, x.base)
    BY <1>3 DEF Gathered
  <1>5. Below(q, 7, t)
    <2>1. \A l \in 1 .. 6 : l < 7  OBVIOUS
    <2>. QED  BY <2>1 DEF Below
  <1>. QED  BY <1>4, <1>5 DEF BuiltFrom

LEMMA BuildFrom ==
  ASSUME NEW x, NEW q, NEW c, NEW n, NEW t, Sits(x, q, c, n, t),
         Builds1(x, Lowest \cup {"unary", "binary"} \cup Postfixed)
  PROVE  \E g \in 1 .. c - 1, s \in 0 .. 7 : BuiltFrom(x, q, c, n, t, g, s)
  <1>1. Builds1(x, {"unary"}) \/ Builds1(x, {"binary"}) \/ Builds1(x, Lowest) \/ Builds1(x, Postfixed)
    BY DEF Builds1
  <1>2. CASE Builds1(x, {"unary"})
    <2>1. PICK g \in 1 .. c - 1 : BuiltFrom(x, q, c, n, t, g, 7)  BY <1>2, UnaryFrom
    <2>2. 7 \in 0 .. 7  OBVIOUS
    <2>. QED  BY <2>1, <2>2
  <1>3. CASE Builds1(x, {"binary"})
    <2>1. PICK g \in 1 .. c - 1, s \in 1 .. 6, e \in 1 .. c - 1 : BuiltFrom(x, q, c, n, t, g, s)
      BY <1>3, BinaryFrom
    <2>2. s \in 0 .. 7  OBVIOUS
    <2>. QED  BY <2>1, <2>2
  <1>4. CASE Builds1(x, Lowest)
    <2>1. PICK g \in 1 .. c - 1 : BuiltFrom(x, q, c, n, t, g, 0)  BY <1>4, LowestFrom
    <2>2. 0 \in 0 .. 7  OBVIOUS
    <2>. QED  BY <2>1, <2>2
  <1>5. CASE Builds1(x, Postfixed)
    <2>1. PICK g \in 1 .. c - 1 : BuiltFrom(x, q, c, n, t, g, 7)  BY <1>5, PostfixedFrom
    <2>2. 7 \in 0 .. 7  OBVIOUS
    <2>. QED  BY <2>1, <2>2
  <1>. QED  BY <1>1, <1>2, <1>3, <1>4, <1>5

-----------------------------------------------------------------------------
\* A node covers what it keeps and what its children cover, and no more.
Fair(m) ==
  /\ m.keeps \subseteq m.covers
  /\ \A i \in DOMAIN m.kids : m.kids[i].covers \subseteq m.covers

LEMMA CoversIs ==
  \A kind, words, keeps, kids :
    Node(kind, words, keeps, kids).covers = keeps \cup UNION {kids[i].covers : i \in DOMAIN kids}
  BY DEF Node

\* A node is within what its parts are within.
LEMMA NodeWithin ==
  \A kind, words, keeps, kids, X :
    keeps \subseteq X /\ (\A i \in DOMAIN kids : kids[i].covers \subseteq X)
      => Node(kind, words, keeps, kids).covers \subseteq X
  <1>. TAKE kind, words, keeps, kids, X
  <1>. HAVE keeps \subseteq X /\ (\A i \in DOMAIN kids : kids[i].covers \subseteq X)
  <1>1. Node(kind, words, keeps, kids).covers = keeps \cup UNION {kids[i].covers : i \in DOMAIN kids}
    BY CoversIs
  <1>. QED  BY <1>1

LEMMA MakeWithin ==
  ASSUME NEW p, IsSequence(p), NEW X,
         \A i \in 1 .. Len(p) : p[i].covers \subseteq X /\ (IsWord(p[i]) => p[i].keeps \subseteq X),
         NEW kind
  PROVE  Make(kind, p).covers \subseteq X
  <1>. DEFINE c == Children(p)  words == Spelled(p)  keeps == KeptBy(p)
  <1>1. PICK e : Chosen(p, Len(p), c, e)  BY ChildrenChosen
  <1>2. DOMAIN p = 1 .. Len(p)  BY DomainIs
  <1>3. keeps = UNION {p[i].keeps : i \in {j \in 1 .. Len(p) : IsWord(p[j])}}
    BY <1>2 DEF KeptBy
  <1>. HIDE DEF c, words, keeps
  <1>4. DOMAIN c = 1 .. Len(c)  BY <1>1, DomainIs DEF Chosen
  <1>5. \A i \in 1 .. Len(c) : e[i] \in 1 .. Len(p) /\ c[i] = p[e[i]]
    BY <1>1 DEF Chosen
  <1>6. \A i \in DOMAIN c : c[i].covers \subseteq X  BY <1>4, <1>5
  <1>7. keeps \subseteq X  BY <1>3
  <1>8. Node(kind, words, keeps, c).covers \subseteq X  BY <1>6, <1>7, NodeWithin, Zenon
  <1>. QED  BY <1>8 DEF Make, c, words, keeps

\* The pieces of the call, and what they cover.
LEMMA PiecesIn ==
  ASSUME ParseInv, NEW x, NEW q, NEW n, Frame(x, q, n)
  PROVE  /\ IsSequence(Pieces) /\ Len(Pieces) = n - x.base /\ Len(Pieces) \in Nat
         /\ \A i \in 1 .. Len(Pieces) : Pieces[i] = done[x.base + i] /\ x.base + i \in x.base + 1 .. n
  <1>1. /\ IsSequence(done) /\ Len(done) = n /\ n \in Nat /\ x.base \in Nat /\ x.base <= n
        /\ x = Head(todo)
    BY DEF Frame, ParseInv
  <1>2. PICK S : done \in Seq(S)  BY <1>1 DEF IsSequence
  <1>3. Pieces = SubSeq(done, x.base + 1, n)  BY <1>1 DEF Pieces
  <1>4. /\ Pieces \in Seq(S) /\ Len(Pieces) = n - x.base
        /\ \A i \in 1 .. Len(Pieces) : Pieces[i] = done[x.base + i]
    BY <1>1, <1>2, <1>3
  <1>5. \A i \in 1 .. Len(Pieces) : x.base + i \in x.base + 1 .. n  BY <1>1, <1>4
  <1>6. Len(Pieces) \in Nat  BY <1>1, <1>4
  <1>. QED  BY <1>4, <1>5, <1>6 DEF IsSequence

\* A node that is built stands behind the cursor.
LEMMA BuildReads ==
  ASSUME ParseInv, NEW x, NEW q, NEW c, NEW n, NEW t, Sits(x, q, c, n, t),
         Builds1(x, Lowest \cup {"unary", "binary"} \cup Postfixed),
         Then(<<>>), Stay, NEW v, Reduced(v),
         \A f : Within(x.base, n, f, c - 1) => v.covers \subseteq f .. c - 1
  PROVE  ReadInv'
  <1>1. UNCHANGED input /\ Frame(x, q, n) /\ IsSequence(q) /\ c \in Nat \ {0}
    BY SitsHas DEF Then, Sits
  <1>2. todo' = q  BY <1>1, Alone
  <1>3. PICK g \in 1 .. c - 1, s \in 0 .. 7 : BuiltFrom(x, q, c, n, t, g, s)  BY BuildFrom
  <1>. DEFINE b == x.base  k == b + 1  e == c - 1
  <1>4. /\ Kept /\ Len(tokens) \in Nat /\ c <= Len(tokens) + 1
        /\ b \in Nat /\ b <= n /\ b \in 0 .. n /\ KeptBelow(b)
        /\ Len(done') = k /\ done'[k] = v /\ current' = c /\ Peek' = t
    BY <1>1, Replaces
  <1>5. /\ e <= Len(tokens) /\ k \in Nat \ {0} /\ k - 1 = b /\ g <= Len(tokens) + 1 /\ b <= b
    BY <1>1, <1>3, <1>4
  <1>6. Over(g, e, s) /\ Within(b, n, g, c - 1) /\ Expects(q, g, s, b) /\ Below(q, s, t)
    BY <1>3 DEF BuiltFrom
  <1>7. v.covers \subseteq g .. c - 1  BY <1>6
  <1>. HIDE DEF b, k, e
  <1>8. Over(g, e, s)'  BY <1>4, <1>5, <1>6, OverStays, Zenon
  <1>9. Expects(q, g, s, b)'  BY <1>4, <1>5, <1>6, ExpectsStays, Zenon
  <1>10. Behind(q, c, k, t)'
    <2>1. Expects(q, g, s, k - 1)'
      <3>. DEFINE j == k - 1
      <3>1. j = b  BY <1>5
      <3>. HIDE DEF j
      <3>2. Expects(q, g, s, j)'  BY <1>9, <3>1
      <3>. QED  BY <3>2 DEF j
    <2>2. Over(g, c - 1, s)'  BY <1>8 DEF e
    <2>3. (done'[k]).covers \subseteq g .. c - 1  BY <1>4, <1>7
    <2>4. Below(q, s, t)'  BY <1>6 DEF Below
    <2>. QED  BY <1>3, <1>5, <2>1, <2>2, <2>3, <2>4 DEF Behind
  <1>11. ReadsOn(q, c, k, t)'  BY <1>1, <1>10, ReadingThen, Zenon DEF ReadingHolds
  <1>12. q = todo' /\ c = current' /\ k = Len(done') /\ t = Peek'  BY <1>2, <1>4
  <1>. QED  BY <1>1, <1>11, <1>12, ReplaceLands

-----------------------------------------------------------------------------
\* A step among items none of which is of an expression.
LEMMA FlatLands ==
  ASSUME ParseInv, NEW x, NEW q, NEW c, NEW n, NEW t, Sits(x, q, c, n, t),
         UNCHANGED input, Stay \/ (Advance /\ t \notin Quotes),
         NEW w, w = todo', IsSequence(w), Flat(w)
  PROVE  ReadInv'
  <1>1. t = Peek /\ EofIsLast /\ InStep /\ Holds(x, q, c, n, t) /\ x = Head(todo)  BY SitsHas
  <1>2. ~ Quoting  BY <1>1 DEF Holds, Quoting
  <1>. DEFINE d == current'  k == Len(done')  u == Peek'
  <1>3. d = current' /\ k = Len(done') /\ u = Peek'  OBVIOUS
  <1>. HIDE DEF d, k, u
  <1>4. PICK d0, k0, u0 : d0 = d /\ k0 = k /\ u0 = u  OBVIOUS
  <1>5. ReadsOn(w, d0, k0, u0)'  BY DEF ReadsOn, Flat, Tame, Builds1
  <1>. QED  BY <1>1, <1>2, <1>3, <1>4, <1>5, Rests

\* What closes or goes on looks back at the value.
LEMMA LooksBack ==
  ASSUME NEW x, NEW q, IsSequence(q), NEW c, c \in Nat \ {0}, NEW n, NEW t, x.do \in {"consume", "more"},
         Behind(Cons(x, q), c, n, t)
  PROVE  Expects(Cons(x, q), c, 0, n)
  <1>1. PICK f \in 1 .. c - 1, r \in 0 .. 7 :
          /\ n \in Nat \ {0} /\ Expects(Cons(x, q), f, r, n - 1) /\ Over(f, c - 1, r)
          /\ done[n].covers \subseteq f .. c - 1
    BY DEF Behind
  <1>2. \A j \in (n - 1) + 1 .. n : j = n  BY <1>1
  <1>3. Within(n - 1, n, f, c - 1)  BY <1>1, <1>2 DEF Within
  <1>. DEFINE m == n - 1  e == c - 1
  <1>4. /\ Expects(Cons(x, q), f, r, m) /\ Even(f, e) /\ m <= n /\ n \in Nat /\ Within(m, n, f, e)
        /\ e + 1 = c
    BY <1>1, <1>3, OverWeaker
  <1>. HIDE DEF m, e
  <1>5. Expects(Cons(x, q), e + 1, 0, n)  BY <1>4, Shift
  <1>. QED  BY <1>4, <1>5

LEMMA ConsumeLooks ==
  ASSUME NEW x, NEW q, NEW c, NEW n, NEW t, Sits(x, q, c, n, t), x.do = "consume"
  PROVE  \/ Expects(Cons(x, q), c, 0, n)
         \/ x.arg = "(" /\ Enters(q, c, n)
  <1>1. IsSequence(q) /\ c \in Nat \ {0} /\ ReadsOn(Cons(x, q), c, n, t)  BY SitsHas DEF Sits
  <1>2. CASE Flat(Cons(x, q))  BY <1>2, FlatExpects
  <1>3. CASE Reads(Cons(x, q), c, n, t)
    <2>1. PICK y, p : /\ IsSequence(p) /\ Cons(x, q) = Cons(y, p)
                      /\ \/ AtValue(y, p, c, n) \/ Behind(Cons(x, q), c, n, t)
                         \/ InValue(y, p, c, n) \/ BeforeValue(y, p, c, n, t)
      BY <1>3, Zenon DEF Reads
    <2>2. x = y /\ q = p  BY <1>1, <2>1, SameCons, Zenon
    <2>3. ~ AtValue(x, q, c, n)  BY DEF AtValue, Operands
    <2>4. ~ InValue(x, q, c, n)  BY DEF InValue, InMember, Builds1
    <2>5. CASE Behind(Cons(x, q), c, n, t)  BY <1>1, <2>5, LooksBack
    <2>6. CASE BeforeValue(x, q, c, n, t)  BY <2>6 DEF BeforeValue
    <2>. QED  BY <2>1, <2>2, <2>3, <2>4, <2>5, <2>6, Zenon
  <1>. QED  BY <1>1, <1>2, <1>3 DEF ReadsOn

\* The next item finds what it calls for.
ReadyFirst ==
  \A a, p, n : /\ ParseInv /\ status = "parsing" /\ IsSequence(p) /\ todo = Cons(a, p) /\ n = Len(done)
               /\ a.do = "postfix"
               => n = a.base + 1 /\ a.base \in Nat /\ n \in Nat
LEMMA ReadyFirstHolds == ReadyFirst
  <1>. SUFFICES ASSUME NEW a, NEW p, NEW n, ParseInv, status = "parsing", IsSequence(p),
                       todo = Cons(a, p), n = Len(done), a.do = "postfix"
                PROVE  n = a.base + 1 /\ a.base \in Nat /\ n \in Nat
    BY Zenon DEF ReadyFirst
  <1>1. Safe(Cons(a, p), now) /\ now.len = n /\ n \in Nat  BY NowIs DEF ParseInv
  <1>2. Ready(a, now)  BY <1>1, SafeCons
  <1>. QED  BY <1>1, <1>2 DEF Ready, Closers
LEMMA ReadyFirstThen == ReadyFirst'  BY ReadyFirstHolds, PTL

-----------------------------------------------------------------------------
\* A colon is consumed: the other value of the ternary comes.
LEMMA ColonReads ==
  ASSUME ParseInv, NEW x, NEW q, NEW c, NEW n, NEW t, Sits(x, q, c, n, t), t = ":", Skip(<<>>),
         NEW a, NEW b, NEW p, NEW g, IsSequence(p), q = Cons(a, Cons(b, p)), a.do = "ternary",
         Builds1(b, {"ternary"}), g \in 1 .. c, b.base \in 0 .. n, Even(g, c - 1),
         Within(b.base, n, g, c - 1), Expects(p, g, 0, b.base)
  PROVE  ReadInv'
  <1>1. IsSequence(q) /\ n \in Nat /\ c \in Nat \ {0} /\ c = current /\ t = Peek  BY SitsHas
  <1>2. t # "eof" /\ t \notin Quotes /\ t \notin Openers \cup Enders
    BY NoBrackets
  <1>3. tokens[c] = t  BY <1>1, <1>2, ThereIs
  <1>. DEFINE e == c - 1  m == b.base  r == Cons(b, p)
  <1>4. Even(g, e) /\ e + 1 = c /\ m \in 0 .. n /\ m \in Nat /\ r = Cons(b, p) /\ q = Cons(a, r)
    BY <1>1
  <1>5. IsSequence(r)  BY ConsIs
  <1>. HIDE DEF e, m, r
  <1>6. Even(g, c)
    <2>1. tokens[e + 1] \notin Openers \cup Enders  BY <1>2, <1>3, <1>4
    <2>2. Even(g, e + 1)  BY <1>4, <2>1, EvenNext, Zenon
    <2>. QED  BY <1>4, <2>2
  <1>7. Within(m, n, g, c)
    <2>1. g .. c - 1 \subseteq g .. c  BY <1>1
    <2>. QED  BY <2>1 DEF Within, m
  <1>8. Builds1(b, Lowest)  BY DEF Builds1, Lowest
  <1>9. Expects(r, c + 1, 0, n)
    <2>1. Expects(p, g, 0, m) /\ b.base = m  BY DEF m
    <2>2. Expects(Cons(b, p), c + 1, 0, n)
      BY <1>1, <1>4, <1>6, <1>7, <1>8, <2>1, FoldLowest, Zenon DEF FoldsLowest
    <2>. QED  BY <1>4, <2>2
  <1>10. AtValue(a, r, c + 1, n)
    <2>1. a.do \in Operands /\ Yield(a) = 0 /\ a.do # "primary"  BY DEF Operands, Yield
    <2>. QED  BY <1>9, <2>1 DEF AtValue
  <1>11. \A u : ReadsOn(q, c + 1, n, u)  BY <1>4, <1>5, <1>10, AtReads, Zenon
  <1>12. q = <<>> \o q  BY <1>1, Unrolled
  <1>. QED  BY <1>1, <1>2, <1>11, <1>12, SkipLands

\* A bracket is closed: what it encloses with the value before it is a value.
LEMMA CloseReads ==
  ASSUME ParseInv, ParseInv', NEW x, NEW q, NEW c, NEW n, NEW t, Sits(x, q, c, n, t),
         t \in {")", "]"}, Skip(<<>>), status = "parsing",
         NEW a, NEW p, NEW g, NEW o, IsSequence(p), q = Cons(a, p), AfterBracket(a), g \in 1 .. c,
         a.base \in 0 .. n, o \in g .. c - 1, tokens[o] \in {"(", "["}, Even(o + 1, c - 1),
         Over(g, o - 1, 7), Within(a.base, n, g, c - 1), Expects(p, g, 7, a.base)
  PROVE  ReadInv'
  <1>1. /\ IsSequence(q) /\ n \in Nat /\ n = Len(done) /\ c \in Nat \ {0} /\ c = current /\ t = Peek
        /\ q = Tail(todo)
    BY SitsHas
  <1>2. t # "eof" /\ t \notin Quotes /\ t \in Enders  BY BracketsAre, BracketsAreNoQuotes
  <1>3. tokens[c] = t  BY <1>1, <1>2, ThereIs
  <1>. DEFINE e == c - 1  m == a.base  d == c + 1
  <1>4. /\ e + 1 = c /\ m \in 0 .. n /\ m \in Nat /\ m <= n /\ Expects(p, g, 7, m) /\ Even(o + 1, e)
        /\ o \in Nat \ {0} /\ d - 1 = c /\ g \in 1 .. d - 1 /\ d = c + 1
    BY <1>1
  <1>5. Over(g, c, 7)
    <2>. HIDE DEF e, m, d
    <2>1. tokens[o] \in Openers  BY BracketsAre
    <2>2. tokens[e + 1] \in Enders  BY <1>2, <1>3, <1>4
    <2>3. Over(g, e + 1, 7)  BY <1>4, <2>1, <2>2, Bracketed
    <2>. QED  BY <1>4, <2>3
  <1>6. Within(m, n, g, c)
    <2>1. g .. c - 1 \subseteq g .. c  BY <1>1
    <2>. QED  BY <2>1 DEF Within
  <1>7. todo' = q
    <2>1. todo' = <<>> \o Tail(todo)  BY DEF Skip, Then
    <2>2. <<>> \o q = q  BY <1>1, Unrolled
    <2>. QED  BY <1>1, <2>1, <2>2
  <1>8. done' = done /\ status' = "parsing"  BY DEF Skip, Then, NoNode
  <1>9. \A u : ReadsOn(q, d, n, u)
    <2>1. CASE a.do = "postfix"
      <3>1. n = a.base + 1
        <4>1. n = Len(done') /\ todo' = Cons(a, p)  BY <1>1, <1>7, <1>8
        <4>. QED  BY <1>8, <2>1, <4>1, ReadyFirstThen, Zenon DEF ReadyFirst
      <3>2. n \in Nat \ {0} /\ n - 1 = m /\ n \in m + 1 .. n  BY <1>1, <1>4, <3>1
      <3>3. Expects(q, g, 7, m)
        <4>1. g \in Nat \ {0} /\ a.base = m  BY <1>1
        <4>. HIDE DEF e, m, d
        <4>. QED  BY <1>4, <2>1, <4>1, FoldPostfix, Zenon DEF FoldsPostfix
      <3>4. done[n].covers \subseteq g .. d - 1  BY <1>4, <1>6, <3>2 DEF Within
      <3>5. Over(g, d - 1, 7) /\ Expects(q, g, 7, n - 1)  BY <1>4, <1>5, <3>2, <3>3
      <3>. HIDE DEF e, m, d
      <3>6. \A u : Behind(q, d, n, u)
        BY <1>4, <3>2, <3>4, <3>5, TightIsBehind, Zenon DEF TightBehind
      <3>. QED  BY <1>1, <3>6, BehindReads, Zenon
    <2>2. CASE Builds1(a, Postfixed)
      <3>1. Over(g, d - 1, 7) /\ Within(m, n, g, d - 1)  BY <1>4, <1>5, <1>6
      <3>2. a.base \in Nat /\ a.base <= n  BY <1>4
      <3>3. Expects(p, g, 7, a.base) /\ Within(a.base, n, g, d - 1)  BY <3>1
      <3>. HIDE DEF e, m, d
      <3>4. Gathered(a, p, d, n)  BY <1>4, <3>1, <3>2, <3>3, Zenon DEF Gathered
      <3>5. InValue(a, p, d, n)  BY <2>2, <3>4, Zenon DEF InValue
      <3>. QED  BY <3>5, InReads, Zenon
    <2>. QED  BY <2>1, <2>2 DEF AfterBracket
  <1>10. q = <<>> \o q  BY <1>1, Unrolled
  <1>. QED  BY <1>1, <1>2, <1>9, <1>10, SkipLands

\* A bracket is opened: what comes behind it is in it.
LEMMA OpenReads ==
  ASSUME ParseInv, NEW x, NEW q, NEW c, NEW n, NEW t, Sits(x, q, c, n, t), t = "(", Skip(<<>>),
         Enters(q, c, n)
  PROVE  ReadInv'
  <1>1. IsSequence(q) /\ n \in Nat /\ c \in Nat \ {0} /\ c = current /\ t = Peek  BY SitsHas
  <1>2. t # "eof" /\ t \notin Quotes  BY BracketsAreNoQuotes
  <1>3. PICK y, p : /\ IsSequence(p) /\ q = Cons(y, p)
                    /\ y.do = "expr" \/ (y.do = "list" /\ y.arg # "param" /\ Headed(p, "consume"))
                    /\ Expects(p, c + 1, 0, n)
    BY Zenon DEF Enters
  <1>4. \A u : ReadsOn(q, c + 1, n, u)
    <2>1. CASE y.do = "expr"
      <3>1. y.do \in Operands /\ Yield(y) = 0 /\ y.do # "primary"  BY <2>1 DEF Operands, Yield
      <3>2. AtValue(y, p, c + 1, n)  BY <1>3, <3>1 DEF AtValue
      <3>. QED  BY <1>3, <3>2, AtReads, Zenon
    <2>2. CASE y.do = "list" /\ y.arg # "param" /\ Headed(p, "consume")
      <3>1. \A u : BeforeValue(y, p, c + 1, n, u)  BY <1>3, <2>2, Zenon DEF BeforeValue
      <3>. QED  BY <1>3, <3>1, BeforeReads, Zenon
    <2>. QED  BY <1>3, <2>1, <2>2
  <1>5. q = <<>> \o q  BY <1>1, Unrolled
  <1>. QED  BY <1>1, <1>2, <1>4, <1>5, SkipLands

-----------------------------------------------------------------------------
LEMMA ConsumeReads ==
  ASSUME ParseInv, ParseInv', status = "parsing",
         NEW x, NEW q, NEW c, NEW n, NEW t, Sits(x, q, c, n, t),
         x.do = "consume", t = x.arg, Skip(<<>>)
  PROVE  ReadInv'
  <1>1. IsSequence(q) /\ x = Head(todo) /\ q = Tail(todo)  BY SitsHas
  <1>2. CASE x.arg = "(" /\ Enters(q, c, n)  BY <1>2, OpenReads
  <1>3. CASE Expects(Cons(x, q), c, 0, n)
    <2>1. CASE Tame(x) /\ Flat(q)
      <3>1. t \notin Quotes  BY <2>1 DEF Tame
      <3>2. todo' = q
        <4>1. todo' = <<>> \o Tail(todo)  BY DEF Skip, Then
        <4>2. <<>> \o q = q  BY <1>1, Unrolled
        <4>. QED  BY <1>1, <4>1, <4>2
      <3>3. UNCHANGED input /\ Advance  BY DEF Skip, Then
      <3>. QED  BY <1>1, <2>1, <3>1, <3>2, <3>3, FlatLands
    <2>2. CASE x.arg = ":" /\
       \E a, b, p, g :
            /\ IsSequence(p) /\ q = Cons(a, Cons(b, p)) /\ a.do = "ternary" /\ Builds1(b, {"ternary"})
            /\ g \in 1 .. c /\ b.base \in 0 .. n /\ Even(g, c - 1) /\ Within(b.base, n, g, c - 1)
            /\ Expects(p, g, 0, b.base)
      <3>1. PICK a, b, p, g :
            /\ IsSequence(p) /\ q = Cons(a, Cons(b, p)) /\ a.do = "ternary" /\ Builds1(b, {"ternary"})
            /\ g \in 1 .. c /\ b.base \in 0 .. n /\ Even(g, c - 1) /\ Within(b.base, n, g, c - 1)
            /\ Expects(p, g, 0, b.base)
        BY <2>2
      <3>. QED  BY <2>2, <3>1, ColonReads
    <2>3. CASE x.arg \in {")", "]"} /\
       \E a, p, g, o :
            /\ IsSequence(p) /\ q = Cons(a, p) /\ AfterBracket(a)
            /\ g \in 1 .. c /\ a.base \in 0 .. n /\ o \in g .. c - 1
            /\ tokens[o] \in {"(", "["} /\ Even(o + 1, c - 1) /\ Over(g, o - 1, 7)
            /\ Within(a.base, n, g, c - 1) /\ Expects(p, g, 7, a.base)
      <3>1. PICK a, p, g, o :
            /\ IsSequence(p) /\ q = Cons(a, p) /\ AfterBracket(a)
            /\ g \in 1 .. c /\ a.base \in 0 .. n /\ o \in g .. c - 1
            /\ tokens[o] \in {"(", "["} /\ Even(o + 1, c - 1) /\ Over(g, o - 1, 7)
            /\ Within(a.base, n, g, c - 1) /\ Expects(p, g, 7, a.base)
        BY <2>3
      <3>2. t \in {")", "]"}  BY <2>3
      <3>. QED  BY <3>1, <3>2, CloseReads
    <2>. QED  BY <1>1, <1>3, <2>1, <2>2, <2>3, ExpectsConsume, Zenon
  <1>. QED  BY <1>2, <1>3, ConsumeLooks

-----------------------------------------------------------------------------
\* The items of a list, when they are expressions.
ElementReads(w, c, n) == \E A, B, q : /\ IsSequence(q) /\ w = Cons(A, Cons(B, q)) /\ A.do = "expr"
                                      /\ B.do = "more" /\ B.arg # "param"
                                      /\ Headed(q, "consume") /\ Expects(q, c, 0, n)
LEMMA ElementLands ==
  ASSUME NEW w, NEW c, NEW n, c \in Nat \ {0}, n \in Nat, ElementReads(w, c, n)
  PROVE  IsSequence(w) /\ \A u : ReadsOn(w, c, n, u)
  <1>1. PICK A, B, q : /\ IsSequence(q) /\ w = Cons(A, Cons(B, q)) /\ A.do = "expr"
                       /\ B.do = "more" /\ B.arg # "param"
                       /\ Headed(q, "consume") /\ Expects(q, c, 0, n)
    BY Zenon DEF ElementReads
  <1>2. PICK o, v : IsSequence(v) /\ q = Cons(o, v) /\ o.do = "consume"  BY <1>1, Zenon DEF Headed
  <1>3. Expects(Cons(B, q), c, 0, n)
    <2>1. Expects(Cons(o, v), c, 0, n)  BY <1>1, <1>2
    <2>2. Expects(Cons(B, Cons(o, v)), c, 0, n)  BY <1>1, <1>2, <2>1, FoldMore, Zenon DEF FoldsMore
    <2>. QED  BY <1>2, <2>2
  <1>4. IsSequence(Cons(B, q))  BY <1>1, ConsIs
  <1>5. AtValue(A, Cons(B, q), c, n)
    <2>1. A.do \in Operands /\ Yield(A) = 0 /\ A.do # "primary"  BY <1>1 DEF Operands, Yield
    <2>. QED  BY <1>3, <2>1 DEF AtValue
  <1>6. \A u : ReadsOn(w, c, n, u)  BY <1>1, <1>4, <1>5, AtReads, Zenon
  <1>7. IsSequence(w)
    <2>. DEFINE r == Cons(B, q)
    <2>1. IsSequence(r) /\ w = Cons(A, r)  BY <1>1, <1>4
    <2>. HIDE DEF r
    <2>. QED  BY <2>1, ConsIs
  <1>. QED  BY <1>6, <1>7

LEMMA ListOpens ==
  ASSUME ParseInv, NEW x, NEW q, NEW c, NEW n, NEW t, Sits(x, q, c, n, t),
         x.do = "list", x.arg # "param", BeforeValue(x, q, c, n, t), Go(<<Do("expr")>> \o <<With("more", x.arg)>>)
  PROVE  ReadInv'
  <1>1. IsSequence(q) /\ n \in Nat /\ n = Len(done) /\ c \in Nat \ {0}  BY SitsHas
  <1>2. Headed(q, "consume") /\ Expects(q, c, 0, n)  BY DEF BeforeValue
  <1>. DEFINE A == Item("expr", "none", n)  B == Item("more", x.arg, n)
  <1>3. A.do = "expr" /\ B.do = "more" /\ B.arg # "param"  BY ItemHas
  <1>4. Do("expr") = A /\ With("more", x.arg) = B  BY <1>1, ItemsAre, Zenon
  <1>. DEFINE items == <<A, B>>
  <1>5. Go(items)
    <2>1. <<A>> \o <<B>> = <<A, B>>  BY Pair
    <2>. QED  BY <1>4, <2>1
  <1>. HIDE DEF A, B, items
  <1>6. PICK w : w = items \o q  OBVIOUS
  <1>7. w = Cons(A, Cons(B, q))  BY <1>1, <1>6, Put2, Zenon DEF items
  <1>8. ElementReads(w, c, n)  BY <1>1, <1>2, <1>3, <1>7, Zenon DEF ElementReads
  <1>9. IsSequence(w) /\ ReadsOn(w, c, n, t)  BY <1>1, <1>8, ElementLands
  <1>. QED  BY <1>5, <1>6, <1>9, GoLands

LEMMA ListEnds ==
  ASSUME ParseInv, NEW x, NEW q, NEW c, NEW n, NEW t, Sits(x, q, c, n, t),
         x.do = "list", BeforeValue(x, q, c, n, t), Go(<<>>)
  PROVE  ReadInv'
  <1>1. IsSequence(q)  BY SitsHas
  <1>2. Headed(q, "consume") /\ Expects(q, c, 0, n)  BY DEF BeforeValue
  <1>3. PICK o, v : IsSequence(v) /\ q = Cons(o, v) /\ o.do = "consume"  BY <1>2, Zenon DEF Headed
  <1>4. BeforeValue(o, v, c, n, t)  BY <1>2, <1>3 DEF BeforeValue
  <1>5. ReadsOn(q, c, n, t)  BY <1>3, <1>4, BeforeReads, Zenon
  <1>6. q = <<>> \o q  BY <1>1, Unrolled
  <1>. QED  BY <1>1, <1>5, <1>6, GoLands

-----------------------------------------------------------------------------
\* An element has been read.
LEMMA MoreSits ==
  ASSUME NEW x, NEW q, NEW c, NEW n, NEW t, Sits(x, q, c, n, t), x.do = "more"
  PROVE  \/ Flat(q)
         \/ x.arg # "param" /\ Headed(q, "consume") /\ Expects(q, c, 0, n)
  <1>1. IsSequence(q) /\ c \in Nat \ {0} /\ Holds(x, q, c, n, t)  BY SitsHas
  <1>2. CASE Flat(q)  BY <1>2
  <1>3. CASE Behind(Cons(x, q), c, n, t)
    <2>1. Expects(Cons(x, q), c, 0, n)  BY <1>1, <1>3, LooksBack
    <2>2. \/ Tame(x) /\ Flat(q)
          \/ /\ x.arg # "param"
             /\ (\E o, w : IsSequence(w) /\ q = Cons(o, w) /\ o.do = "consume")
             /\ Expects(q, c, 0, n)
      BY <1>1, <2>1, ExpectsMore, Zenon
    <2>. QED  BY <2>2, Zenon DEF Headed
  <1>. QED  BY <1>1, <1>2, <1>3 DEF Holds

LEMMA MoreEnds ==
  ASSUME ParseInv, NEW x, NEW q, NEW c, NEW n, NEW t, Sits(x, q, c, n, t),
         Headed(q, "consume"), Expects(q, c, 0, n), Go(<<>>)
  PROVE  ReadInv'
  <1>1. IsSequence(q)  BY SitsHas
  <1>2. PICK o, v : IsSequence(v) /\ q = Cons(o, v) /\ o.do = "consume"  BY Zenon DEF Headed
  <1>3. BeforeValue(o, v, c, n, t)  BY <1>2 DEF BeforeValue
  <1>4. ReadsOn(q, c, n, t)  BY <1>2, <1>3, BeforeReads, Zenon
  <1>5. q = <<>> \o q  BY <1>1, Unrolled
  <1>. QED  BY <1>1, <1>4, <1>5, GoLands

LEMMA CommaIs == "," # "eof" /\ "," \notin Quotes /\ "," \notin Openers \cup Enders
  BY NoBrackets, Zenon

LEMMA MoreGoesOn ==
  ASSUME ParseInv, NEW x, NEW q, NEW c, NEW n, NEW t, Sits(x, q, c, n, t),
         x.do = "more", x.arg # "param", Headed(q, "consume"), Expects(q, c, 0, n),
         t # "eof", t \notin Quotes, t \notin Openers \cup Enders,
         Skip(<<Do("expr")>> \o <<Again>>)
  PROVE  ReadInv'
  <1>1. IsSequence(q) /\ n \in Nat /\ n = Len(done) /\ c \in Nat \ {0} /\ c = current /\ t = Peek /\ Again = x
    BY SitsHas
  <1>2. tokens[c] = t  BY <1>1, ThereIs
  <1>. DEFINE A == Item("expr", "none", n)
  <1>3. A.do = "expr"  BY ItemHas
  <1>4. Do("expr") = A  BY <1>1, ItemsAre, Zenon
  <1>. DEFINE items == <<A, x>>
  <1>5. Skip(items)
    <2>1. <<A>> \o <<x>> = <<A, x>>  BY Pair
    <2>. QED  BY <1>1, <1>4, <2>1
  <1>6. Even(c, c)
    <2>. DEFINE e == c - 1
    <2>1. Even(c, e) /\ e + 1 = c  BY <1>1, NothingRead
    <2>. HIDE DEF e
    <2>2. tokens[e + 1] \notin Openers \cup Enders  BY <1>2, <2>1
    <2>3. Even(c, e + 1)  BY <2>1, <2>2, EvenNext, Zenon
    <2>. QED  BY <2>1, <2>3
  <1>7. Expects(q, c + 1, 0, n)
    <2>1. PICK o, v : IsSequence(v) /\ q = Cons(o, v) /\ o.do = "consume"  BY Zenon DEF Headed
    <2>2. Within(n, n, c, c) /\ n <= n
      <3>1. n + 1 .. n = {}  BY <1>1
      <3>. QED  BY <1>1, <3>1 DEF Within
    <2>3. o.do \in {"consume", "more"}  BY <2>1
    <2>4. Expects(Cons(o, v), c, 0, n)  BY <2>1
    <2>5. Expects(Cons(o, v), c + 1, 0, n)  BY <1>1, <1>6, <2>1, <2>2, <2>3, <2>4, Shift, Zenon
    <2>. QED  BY <2>1, <2>5
  <1>. HIDE DEF A, items
  <1>8. PICK w : w = items \o q  OBVIOUS
  <1>9. w = Cons(A, Cons(x, q))  BY <1>1, <1>8, Put2, Zenon DEF items
  <1>. DEFINE d == c + 1
  <1>10. d = c + 1 /\ d \in Nat \ {0} /\ Expects(q, d, 0, n)  BY <1>1, <1>7
  <1>. HIDE DEF d
  <1>11. ElementReads(w, d, n)  BY <1>1, <1>3, <1>9, <1>10, Zenon DEF ElementReads
  <1>12. IsSequence(w) /\ \A u : ReadsOn(w, d, n, u)  BY <1>1, <1>10, <1>11, ElementLands
  <1>13. \A u : ReadsOn(w, c + 1, n, u)  BY <1>10, <1>12
  <1>. QED  BY <1>5, <1>8, <1>12, <1>13, SkipLands

-----------------------------------------------------------------------------
\* The member of a value: its name, and the arguments it may have.
LEMMA MemberSits ==
  ASSUME NEW x, NEW q, NEW c, NEW n, NEW t, Sits(x, q, c, n, t), x.do = "method"
  PROVE  InMember(x, q, c, n)
  <1>1. Holds(x, q, c, n, t)  BY SitsHas
  <1>2. InValue(x, q, c, n)  BY <1>1 DEF Holds
  <1>. QED  BY <1>2 DEF InValue, Builds1

LEMMA MethodEnds ==
  ASSUME ParseInv, NEW x, NEW q, NEW c, NEW n, NEW t, Sits(x, q, c, n, t), x.do = "method", Go(<<>>)
  PROVE  ReadInv'
  <1>1. IsSequence(q)  BY SitsHas
  <1>2. PICK b, p : IsSequence(p) /\ q = Cons(b, p) /\ Builds1(b, {"member"}) /\ Gathered(b, p, c, n)
    BY MemberSits, Zenon DEF InMember
  <1>3. InValue(b, p, c, n)  BY <1>2 DEF InValue, Builds1, Postfixed
  <1>4. ReadsOn(q, c, n, t)  BY <1>2, <1>3, InReads, Zenon
  <1>5. q = <<>> \o q  BY <1>1, Unrolled
  <1>. QED  BY <1>1, <1>4, <1>5, GoLands

LEMMA ArgumentsRead ==
  ASSUME ParseInv, NEW x, NEW q, NEW c, NEW n, NEW t, Sits(x, q, c, n, t), x.do = "method", t = "(",
         Go(Parens(<<With("list", "arg")>>))
  PROVE  ReadInv'
  <1>1. IsSequence(q) /\ n \in Nat /\ n = Len(done) /\ c \in Nat \ {0} /\ c = current /\ t = Peek
    BY SitsHas
  <1>2. c <= Len(tokens) /\ tokens[c] \in {"(", "["}  BY <1>1, ThereIs
  <1>3. PICK b, p : IsSequence(p) /\ q = Cons(b, p) /\ Builds1(b, {"member"}) /\ Gathered(b, p, c, n)
    BY MemberSits, Zenon DEF InMember
  <1>4. PICK f \in 1 .. c - 1 : Over(f, c - 1, 7) /\ Within(b.base, n, f, c - 1) /\ Expects(p, f, 7, b.base)
    BY <1>3 DEF Gathered
  <1>5. b.base \in 0 .. n /\ AfterBracket(b) /\ Within(b.base, n, f, c)
    <2>1. b.base \in 0 .. n  BY <1>1, <1>3 DEF Gathered
    <2>2. f .. c - 1 \subseteq f .. c  BY <1>1
    <2>3. AfterBracket(b)  BY <1>3 DEF AfterBracket, Builds1, Postfixed
    <2>. QED  BY <1>4, <2>1, <2>2, <2>3 DEF Within
  <1>. DEFINE O == Item("consume", "(", n)  L == Item("list", "arg", n)  K == Item("consume", ")", n)
              r == Cons(K, q)  s == Cons(L, r)
  <1>6. /\ O.do = "consume" /\ O.arg = "(" /\ L.do = "list" /\ L.arg = "arg"
        /\ K.do = "consume" /\ K.arg \in {")", "]"}
    BY ItemHas
  <1>7. Eat("(") = O /\ With("list", "arg") = L /\ Eat(")") = K  BY <1>1, ItemsAre, Zenon
  <1>8. PICK w : w = Parens(<<With("list", "arg")>>) \o q  OBVIOUS
  <1>9. w = Cons(O, s)
    <2>1. w = Cons(Eat("("), Cons(With("list", "arg"), Cons(Eat(")"), q)))  BY <1>1, <1>8, ParensCons
    <2>. QED  BY <1>7, <2>1
  <1>. HIDE DEF O, L, K
  <1>10. IsSequence(r) /\ IsSequence(s) /\ IsSequence(w)
    <2>1. IsSequence(r)  BY <1>1, ConsIs
    <2>. HIDE DEF r
    <2>2. IsSequence(s)  BY <2>1, ConsIs
    <2>. HIDE DEF s
    <2>. QED  BY <1>9, <2>1, <2>2, ConsIs
  <1>11. Expects(r, c + 1, 0, n)
    <2>1. Expects(Cons(K, Cons(b, p)), c + 1, 0, n)  BY <1>1, <1>2, <1>3, <1>4, <1>5, <1>6, Opening
    <2>. QED  BY <1>3, <2>1
  <1>12. Headed(r, "consume")  BY <1>1, <1>6, Zenon DEF Headed
  <1>. HIDE DEF r
  <1>13. Enters(s, c, n)
    <2>1. L.arg # "param"  BY <1>6
    <2>. QED  BY <1>6, <1>10, <1>11, <1>12, <2>1, Zenon DEF Enters
  <1>. HIDE DEF s
  <1>14. BeforeValue(O, s, c, n, t)  BY <1>2, <1>6, <1>13, Zenon DEF BeforeValue
  <1>15. ReadsOn(w, c, n, t)  BY <1>9, <1>10, <1>14, BeforeReads, Zenon
  <1>. QED  BY <1>8, <1>10, <1>15, GoLands

-----------------------------------------------------------------------------
\* A token that is no operator is taken into what is gathered.
LEMMA GatheredGrows ==
  ASSUME NEW n, n \in Nat, NEW c, c \in Nat \ {0}, c <= Len(tokens), Len(tokens) \in Nat,
         Quiet(tokens[c]), Kept, KeptBelow(n), (done'[n + 1]).covers = {c},
         NEW b, NEW r, Gathered(b, r, c, n), NEW d, d = c + 1, NEW k, k = n + 1
  PROVE  Gathered(b, r, d, k)'
  <1>1. PICK f \in 1 .. c - 1 :
          /\ b.base \in Nat /\ b.base <= n
          /\ Over(f, c - 1, 7) /\ Within(b.base, n, f, c - 1) /\ Expects(r, f, 7, b.base)
    BY DEF Gathered
  <1>. DEFINE e == c - 1  h == b.base
  <1>2. /\ e + 1 = c /\ h \in 0 .. n /\ h <= n /\ f \in 1 .. c /\ f <= Len(tokens) + 1 /\ Over(f, e, 7)
        /\ d - 1 = c /\ f \in 1 .. d - 1 /\ h \in Nat /\ h <= k
    BY <1>1
  <1>. HIDE DEF e
  <1>3. Over(f, c, 7)'
    <2>1. Quiet(tokens[e + 1])  BY <1>2
    <2>2. Over(f, e + 1, 7)  BY <1>2, <2>1, QuietNext, Zenon
    <2>3. Over(f, c, 7)  BY <1>2, <2>2
    <2>. QED  BY <2>3, OverStays, Zenon
  <1>4. Within(h, k, f, c)'
    <2>1. Within(h, n, f, c - 1)  BY <1>1
    <2>. HIDE DEF h
    <2>2. Within(h, n + 1, f, c)'  BY <1>2, <2>1, WithinPush, Zenon
    <2>. QED  BY <2>2
  <1>5. Expects(r, f, 7, h)'
    <2>1. Expects(r, f, 7, h)  BY <1>1
    <2>. HIDE DEF h
    <2>. QED  BY <1>2, <2>1, ExpectsStays, Zenon
  <1>6. Over(f, d - 1, 7)' /\ Within(b.base, k, f, d - 1)' /\ Expects(r, f, 7, b.base)'
    <2>. DEFINE j == d - 1
    <2>1. j = c  BY <1>2
    <2>. HIDE DEF j
    <2>2. Over(f, j, 7)' /\ Within(h, k, f, j)' /\ Expects(r, f, 7, h)'  BY <1>3, <1>4, <1>5, <2>1
    <2>. QED  BY <2>2 DEF j, h
  <1>7. b.base \in Nat /\ b.base <= k  BY <1>2
  <1>. QED  BY <1>2, <1>6, <1>7, Zenon DEF Gathered

LEMMA NameReads ==
  ASSUME ParseInv, NEW x, NEW q, NEW c, NEW n, NEW t, Sits(x, q, c, n, t), x.do = "name", t \in Names,
         Take(<<>>)
  PROVE  ReadInv'
  <1>1. /\ IsSequence(q) /\ n \in Nat /\ n = Len(done) /\ c \in Nat \ {0} /\ c = current /\ t = Peek
        /\ q = Tail(todo) /\ Holds(x, q, c, n, t)
    BY SitsHas
  <1>2. Quiet(t) /\ t # "eof" /\ t \notin Quotes  BY NamesAreQuiet
  <1>3. <<>> \o q = q  BY <1>1, Unrolled
  <1>4. CASE Flat(q)
    <2>1. todo' = q /\ UNCHANGED input /\ Advance  BY <1>1, <1>3 DEF Take, Then
    <2>. QED  BY <1>1, <1>2, <1>4, <2>1, FlatLands
  <1>5. CASE InValue(x, q, c, n)
    <2>1. PICK m, p : IsSequence(p) /\ q = Cons(m, p) /\ InMember(m, p, c, n)
      <3>1. x.do # "method" /\ ~ Builds1(x, Postfixed)  BY DEF Builds1
      <3>. QED  BY <1>5, <3>1, Zenon DEF InValue, InMember
    <2>2. PICK b, r : IsSequence(r) /\ p = Cons(b, r) /\ Builds1(b, {"member"}) /\ Gathered(b, r, c, n)
      BY <2>1, Zenon DEF InMember
    <2>3. m.do = "method"  BY <2>1 DEF InMember
    <2>4. /\ c <= Len(tokens) /\ Len(tokens) \in Nat /\ tokens[c] = t /\ Kept /\ KeptBelow(n)
          /\ (done'[n + 1]).covers = {c}
      BY <1>2, TakenIs
    <2>. DEFINE d == c + 1  k == n + 1
    <2>6. d = c + 1 /\ k = n + 1  OBVIOUS
    <2>. HIDE DEF d, k
    <2>10. Gathered(b, r, d, k)'  BY <1>1, <1>2, <2>2, <2>4, <2>6, GatheredGrows
    <2>11. InMember(m, p, d, k)'  BY <2>2, <2>3, <2>10, Zenon DEF InMember, Builds1
    <2>12. InValue(m, p, d, k)'  BY <2>11, Zenon DEF InValue
    <2>13. \A u : ReadsOn(q, d, k, u)'  BY <2>1, <2>12, ReadingThen, Zenon DEF ReadingHolds
    <2>14. q = <<>> \o q  BY <1>3
    <2>. QED  BY <1>1, <1>2, <2>6, <2>13, <2>14, TakeLands
  <1>. QED  BY <1>1, <1>4, <1>5 DEF Holds

-----------------------------------------------------------------------------
\* In a literal: its tokens are gathered.
LiteralSits(x, q, c, n, t) ==
  /\ Frame(x, q, n) /\ c = current /\ t = Peek /\ x.do = "quoted" /\ c \in Nat \ {0}
  /\ Gathered(x, q, c, n) /\ InStep /\ Quoting /\ EofIsLast /\ Listing

LEMMA LiteralSitting ==
  ASSUME ParseInv, TextInv, Listing, InStep, Doing("quoted"), ReadsLiteral(todo, current, Len(done))
  PROVE  \E x, q, c, n, t : LiteralSits(x, q, c, n, t)
  <1>1. PICK x, q, n : x.do = "quoted" /\ Frame(x, q, n)  BY Framed
  <1>2. PICK c, t : c = current /\ t = Peek  OBVIOUS
  <1>3. todo = Cons(x, q) /\ IsSequence(q) /\ n = Len(done)  BY <1>1, Anew DEF Frame
  <1>4. PICK y, p : IsSequence(p) /\ Cons(x, q) = Cons(y, p) /\ Gathered(y, p, c, n)
    BY <1>2, <1>3, Zenon DEF ReadsLiteral
  <1>5. x = y /\ q = p  BY <1>3, <1>4, SameCons, Zenon
  <1>6. Quoting  BY DEF Doing, Quoting
  <1>7. c \in Nat \ {0}  BY <1>2 DEF ParseInv, CursorInv
  <1>. QED  BY <1>1, <1>2, <1>4, <1>5, <1>6, <1>7, Zenon DEF LiteralSits, TextInv

LEMMA LiteralGrows ==
  ASSUME ParseInv, NEW x, NEW q, NEW c, NEW n, NEW t, LiteralSits(x, q, c, n, t),
         t \notin Quotes \cup {"eof"}, Take(<<Again>>)
  PROVE  ReadInv'
  <1>1. /\ Frame(x, q, n) /\ c = current /\ t = Peek /\ x.do = "quoted" /\ c \in Nat \ {0}
        /\ Gathered(x, q, c, n) /\ InStep /\ Quoting /\ EofIsLast /\ Listing
    BY DEF LiteralSits
  <1>2. n = Len(done) /\ n \in Nat /\ IsSequence(q) /\ Again = x /\ q = Tail(todo) /\ IsSequence(done)
    BY <1>1, Anew DEF Frame, ParseInv
  <1>3. Advance /\ UNCHANGED input /\ done' = Append(done, Word(t, {c})) /\ todo' = <<x>> \o q
    BY <1>1, <1>2, Zenon DEF Take, Then, Push
  <1>4. Peek # "eof" /\ Peek \notin Quotes  BY <1>1
  <1>5. /\ current <= Len(tokens) /\ Len(tokens) \in Nat /\ current' = current + 1
        /\ tokens[current] = Peek /\ Kept
    BY <1>1, <1>3, <1>4, CursorSteps
  <1>6. /\ Len(done') = n + 1 /\ done'[n + 1] = Word(t, {c})
        /\ \A j \in 1 .. n : done'[j] = done[j]
    BY <1>2, <1>3, PushLength
  <1>7. KeptBelow(n)  BY <1>2, <1>5, <1>6 DEF KeptBelow
  <1>8. (done'[n + 1]).covers = {c}  BY <1>6, WordSound
  <1>9. Quiet(tokens[c])
    <2>1. Peek \in QuotedTokens \cup Quotes \cup {"eof"}
      BY <1>1, InLiteralPeek DEF ParseInv, InStep
    <2>2. t \in QuotedTokens  BY <1>1, <2>1
    <2>. QED  BY <1>1, <1>5, <2>2, LiteralsAreQuiet
  <1>. DEFINE d == c + 1  k == n + 1
  <1>10. d = c + 1 /\ k = n + 1 /\ d = current' /\ k = Len(done')  BY <1>1, <1>5, <1>6
  <1>. HIDE DEF d, k
  <1>11. Gathered(x, q, d, k)'  BY <1>1, <1>2, <1>5, <1>7, <1>8, <1>9, <1>10, GatheredGrows
  <1>12. PICK w : w = todo'  OBVIOUS
  <1>13. w = Cons(x, q)  BY <1>2, <1>3, <1>12, Put1, Zenon
  <1>14. ReadsLiteral(w, d, k)'  BY <1>1, <1>2, <1>11, <1>13, Zenon DEF ReadsLiteral
  <1>15. Quoting'
    <2>1. todo' = Cons(x, q)  BY <1>12, <1>13
    <2>2. todo' # <<>>  BY <1>2, <2>1, ConsIs
    <2>3. Head(todo') = x  BY <1>2, <2>1, ConsParts
    <2>. QED  BY <1>1, <2>2, <2>3 DEF Quoting
  <1>16. InStep'  BY <1>1, <1>3, <1>4, <1>15, StaysInStep DEF ParseInv
  <1>17. PICK u : u = Peek'  OBVIOUS
  <1>. QED  BY <1>10, <1>12, <1>14, <1>16, <1>17, ThenReads, Zenon DEF NowReads

LEMMA LiteralEnds ==
  ASSUME ParseInv, NEW x, NEW q, NEW c, NEW n, NEW t, LiteralSits(x, q, c, n, t),
         t \in Quotes \cup {"eof"}, Then(<<>>), Advance, NEW v, Reduced(v),
         \A f : Within(x.base, n, f, c - 1) => v.covers \subseteq f .. c - 1
  PROVE  ReadInv'
  <1>1. /\ Frame(x, q, n) /\ c = current /\ t = Peek /\ x.do = "quoted" /\ c \in Nat \ {0}
        /\ Gathered(x, q, c, n) /\ InStep /\ Quoting /\ EofIsLast /\ Listing
    BY DEF LiteralSits
  <1>2. /\ n = Len(done) /\ n \in Nat /\ IsSequence(q) /\ x = Head(todo) /\ IsSequence(done)
        /\ x.base \in Nat /\ x.base <= n
    BY <1>1, Anew DEF Frame, ParseInv
  <1>3. UNCHANGED input /\ todo' = q  BY <1>1, Alone DEF Then
  <1>4. PICK f \in 1 .. c - 1 :
          /\ Over(f, c - 1, 7) /\ Within(x.base, n, f, c - 1) /\ Expects(q, f, 7, x.base)
    BY <1>1 DEF Gathered
  <1>. DEFINE b == x.base  k == b + 1  e == c - 1
  <1>5. /\ Len(tokens) \in Nat /\ c <= Len(tokens) + 1 /\ e <= Len(tokens) /\ f <= Len(tokens) + 1
        /\ k \in Nat \ {0} /\ k - 1 = b /\ b <= b /\ e + 1 = c /\ b \in Nat
    BY <1>1, <1>2, <1>4 DEF ParseInv, CursorInv
  <1>6. /\ \A i \in 1 .. Len(tokens) : tokens'[i] = tokens[i]
        /\ \/ current' = current /\ current = Len(tokens) + 1 /\ Peek = "eof"
           \/ current' = current + 1 /\ current <= Len(tokens) /\ tokens[current] = Peek
    BY <1>1, <1>3, TokensMove DEF ParseInv
  <1>7. Kept  BY <1>5, <1>6 DEF Kept
  <1>8. Len(done') = k /\ done'[k] = v /\ \A j \in 1 .. b : done'[j] = done[j]
    <2>1. done' = Append(SubSeq(done, 1, b), v)  BY <1>2 DEF Reduced
    <2>2. b \in Nat /\ b <= Len(done)  BY <1>2
    <2>. HIDE DEF b
    <2>3. Len(done') = b + 1 /\ done'[b + 1] = v /\ \A j \in 1 .. b : done'[j] = done[j]
      BY <1>2, <2>1, <2>2, ReducedPieces
    <2>. QED  BY <2>3
  <1>9. KeptBelow(b)  BY <1>5, <1>7, <1>8 DEF KeptBelow
  <1>10. Over(f, e, 7) /\ Expects(q, f, 7, b) /\ v.covers \subseteq f .. c - 1  BY <1>4
  <1>. HIDE DEF b, k, e
  <1>11. PICK d, u : d = current' /\ u = Peek'  OBVIOUS
  <1>12. Expects(q, f, 7, b)'  BY <1>5, <1>9, <1>10, ExpectsStays, Zenon
  <1>13. Expects(q, f, 7, k - 1)'
    <2>. DEFINE j == k - 1
    <2>1. j = b  BY <1>5
    <2>. HIDE DEF j
    <2>2. Expects(q, f, 7, j)'  BY <1>12, <2>1
    <2>. QED  BY <2>2 DEF j
  <1>14. Over(f, d - 1, 7)' /\ f \in 1 .. d - 1 /\ (done'[k]).covers \subseteq f .. d - 1
    <2>1. CASE current' = current /\ current = Len(tokens) + 1 /\ Peek = "eof"
      <3>1. d = c  BY <1>1, <1>11, <2>1
      <3>2. Over(f, e, 7)'  BY <1>5, <1>7, <1>10, OverStays, Zenon
      <3>3. Over(f, c - 1, 7)'  BY <3>2 DEF e
      <3>. QED  BY <1>4, <1>8, <1>10, <3>1, <3>3
    <2>2. CASE current' = current + 1 /\ current <= Len(tokens) /\ tokens[current] = Peek
      <3>1. d = c + 1 /\ d - 1 = c  BY <1>1, <1>11, <2>2
      <3>2. Quiet(tokens[e + 1])  BY <1>1, <1>5, <2>2, LiteralsAreQuiet
      <3>3. Over(f, e + 1, 7)  BY <1>10, <3>2, QuietNext, Zenon
      <3>4. Over(f, c, 7) /\ c <= Len(tokens)  BY <1>1, <1>5, <2>2, <3>3
      <3>5. Over(f, c, 7)'  BY <1>7, <3>4, OverStays, Zenon
      <3>. DEFINE j == d - 1
      <3>6. j = c  BY <3>1
      <3>. HIDE DEF j
      <3>7. Over(f, j, 7)'  BY <3>5, <3>6
      <3>8. Over(f, d - 1, 7)'  BY <3>7 DEF j
      <3>9. f \in 1 .. d - 1 /\ f .. c - 1 \subseteq f .. d - 1  BY <1>1, <1>4, <3>1
      <3>. QED  BY <1>8, <1>10, <3>8, <3>9
    <2>. QED  BY <1>6, <2>1, <2>2
  <1>15. Behind(q, d, k, u)'  BY <1>5, <1>13, <1>14, TightThen, Zenon DEF TightBehind
  <1>16. ReadsOn(q, d, k, u)'  BY <1>2, <1>15, ReadingThen, Zenon DEF ReadingHolds
  <1>17. ~ Quoting'
    <2>1. ~ (q # <<>> /\ Head(q).do = "quoted")
      BY <1>2, <1>16, NoLiteralThen, Zenon DEF NoLiterals
    <2>. QED  BY <1>3, <2>1 DEF Quoting
  <1>18. InStep'
    <2>1. Peek = "eof" \/ Peek \in Quotes  BY <1>1
    <2>. QED  BY <1>1, <1>3, <1>17, <2>1, StaysInStep DEF ParseInv
  <1>19. q = todo' /\ k = Len(done')  BY <1>3, <1>8
  <1>. QED  BY <1>11, <1>16, <1>18, <1>19, ThenReads, Zenon DEF NowReads

-----------------------------------------------------------------------------
\* The items of what is no expression.
Calm(x) == Tame(x) /\ x.do # "directive"
\* The items a rule is replaced by, when none of them is of an expression.
Mild(q) == IsSequence(q) /\ \A i \in 1 .. Len(q) : Calm(q[i])

LEMMA MildJoin == \A r, s : Mild(r) /\ Mild(s) => Mild(r \o s)
  <1>. SUFFICES ASSUME NEW r, NEW s, Mild(r), Mild(s) PROVE Mild(r \o s)  OBVIOUS
  <1>1. /\ IsSequence(r \o s) /\ Len(r \o s) = Len(r) + Len(s)
        /\ Len(r) \in Nat /\ Len(s) \in Nat
        /\ \A i \in 1 .. Len(r) : (r \o s)[i] = r[i]
        /\ \A i \in 1 .. Len(s) : (r \o s)[Len(r) + i] = s[i]
    BY ConcatLength DEF Mild
  <1>. DEFINE t == r \o s
  <1>. HIDE DEF t
  <1>2. ASSUME NEW i \in 1 .. Len(r) + Len(s) PROVE Calm(t[i])
    <2>1. CASE i \in 1 .. Len(r)  BY <1>1, <2>1 DEF Mild, t
    <2>2. CASE i \notin 1 .. Len(r)
      <3>1. i - Len(r) \in 1 .. Len(s) /\ Len(r) + (i - Len(r)) = i  BY <1>1, <2>2
      <3>2. t[i] = s[i - Len(r)]  BY <1>1, <3>1 DEF t
      <3>. QED  BY <3>1, <3>2 DEF Mild
    <2>. QED  BY <2>1, <2>2
  <1>. QED  BY <1>1, <1>2 DEF Mild, t

LEMMA MildTuples ==
  /\ Mild(<<>>)
  /\ \A a : Calm(a) => Mild(<<a>>)
  /\ \A a, b : Calm(a) /\ Calm(b) => Mild(<<a, b>>)
  /\ \A a, b, c : Calm(a) /\ Calm(b) /\ Calm(c) => Mild(<<a, b, c>>)
  /\ \A a, b, c, d : Calm(a) /\ Calm(b) /\ Calm(c) /\ Calm(d) => Mild(<<a, b, c, d>>)
  /\ \A a, b, c, d, e :
       Calm(a) /\ Calm(b) /\ Calm(c) /\ Calm(d) /\ Calm(e) => Mild(<<a, b, c, d, e>>)
  /\ \A a, b, c, d, e, f :
       Calm(a) /\ Calm(b) /\ Calm(c) /\ Calm(d) /\ Calm(e) /\ Calm(f)
         => Mild(<<a, b, c, d, e, f>>)
  <1>1. Mild(<<>>)  BY Tuples DEF Mild
  <1>2. ASSUME NEW a, Calm(a) PROVE Mild(<<a>>)
    <2>1. IsSequence(<<a>>) /\ Len(<<a>>) = 1 /\ <<a>>[1] = a  BY Tuples
    <2>. DEFINE q == <<a>>
    <2>. HIDE DEF q
    <2>2. \A i \in 1 .. Len(q) : Calm(q[i])  BY <1>2, <2>1 DEF q
    <2>. QED  BY <2>1, <2>2 DEF Mild, q
  <1>3. \A a, q : Calm(a) /\ Mild(q) => Mild(Cons(a, q))
    BY <1>2, MildJoin, Zenon DEF Cons
  <1>4. \A a : Calm(a) => Mild(<<a>>)  BY <1>2
  <1>5. ASSUME NEW a, NEW b,
                Calm(a), Calm(b)
         PROVE  Mild(<<a, b>>)
    <2>1. Mild(<<b>>)  BY <1>4, <1>5
    <2>2. <<a, b>> = Cons(a, <<b>>)  BY TupleCons
    <2>. QED  BY <1>3, <1>5, <2>1, <2>2, Zenon
  <1>6. ASSUME NEW a, NEW b, NEW c,
                Calm(a), Calm(b), Calm(c)
         PROVE  Mild(<<a, b, c>>)
    <2>1. Mild(<<b, c>>)  BY <1>5, <1>6
    <2>2. <<a, b, c>> = Cons(a, <<b, c>>)  BY TupleCons
    <2>. QED  BY <1>3, <1>6, <2>1, <2>2, Zenon
  <1>7. ASSUME NEW a, NEW b, NEW c, NEW d,
                Calm(a), Calm(b), Calm(c), Calm(d)
         PROVE  Mild(<<a, b, c, d>>)
    <2>1. Mild(<<b, c, d>>)  BY <1>6, <1>7
    <2>2. <<a, b, c, d>> = Cons(a, <<b, c, d>>)  BY TupleCons
    <2>. QED  BY <1>3, <1>7, <2>1, <2>2, Zenon
  <1>8. ASSUME NEW a, NEW b, NEW c, NEW d, NEW e,
                Calm(a), Calm(b), Calm(c), Calm(d), Calm(e)
         PROVE  Mild(<<a, b, c, d, e>>)
    <2>1. Mild(<<b, c, d, e>>)  BY <1>7, <1>8
    <2>2. <<a, b, c, d, e>> = Cons(a, <<b, c, d, e>>)  BY TupleCons
    <2>. QED  BY <1>3, <1>8, <2>1, <2>2, Zenon
  <1>9. ASSUME NEW a, NEW b, NEW c, NEW d, NEW e, NEW f,
                Calm(a), Calm(b), Calm(c), Calm(d), Calm(e), Calm(f)
         PROVE  Mild(<<a, b, c, d, e, f>>)
    <2>1. Mild(<<b, c, d, e, f>>)  BY <1>8, <1>9
    <2>2. <<a, b, c, d, e, f>> = Cons(a, <<b, c, d, e, f>>)  BY TupleCons
    <2>. QED  BY <1>3, <1>9, <2>1, <2>2, Zenon
  <1>. QED  BY <1>1, <1>4, <1>5, <1>6, <1>7, <1>8, <1>9

\* The items of an expression, and those told apart by what they build or consume;
\* the kinds of nodes that have a value.
Hasty == {"ternary", "operand", "call", "unary", "primary", "operators", "question",
          "assignment", "postfix", "quoted", "method", "build", "consume", "directive"}
Valued == Postfixed \cup Lowest \cup {"unary", "binary"}

LEMMA ItemCalm ==
  /\ \A f, a, b : f \notin Hasty => Calm(Item(f, a, b))
  /\ \A f : f \notin Hasty => Calm(Do(f))
  /\ \A f, a : f \notin Hasty => Calm(With(f, a))
  /\ \A kind : kind \notin Valued => Calm(Build(kind)) /\ Calm(Finish("build", kind))
  /\ \A f, a : f \notin Hasty => Calm(Finish(f, a))
  /\ \A t : t \notin Quotes => Calm(Eat(t))
  <1>1. \A f, a, b : Item(f, a, b).do = f /\ Item(f, a, b).arg = a  BY DEF Item
  <1>2. \A f, a, b : f \notin Hasty => Calm(Item(f, a, b))
    BY <1>1 DEF Calm, Tame, Hasty, Builds1
  <1>3. \A a, b : a \notin Quotes => Calm(Item("consume", a, b))  BY <1>1 DEF Calm, Tame, Builds1
  <1>4. \A a, b : a \notin Valued => Calm(Item("build", a, b))  BY <1>1 DEF Calm, Tame, Builds1, Valued
  <1>5. \A f : f \notin Hasty => Calm(Do(f))  BY <1>2, Zenon DEF Do
  <1>6. \A f, a : f \notin Hasty => Calm(With(f, a))  BY <1>2, Zenon DEF With
  <1>7. \A kind : kind \notin Valued => Calm(Build(kind)) /\ Calm(Finish("build", kind))
    BY <1>4, Zenon DEF Build, Finish
  <1>8. \A f, a : f \notin Hasty => Calm(Finish(f, a))  BY <1>2, Zenon DEF Finish
  <1>9. \A t : t \notin Quotes => Calm(Eat(t))  BY <1>3, Zenon DEF Eat, With
  <1>. QED  BY <1>2, <1>5, <1>6, <1>7, <1>8, <1>9

LEMMA DoCalm ==
  /\ Calm(Do("type")) /\ Calm(Do("name")) /\ Calm(Do("initializer")) /\ Calm(Do("end"))
  /\ Calm(Do("return_type")) /\ Calm(Do("block")) /\ Calm(Do("expr")) /\ Calm(Do("else"))
  /\ Calm(Do("stmt")) /\ Calm(Do("stmts")) /\ Calm(Do("element_type"))
  /\ Calm(Do("for_init")) /\ Calm(Do("directive_value")) /\ Calm(Do("branch"))
  /\ \A a : Calm(With("list", a)) /\ Calm(With("optional", a)) /\ Calm(With("more", a))
            /\ Calm(Finish("range?", a))
  <1>1. \A f \in {"type", "name", "initializer", "end", "return_type", "block", "expr", "else",
                  "stmt", "stmts", "element_type", "for_init", "directive_value",
                  "branch", "list", "optional", "more", "range?"} :
          f \notin Hasty
    BY DEF Hasty
  <1>. QED  BY <1>1, ItemCalm

LEMMA KindsCalm ==
  /\ Calm(Build("decl")) /\ Calm(Build("func")) /\ Calm(Build("print")) /\ Calm(Build("read"))
  /\ Calm(Build("if")) /\ Calm(Build("while")) /\ Calm(Build("return")) /\ Calm(Build("block"))
  /\ Calm(Finish("build", "for")) /\ Calm(Finish("build", "range")) /\ Calm(Build("break"))
  /\ Calm(Build("continue")) /\ Calm(Build("directive"))
  <1>1. \A k \in {"decl", "func", "print", "read", "if", "while", "return", "block", "for", "range",
                  "break", "continue", "directive"} : k \notin Valued
    BY DEF Valued, Postfixed, Lowest
  <1>. QED  BY <1>1, ItemCalm

LEMMA MarksCalm ==
  /\ Calm(Eat("(")) /\ Calm(Eat(")")) /\ Calm(Eat("{")) /\ Calm(Eat("}")) /\ Calm(Eat("<"))
  /\ Calm(Eat(">")) /\ Calm(Eat(";")) /\ Calm(Eat("]")) /\ Calm(Eat(":"))
  <1>1. \A t \in {"(", ")", "<", ">", "]", ":"} : t \notin Quotes  BY DEF Quotes
  <1>2. "{" \notin Quotes /\ "}" \notin Quotes /\ ";" \notin Quotes
    BY Zenon DEF Quotes
  <1>. QED  BY <1>1, <1>2, ItemCalm

LEMMA ParensMild == \A q : Mild(q) => Mild(Parens(q))
  <1>1. Calm(Eat("(")) /\ Calm(Eat(")"))  BY MarksCalm
  <1>2. Mild(<<Eat("(")>>) /\ Mild(<<Eat(")")>>)  BY <1>1, MildTuples
  <1>3. \A q : Mild(q) => Mild(<<Eat("(")>> \o q)  BY <1>2, MildJoin, Zenon
  <1>. QED  BY <1>2, <1>3, MildJoin, Zenon DEF Parens

LEMMA MildRest ==
  /\ Mild(Decl) /\ Mild(Param) /\ Mild(FuncDef) /\ Mild(PrintRest) /\ Mild(ReadRest)
  /\ Mild(IfRest) /\ Mild(WhileRest) /\ Mild(ReturnRest) /\ Mild(ForRest)
  <1>1. Mild(Decl)
    BY KindsCalm, DoCalm, MildTuples, Zenon DEF Decl
  <1>2. Mild(Param)
    BY KindsCalm, DoCalm, MildTuples, Zenon DEF Param
  <1>3. Mild(FuncDef)
    <2>1. Mild(<<Do("name")>>) /\ Mild(<<With("list", "param")>>)  BY DoCalm, MildTuples, Zenon
    <2>2. Mild(<<Do("return_type"), Do("block"), Build("func")>>)
      BY KindsCalm, DoCalm, MildTuples, Zenon
    <2>3. Mild(Parens(<<With("list", "param")>>))  BY <2>1, ParensMild, Zenon
    <2>4. Mild(<<Do("name")>> \o Parens(<<With("list", "param")>>))  BY <2>1, <2>3, MildJoin, Zenon
    <2>. QED  BY <2>2, <2>4, MildJoin, Zenon DEF FuncDef
  <1>4. Mild(PrintRest)
    <2>1. Mild(<<With("list", "expr")>>) /\ Mild(<<Do("end"), Build("print")>>)
      BY KindsCalm, DoCalm, MildTuples, Zenon
    <2>. QED  BY <2>1, ParensMild, MildJoin, Zenon DEF PrintRest
  <1>5. Mild(ReadRest)
    <2>1. Mild(<<Do("name")>>) /\ Mild(<<Do("end"), Build("read")>>)
      BY KindsCalm, DoCalm, MildTuples, Zenon
    <2>. QED  BY <2>1, ParensMild, MildJoin, Zenon DEF ReadRest
  <1>6. Mild(IfRest)
    <2>1. Mild(<<Do("expr")>>) /\ Mild(<<Do("block"), Do("else"), Build("if")>>)
      BY KindsCalm, DoCalm, MildTuples, Zenon
    <2>. QED  BY <2>1, ParensMild, MildJoin, Zenon DEF IfRest
  <1>7. Mild(WhileRest)
    <2>1. Mild(<<Do("expr")>>) /\ Mild(<<Do("block"), Build("while")>>)
      BY KindsCalm, DoCalm, MildTuples, Zenon
    <2>. QED  BY <2>1, ParensMild, MildJoin, Zenon DEF WhileRest
  <1>8. Mild(ReturnRest)
    BY KindsCalm, DoCalm, MildTuples, Zenon DEF ReturnRest
  <1>9. Mild(ForRest)
    <2>1. Calm(Eat(";")) /\ Calm(Eat(")"))  BY MarksCalm, Zenon
    <2>2. Calm(With("optional", ";")) /\ Calm(With("optional", ")")) /\ Calm(Finish("build", "for"))
      BY DoCalm, KindsCalm, Zenon
    <2>. QED  BY <2>1, <2>2, DoCalm, MildTuples, Zenon DEF ForRest
  <1>. QED  BY <1>1, <1>2, <1>3, <1>4, <1>5, <1>6, <1>7, <1>8, <1>9

LEMMA MildElement == \A kind : Mild(Element(kind))
  <1>. TAKE kind
  <1>1. Mild(<<Do("expr")>>) /\ Mild(Param)  BY DoCalm, MildTuples, MildRest, Zenon
  <1>. QED  BY <1>1, Zenon DEF Element

LEMMA MildIs == \A q : Mild(q) => IsSequence(q) /\ Flat(q) /\ AllBlunt(q)
  BY DEF Mild, Calm, Flat, AllBlunt, Blunt

\* The items put before the others.
LEMMA JoinAll ==
  \A r, s : IsSequence(r) /\ IsSequence(s) =>
    /\ IsSequence(r \o s)
    /\ Flat(r) /\ Flat(s) => Flat(r \o s)
    /\ AllBlunt(r) /\ AllBlunt(s) => AllBlunt(r \o s)
  <1>. SUFFICES ASSUME NEW r, NEW s, IsSequence(r), IsSequence(s)
       PROVE  /\ IsSequence(r \o s)
              /\ Flat(r) /\ Flat(s) => Flat(r \o s)
              /\ AllBlunt(r) /\ AllBlunt(s) => AllBlunt(r \o s)
    OBVIOUS
  <1>1. /\ IsSequence(r \o s) /\ Len(r \o s) = Len(r) + Len(s)
        /\ Len(r) \in Nat /\ Len(s) \in Nat
        /\ \A i \in 1 .. Len(r) : (r \o s)[i] = r[i]
        /\ \A i \in 1 .. Len(s) : (r \o s)[Len(r) + i] = s[i]
    BY ConcatLength
  <1>. DEFINE t == r \o s
  <1>. HIDE DEF t
  <1>2. ASSUME NEW i \in 1 .. Len(t)
        PROVE  (\E j \in 1 .. Len(r) : t[i] = r[j]) \/ (\E j \in 1 .. Len(s) : t[i] = s[j])
    <2>1. CASE i \in 1 .. Len(r)  BY <1>1, <2>1 DEF t
    <2>2. CASE i \notin 1 .. Len(r)
      <3>1. i - Len(r) \in 1 .. Len(s) /\ Len(r) + (i - Len(r)) = i  BY <1>1, <2>2 DEF t
      <3>2. t[i] = s[i - Len(r)]  BY <1>1, <3>1 DEF t
      <3>. QED  BY <3>1, <3>2
    <2>. QED  BY <2>1, <2>2
  <1>3. Flat(r) /\ Flat(s) => Flat(t)  BY <1>2, Zenon DEF Flat
  <1>4. AllBlunt(r) /\ AllBlunt(s) => AllBlunt(t)  BY <1>2, Zenon DEF AllBlunt
  <1>. QED  BY <1>1, <1>3, <1>4 DEF t

-----------------------------------------------------------------------------
\* The next item and the others, when a quote was taken for another token.
Strays(x, q, c, n, t) ==
  /\ Frame(x, q, n) /\ c = current /\ t = Peek /\ c \in Nat \ {0} /\ Astray
  /\ AllBlunt(q) /\ (x.do # "quoted" => Blunt(x))
  /\ EofIsLast /\ Listing

LEMMA BluntIsNoLiteral == \A x : Blunt(x) => x.do # "quoted"
  BY DEF Blunt, Tame, Operands

LEMMA BluntCons ==
  ASSUME NEW x, NEW q, IsSequence(q)
  PROVE  AllBlunt(Cons(x, q)) <=> Blunt(x) /\ AllBlunt(q)
  <1>. DEFINE w == Cons(x, q)
  <1>1. /\ Len(w) = Len(q) + 1 /\ w[1] = x /\ Len(q) \in Nat
        /\ \A i \in 1 .. Len(q) : w[i + 1] = q[i]
    BY ConsIs
  <1>. HIDE DEF w
  <1>2. ASSUME AllBlunt(w) PROVE Blunt(x) /\ AllBlunt(q)
    <2>1. Blunt(x)  BY <1>1, <1>2 DEF AllBlunt
    <2>2. ASSUME NEW i \in 1 .. Len(q) PROVE Blunt(q[i])
      <3>1. i + 1 \in 1 .. Len(w)  BY <1>1
      <3>2. Blunt(w[i + 1])  BY <1>2, <3>1, Zenon DEF AllBlunt
      <3>3. w[i + 1] = q[i]  BY <1>1
      <3>. QED  BY <3>2, <3>3, Zenon
    <2>. QED  BY <2>1, <2>2 DEF AllBlunt
  <1>3. ASSUME Blunt(x), AllBlunt(q) PROVE AllBlunt(w)
    <2>1. ASSUME NEW i \in 1 .. Len(w) PROVE Blunt(w[i])
      <3>1. CASE i = 1  BY <1>1, <1>3, <3>1
      <3>2. CASE i # 1
        <4>1. i - 1 \in 1 .. Len(q) /\ (i - 1) + 1 = i  BY <1>1, <3>2
        <4>2. w[i] = q[i - 1]  BY <1>1, <4>1
        <4>. QED  BY <1>3, <4>1, <4>2 DEF AllBlunt
      <3>. QED  BY <3>1, <3>2
    <2>. QED  BY <2>1 DEF AllBlunt
  <1>. QED  BY <1>2, <1>3 DEF w

LEMMA Straying ==
  ASSUME ParseInv, TextInv, Listing, Astray, NEW f, Doing(f), AllBlunt(todo) \/ BluntLiteral(todo)
  PROVE  \E x, q, c, n, t : x.do = f /\ Strays(x, q, c, n, t)
  <1>1. PICK x, q, n : x.do = f /\ Frame(x, q, n)  BY Framed
  <1>2. PICK c, t : c = current /\ t = Peek  OBVIOUS
  <1>3. todo = Cons(x, q) /\ IsSequence(q)  BY <1>1, Anew DEF Frame
  <1>4. AllBlunt(q) /\ (x.do # "quoted" => Blunt(x))
    <2>1. CASE AllBlunt(todo)  BY <1>3, <2>1, BluntCons
    <2>2. CASE BluntLiteral(todo)
      <3>1. PICK y, p : IsSequence(p) /\ Cons(x, q) = Cons(y, p) /\ y.do = "quoted" /\ AllBlunt(p)
        BY <1>3, <2>2, Zenon DEF BluntLiteral
      <3>2. x = y /\ q = p  BY <1>3, <3>1, SameCons, Zenon
      <3>. QED  BY <3>1, <3>2
    <2>. QED  BY <2>1, <2>2
  <1>5. c \in Nat \ {0}  BY <1>2 DEF ParseInv, CursorInv
  <1>. QED  BY <1>1, <1>2, <1>4, <1>5, Zenon DEF Strays, TextInv

\* The three ways to read.
LEMMA Standing ==
  ASSUME ParseInv, TextInv, Listing, ReadInv, NEW f, Doing(f)
  PROVE  \/ \E x, q, c, n, t : x.do = f /\ Sits(x, q, c, n, t)
         \/ f = "quoted" /\ \E x, q, c, n, t : LiteralSits(x, q, c, n, t)
         \/ \E x, q, c, n, t : x.do = f /\ Strays(x, q, c, n, t)
  <1>1. status = "parsing" /\ todo # <<>> /\ Head(todo).do = f  BY DEF Doing
  <1>2. \/ InStep /\ (ReadsOn(todo, current, Len(done), Peek) \/ ReadsLiteral(todo, current, Len(done)))
        \/ Astray /\ (AllBlunt(todo) \/ BluntLiteral(todo))
    BY <1>1, Zenon DEF ReadInv
  <1>3. IsSequence(todo)  BY DEF ParseInv
  <1>4. CASE InStep /\ ReadsOn(todo, current, Len(done), Peek)
    <2>1. PICK w, c, n, t : w = todo /\ c = current /\ n = Len(done) /\ t = Peek  OBVIOUS
    <2>2. f # "quoted"  BY <1>1, <1>3, <1>4, <2>1, NoLiteral, Zenon
    <2>. QED  BY <1>4, <2>2, Sitting
  <1>5. CASE InStep /\ ReadsLiteral(todo, current, Len(done))
    <2>1. PICK y, p : IsSequence(p) /\ todo = Cons(y, p) /\ y.do = "quoted"
      BY <1>5, Zenon DEF ReadsLiteral
    <2>2. f = "quoted"  BY <1>1, <2>1, ConsParts, Zenon
    <2>3. Doing("quoted")  BY <2>2
    <2>. QED  BY <1>5, <2>2, <2>3, LiteralSitting
  <1>6. CASE Astray /\ (AllBlunt(todo) \/ BluntLiteral(todo))  BY <1>6, Straying
  <1>. QED  BY <1>2, <1>4, <1>5, <1>6

-----------------------------------------------------------------------------
\* Astray, no token of an expression is ahead but the quotes.
LEMMA StrayPeek ==
  ASSUME ParseInv, NEW x, NEW q, NEW c, NEW n, NEW t, Strays(x, q, c, n, t), x.do # "quoted"
  PROVE  t \in QuotedTokens \cup Quotes \cup {"eof"}
  <1>1. ~ Quoting  BY DEF Strays, Frame, Quoting
  <1>2. current > Len(tokens) \/ InQuotes  BY <1>1 DEF Strays, Astray
  <1>3. CursorInv /\ Listing /\ t = Peek  BY DEF ParseInv, Strays
  <1>. QED  BY <1>2, <1>3, InLiteralPeek

LEMMA NoLiteralAhead == \A w : IsSequence(w) /\ AllBlunt(w) => ~ (w # <<>> /\ Head(w).do = "quoted")
  <1>. SUFFICES ASSUME NEW w, IsSequence(w), AllBlunt(w), w # <<>> PROVE Head(w).do # "quoted"  OBVIOUS
  <1>1. Head(w) = w[1] /\ 1 \in 1 .. Len(w)
    <2>1. Len(w) \in Nat /\ Head(w) = w[1] /\ Len(w) # 0
      BY TailLength, DomainIs DEF IsSequence
    <2>. QED  BY <2>1
  <1>2. Blunt(w[1])  BY <1>1, Zenon DEF AllBlunt
  <1>. QED  BY <1>1, <1>2, BluntIsNoLiteral, Zenon

LEMMA StrayLands ==
  ASSUME ParseInv, NEW x, NEW q, NEW c, NEW n, NEW t, Strays(x, q, c, n, t), x.do # "quoted",
         UNCHANGED input, Stay \/ (Advance /\ t \notin Quotes),
         NEW w, w = todo', IsSequence(w), AllBlunt(w)
  PROVE  ReadInv'
  <1>1. t = Peek /\ EofIsLast /\ Astray /\ x = Head(todo) /\ CursorInv  BY DEF Strays, Frame, ParseInv
  <1>2. ~ Quoting  BY <1>1 DEF Quoting
  <1>3. AllBlunt(w)'  BY DEF AllBlunt, Blunt, Tame, Builds1
  <1>4. ~ Quoting'
    <2>1. ~ (w # <<>> /\ Head(w).do = "quoted")  BY NoLiteralAhead
    <2>. QED  BY <2>1 DEF Quoting
  <1>5. Astray'  BY <1>1, <1>2, <1>4, StaysInStep
  <1>. DEFINE d == current'  k == Len(done')  u == Peek'
  <1>6. PICK d0, k0, u0 : d0 = d /\ k0 = k /\ u0 = u  OBVIOUS
  <1>. QED  BY <1>3, <1>5, <1>6, ThenReads, Zenon DEF NowReads

-----------------------------------------------------------------------------
\* The steps of the other functions: where no expression waits, and astray.
LEMMA StrayReads ==
  ASSUME ParseInv, NEW x, NEW q, NEW c, NEW n, NEW t, Strays(x, q, c, n, t), x.do # "quoted",
         NEW items, IsSequence(items), AllBlunt(items), Then(items), Stay \/ (Advance /\ t \notin Quotes)
  PROVE  ReadInv'
  <1>1. q = Tail(todo) /\ IsSequence(q) /\ AllBlunt(q)  BY DEF Strays, Frame
  <1>2. PICK w : w = todo'  OBVIOUS
  <1>3. w = items \o q /\ UNCHANGED input  BY <1>1, <1>2 DEF Then
  <1>4. IsSequence(w) /\ AllBlunt(w)  BY <1>1, <1>3, JoinAll, Zenon
  <1>. QED  BY <1>2, <1>3, <1>4, StrayLands

LEMMA FlatReads ==
  ASSUME ParseInv, NEW x, NEW q, NEW c, NEW n, NEW t, Sits(x, q, c, n, t), Flat(q),
         NEW items, Mild(items), Then(items), Stay \/ (Advance /\ t \notin Quotes)
  PROVE  ReadInv'
  <1>1. q = Tail(todo) /\ IsSequence(q)  BY SitsHas
  <1>2. PICK w : w = todo'  OBVIOUS
  <1>3. w = items \o q /\ UNCHANGED input  BY <1>1, <1>2 DEF Then
  <1>4. IsSequence(w) /\ Flat(w)  BY <1>1, <1>3, JoinAll, MildIs, Zenon
  <1>. QED  BY <1>2, <1>3, <1>4, FlatLands

\* The functions of statements and declarations: they run where no expression waits.
Outer == {"program", "stmts", "block", "type", "element_type", "initializer", "return_type", "stmt",
          "directive", "directive_value", "else", "branch", "for_init", "range?", "optional", "end"}

LEMMA OuterIsFlat ==
  ASSUME NEW x, NEW q, NEW c, NEW n, NEW t, Sits(x, q, c, n, t),
         \/ x.do \in Outer
         \/ x.do = "build" /\ x.arg \notin Valued
         \/ x.do \in {"list", "more"} /\ x.arg = "param"
  PROVE  Flat(q)
  <1>1. Holds(x, q, c, n, t)  BY SitsHas
  <1>2. CASE x.do \in Outer  BY <1>1, <1>2 DEF Holds, Outer, Operands, Builds1
  <1>3. CASE x.do = "build" /\ x.arg \notin Valued  BY <1>1, <1>3 DEF Holds, Operands, Builds1, Valued
  <1>4. CASE x.do = "list" /\ x.arg = "param"
    BY <1>1, <1>4 DEF Holds, BeforeValue
  <1>5. CASE x.do = "more" /\ x.arg = "param"
    BY <1>5, MoreSits
  <1>. QED  BY <1>2, <1>3, <1>4, <1>5

LEMMA OuterReads ==
  ASSUME ParseInv, TextInv, Listing, ReadInv, NEW f, Doing(f),
         \/ f \in Outer
         \/ f = "build" /\ Head(todo).arg \notin Valued
         \/ f \in {"list", "more"} /\ Head(todo).arg = "param",
         NEW items, Mild(items), Then(items), Stay \/ (Advance /\ Peek \notin Quotes)
  PROVE  ReadInv'
  <1>1. f # "quoted"  BY DEF Outer
  <1>2. CASE \E x, q, c, n, t : x.do = f /\ Sits(x, q, c, n, t)
    <2>1. PICK x, q, c, n, t : x.do = f /\ Sits(x, q, c, n, t)  BY <1>2
    <2>2. x = Head(todo) /\ t = Peek  BY <2>1, SitsHas
    <2>3. Flat(q)  BY <2>1, <2>2, OuterIsFlat
    <2>. QED  BY <2>1, <2>2, <2>3, FlatReads
  <1>3. CASE \E x, q, c, n, t : x.do = f /\ Strays(x, q, c, n, t)
    <2>1. PICK x, q, c, n, t : x.do = f /\ Strays(x, q, c, n, t)  BY <1>3
    <2>2. t = Peek  BY <2>1 DEF Strays
    <2>3. IsSequence(items) /\ AllBlunt(items)  BY MildIs
    <2>. QED  BY <1>1, <2>1, <2>2, <2>3, StrayReads
  <1>. QED  BY <1>1, <1>2, <1>3, Standing

\* The same for every step at once.
OuterStepsRead ==
  \A f, items :
    /\ Doing(f) /\ Mild(items)
    /\ \/ f \in Outer
       \/ f \in {"list", "more"} /\ Head(todo).arg = "param"
    => /\ Go(items) => ReadInv'
       /\ Skip(items) /\ Peek \notin Quotes => ReadInv'
       /\ Take(items) /\ Peek \notin Quotes => ReadInv'

LEMMA OuterSteps ==
  ASSUME ParseInv, TextInv, Listing, ReadInv
  PROVE  OuterStepsRead
  <1>. SUFFICES ASSUME NEW f, NEW items, Doing(f), Mild(items),
                       \/ f \in Outer
                       \/ f \in {"list", "more"} /\ Head(todo).arg = "param"
                PROVE  /\ Go(items) => ReadInv'
                       /\ Skip(items) /\ Peek \notin Quotes => ReadInv'
                       /\ Take(items) /\ Peek \notin Quotes => ReadInv'
    BY DEF OuterStepsRead
  <1>1. Go(items) => Then(items) /\ Stay  BY DEF Go
  <1>2. Skip(items) => Then(items) /\ Advance  BY DEF Skip
  <1>3. Take(items) => Then(items) /\ Advance  BY DEF Take
  <1>. QED  BY <1>1, <1>2, <1>3, OuterReads

\* No step at all.
LEMMA FailReads ==
  ASSUME NEW code, code # "parsing", Fail(code)
  PROVE  ReadInv'
  BY DEF Fail, ReadInv

-----------------------------------------------------------------------------
\* A quote after an @ is taken for another token.
LEMMA DirectiveReads ==
  ASSUME ParseInv, TextInv, Listing, ReadInv, Doing("directive"), Take(<<Do("directive_value")>>)
  PROVE  ReadInv'
  <1>. DEFINE items == <<Do("directive_value")>>
  <1>1. Mild(items)  BY DoCalm, MildTuples, Zenon
  <1>2. Then(items) /\ Advance /\ UNCHANGED input  BY DEF Take, Then
  <1>. HIDE DEF items
  <1>3. CASE Peek \notin Quotes  BY <1>1, <1>2, <1>3, OuterReads DEF Outer
  <1>4. CASE Peek \in Quotes
    <2>1. CASE \E x, q, c, n, t : x.do = "directive" /\ Sits(x, q, c, n, t)
      <3>1. PICK x, q, c, n, t : x.do = "directive" /\ Sits(x, q, c, n, t)  BY <2>1
      <3>2. /\ x = Head(todo) /\ q = Tail(todo) /\ t = Peek /\ IsSequence(q) /\ EofIsLast /\ InStep
        BY <3>1, SitsHas
      <3>3. Flat(q)  BY <3>1, OuterIsFlat DEF Outer
      <3>4. AllBlunt(q)
        <4>1. Fine(q)  BY <3>2 DEF TextInv, TodoInv, Doing
        <4>. QED  BY <3>3, <4>1 DEF AllBlunt, Flat, Fine, Proper, Blunt
      <3>5. PICK w : w = todo'  OBVIOUS
      <3>6. w = items \o q  BY <1>2, <3>2, <3>5 DEF Then
      <3>7. IsSequence(w) /\ AllBlunt(w)  BY <1>1, <3>2, <3>4, <3>6, MildIs, JoinAll, Zenon
      <3>8. ~ Quoting' /\ ~ Quoting
        <4>1. ~ (w # <<>> /\ Head(w).do = "quoted")  BY <3>7, NoLiteralAhead
        <4>. QED  BY <3>1, <3>2, <3>5, <4>1 DEF Quoting
      <3>9. Astray'
        <4>1. CursorInv  BY DEF ParseInv
        <4>. QED  BY <1>2, <1>4, <3>2, <3>8, <4>1, FallsOut
      <3>10. AllBlunt(w)'  BY <3>7 DEF AllBlunt, Blunt, Tame, Builds1
      <3>. DEFINE d == current'  k == Len(done')  u == Peek'
      <3>11. PICK d0, k0, u0 : d0 = d /\ k0 = k /\ u0 = u  OBVIOUS
      <3>. QED  BY <3>5, <3>9, <3>10, <3>11, ThenReads, Zenon DEF NowReads
    <2>2. CASE \E x, q, c, n, t : x.do = "directive" /\ Strays(x, q, c, n, t)
      <3>1. PICK x, q, c, n, t : x.do = "directive" /\ Strays(x, q, c, n, t)  BY <2>2
      <3>2. Blunt(x)  BY <3>1 DEF Strays
      <3>. QED  BY <3>1, <3>2 DEF Blunt, Operands
    <2>. QED  BY <2>1, <2>2, Standing
  <1>. QED  BY <1>3, <1>4

-----------------------------------------------------------------------------
\* A literal that is read astray.
LEMMA StrayLiteral ==
  ASSUME ParseInv, NEW x, NEW q, NEW c, NEW n, NEW t, Strays(x, q, c, n, t), UNCHANGED input,
         NEW w, w = todo',
         \/ /\ Advance /\ t \in Quotes /\ x.do # "quoted"
            /\ \E y : y.do = "quoted" /\ w = Cons(y, q)
         \/ /\ Advance /\ t \notin Quotes /\ x.do = "quoted" /\ w = Cons(x, q)
         \/ /\ Advance /\ t \in Quotes \cup {"eof"} /\ x.do = "quoted" /\ w = q
  PROVE  ReadInv'
  <1>1. /\ t = Peek /\ EofIsLast /\ Astray /\ x = Head(todo) /\ CursorInv /\ IsSequence(q) /\ AllBlunt(q)
        /\ todo = Cons(x, q)
    <2>1. todo = Cons(x, q)  BY Anew DEF Strays
    <2>. QED  BY <2>1 DEF Strays, Frame, ParseInv
  <1>2. Quoting <=> x.do = "quoted"
    <2>1. todo # <<>>
      <3>1. Len(todo) # 0  BY <1>1, ConsIs
      <3>. QED  BY <3>1
    <2>. QED  BY <1>1, <2>1 DEF Quoting
  <1>3. AllBlunt(q)'  BY <1>1 DEF AllBlunt, Blunt, Tame, Builds1
  <1>. DEFINE d == current'  k == Len(done')  u == Peek'
  <1>4. PICK d0, k0, u0 : d0 = d /\ k0 = k /\ u0 = u  OBVIOUS
  <1>5. ASSUME NEW y, y.do = "quoted", w = Cons(y, q) PROVE Quoting' /\ BluntLiteral(w)'
    <2>1. Head(w) = y  BY <1>1, <1>5, ConsParts
    <2>2. w # <<>>
      <3>1. Len(w) # 0  BY <1>1, <1>5, ConsIs
      <3>. QED  BY <3>1
    <2>3. BluntLiteral(w)'  BY <1>1, <1>3, <1>5, Zenon DEF BluntLiteral
    <2>. QED  BY <1>5, <2>1, <2>2, <2>3 DEF Quoting
  <1>6. CASE Advance /\ t \in Quotes /\ x.do # "quoted" /\ \E y : y.do = "quoted" /\ w = Cons(y, q)
    <2>1. Quoting' /\ BluntLiteral(w)'  BY <1>5, <1>6
    <2>2. Astray'  BY <1>1, <1>2, <1>6, <2>1, StaysInStep
    <2>. QED  BY <1>4, <2>1, <2>2, ThenReads, Zenon DEF NowReads
  <1>7. CASE Advance /\ t \notin Quotes /\ x.do = "quoted" /\ w = Cons(x, q)
    <2>1. Quoting' /\ BluntLiteral(w)'  BY <1>5, <1>7
    <2>2. Astray'  BY <1>1, <1>2, <1>7, <2>1, StaysInStep
    <2>. QED  BY <1>4, <2>1, <2>2, ThenReads, Zenon DEF NowReads
  <1>8. CASE Advance /\ t \in Quotes \cup {"eof"} /\ x.do = "quoted" /\ w = q
    <2>1. ~ Quoting'
      <3>1. ~ (w # <<>> /\ Head(w).do = "quoted")  BY <1>1, <1>8, NoLiteralAhead
      <3>. QED  BY <3>1 DEF Quoting
    <2>2. Astray'  BY <1>1, <1>2, <1>8, <2>1, StaysInStep
    <2>. QED  BY <1>3, <1>4, <1>8, <2>2, ThenReads, Zenon DEF NowReads
  <1>. QED  BY <1>6, <1>7, <1>8

-----------------------------------------------------------------------------
\* The tokens the statements are told by are no quotes.
LEMMA WordsAreNoQuotes ==
  /\ \A t \in {"nl", "fn", "vec", "=", ":", ",", "print", "println", "read", "if", "while", "for",
               "return", "break", "continue", "@", "else", "lib", ")", "(", "."} : t \notin Quotes
  /\ ";" \notin Quotes /\ "eof" \notin Quotes
  /\ \A t \in Names \cup Scalars : t \notin Quotes
  <1>1. \A t \in {"nl", "fn", "vec", "=", ":", "print", "println", "read", "if", "while", "for",
               "return", "break", "continue", "@", "else", "lib", ")", "(", "."} : t \notin Quotes
    BY DEF Quotes
  <1>2. ";" \notin Quotes /\ "," \notin Quotes /\ "eof" \notin Quotes  BY Zenon DEF Quotes
  <1>3. \A t \in Quotes : t \in Fixed  BY SeparatorsAre, Zenon DEF Fixed, Quotes
  <1>4. \A t \in Names \cup Scalars : t \notin Quotes  BY <1>3, NamesAssumption, Zenon
  <1>. QED  BY <1>1, <1>2, <1>4, Zenon

LEMMA AgainCalm ==
  ASSUME NEW f, Doing(f), f \notin Hasty
  PROVE  Calm(Again)
  BY DEF Doing, Again, Calm, Tame, Builds1, Hasty

LEMMA Bare == /\ Mild(<<>>) /\ IsSequence(<<>>) /\ AllBlunt(<<>>)
  BY MildTuples, MildIs

-----------------------------------------------------------------------------
\* Each action reads on.
LEMMA ConsumeKeepsReads ==
  ASSUME ParseInv, TextInv, Listing, ReadInv, Consume
  PROVE  ReadInv'
  <1>1. Doing("consume") /\ status = "parsing"  BY DEF Consume, Doing
  <1>2. CASE Peek = Head(todo).arg /\ Skip(<<>>)
    <2>1. CASE \E x, q, c, n, t : x.do = "consume" /\ Sits(x, q, c, n, t)
      <3>1. PICK x, q, c, n, t : x.do = "consume" /\ Sits(x, q, c, n, t)  BY <2>1
      <3>2. x = Head(todo) /\ t = Peek  BY <3>1, SitsHas
      <3>3. ParseInv'  BY ConsumeKeepsInv
      <3>. QED  BY <1>1, <1>2, <3>1, <3>2, <3>3, ConsumeReads
    <2>2. CASE \E x, q, c, n, t : x.do = "consume" /\ Strays(x, q, c, n, t)
      <3>1. PICK x, q, c, n, t : x.do = "consume" /\ Strays(x, q, c, n, t)  BY <2>2
      <3>2. x = Head(todo) /\ t = Peek /\ Blunt(x)  BY <3>1 DEF Strays, Frame
      <3>3. t \notin Quotes  BY <1>2, <3>1, <3>2 DEF Blunt, Tame, Operands
      <3>4. Then(<<>>) /\ Advance  BY <1>2 DEF Skip
      <3>. QED  BY <3>1, <3>3, <3>4, Bare, StrayReads
    <2>. QED  BY <1>1, <2>1, <2>2, Standing
  <1>3. CASE Fail("ERR_EXPECTED")  BY <1>3, FailReads
  <1>. QED  BY <1>2, <1>3 DEF Consume

LEMMA ConsumeNameKeepsReads ==
  ASSUME ParseInv, TextInv, Listing, ReadInv, ConsumeName
  PROVE  ReadInv'
  <1>1. Doing("name")  BY DEF ConsumeName
  <1>2. CASE Peek \in Names /\ Take(<<>>)
    <2>1. CASE \E x, q, c, n, t : x.do = "name" /\ Sits(x, q, c, n, t)
      <3>1. PICK x, q, c, n, t : x.do = "name" /\ Sits(x, q, c, n, t)  BY <2>1
      <3>2. t = Peek  BY <3>1, SitsHas
      <3>. QED  BY <1>2, <3>1, <3>2, NameReads
    <2>2. CASE \E x, q, c, n, t : x.do = "name" /\ Strays(x, q, c, n, t)
      <3>1. PICK x, q, c, n, t : x.do = "name" /\ Strays(x, q, c, n, t)  BY <2>2
      <3>2. t = Peek  BY <3>1 DEF Strays
      <3>3. t \notin Quotes  BY <1>2, <3>2, WordsAreNoQuotes
      <3>4. Then(<<>>) /\ Advance  BY <1>2 DEF Take
      <3>. QED  BY <3>1, <3>3, <3>4, Bare, StrayReads
    <2>. QED  BY <1>1, <2>1, <2>2, Standing
  <1>3. CASE Fail("ERR_EXPECTED")  BY <1>3, FailReads
  <1>. QED  BY <1>2, <1>3 DEF ConsumeName

LEMMA ConsumeEndOfStatementKeepsReads ==
  ASSUME ParseInv, TextInv, Listing, ReadInv, ConsumeEndOfStatement
  PROVE  ReadInv'
  <1>1. OuterStepsRead  BY OuterSteps
  <1>2. "end" \in Outer  BY Zenon DEF Outer
  <1>3. Peek \in {";", "nl"} => Peek \notin Quotes
    <2>1. Peek = ";" \/ Peek = "nl" => Peek \notin Quotes  BY WordsAreNoQuotes, Zenon
    <2>. QED  BY <2>1, Zenon
  <1>4. Fail("ERR_EXPECTED") => ReadInv'  BY FailReads
  <1>. QED
    BY <1>1, <1>2, <1>3, <1>4, Bare, Zenon DEF OuterStepsRead, ConsumeEndOfStatement

LEMMA ParseProgramKeepsReads ==
  ASSUME ParseInv, TextInv, Listing, ReadInv, ParseProgram
  PROVE  ReadInv'
  <1>1. OuterStepsRead  BY OuterSteps
  <1>2. Doing("program") /\ "program" \in Outer  BY Zenon DEF ParseProgram, Outer
  <1>3. Calm(Again)
    <2>1. "program" \notin Hasty  BY DEF Hasty
    <2>. QED  BY <1>2, <2>1, AgainCalm
  <1>4. Mild(<<Again>>) /\ Mild(<<Do("stmt"), Again>>)  BY <1>3, DoCalm, MildTuples, Zenon
  <1>5. Mild(FuncDef \o <<Again>>)  BY <1>4, MildRest, MildJoin, Zenon
  <1>6. Peek = "fn" \/ Peek = "nl" => Peek \notin Quotes  BY WordsAreNoQuotes
  <1>. QED
    BY <1>1, <1>2, <1>4, <1>5, <1>6, Bare, Zenon DEF OuterStepsRead, ParseProgram

LEMMA ParseBlockKeepsReads ==
  ASSUME ParseInv, TextInv, Listing, ReadInv, ParseBlock
  PROVE  ReadInv'
  <1>1. OuterStepsRead  BY OuterSteps
  <1>2. "block" \in Outer /\ "stmts" \in Outer  BY Zenon DEF Outer
  <1>3. Mild(<<Eat("{"), Do("stmts"), Eat("}"), Build("block")>>)
    BY MarksCalm, KindsCalm, DoCalm, MildTuples, Zenon
  <1>4. ASSUME Doing("stmts") PROVE Mild(<<Again>>) /\ Mild(<<Do("stmt"), Again>>)
    <2>1. "stmts" \notin Hasty  BY DEF Hasty
    <2>2. Calm(Again)  BY <1>4, <2>1, AgainCalm
    <2>. QED  BY <2>2, DoCalm, MildTuples, Zenon
  <1>5. Peek = "nl" => Peek \notin Quotes  BY WordsAreNoQuotes
  <1>. QED
    BY <1>1, <1>2, <1>3, <1>4, <1>5, Bare, Zenon DEF OuterStepsRead, ParseBlock

LEMMA ParseTypeKeepsReads ==
  ASSUME ParseInv, TextInv, Listing, ReadInv, ParseType
  PROVE  ReadInv'
  <1>1. OuterStepsRead  BY OuterSteps
  <1>2. "type" \in Outer /\ "element_type" \in Outer  BY Zenon DEF Outer
  <1>3. Mild(<<Eat("<"), Do("element_type"), Eat(">")>>)  BY MarksCalm, DoCalm, MildTuples, Zenon
  <1>4. Peek \in Scalars \/ Peek = "vec" => Peek \notin Quotes  BY WordsAreNoQuotes
  <1>5. Fail("ERR_EXPECTED") => ReadInv'  BY FailReads
  <1>. QED
    BY <1>1, <1>2, <1>3, <1>4, <1>5, Bare, Zenon DEF OuterStepsRead, ParseType

LEMMA InitializerKeepsReads ==
  ASSUME ParseInv, TextInv, Listing, ReadInv, Initializer
  PROVE  ReadInv'
  <1>1. OuterStepsRead  BY OuterSteps
  <1>2. "initializer" \in Outer  BY Zenon DEF Outer
  <1>3. Mild(<<Do("expr")>>)  BY DoCalm, MildTuples, Zenon
  <1>4. Peek = "=" => Peek \notin Quotes  BY WordsAreNoQuotes
  <1>. QED
    BY <1>1, <1>2, <1>3, <1>4, Bare, Zenon DEF OuterStepsRead, Initializer

LEMMA ReturnTypeKeepsReads ==
  ASSUME ParseInv, TextInv, Listing, ReadInv, ReturnType
  PROVE  ReadInv'
  <1>1. Doing("return_type") /\ "return_type" \in Outer  BY Zenon DEF Outer, ReturnType
  <1>2. CASE Peek = ":" /\ Skip(<<Do("type")>>)
    <2>1. Mild(<<Do("type")>>)  BY DoCalm, MildTuples, Zenon
    <2>2. Peek \notin Quotes  BY <1>2, WordsAreNoQuotes
    <2>3. OuterStepsRead  BY OuterSteps
    <2>. QED  BY <1>1, <1>2, <2>1, <2>2, <2>3, Zenon DEF OuterStepsRead
  <1>3. CASE Then(<<>>) /\ Stay  BY <1>1, <1>3, Bare, OuterReads
  <1>. QED  BY <1>2, <1>3 DEF ReturnType

-----------------------------------------------------------------------------
\* The comma lists.
LEMMA ListKeepsReads ==
  ASSUME ParseInv, TextInv, Listing, ReadInv, List
  PROVE  ReadInv'
  <1>1. Doing("list")  BY DEF List
  <1>. DEFINE kind == Head(todo).arg
  <1>2. PICK items : Go(items) /\ (items = <<>> \/ items = Element(kind) \o <<With("more", kind)>>)
    BY Zenon DEF List
  <1>3. Mild(items)
    <2>1. Mild(<<With("more", kind)>>)  BY DoCalm, MildTuples, Zenon
    <2>2. Mild(Element(kind) \o <<With("more", kind)>>)  BY <2>1, MildElement, MildJoin, Zenon
    <2>. QED  BY <1>2, <2>2, Bare, Zenon
  <1>4. Then(items) /\ Stay  BY <1>2 DEF Go
  <1>5. CASE kind = "param"  BY <1>1, <1>3, <1>4, <1>5, OuterReads
  <1>6. CASE kind # "param"
    <2>1. CASE \E x, q, c, n, t : x.do = "list" /\ Sits(x, q, c, n, t)
      <3>1. PICK x, q, c, n, t : x.do = "list" /\ Sits(x, q, c, n, t)  BY <2>1
      <3>2. x = Head(todo) /\ Holds(x, q, c, n, t)  BY <3>1, SitsHas
      <3>3. CASE Flat(q)  BY <1>3, <1>4, <3>1, <3>3, FlatReads
      <3>4. CASE BeforeValue(x, q, c, n, t) /\ items = <<>>
        <4>1. Go(<<>>)  BY <1>2, <3>4
        <4>. QED  BY <3>1, <3>4, <4>1, ListEnds
      <3>5. CASE BeforeValue(x, q, c, n, t) /\ items = Element(kind) \o <<With("more", kind)>>
        <4>1. Element(kind) = <<Do("expr")>>  BY <1>6, Zenon DEF Element
        <4>2. kind = x.arg  BY <3>2
        <4>3. Go(<<Do("expr")>> \o <<With("more", x.arg)>>)  BY <1>2, <3>5, <4>1, <4>2, Zenon
        <4>. QED  BY <1>6, <3>1, <3>5, <4>2, <4>3, ListOpens
      <3>. QED  BY <1>2, <3>1, <3>2, <3>3, <3>4, <3>5 DEF Holds
    <2>2. CASE \E x, q, c, n, t : x.do = "list" /\ Strays(x, q, c, n, t)
      <3>1. PICK x, q, c, n, t : x.do = "list" /\ Strays(x, q, c, n, t)  BY <2>2
      <3>2. IsSequence(items) /\ AllBlunt(items)  BY <1>3, MildIs
      <3>. QED  BY <1>4, <3>1, <3>2, StrayReads
    <2>. QED  BY <1>1, <2>1, <2>2, Standing
  <1>. QED  BY <1>5, <1>6

LEMMA MoreKeepsReads ==
  ASSUME ParseInv, TextInv, Listing, ReadInv, More
  PROVE  ReadInv'
  <1>1. Doing("more")  BY DEF More
  <1>. DEFINE kind == Head(todo).arg
  <1>2. PICK items : \/ Peek = "," /\ Skip(items) /\ items = Element(kind) \o <<Again>>
                     \/ Go(items) /\ items = <<>>
    BY Zenon DEF More
  <1>3. Mild(items)
    <2>1. "more" \notin Hasty  BY DEF Hasty
    <2>2. Calm(Again)  BY <1>1, <2>1, AgainCalm
    <2>3. Mild(<<Again>>)  BY <2>2, MildTuples, Zenon
    <2>4. Mild(Element(kind) \o <<Again>>)  BY <2>3, MildElement, MildJoin, Zenon
    <2>. QED  BY <1>2, <2>4, Bare, Zenon
  <1>4. Then(items) /\ (Stay \/ (Advance /\ Peek \notin Quotes))
    <2>1. Peek = "," => Peek \notin Quotes  BY CommaIs, Zenon
    <2>2. Go(items) => Then(items) /\ Stay  BY DEF Go
    <2>3. Skip(items) => Then(items) /\ Advance  BY DEF Skip
    <2>. QED  BY <1>2, <2>1, <2>2, <2>3, Zenon
  <1>5. CASE kind = "param"  BY <1>1, <1>3, <1>4, <1>5, OuterReads
  <1>6. CASE kind # "param"
    <2>1. CASE \E x, q, c, n, t : x.do = "more" /\ Sits(x, q, c, n, t)
      <3>1. PICK x, q, c, n, t : x.do = "more" /\ Sits(x, q, c, n, t)  BY <2>1
      <3>2. x = Head(todo) /\ t = Peek  BY <3>1, SitsHas
      <3>3. CASE Flat(q)
        <4>1. Stay \/ (Advance /\ t \notin Quotes)  BY <1>4, <3>2
        <4>. QED  BY <1>3, <1>4, <3>1, <3>3, <4>1, FlatReads
      <3>4. CASE Headed(q, "consume") /\ Expects(q, c, 0, n)
        <4>1. CASE Go(items) /\ items = <<>>
          <5>1. Go(<<>>)  BY <4>1
          <5>. QED  BY <3>1, <3>4, <5>1, MoreEnds
        <4>2. CASE Peek = "," /\ Skip(items) /\ items = Element(kind) \o <<Again>>
          <5>1. Element(kind) = <<Do("expr")>>  BY <1>6, Zenon DEF Element
          <5>2. Skip(<<Do("expr")>> \o <<Again>>)  BY <4>2, <5>1, Zenon
          <5>3. t # "eof" /\ t \notin Quotes /\ t \notin Openers \cup Enders
            BY <3>2, <4>2, CommaIs, Zenon
          <5>4. x.arg # "param"  BY <1>6, <3>2
          <5>. QED  BY <3>1, <3>4, <5>2, <5>3, <5>4, MoreGoesOn
        <4>. QED  BY <1>2, <4>1, <4>2
      <3>. QED  BY <3>1, <3>3, <3>4, MoreSits
    <2>2. CASE \E x, q, c, n, t : x.do = "more" /\ Strays(x, q, c, n, t)
      <3>1. PICK x, q, c, n, t : x.do = "more" /\ Strays(x, q, c, n, t)  BY <2>2
      <3>2. IsSequence(items) /\ AllBlunt(items)  BY <1>3, MildIs
      <3>3. t = Peek  BY <3>1 DEF Strays
      <3>4. Stay \/ (Advance /\ t \notin Quotes)  BY <1>4, <3>3
      <3>. QED  BY <1>4, <3>1, <3>2, <3>4, StrayReads
    <2>. QED  BY <1>1, <2>1, <2>2, Standing
  <1>. QED  BY <1>5, <1>6

-----------------------------------------------------------------------------
\* The statements.
LEMMA AtReads1 ==
  ASSUME ParseInv, TextInv, Listing, ReadInv, Doing("stmt"), Peek = "@",
         Take(<<Do("directive"), Build("directive")>>)
  PROVE  ReadInv'
  <1>. DEFINE items == <<Do("directive"), Build("directive")>>
  <1>1. IsSequence(items) /\ Flat(items)
    <2>. DEFINE a == Do("directive")  b == Build("directive")
    <2>1. Tame(a)
      <3>1. a.do = "directive"  BY DEF Do, Item
      <3>. HIDE DEF a
      <3>. QED  BY <3>1 DEF Tame, Builds1
    <2>2. Tame(b)  BY KindsCalm DEF Calm
    <2>. HIDE DEF a, b
    <2>3. IsSequence(<<a, b>>) /\ Len(<<a, b>>) = 2 /\ <<a, b>>[1] = a /\ <<a, b>>[2] = b  BY Tuples
    <2>. DEFINE s == <<a, b>>
    <2>. HIDE DEF s
    <2>4. \A i \in 1 .. Len(s) : Tame(s[i])  BY <2>1, <2>2, <2>3 DEF s
    <2>5. Flat(s)  BY <2>4 DEF Flat
    <2>. QED  BY <2>3, <2>5 DEF s, a, b
  <1>2. Then(items) /\ Advance /\ UNCHANGED input  BY DEF Take, Then
  <1>. HIDE DEF items
  <1>3. CASE \E x, q, c, n, t : x.do = "stmt" /\ Sits(x, q, c, n, t)
    <2>1. PICK x, q, c, n, t : x.do = "stmt" /\ Sits(x, q, c, n, t)  BY <1>3
    <2>2. q = Tail(todo) /\ t = Peek /\ IsSequence(q)  BY <2>1, SitsHas
    <2>3. Flat(q)  BY <2>1, OuterIsFlat DEF Outer
    <2>4. PICK w : w = todo'  OBVIOUS
    <2>5. w = items \o q  BY <1>2, <2>2, <2>4 DEF Then
    <2>6. IsSequence(w) /\ Flat(w)  BY <1>1, <2>2, <2>3, <2>5, JoinAll, Zenon
    <2>7. t \notin Quotes  BY <2>2, WordsAreNoQuotes
    <2>. QED  BY <1>2, <2>1, <2>4, <2>6, <2>7, FlatLands
  <1>4. CASE \E x, q, c, n, t : x.do = "stmt" /\ Strays(x, q, c, n, t)
    <2>1. PICK x, q, c, n, t : x.do = "stmt" /\ Strays(x, q, c, n, t)  BY <1>4
    <2>2. t \in QuotedTokens \cup Quotes \cup {"eof"} /\ t = "@"  BY <2>1, StrayPeek DEF Strays
    <2>. QED  BY <2>2 DEF QuotedTokens, Quotes
  <1>. QED  BY <1>3, <1>4, Standing

LEMMA ParseStatementKeepsReads ==
  ASSUME ParseInv, TextInv, Listing, ReadInv, ParseStatement
  PROVE  ReadInv'
  <1>1. OuterStepsRead  BY OuterSteps
  <1>2. Doing("stmt") /\ "stmt" \in Outer  BY Zenon DEF Outer, ParseStatement
  <1>3. Mild(<<Eat("("), Do("for_init")>>) /\ Mild(<<Do("expr"), Do("end")>>)
        /\ Mild(<<Do("end"), Build("break")>>) /\ Mild(<<Do("end"), Build("continue")>>)
    BY MarksCalm, KindsCalm, DoCalm, MildTuples, Zenon
  <1>4. \A t \in {"print", "println", "read", "if", "while", "for", "return", "break", "continue"} :
          t \notin Quotes
    BY WordsAreNoQuotes
  <1>5. \/ Go(Decl)
        \/ Peek \in {"print", "println"} /\ Take(PrintRest)
        \/ Peek = "read" /\ Take(ReadRest)
        \/ Peek = "if" /\ Take(IfRest)
        \/ Peek = "while" /\ Take(WhileRest)
        \/ Peek = "for" /\ Take(<<Eat("("), Do("for_init")>>)
        \/ Peek = "return" /\ Take(ReturnRest)
        \/ Peek \in {"break", "continue"} /\ Take(<<Do("end"), Build(Peek)>>)
        \/ Peek = "@" /\ Take(<<Do("directive"), Build("directive")>>)
        \/ Go(<<Do("expr"), Do("end")>>)
    BY Zenon DEF ParseStatement
  <1>6. CASE Go(Decl) \/ Go(<<Do("expr"), Do("end")>>)
    BY <1>1, <1>2, <1>3, <1>6, MildRest, Zenon DEF OuterStepsRead
  <1>7. ASSUME NEW q \in {PrintRest, ReadRest, IfRest, WhileRest, ReturnRest},
               Take(q), Peek \notin Quotes
        PROVE  ReadInv'
    <2>1. Mild(q)  BY MildRest
    <2>. QED  BY <1>1, <1>2, <1>7, <2>1, Zenon DEF OuterStepsRead
  <1>8. CASE Peek = "for" /\ Take(<<Eat("("), Do("for_init")>>)
    <2>1. Peek \notin Quotes  BY <1>4, <1>8
    <2>. QED  BY <1>1, <1>2, <1>3, <1>8, <2>1, Zenon DEF OuterStepsRead
  <1>9. CASE Peek \in {"break", "continue"} /\ Take(<<Do("end"), Build(Peek)>>)
    <2>1. Peek \notin Quotes  BY <1>4, <1>9
    <2>2. CASE Peek = "break"  BY <1>1, <1>2, <1>3, <1>9, <2>1, <2>2, Zenon DEF OuterStepsRead
    <2>3. CASE Peek = "continue"  BY <1>1, <1>2, <1>3, <1>9, <2>1, <2>3, Zenon DEF OuterStepsRead
    <2>. QED  BY <1>9, <2>2, <2>3
  <1>10. CASE Peek = "@" /\ Take(<<Do("directive"), Build("directive")>>)
    BY <1>2, <1>10, AtReads1
  <1>11. Peek \in {"print", "println", "read", "if", "while", "return"} => Peek \notin Quotes
    BY <1>4
  <1>12. CASE Peek \in {"print", "println"} /\ Take(PrintRest)  BY <1>7, <1>11, <1>12
  <1>13. CASE Peek = "read" /\ Take(ReadRest)  BY <1>7, <1>11, <1>13
  <1>14. CASE Peek = "if" /\ Take(IfRest)  BY <1>7, <1>11, <1>14
  <1>15. CASE Peek = "while" /\ Take(WhileRest)  BY <1>7, <1>11, <1>15
  <1>16. CASE Peek = "return" /\ Take(ReturnRest)  BY <1>7, <1>11, <1>16
  <1>. QED  BY <1>5, <1>6, <1>8, <1>9, <1>10, <1>12, <1>13, <1>14, <1>15, <1>16, Zenon

LEMMA DirectiveKeepsReads ==
  ASSUME ParseInv, TextInv, Listing, ReadInv, Directive
  PROVE  ReadInv'
  <1>1. OuterStepsRead  BY OuterSteps
  <1>2. Doing("directive") /\ Take(<<Do("directive_value")>>) => ReadInv'  BY DirectiveReads
  <1>3. Peek \in Names \cup {"lib"} => Peek \notin Quotes
    <2>1. "lib" \notin Quotes /\ \A t \in Names : t \notin Quotes  BY WordsAreNoQuotes
    <2>. QED  BY <2>1
  <1>4. "directive_value" \in Outer  BY Zenon DEF Outer
  <1>5. Fail("crash") => ReadInv'  BY FailReads
  <1>. QED  BY <1>1, <1>2, <1>3, <1>4, <1>5, Bare, Zenon DEF OuterStepsRead, Directive

LEMMA ElseBranchKeepsReads ==
  ASSUME ParseInv, TextInv, Listing, ReadInv, ElseBranch
  PROVE  ReadInv'
  <1>1. OuterStepsRead  BY OuterSteps
  <1>2. Mild(<<Do("branch")>>) /\ Mild(<<Do("block")>>)  BY DoCalm, MildTuples, Zenon
  <1>3. Peek = "if" \/ Peek = "else" => Peek \notin Quotes  BY WordsAreNoQuotes
  <1>4. "else" \in Outer /\ "branch" \in Outer  BY Zenon DEF Outer
  <1>. QED
    BY <1>1, <1>2, <1>3, <1>4, MildRest, Bare, Zenon DEF OuterStepsRead, ElseBranch

LEMMA ParseForStatementKeepsReads ==
  ASSUME ParseInv, TextInv, Listing, ReadInv, ParseForStatement
  PROVE  ReadInv'
  <1>1. OuterStepsRead  BY OuterSteps
  <1>2. Mild(Decl \o ForRest)  BY MildRest, MildJoin, Zenon
  <1>3. Mild(<<Do("expr"), Finish("range?", "none")>>) /\ Mild(<<Do("expr")>>)
    BY DoCalm, MildTuples, Zenon
  <1>4. Mild(<<Do("block"), Finish("build", "range")>>)  BY DoCalm, KindsCalm, MildTuples, Zenon
  <1>5. Mild(<<Eat(";")>> \o ForRest)
    BY MarksCalm, MildTuples, MildRest, MildJoin, Zenon
  <1>6. (Peek = ")" => Peek \notin Quotes) /\ (Peek = ";" => Peek \notin Quotes)
    BY WordsAreNoQuotes, Zenon
  <1>7. ASSUME Doing("for_init"), Peek \notin Quotes, Then(ForRest), Advance PROVE ReadInv'
    <2>1. Mild(ForRest)  BY MildRest
    <2>. QED  BY <1>7, <2>1, OuterReads DEF Outer
  <1>8. ASSUME Doing("optional"), Then(<<>>), Stay PROVE ReadInv'
    BY <1>8, Bare, OuterReads DEF Outer
  <1>9. \/ /\ Doing("for_init")
           /\ \/ Go(Decl \o ForRest)
              \/ Peek \notin Quotes /\ Then(ForRest) /\ Advance
              \/ Go(<<Do("expr"), Finish("range?", "none")>>)
        \/ /\ Doing("range?")
           /\ \/ Peek \notin Quotes /\ Skip(<<Do("block"), Finish("build", "range")>>)
              \/ Go(<<Eat(";")>> \o ForRest)
        \/ /\ Doing("optional")
           /\ \/ Then(<<>>) /\ Stay
              \/ Go(<<Do("expr")>>)
    BY <1>6, Zenon DEF ParseForStatement
  <1>10. "for_init" \in Outer /\ "range?" \in Outer /\ "optional" \in Outer  BY Zenon DEF Outer
  <1>. QED
    BY <1>1, <1>2, <1>3, <1>4, <1>5, <1>7, <1>8, <1>9, <1>10, Zenon DEF OuterStepsRead

LEMMA BuildRangeKeepsReads ==
  ASSUME ParseInv, TextInv, Listing, ReadInv, BuildRange
  PROVE  ReadInv'
  <1>1. Doing("build") /\ Head(todo).arg = "range" /\ Then(<<>>) /\ Stay  BY DEF BuildRange
  <1>2. "range" \notin Valued  BY DEF Valued, Postfixed, Lowest
  <1>. QED  BY <1>1, <1>2, Bare, OuterReads

LEMMA AcceptKeepsReads ==
  ASSUME Accept
  PROVE  ReadInv'
  BY DEF Accept, ReadInv

-----------------------------------------------------------------------------
\* The expressions that call others or look at the next token.
Swift == {"expr", "ternary", "operand", "call", "unary", "primary", "operators", "question",
          "assignment", "postfix"}
LEMMA BluntItems ==
  /\ \A f, a, b : f \in Swift => Blunt(Item(f, a, b))
  /\ \A f : f \in Swift => Blunt(Do(f))
  /\ \A f, a : f \in Swift => Blunt(With(f, a))
  <1>1. \A f, a, b : Item(f, a, b).do = f  BY DEF Item
  <1>2. \A f, a, b : f \in Swift => Blunt(Item(f, a, b))  BY <1>1 DEF Blunt, Swift, Operands
  <1>. QED  BY <1>2, Zenon DEF Do, With

LEMMA BluntTuples ==
  /\ \A a : Blunt(a) => IsSequence(<<a>>) /\ AllBlunt(<<a>>)
  /\ \A a, b : Blunt(a) /\ Blunt(b) => IsSequence(<<a, b>>) /\ AllBlunt(<<a, b>>)
  <1>1. IsSequence(<<>>) /\ AllBlunt(<<>>)  BY Bare
  <1>2. \A a : Blunt(a) => IsSequence(<<a>>) /\ AllBlunt(<<a>>)
    <2>. TAKE a
    <2>1. <<a>> = Cons(a, <<>>)  BY TupleCons
    <2>2. AllBlunt(Cons(a, <<>>)) <=> Blunt(a) /\ AllBlunt(<<>>)  BY <1>1, BluntCons
    <2>3. IsSequence(Cons(a, <<>>))  BY <1>1, ConsIs
    <2>. QED  BY <1>1, <2>1, <2>2, <2>3, Zenon
  <1>3. \A a, b : Blunt(a) /\ Blunt(b) => IsSequence(<<a, b>>) /\ AllBlunt(<<a, b>>)
    <2>. SUFFICES ASSUME NEW a, NEW b, Blunt(a), Blunt(b) PROVE IsSequence(<<a, b>>) /\ AllBlunt(<<a, b>>)
      OBVIOUS
    <2>1. <<a, b>> = Cons(a, <<b>>)  BY TupleCons
    <2>2. IsSequence(<<b>>) /\ AllBlunt(<<b>>)  BY <1>2, Zenon
    <2>3. AllBlunt(Cons(a, <<b>>)) <=> Blunt(a) /\ AllBlunt(<<b>>)  BY <2>2, BluntCons
    <2>4. IsSequence(Cons(a, <<b>>))  BY <2>2, ConsIs
    <2>. QED  BY <2>1, <2>2, <2>3, <2>4, Zenon
  <1>. QED  BY <1>2, <1>3

\* The function f runs in step with the lexer; it runs astray.
Seated(f) == \E x, q, c, n, t : x.do = f /\ Sits(x, q, c, n, t)
Strayed(f) == \E x, q, c, n, t : x.do = f /\ Strays(x, q, c, n, t)

LEMMA SeatedOrStrayed ==
  ASSUME ParseInv, TextInv, Listing, ReadInv, NEW f, Doing(f), f # "quoted"
  PROVE  Seated(f) \/ Strayed(f)
  BY Standing DEF Seated, Strayed

\* Astray, an expression is read to its end, and takes nothing but a literal.
StrayStepsRead ==
  \A f, items : /\ f # "quoted" /\ Strayed(f) /\ Go(items) /\ IsSequence(items) /\ AllBlunt(items)
                => ReadInv'
LEMMA StraySteps ==
  ASSUME ParseInv
  PROVE  StrayStepsRead
  <1>. SUFFICES ASSUME NEW f, f # "quoted", Strayed(f), NEW items, Go(items), IsSequence(items), AllBlunt(items)
                PROVE  ReadInv'
    BY DEF StrayStepsRead
  <1>1. Then(items) /\ Stay  BY DEF Go
  <1>2. PICK x, q, c, n, t : x.do = f /\ Strays(x, q, c, n, t)  BY DEF Strayed
  <1>. QED  BY <1>1, <1>2, StrayReads

LEMMA StrayTakesNone ==
  ASSUME ParseInv, NEW f, f # "quoted", Strayed(f)
  PROVE  /\ Peek \notin {"=", "?", "!", "-", "(", "[", "."} \cup DOMAIN Compound \cup DOMAIN Step
                       \cup DOMAIN Literals \cup Names
         /\ \A l \in 1 .. 6 : Peek \notin Operators(l)
  <1>1. PICK x, q, c, n, t : x.do = f /\ Strays(x, q, c, n, t)  BY DEF Strayed
  <1>2. Peek \in QuotedTokens \cup Quotes \cup {"eof"}  BY <1>1, StrayPeek DEF Strays
  <1>3. Peek \notin Names
    <2>1. QuotedTokens \cup Quotes \cup {"eof"} \subseteq Fixed
      BY SeparatorsAre, Zenon DEF Fixed, Quotes
    <2>. QED  BY <1>2, <2>1, NamesAssumption
  <1>4. Peek \notin {"=", "?", "!", "-", "(", "[", "."} \cup DOMAIN Compound \cup DOMAIN Step
                    \cup DOMAIN Literals
    BY <1>2 DEF QuotedTokens, Quotes, Compound, Step, Literals
  <1>5. ASSUME NEW l \in 1 .. 6, Peek \in Operators(l) PROVE FALSE
    <2>1. Peek # "eof" /\ Peek \notin Quotes  BY <1>5, RankOfOperators
    <2>2. Peek \in {"qchar", "qtext"}  BY <1>2, <2>1 DEF QuotedTokens
    <2>. QED  BY <1>5, <2>2, LevelsAre DEF Operators
  <1>. QED  BY <1>3, <1>4, <1>5

LEMMA BluntChain ==
  \A l : /\ IsSequence(Chain(l)) /\ AllBlunt(Chain(l))
         /\ IsSequence(Chain(l) \o <<Do("question")>>) /\ AllBlunt(Chain(l) \o <<Do("question")>>)
  <1>. TAKE l
  <1>1. Blunt(Do("unary")) /\ Blunt(With("operators", l)) /\ Blunt(Do("question"))
    BY BluntItems DEF Swift
  <1>2. IsSequence(Chain(l)) /\ AllBlunt(Chain(l))  BY <1>1, BluntTuples, Zenon DEF Chain
  <1>3. IsSequence(<<Do("question")>>) /\ AllBlunt(<<Do("question")>>)  BY <1>1, BluntTuples, Zenon
  <1>. QED  BY <1>2, <1>3, JoinAll, Zenon

LEMMA ParseExpressionKeepsReads ==
  ASSUME ParseInv, TextInv, Listing, ReadInv, ParseExpression
  PROVE  ReadInv'
  <1>0. StrayStepsRead  BY StraySteps
  <1>1. ASSUME NEW f, Doing(f), f # "quoted", NEW items, Go(items), IsSequence(items), AllBlunt(items),
               Seated(f) => ReadInv'
        PROVE  ReadInv'
    <2>1. Strayed(f) => ReadInv'  BY <1>0, <1>1, Zenon DEF StrayStepsRead
    <2>. QED  BY <1>1, <2>1, SeatedOrStrayed
  <1>2. /\ Blunt(Do("ternary")) /\ Blunt(Do("assignment")) /\ Blunt(Do("primary")) /\ Blunt(Do("postfix"))
    BY BluntItems DEF Swift
  <1>3. CASE Doing("expr") /\ Go(<<Do("ternary"), Do("assignment")>>)
    <2>. DEFINE items == <<Do("ternary"), Do("assignment")>>
    <2>1. IsSequence(items) /\ AllBlunt(items)  BY <1>2, BluntTuples, Zenon
    <2>2. Seated("expr") => ReadInv'  BY <1>3, ExpressionReads DEF Seated
    <2>3. Go(items)  BY <1>3
    <2>. HIDE DEF items
    <2>. QED  BY <1>1, <1>3, <2>1, <2>2, <2>3
  <1>4. CASE Doing("ternary") /\ Go(Chain(1) \o <<Do("question")>>)
    <2>. DEFINE items == Chain(1) \o <<Do("question")>>
    <2>1. IsSequence(items) /\ AllBlunt(items)  BY BluntChain
    <2>2. Seated("ternary") => ReadInv'  BY <1>4, TernaryReads DEF Seated
    <2>3. Go(items)  BY <1>4
    <2>. HIDE DEF items
    <2>. QED  BY <1>1, <1>4, <2>1, <2>2, <2>3
  <1>5. CASE Doing("operand") /\ Go(Chain(Head(todo).arg))
    <2>. DEFINE items == Chain(Head(todo).arg)
    <2>1. IsSequence(items) /\ AllBlunt(items)  BY BluntChain
    <2>2. Seated("operand") => ReadInv'  BY <1>5, OperandReads DEF Seated
    <2>3. Go(items)  BY <1>5
    <2>. HIDE DEF items
    <2>. QED  BY <1>1, <1>5, <2>1, <2>2, <2>3
  <1>6. CASE Doing("call") /\ Go(<<Do("primary"), Do("postfix")>>)
    <2>. DEFINE items == <<Do("primary"), Do("postfix")>>
    <2>1. IsSequence(items) /\ AllBlunt(items)  BY <1>2, BluntTuples, Zenon
    <2>2. Seated("call") => ReadInv'  BY <1>6, CallReads DEF Seated
    <2>3. Go(items)  BY <1>6
    <2>. HIDE DEF items
    <2>. QED  BY <1>1, <1>6, <2>1, <2>2, <2>3
  <1>. QED  BY <1>3, <1>4, <1>5, <1>6 DEF ParseExpression

\* A loop that finds nothing more.
LEMMA LoopDone ==
  ASSUME ParseInv, TextInv, Listing, ReadInv, NEW f, Doing(f), Go(<<>>),
         \/ f \in {"question", "assignment", "postfix"}
         \/ f = "operators" /\ \A l \in Head(todo).arg .. 6 : Peek \notin Operators(l)
  PROVE  ReadInv'
  <1>1. StrayStepsRead  BY StraySteps
  <1>2. f # "quoted"  OBVIOUS
  <1>3. Strayed(f) => ReadInv'  BY <1>1, <1>2, Bare, Zenon DEF StrayStepsRead
  <1>4. CASE Seated(f)
    <2>1. PICK x, q, c, n, t : x.do = f /\ Sits(x, q, c, n, t)  BY <1>4 DEF Seated
    <2>2. x = Head(todo) /\ t = Peek  BY <2>1, SitsHas
    <2>. QED  BY <2>1, <2>2, LoopEnds
  <1>. QED  BY <1>2, <1>3, <1>4, SeatedOrStrayed

LEMMA ParseAssignmentKeepsReads ==
  ASSUME ParseInv, TextInv, Listing, ReadInv, ParseAssignment
  PROVE  ReadInv'
  <1>1. Doing("assignment")  BY DEF ParseAssignment
  <1>2. CASE Go(<<>>)  BY <1>1, <1>2, LoopDone
  <1>3. ASSUME NEW m \in {"assign", "compound"}, Peek \in {"="} \cup DOMAIN Compound,
               Take(<<Do("expr"), Finish("build", m)>>)
        PROVE  ReadInv'
    <2>1. CASE Seated("assignment")
      <3>1. PICK x, q, c, n, t : x.do = "assignment" /\ Sits(x, q, c, n, t)  BY <2>1 DEF Seated
      <3>2. t = Peek  BY <3>1, SitsHas
      <3>. QED  BY <1>3, <3>1, <3>2, AssignmentReads
    <2>2. CASE Strayed("assignment")  BY <1>3, <2>2, StrayTakesNone
    <2>. QED  BY <1>1, <2>1, <2>2, SeatedOrStrayed
  <1>. QED  BY <1>2, <1>3 DEF ParseAssignment

LEMMA ParseTernaryKeepsReads ==
  ASSUME ParseInv, TextInv, Listing, ReadInv, ParseTernary
  PROVE  ReadInv'
  <1>1. Doing("question")  BY DEF ParseTernary
  <1>2. CASE Go(<<>>)  BY <1>1, <1>2, LoopDone
  <1>3. CASE /\ Peek = "?"
             /\ Take(<<Do("ternary"), Eat(":"), Do("ternary"), Finish("build", "ternary")>>)
    <2>1. CASE Seated("question")
      <3>1. PICK x, q, c, n, t : x.do = "question" /\ Sits(x, q, c, n, t)  BY <2>1 DEF Seated
      <3>2. t = Peek  BY <3>1, SitsHas
      <3>. QED  BY <1>3, <3>1, <3>2, QuestionReads
    <2>2. CASE Strayed("question")  BY <1>3, <2>2, StrayTakesNone
    <2>. QED  BY <1>1, <2>1, <2>2, SeatedOrStrayed
  <1>. QED  BY <1>2, <1>3, Zenon DEF ParseTernary

LEMMA ParseOperatorKeepsReads ==
  ASSUME ParseInv, TextInv, Listing, ReadInv, ParseOperator
  PROVE  ReadInv'
  <1>1. Doing("operators")  BY DEF ParseOperator
  <1>2. CASE (\A l \in Head(todo).arg .. 6 : Peek \notin Operators(l)) /\ Go(<<>>)
    BY <1>1, <1>2, LoopDone
  <1>3. ASSUME NEW l \in Head(todo).arg .. 6, Peek \in Operators(l),
               Take(<<RightOperand(l), Finish("build", "binary"), Again>>)
        PROVE  ReadInv'
    <2>1. CASE Seated("operators")
      <3>1. PICK x, q, c, n, t : x.do = "operators" /\ Sits(x, q, c, n, t)  BY <2>1 DEF Seated
      <3>2. t = Peek /\ x = Head(todo)  BY <3>1, SitsHas
      <3>. QED  BY <1>3, <3>1, <3>2, OperatorReads
    <2>2. CASE Strayed("operators")
      <3>1. Head(todo).arg \in 1 .. 6  BY <1>1, AgainProper DEF Proper, Again
      <3>2. l \in 1 .. 6  BY <3>1
      <3>. QED  BY <1>3, <2>2, <3>2, StrayTakesNone
    <2>. QED  BY <1>1, <2>1, <2>2, SeatedOrStrayed
  <1>. QED  BY <1>2, <1>3 DEF ParseOperator

LEMMA ParseUnaryKeepsReads ==
  ASSUME ParseInv, TextInv, Listing, ReadInv, ParseUnary
  PROVE  ReadInv'
  <1>1. Doing("unary")  BY DEF ParseUnary
  <1>2. CASE Go(<<Do("primary"), Do("postfix")>>)
    <2>. DEFINE items == <<Do("primary"), Do("postfix")>>
    <2>1. Blunt(Do("primary")) /\ Blunt(Do("postfix"))  BY BluntItems DEF Swift
    <2>2. IsSequence(items) /\ AllBlunt(items)  BY <2>1, BluntTuples, Zenon
    <2>3. Seated("unary") => ReadInv'  BY <1>2, CallReads DEF Seated
    <2>4. StrayStepsRead /\ Go(items)  BY <1>2, StraySteps
    <2>. HIDE DEF items
    <2>5. Strayed("unary") => ReadInv'  BY <2>2, <2>4 DEF StrayStepsRead
    <2>. QED  BY <1>1, <2>3, <2>5, SeatedOrStrayed
  <1>3. CASE Peek \in {"!", "-"} /\ Take(<<Do("unary"), Build("unary")>>)
    <2>1. CASE Seated("unary")
      <3>1. PICK x, q, c, n, t : x.do = "unary" /\ Sits(x, q, c, n, t)  BY <2>1 DEF Seated
      <3>2. t = Peek  BY <3>1, SitsHas
      <3>. QED  BY <1>3, <3>1, <3>2, SignReads
    <2>2. CASE Strayed("unary")  BY <1>3, <2>2, StrayTakesNone
    <2>. QED  BY <1>1, <2>1, <2>2, SeatedOrStrayed
  <1>. QED  BY <1>2, <1>3 DEF ParseUnary

LEMMA MethodArgsKeepsReads ==
  ASSUME ParseInv, TextInv, Listing, ReadInv, MethodArgs
  PROVE  ReadInv'
  <1>1. Doing("method")  BY DEF MethodArgs
  <1>2. CASE Seated("method")
    <2>1. PICK x, q, c, n, t : x.do = "method" /\ Sits(x, q, c, n, t)  BY <1>2 DEF Seated
    <2>2. t = Peek  BY <2>1, SitsHas
    <2>. QED  BY <2>1, <2>2, MethodEnds, ArgumentsRead DEF MethodArgs
  <1>3. CASE Strayed("method")
    <2>1. PICK x, q, c, n, t : x.do = "method" /\ Strays(x, q, c, n, t)  BY <1>3 DEF Strayed
    <2>. QED  BY <2>1 DEF Strays, Blunt, Tame, Operands
  <1>. QED  BY <1>1, <1>2, <1>3, SeatedOrStrayed

-----------------------------------------------------------------------------
\* What the nodes that are made cover.
Fairly == \A i \in 1 .. Len(done) : Fair(done[i])
\* The text the pieces of the item that ends were read from.
PiecesCover == UNION {Pieces[i].covers : i \in 1 .. Len(Pieces)}

LEMMA PiecesFair ==
  ASSUME ParseInv, Fairly, NEW f, Doing(f)
  PROVE  /\ IsSequence(Pieces)
         /\ \A i \in 1 .. Len(Pieces) :
              /\ Fair(Pieces[i]) /\ Pieces[i].covers \subseteq PiecesCover
              /\ Pieces[i].keeps \subseteq PiecesCover
              /\ \A j \in DOMAIN Pieces[i].kids : Pieces[i].kids[j].covers \subseteq PiecesCover
  <1>1. PICK x, q, n : x.do = f /\ Frame(x, q, n)  BY Framed
  <1>2. n = Len(done) /\ n \in Nat /\ x.base \in Nat  BY <1>1 DEF Frame
  <1>3. /\ IsSequence(Pieces)
        /\ \A i \in 1 .. Len(Pieces) : Pieces[i] = done[x.base + i] /\ x.base + i \in x.base + 1 .. n
    BY <1>1, PiecesIn
  <1>4. ASSUME NEW i \in 1 .. Len(Pieces) PROVE Fair(Pieces[i])
    <2>1. x.base + i \in 1 .. n /\ Pieces[i] = done[x.base + i]  BY <1>2, <1>3
    <2>. QED  BY <1>2, <2>1, Zenon DEF Fairly
  <1>5. \A i \in 1 .. Len(Pieces) : Pieces[i].covers \subseteq PiecesCover  BY DEF PiecesCover
  <1>. QED  BY <1>3, <1>4, <1>5 DEF Fair

LEMMA WithinCovers ==
  ASSUME ParseInv, NEW x, NEW q, NEW n, Frame(x, q, n)
  PROVE  \A f, e : Within(x.base, n, f, e) => PiecesCover \subseteq f .. e
  <1>1. \A i \in 1 .. Len(Pieces) : Pieces[i] = done[x.base + i] /\ x.base + i \in x.base + 1 .. n
    BY PiecesIn
  <1>. SUFFICES ASSUME NEW f, NEW e, Within(x.base, n, f, e) PROVE PiecesCover \subseteq f .. e  OBVIOUS
  <1>2. ASSUME NEW i \in 1 .. Len(Pieces) PROVE Pieces[i].covers \subseteq f .. e
    <2>1. Pieces[i] = done[x.base + i] /\ x.base + i \in x.base + 1 .. n  BY <1>1
    <2>. QED  BY <2>1, Zenon DEF Within
  <1>. QED  BY <1>2 DEF PiecesCover

LEMMA MakeCovers ==
  ASSUME ParseInv, Fairly, NEW f, Doing(f), NEW kind
  PROVE  Make(kind, Pieces).covers \subseteq PiecesCover
  <1>1. /\ IsSequence(Pieces)
        /\ \A i \in 1 .. Len(Pieces) : Fair(Pieces[i]) /\ Pieces[i].covers \subseteq PiecesCover
    BY PiecesFair
  <1>2. \A i \in 1 .. Len(Pieces) : Pieces[i].keeps \subseteq PiecesCover  BY PiecesFair
  <1>. DEFINE p == Pieces  X == PiecesCover
  <1>3. IsSequence(p) /\ \A i \in 1 .. Len(p) : p[i].covers \subseteq X /\ p[i].keeps \subseteq X
    BY <1>1, <1>2
  <1>. HIDE DEF p, X
  <1>4. Make(kind, p).covers \subseteq X  BY <1>3, MakeWithin
  <1>. QED  BY <1>4 DEF p, X

LEMMA AccessCovers ==
  ASSUME ParseInv, Fairly, Doing("build"), Head(todo).arg = "access", NEW words
  PROVE  Node("access", words, NameOf(Pieces[1]).keeps, <<Pieces[2]>>).covers \subseteq PiecesCover
  <1>1. Len(Pieces) = 2
    <2>1. Fits("access", Pieces, Len(Pieces))  BY PiecesFit
    <2>. QED  BY <2>1 DEF Fits
  <1>2. Pieces[1].keeps \subseteq PiecesCover /\ Pieces[2].covers \subseteq PiecesCover
    <2>1. 1 \in 1 .. Len(Pieces) /\ 2 \in 1 .. Len(Pieces)  BY <1>1
    <2>. QED  BY <2>1, PiecesFair
  <1>3. NameOf(Pieces[1]).keeps \subseteq PiecesCover
    <2>1. NameOf(Pieces[1]).keeps = Pieces[1].keeps \/ NameOf(Pieces[1]).keeps = {}
      BY Zenon DEF NameOf
    <2>. QED  BY <1>2, <2>1
  <1>. DEFINE X == PiecesCover  b == Pieces[2]  k == NameOf(Pieces[1]).keeps
  <1>4. k \subseteq X /\ b.covers \subseteq X  BY <1>2, <1>3
  <1>. HIDE DEF X, b, k
  <1>. DEFINE p == <<b>>
  <1>5. IsSequence(p) /\ Len(p) = 1 /\ p[1] = b  BY Tuples
  <1>. HIDE DEF p
  <1>6. DOMAIN p = {1}  BY <1>5, DomainIs
  <1>7. \A i \in DOMAIN p : p[i].covers \subseteq X  BY <1>4, <1>5, <1>6
  <1>8. Node("access", words, k, p).covers \subseteq X  BY <1>4, <1>7, NodeWithin, Zenon
  <1>. QED  BY <1>8 DEF X, b, k, p

\* The three ways to assign.
LEMMA AssignElementCovers ==
  ASSUME NEW name, NEW target, NEW value, NEW X, Walks(target), target.kind = "access",
         name.covers \subseteq X, name.keeps \subseteq X, value.covers \subseteq X, value.keeps \subseteq X,
         \A j \in DOMAIN target.kids : target.kids[j].covers \subseteq X
  PROVE  Make("assign_element", <<name>> \o target.kids \o <<value>>).covers \subseteq X
  <1>. DEFINE k == target.kids  v == <<value>>  h == <<name>>  f == h \o k  p == f \o v
  <1>1. /\ IsSequence(k) /\ Len(k) = 1 /\ ~ IsWord(k[1]) /\ k[1].covers \subseteq X
    <2>1. Placed(target) /\ IsSequence(k)  BY WalksDown DEF Shaped
    <2>2. Len(k) = 1 /\ All(Kinds(target), Expressions)  BY <2>1 DEF Placed
    <2>3. k[1].kind \in Expressions  BY <2>1, <2>2, KindsOfChildren
    <2>4. DOMAIN k = {1}  BY <2>1, <2>2, DomainIs
    <2>. QED  BY <2>1, <2>2, <2>3, <2>4, KindFacts DEF IsWord
  <1>2. IsSequence(v) /\ Len(v) = 1 /\ v[1] = value /\ IsSequence(h) /\ Len(h) = 1 /\ h[1] = name
    BY Tuples
  <1>. HIDE DEF v, k, h
  <1>3. IsSequence(f) /\ Len(f) = 2 /\ f[1] = name /\ f[2] = k[1]
    <2>0. IsSequence(h) /\ IsSequence(k)  BY <1>1, <1>2
    <2>1. IsSequence(f) /\ Len(f) = Len(h) + Len(k)
          /\ (\A i \in 1 .. Len(h) : f[i] = h[i])
          /\ (\A i \in 1 .. Len(k) : f[Len(h) + i] = k[i])
      BY <2>0, ConcatLength
    <2>. QED  BY <1>1, <1>2, <2>1
  <1>. HIDE DEF f
  <1>4. IsSequence(p) /\ Len(p) = 3 /\ p[1] = name /\ p[2] = k[1] /\ p[3] = value
    <2>0. IsSequence(f) /\ IsSequence(v)  BY <1>2, <1>3
    <2>1. IsSequence(p) /\ Len(p) = Len(f) + Len(v)
          /\ (\A i \in 1 .. Len(f) : p[i] = f[i])
          /\ (\A i \in 1 .. Len(v) : p[Len(f) + i] = v[i])
      BY <2>0, ConcatLength
    <2>. QED  BY <1>2, <1>3, <2>1
  <1>. HIDE DEF p
  <1>5. \A i \in 1 .. Len(p) : p[i].covers \subseteq X /\ (IsWord(p[i]) => p[i].keeps \subseteq X)
    BY <1>1, <1>4
  <1>6. Make("assign_element", p).covers \subseteq X  BY <1>4, <1>5, MakeWithin
  <1>. QED  BY <1>6 DEF p, f, h, v, k

LEMMA AssignCovers ==
  ASSUME ParseInv, Fairly, Doing("build"), Head(todo).arg \in {"assign", "compound"},
         NEW name, name = Word(Pieces[1].words[1], Pieces[1].keeps \cup Pieces[2].keeps)
  PROVE  /\ Len(Pieces) = 3 /\ Walks(Pieces[1])
         /\ Pieces[1].kind = "access" => Make("assign_element", <<name>> \o Pieces[1].kids \o <<Pieces[3]>>).covers \subseteq PiecesCover
         /\ Make("assign", <<name, Pieces[3]>>).covers \subseteq PiecesCover
         /\ \A op : Update(name, op, Pieces[3]).covers \subseteq PiecesCover
  <1>1. Len(Pieces) = 3
    <2>1. Fits("assign", Pieces, Len(Pieces)) \/ Fits("compound", Pieces, Len(Pieces))  BY PiecesFit
    <2>. QED  BY <2>1 DEF Fits
  <1>. DEFINE X == PiecesCover  a == Pieces[1]  v == Pieces[3]
  <1>2. /\ 1 \in 1 .. Len(Pieces) /\ 2 \in 1 .. Len(Pieces) /\ 3 \in 1 .. Len(Pieces)  BY <1>1
  <1>3. /\ a.keeps \subseteq X /\ Pieces[2].keeps \subseteq X /\ v.covers \subseteq X /\ Fair(v)
        /\ \A j \in DOMAIN a.kids : a.kids[j].covers \subseteq X
    BY <1>2, PiecesFair
  <1>4. Walks(a)
    <2>1. PICK x, q, n : x.do = "build" /\ Frame(x, q, n)  BY Framed
    <2>2. Pieces[1] = done[x.base + 1] /\ x.base + 1 \in 1 .. Len(done)
      <3>1. Pieces[1] = done[x.base + 1] /\ x.base + 1 \in x.base + 1 .. n  BY <1>2, <2>1, PiecesIn
      <3>. QED  BY <2>1, <3>1 DEF Frame
    <2>. QED  BY <2>2 DEF ParseInv
  <1>5. name.covers \subseteq X /\ name.keeps = name.covers
    <2>. DEFINE w == Pieces[1].words[1]  k == Pieces[1].keeps \cup Pieces[2].keeps
    <2>1. k \subseteq X /\ name = Word(w, k)  BY <1>3
    <2>. HIDE DEF w, k, X
    <2>2. Word(w, k).covers = k /\ Word(w, k).keeps = k  BY WordSound
    <2>. QED  BY <2>1, <2>2
  <1>6. v.keeps \subseteq v.covers  BY <1>3 DEF Fair
  <1>7. ASSUME NEW op PROVE Update(name, op, v).covers \subseteq X
    <2>1. Update(name, op, v).covers = name.keeps \cup v.covers  BY UpdateCovers
    <2>. QED  BY <1>3, <1>5, <2>1
  <1>8. Make("assign", <<name, v>>).covers \subseteq X
    <2>. DEFINE p == <<name, v>>
    <2>. HIDE DEF v, X
    <2>1. IsSequence(p) /\ Len(p) = 2 /\ p[1] = name /\ p[2] = v  BY Tuples
    <2>. HIDE DEF p
    <2>2. \A i \in 1 .. Len(p) : p[i].covers \subseteq X /\ p[i].keeps \subseteq X
      BY <1>3, <1>5, <1>6, <2>1
    <2>3. Make("assign", p).covers \subseteq X  BY <2>1, <2>2, MakeWithin
    <2>. QED  BY <2>3 DEF p
  <1>9. ASSUME a.kind = "access"
        PROVE  Make("assign_element", <<name>> \o a.kids \o <<v>>).covers \subseteq X
    <2>1. \E b, u, Y : b = a /\ u = v /\ Y = X  OBVIOUS
    <2>2. PICK b, u, Y : b = a /\ u = v /\ Y = X  BY <2>1
    <2>. HIDE DEF a, v, X
    <2>3. /\ Walks(b) /\ b.kind = "access" /\ name.covers \subseteq Y /\ name.keeps \subseteq Y
          /\ u.covers \subseteq Y /\ u.keeps \subseteq Y
          /\ \A j \in DOMAIN b.kids : b.kids[j].covers \subseteq Y
      BY <1>3, <1>4, <1>5, <1>6, <1>9, <2>2
    <2>4. Make("assign_element", <<name>> \o b.kids \o <<u>>).covers \subseteq Y
      BY <2>3, AssignElementCovers
    <2>. QED  BY <2>2, <2>4
  <1>. QED  BY <1>1, <1>4, <1>7, <1>8, <1>9

\* The operand of what follows a primary expression.
LEMMA OperandFair ==
  ASSUME ParseInv, Fairly, NEW x, NEW q, NEW c, NEW n, NEW t, Sits(x, q, c, n, t), x.do = "postfix",
         Doing("postfix")
  PROVE  Last(done) = done[n] /\ done[n].keeps \subseteq done[n].covers
  <1>1. n \in Nat \ {0} /\ n = Len(done)  BY PostfixSits, SitsHas
  <1>2. Last(done) = Pieces[1] /\ Len(Pieces) = 1  BY TheOperand
  <1>3. /\ Pieces[1] = done[x.base + 1] /\ Len(Pieces) = n - x.base /\ x.base \in Nat
    <2>1. Frame(x, q, n) /\ x.base \in Nat  BY DEF Sits, Frame
    <2>2. 1 \in 1 .. Len(Pieces)  BY <1>2
    <2>. QED  BY <2>1, <2>2, PiecesIn
  <1>4. x.base + 1 = n  BY <1>1, <1>2, <1>3
  <1>5. n \in 1 .. Len(done)  BY <1>1
  <1>. QED  BY <1>2, <1>3, <1>4, <1>5 DEF Fairly, Fair

LEMMA CallStepReads ==
  ASSUME ParseInv, TextInv, Listing, ReadInv, Fairly, Doing("postfix"), Seated("postfix"),
         NEW node, node = Last(done)
  PROVE  /\ (/\ Peek = "("
             /\ Then(<<With("list", "arg"), Eat(")"), Finish("build", "call"), Again>>)
             /\ Advance /\ Reduced(Word(node.words[1], node.keeps))) => ReadInv'
         /\ (/\ Peek \in DOMAIN Step /\ Then(<<Again>>) /\ Advance
             /\ Reduced(Update(Word(node.words[1], node.keeps \cup {current}), Step[Peek], One)))
              => ReadInv'
         /\ (Peek = "[" /\ Skip(<<Do("expr"), Eat("]"), Finish("build", "access"), Again>>)) => ReadInv'
         /\ (Peek = "." /\ Skip(<<Do("name"), Do("method"), Finish("build", "member"), Again>>)) => ReadInv'
  <1>1. PICK x, q, c, n, t : x.do = "postfix" /\ Sits(x, q, c, n, t)  BY DEF Seated
  <1>2. t = Peek /\ c = current  BY <1>1, SitsHas
  <1>3. node = done[n] /\ done[n].keeps \subseteq done[n].covers  BY <1>1, OperandFair
  <1>4. ASSUME Peek = "(", Then(<<With("list", "arg"), Eat(")"), Finish("build", "call"), Again>>), Advance,
               Reduced(Word(node.words[1], node.keeps))
        PROVE  ReadInv'
    <2>. DEFINE v == Word(node.words[1], node.keeps)
    <2>1. v.covers = node.keeps  BY WordSound
    <2>2. Reduced(v)  BY <1>4
    <2>. HIDE DEF v
    <2>3. v.covers \subseteq done[n].keeps  BY <1>3, <2>1
    <2>4. \E u : u = v /\ u.covers \subseteq done[n].keeps /\ Reduced(u)  BY <2>2, <2>3
    <2>5. PICK u : u = v /\ u.covers \subseteq done[n].keeps /\ Reduced(u)  BY <2>4
    <2>. QED  BY <1>1, <1>2, <1>3, <1>4, <2>5, CalledReads
  <1>5. ASSUME Peek \in DOMAIN Step, Then(<<Again>>), Advance,
               Reduced(Update(Word(node.words[1], node.keeps \cup {current}), Step[Peek], One))
        PROVE  ReadInv'
    <2>. DEFINE k == node.keeps \cup {current}  name == Word(node.words[1], k)  op == Step[Peek]
                v == Update(name, op, One)
    <2>1. name.keeps = k  BY WordSound
    <2>2. One.covers = {}  BY LeafSound DEF One
    <2>3. Reduced(v)  BY <1>5
    <2>. HIDE DEF name, op
    <2>4. v.covers = name.keeps \cup One.covers  BY UpdateCovers
    <2>. HIDE DEF v
    <2>5. v.covers \subseteq done[n].keeps \cup {c}  BY <1>2, <1>3, <2>1, <2>2, <2>4
    <2>6. \E u : u = v /\ u.covers \subseteq done[n].keeps \cup {c} /\ Reduced(u)  BY <2>3, <2>5
    <2>7. PICK u : u = v /\ u.covers \subseteq done[n].keeps \cup {c} /\ Reduced(u)  BY <2>6
    <2>. QED  BY <1>1, <1>2, <1>3, <1>5, <2>7, StepReads
  <1>6. ASSUME Peek = "[", Skip(<<Do("expr"), Eat("]"), Finish("build", "access"), Again>>)
        PROVE  ReadInv'
    BY <1>1, <1>2, <1>6, IndexReads
  <1>7. ASSUME Peek = ".", Skip(<<Do("name"), Do("method"), Finish("build", "member"), Again>>)
        PROVE  ReadInv'
    BY <1>1, <1>2, <1>7, MemberReads
  <1>. QED  BY <1>4, <1>5, <1>6, <1>7

LEMMA ParseCallKeepsReads ==
  ASSUME ParseInv, TextInv, Listing, ReadInv, Fairly, ParseCall
  PROVE  ReadInv'
  <1>1. Doing("postfix")  BY DEF ParseCall
  <1>2. CASE Go(<<>>)  BY <1>1, <1>2, LoopDone
  <1>3. CASE Fail("ERR_INVALID_CALL_TARGET") \/ Fail("ERR_INVALID_ASSIGN_TARGET")
    BY <1>3, FailReads
  <1>. DEFINE node == Last(done)
              A == /\ Peek = "("
                   /\ Then(<<With("list", "arg"), Eat(")"), Finish("build", "call"), Again>>)
                   /\ Advance /\ Reduced(Word(node.words[1], node.keeps))
              B == /\ Peek \in DOMAIN Step /\ Then(<<Again>>) /\ Advance
                   /\ Reduced(Update(Word(node.words[1], node.keeps \cup {current}), Step[Peek], One))
              C == Peek = "[" /\ Skip(<<Do("expr"), Eat("]"), Finish("build", "access"), Again>>)
              D == Peek = "." /\ Skip(<<Do("name"), Do("method"), Finish("build", "member"), Again>>)
  <1>4. A \/ B \/ C \/ D \/ Go(<<>>) \/ Fail("ERR_INVALID_CALL_TARGET") \/ Fail("ERR_INVALID_ASSIGN_TARGET")
    BY Zenon DEF ParseCall
  <1>5. CASE A \/ B \/ C \/ D
    <2>1. CASE Seated("postfix")
      <3>1. (A => ReadInv') /\ (B => ReadInv') /\ (C => ReadInv') /\ (D => ReadInv')
        <4>1. PICK node1 : node1 = Last(done)  OBVIOUS
        <4>. QED  BY <1>1, <2>1, <4>1, CallStepReads
      <3>. HIDE DEF A, B, C, D
      <3>. QED  BY <1>5, <3>1
    <2>2. CASE Strayed("postfix")
      <3>1. Peek \in {"(", "[", "."} \cup DOMAIN Step  BY <1>5
      <3>. QED  BY <2>2, <3>1, StrayTakesNone
    <2>. QED  BY <1>1, <2>1, <2>2, SeatedOrStrayed
  <1>. HIDE DEF A, B, C, D
  <1>. QED  BY <1>2, <1>3, <1>4, <1>5

\* A node that is a leaf covers the token it is.
LEMMA LeafAt ==
  \A kind, words, k : Node(kind, words, {k}, <<>>).covers = {k}
  <1>. TAKE kind, words, k
  <1>1. \E s : s = {k}  OBVIOUS
  <1>2. PICK s : s = {k}  BY <1>1
  <1>3. Node(kind, words, s, <<>>).covers = s  BY LeafSound
  <1>. QED  BY <1>2, <1>3

LEMMA PrimaryReads ==
  ASSUME ParseInv, TextInv, Listing, ReadInv, Doing("primary"), Seated("primary"), UNCHANGED input,
         Peek \in DOMAIN Literals \cup Names, Then(<<>>), Advance,
         NEW kind, NEW words, Push(Node(kind, words, {current}, <<>>))
  PROVE  ReadInv'
  <1>1. PICK x, q, c, n, t : x.do = "primary" /\ Sits(x, q, c, n, t)  BY DEF Seated
  <1>2. t = Peek /\ c = current  BY <1>1, SitsHas
  <1>3. Quiet(t) /\ t # "eof" /\ t \notin Quotes
    <2>1. CASE t \in Names  BY <2>1, NamesAreQuiet
    <2>2. CASE t \in DOMAIN Literals
      <3>1. Quiet(t)  BY <2>2, LiteralsAreQuiet
      <3>2. t # "eof" /\ t \notin Quotes  BY <2>2 DEF Literals, Quotes
      <3>. QED  BY <3>1, <3>2
    <2>. QED  BY <1>2, <2>1, <2>2
  <1>4. \E v : v = Node(kind, words, {current}, <<>>)  OBVIOUS
  <1>5. PICK v : v = Node(kind, words, {current}, <<>>)  BY <1>4
  <1>6. v.covers = {c} /\ Push(v)  BY <1>2, <1>5, LeafAt
  <1>. QED  BY <1>1, <1>3, <1>6, Read1

\* A quote opens a literal.
LEMMA QuoteKeepsReads ==
  ASSUME ParseInv, TextInv, Listing, ReadInv, Doing("primary"), Peek \in Quotes,
         Skip(<<With("quoted", Peek)>>)
  PROVE  ReadInv'
  <1>1. CASE Seated("primary")
    <2>1. PICK x, q, c, n, t : x.do = "primary" /\ Sits(x, q, c, n, t)  BY <1>1 DEF Seated
    <2>2. t = Peek  BY <2>1, SitsHas
    <2>. QED  BY <2>1, <2>2, QuoteReads
  <1>2. CASE Strayed("primary")
    <2>1. PICK x, q, c, n, t : x.do = "primary" /\ Strays(x, q, c, n, t)  BY <1>2 DEF Strayed
    <2>2. t = Peek /\ q = Tail(todo) /\ IsSequence(q)  BY <2>1 DEF Strays, Frame
    <2>3. Advance /\ UNCHANGED input /\ todo' = <<With("quoted", Peek)>> \o q
      BY <2>2, Zenon DEF Skip, Then
    <2>4. PICK y, w : y = With("quoted", Peek) /\ w = todo'  OBVIOUS
    <2>5. y.do = "quoted"  BY <2>4, ItemHas DEF With
    <2>6. w = <<y>> \o q  BY <2>3, <2>4, Zenon
    <2>7. w = Cons(y, q)  BY <2>2, <2>6, Put1, Zenon
    <2>. QED  BY <2>1, <2>2, <2>3, <2>4, <2>5, <2>7, StrayLiteral
  <1>. QED  BY <1>1, <1>2, SeatedOrStrayed

LEMMA ParsePrimaryKeepsReads ==
  ASSUME ParseInv, TextInv, Listing, ReadInv, ParsePrimary
  PROVE  ReadInv'
  <1>1. Doing("primary")  BY DEF ParsePrimary
  <1>2. CASE Fail("ERR_UNEXPECTED_TOKEN")  BY <1>2, FailReads
  <1>3. CASE Peek \in Quotes /\ Skip(<<With("quoted", Peek)>>)  BY <1>1, <1>3, QuoteKeepsReads
  <1>4. ASSUME NEW kind, NEW words, Peek \in DOMAIN Literals \cup Names, Then(<<>>), Advance,
               Push(Node(kind, words, {current}, <<>>))
        PROVE  ReadInv'
    <2>1. CASE Seated("primary")
      <3>1. UNCHANGED input  BY <1>4 DEF Then
      <3>. QED  BY <1>1, <1>4, <2>1, <3>1, PrimaryReads
    <2>2. CASE Strayed("primary")  BY <1>4, <2>2, StrayTakesNone
    <2>. QED  BY <1>1, <2>1, <2>2, SeatedOrStrayed
  <1>5. CASE \/ Peek = "(" /\ Go(Parens(<<Do("expr")>>))
             \/ Peek = "[" /\ Skip(<<With("list", "element"), Eat("]"), Build("list")>>)
    <2>1. CASE Seated("primary")
      <3>1. PICK x, q, c, n, t : x.do = "primary" /\ Sits(x, q, c, n, t)  BY <2>1 DEF Seated
      <3>2. t = Peek  BY <3>1, SitsHas
      <3>. QED  BY <1>5, <3>1, <3>2, GroupReads, ElementsRead
    <2>2. CASE Strayed("primary")  BY <1>5, <2>2, StrayTakesNone
    <2>. QED  BY <1>1, <2>1, <2>2, SeatedOrStrayed
  <1>6. CASE /\ Peek \in DOMAIN Literals
             /\ Then(<<>>) /\ Advance /\ Push(Node(Literals[Peek], <<Peek>>, {current}, <<>>))
    <2>1. \E a, b : a = Literals[Peek] /\ b = <<Peek>>  OBVIOUS
    <2>2. PICK a, b : a = Literals[Peek] /\ b = <<Peek>>  BY <2>1
    <2>. QED  BY <1>4, <1>6, <2>2
  <1>7. CASE /\ Peek \in Names
             /\ Then(<<>>) /\ Advance /\ Push(Node("identifier", <<Peek>>, {current}, <<>>))
    <2>1. \E b : b = <<Peek>>  OBVIOUS
    <2>2. PICK b : b = <<Peek>>  BY <2>1
    <2>. QED  BY <1>4, <1>7, <2>2
  <1>. QED  BY <1>2, <1>3, <1>5, <1>6, <1>7, Zenon DEF ParsePrimary

\* The tokens of a literal, and its end.
LEMMA ParseQuotedKeepsReads ==
  ASSUME ParseInv, TextInv, Listing, ReadInv, Fairly, ParseQuoted
  PROVE  ReadInv'
  <1>1. Doing("quoted")  BY DEF ParseQuoted
  <1>2. CASE \E x, q, c, n, t : LiteralSits(x, q, c, n, t)
    <2>1. PICK x, q, c, n, t : LiteralSits(x, q, c, n, t)  BY <1>2
    <2>2. t = Peek /\ c = current /\ Frame(x, q, n) /\ c \in Nat \ {0}  BY <2>1 DEF LiteralSits
    <2>3. CASE Peek \notin Quotes \cup {"eof"} /\ Take(<<Again>>)  BY <2>1, <2>2, <2>3, LiteralGrows
    <2>4. ASSUME Peek \in Quotes \cup {"eof"}, Then(<<>>), Advance, NEW kind, Reduced(Make(kind, Pieces))
          PROVE  ReadInv'
      <3>1. \E v : v = Make(kind, Pieces)  OBVIOUS
      <3>2. PICK v : v = Make(kind, Pieces)  BY <3>1
      <3>3. v.covers \subseteq PiecesCover  BY <1>1, <3>2, MakeCovers
      <3>4. \A f : Within(x.base, n, f, c - 1) => v.covers \subseteq f .. c - 1
        BY <2>2, <3>3, WithinCovers
      <3>5. Reduced(v)  BY <2>4, <3>2
      <3>. QED  BY <2>1, <2>2, <2>4, <3>4, <3>5, LiteralEnds
    <2>. QED  BY <2>3, <2>4 DEF ParseQuoted
  <1>3. CASE \E x, q, c, n, t : x.do = "quoted" /\ Strays(x, q, c, n, t)
    <2>1. PICK x, q, c, n, t : x.do = "quoted" /\ Strays(x, q, c, n, t)  BY <1>3
    <2>2. t = Peek /\ x = Head(todo) /\ q = Tail(todo) /\ IsSequence(q)  BY <2>1 DEF Strays, Frame
    <2>3. PICK w : w = todo'  OBVIOUS
    <2>4. CASE Peek \notin Quotes \cup {"eof"} /\ Take(<<Again>>)
      <3>1. Advance /\ UNCHANGED input /\ todo' = <<x>> \o q
        BY <2>2, <2>4, Zenon DEF Take, Then, Again
      <3>2. w = Cons(x, q)  BY <2>2, <2>3, <3>1, Put1, Zenon
      <3>. QED  BY <2>1, <2>2, <2>3, <2>4, <3>1, <3>2, StrayLiteral
    <2>5. CASE Peek \in Quotes \cup {"eof"} /\ Then(<<>>) /\ Advance
      <3>1. UNCHANGED input /\ todo' = <<>> \o q  BY <2>2, <2>5, Zenon DEF Then
      <3>2. w = q  BY <2>2, <2>3, <3>1, Unrolled, Zenon
      <3>. QED  BY <2>1, <2>2, <2>3, <2>5, <3>1, <3>2, StrayLiteral
    <2>. QED  BY <2>4, <2>5 DEF ParseQuoted
  <1>4. ASSUME NEW x, NEW q, NEW c, NEW n, NEW t, x.do = "quoted", Sits(x, q, c, n, t) PROVE FALSE
    <2>1. Holds(x, q, c, n, t)  BY <1>4, SitsHas
    <2>. QED  BY <1>4, <2>1 DEF Holds
  <1>. QED  BY <1>1, <1>2, <1>3, <1>4, Standing

\* The node of an expression is built where an expression waits.
LEMMA BuildsOnCourse ==
  ASSUME ParseInv, TextInv, Listing, ReadInv, Doing("build"), Head(todo).arg \in Valued
  PROVE  Seated("build")
  <1>1. ASSUME Strayed("build") PROVE FALSE
    <2>1. PICK x, q, c, n, t : x.do = "build" /\ Strays(x, q, c, n, t)  BY <1>1 DEF Strayed
    <2>2. Blunt(x) /\ x = Head(todo)  BY <2>1 DEF Strays, Frame
    <2>3. ~ Builds1(x, Valued)  BY <2>1, <2>2 DEF Blunt, Tame, Operands, Valued
    <2>. QED  BY <2>1, <2>2, <2>3 DEF Builds1
  <1>. QED  BY <1>1, SeatedOrStrayed

\* It covers what its pieces cover.
LEMMA ValuedReads ==
  ASSUME ParseInv, TextInv, Listing, ReadInv, Doing("build"), Head(todo).arg \in Valued,
         Then(<<>>), Stay, NEW v, Reduced(v), v.covers \subseteq PiecesCover
  PROVE  ReadInv'
  <1>1. Seated("build")  BY BuildsOnCourse
  <1>2. PICK x, q, c, n, t : x.do = "build" /\ Sits(x, q, c, n, t)  BY <1>1 DEF Seated
  <1>3. Frame(x, q, n) /\ x = Head(todo) /\ c = current  BY <1>2 DEF Sits, Frame
  <1>4. Builds1(x, Lowest \cup {"unary", "binary"} \cup Postfixed)
    BY <1>2, <1>3 DEF Builds1, Valued
  <1>5. \A f : Within(x.base, n, f, c - 1) => v.covers \subseteq f .. c - 1
    BY <1>3, WithinCovers
  <1>. QED  BY <1>2, <1>4, <1>5, BuildReads

LEMMA BuildAccessKeepsReads ==
  ASSUME ParseInv, TextInv, Listing, ReadInv, Fairly, BuildAccess
  PROVE  ReadInv'
  <1>1. Doing("build") /\ Head(todo).arg = "access" /\ Then(<<>>) /\ Stay  BY DEF BuildAccess
  <1>2. PICK w : w = NameOf(Pieces[1]).words  OBVIOUS
  <1>. DEFINE m == Node("access", w, NameOf(Pieces[1]).keeps, <<Pieces[2]>>)
  <1>3. Reduced(m)  BY <1>2 DEF BuildAccess
  <1>4. m.covers \subseteq PiecesCover  BY <1>1, AccessCovers
  <1>. HIDE DEF m
  <1>5. PICK v : v = m  OBVIOUS
  <1>6. Reduced(v) /\ v.covers \subseteq PiecesCover  BY <1>3, <1>4, <1>5
  <1>7. Head(todo).arg \in Valued  BY <1>1 DEF Valued, Postfixed
  <1>. QED  BY <1>1, <1>6, <1>7, ValuedReads

LEMMA AssignToKeepsReads ==
  ASSUME ParseInv, TextInv, Listing, ReadInv, Fairly, AssignTo
  PROVE  ReadInv'
  <1>1. CASE Fail("ERR_INVALID_ASSIGN_TARGET")  BY <1>1, FailReads
  <1>2. Doing("build")  BY DEF AssignTo
  <1>. DEFINE target == Pieces[1]  value == Pieces[3]
              name == Word(target.words[1], target.keeps \cup Pieces[2].keeps)
              A == Make("assign_element", <<name>> \o target.kids \o <<value>>)
              B == Make("assign", <<name, value>>)
              C == Update(name, Compound[Pieces[2].words[1]], value)
  <1>3. CASE /\ Head(todo).arg \in {"assign", "compound"}
             /\ \/ target.kind = "access" /\ Reduce(A)
                \/ Reduce(B)
                \/ Reduce(C)
    <2>1. Head(todo).arg \in Valued  BY <1>3 DEF Valued, Lowest
    <2>2. /\ Pieces[1].kind = "access" => A.covers \subseteq PiecesCover
          /\ B.covers \subseteq PiecesCover /\ C.covers \subseteq PiecesCover
      <3>1. PICK u : u = name  OBVIOUS
      <3>. HIDE DEF name
      <3>2. u = Word(Pieces[1].words[1], Pieces[1].keeps \cup Pieces[2].keeps)  BY <3>1 DEF name
      <3>3. Head(todo).arg \in {"assign", "compound"}  BY <1>3
      <3>4. /\ Pieces[1].kind = "access" =>
                 Make("assign_element", <<u>> \o Pieces[1].kids \o <<Pieces[3]>>).covers \subseteq PiecesCover
            /\ Make("assign", <<u, Pieces[3]>>).covers \subseteq PiecesCover
            /\ \A op : Update(u, op, Pieces[3]).covers \subseteq PiecesCover
        BY <1>2, <3>2, <3>3, AssignCovers
      <3>. QED  BY <3>1, <3>4
    <2>. HIDE DEF A, B, C, name
    <2>3. \E v : Reduce(v) /\ v.covers \subseteq PiecesCover  BY <1>3, <2>2
    <2>4. PICK v : Reduce(v) /\ v.covers \subseteq PiecesCover  BY <2>3
    <2>5. Then(<<>>) /\ Stay /\ Reduced(v)  BY <2>4 DEF Reduce
    <2>. QED  BY <1>2, <2>1, <2>4, <2>5, ValuedReads
  <1>4. \/ Fail("ERR_INVALID_ASSIGN_TARGET")
        \/ Head(todo).arg = "assign" /\ target.kind = "access" /\ Reduce(A)
        \/ Head(todo).arg = "assign" /\ Reduce(B)
        \/ Head(todo).arg = "compound" /\ Reduce(C)
    BY Zenon DEF AssignTo
  <1>. HIDE DEF A, B, C, name
  <1>. QED  BY <1>1, <1>3, <1>4

LEMMA BuildNodeKeepsReads ==
  ASSUME ParseInv, TextInv, Listing, ReadInv, Fairly, BuildNode
  PROVE  ReadInv'
  <1>1. Doing("build") /\ Reduce(Make(Head(todo).arg, Pieces))  BY DEF BuildNode
  <1>2. Then(<<>>) /\ Stay  BY <1>1 DEF Reduce
  <1>3. CASE Head(todo).arg \notin Valued
    <2>1. Mild(<<>>)  BY Bare
    <2>. QED  BY <1>1, <1>2, <1>3, <2>1, OuterReads
  <1>4. CASE Head(todo).arg \in Valued
    <2>1. PICK k : k = Head(todo).arg  OBVIOUS
    <2>2. PICK v : v = Make(k, Pieces)  OBVIOUS
    <2>3. v.covers \subseteq PiecesCover  BY <1>1, <2>2, MakeCovers
    <2>4. Reduced(v)  BY <1>1, <2>1, <2>2 DEF Reduce
    <2>. QED  BY <1>1, <1>2, <1>4, <2>3, <2>4, ValuedReads
  <1>. QED  BY <1>3, <1>4

-----------------------------------------------------------------------------
\* The cursor stays where it should be.
LEMMA ListingKept ==
  ASSUME ParseInv, Listing, [Parse]_parserVars
  PROVE  Listing'
  <1>1. CASE UNCHANGED parserVars  BY <1>1 DEF parserVars, Listing
  <1>2. CASE Parse
    <2>1. Stay \/ Advance
      <3>1. (\A items : Go(items) => Stay) /\ (\A items : Skip(items) => Advance)
            /\ (\A items : Take(items) => Advance)
        BY DEF Go, Skip, Take
      <3>2. (\A code : Fail(code) => Stay) /\ (\A n : Reduce(n) => Stay)
        BY DEF Fail, Reduce, Stay
      <3>3. Accept => Stay  BY DEF Accept, Stay
      <3>4. CASE ParseFunction
        BY <3>1, <3>2, <3>4, Zenon
           DEF ParseFunction, ParseProgram, ParseBlock, ParseType, Initializer, ReturnType, List, More
      <3>5. CASE ParseStatements
        BY <3>1, <3>2, <3>5, Zenon
           DEF ParseStatements, ParseStatement, Directive, ElseBranch, ParseForStatement, BuildRange
      <3>6. CASE ParseExpressions
        BY <3>1, <3>2, <3>6, Zenon
           DEF ParseExpressions, ParseExpression, ParseAssignment, AssignTo, ParseTernary, ParseOperator,
               ParseUnary, ParseCall, MethodArgs, BuildAccess, ParsePrimary, ParseQuoted
      <3>7. CASE Consume \/ ConsumeName \/ ConsumeEndOfStatement \/ BuildNode \/ Accept
        BY <3>1, <3>2, <3>3, <3>7, Zenon DEF Consume, ConsumeName, ConsumeEndOfStatement, BuildNode
      <3>. QED  BY <1>2, <3>4, <3>5, <3>6, <3>7, Zenon DEF Parse
    <2>. QED  BY <2>1, ListingNext DEF ParseInv
  <1>. QED  BY <1>1, <1>2

LEMMA StutterReads ==
  ASSUME ParseInv, TextInv, ReadInv, UNCHANGED parserVars
  PROVE  ReadInv'
  <1>1. UNCHANGED <<tokens, current, input, todo, done, status>> /\ Stay  BY DEF parserVars, Stay
  <1>. SUFFICES ASSUME status = "parsing" PROVE ReadInv'  BY <1>1 DEF ReadInv
  <1>2. PICK w, c, n, t : w = todo /\ c = current /\ n = Len(done) /\ t = Peek  OBVIOUS
  <1>3. w = todo' /\ c = current' /\ n = Len(done') /\ t = Peek'  BY <1>1, <1>2 DEF Peek
  <1>4. /\ c \in Nat \ {0} /\ c <= Len(tokens) + 1 /\ Kept /\ Len(tokens) <= Len(tokens')
        /\ IsSequence(w) /\ n \in Nat
    BY <1>1, <1>2, CursorRests, NowIs DEF ParseInv
  <1>5. KeptBelow(n)  BY <1>1, <1>4 DEF KeptBelow
  <1>6. (InStep => InStep') /\ (Astray => Astray')
    <2>1. Quoting' <=> Quoting  BY <1>1 DEF Quoting
    <2>2. CursorInv /\ EofIsLast  BY DEF ParseInv, TextInv
    <2>. QED  BY <1>1, <2>1, <2>2, StaysInStep
  <1>7. ReadsOn(w, c, n, t) => ReadsOn(w, c, n, t)'  BY <1>4, <1>5, ReadsStays
  <1>8. ReadsLiteral(w, c, n) => ReadsLiteral(w, c, n)'
    <2>1. \A x, q : Gathered(x, q, c, n) => Gathered(x, q, c, n)'  BY <1>4, <1>5, GatheredStays
    <2>. QED  BY <2>1, Zenon DEF ReadsLiteral
  <1>9. \/ InStep /\ (ReadsOn(w, c, n, t) \/ ReadsLiteral(w, c, n))
        \/ Astray /\ (AllBlunt(w) \/ BluntLiteral(w))
    BY <1>2 DEF ReadInv
  <1>. QED  BY <1>3, <1>6, <1>7, <1>8, <1>9, ThenReads, Zenon DEF NowReads

LEMMA NextKeepsReads ==
  ASSUME ParseInv, TextInv, Listing, ReadInv, Fairly, [Parse]_parserVars
  PROVE  ReadInv'
  <1>1. CASE UNCHANGED parserVars
    BY <1>1, StutterReads
  <1>2. ASSUME ParseFunction PROVE ReadInv'
    BY <1>2, ParseProgramKeepsReads, ParseBlockKeepsReads, ParseTypeKeepsReads,
       InitializerKeepsReads, ReturnTypeKeepsReads, ListKeepsReads, MoreKeepsReads DEF ParseFunction
  <1>3. ASSUME ParseStatements PROVE ReadInv'
    BY <1>3, ParseStatementKeepsReads, DirectiveKeepsReads, ElseBranchKeepsReads,
       ParseForStatementKeepsReads, BuildRangeKeepsReads DEF ParseStatements
  <1>4. ASSUME ParseExpressions PROVE ReadInv'
    BY <1>4, ParseExpressionKeepsReads, ParseAssignmentKeepsReads, AssignToKeepsReads,
       ParseTernaryKeepsReads, ParseOperatorKeepsReads, ParseUnaryKeepsReads, ParseCallKeepsReads,
       MethodArgsKeepsReads, BuildAccessKeepsReads, ParsePrimaryKeepsReads, ParseQuotedKeepsReads
       DEF ParseExpressions
  <1>5. ASSUME Consume \/ ConsumeName \/ ConsumeEndOfStatement \/ BuildNode \/ Accept
        PROVE  ReadInv'
    BY <1>5, ConsumeKeepsReads, ConsumeNameKeepsReads, ConsumeEndOfStatementKeepsReads,
       BuildNodeKeepsReads, AcceptKeepsReads
  <1>. QED  BY <1>1, <1>2, <1>3, <1>4, <1>5 DEF Parse

LEMMA InitReads ==
  ASSUME Init
  PROVE  ReadInv
  <1>. DEFINE a == Item("program", "none", 0)  b == Item("build", "program", 0)
  <1>1. current = 1 /\ todo = <<a, b>> /\ status = "parsing"  BY DEF Init
  <1>2. a.do = "program" /\ b.do = "build" /\ b.arg = "program"  BY ItemHas
  <1>. HIDE DEF a, b
  <1>3. Tame(a) /\ Tame(b)
    BY <1>2 DEF Tame, Builds1, Postfixed, Lowest
  <1>4. IsSequence(todo) /\ Len(todo) = 2 /\ todo[1] = a /\ todo[2] = b /\ Head(todo) = a
    <2>1. <<a, b>> \in Seq({a, b}) /\ Len(<<a, b>>) = 2 /\ <<a, b>>[1] = a /\ <<a, b>>[2] = b
          /\ Head(<<a, b>>) = a
      OBVIOUS
    <2>. QED  BY <1>1, <2>1, Zenon DEF IsSequence
  <1>5. Flat(todo)
    <2>1. \A i \in 1 .. 2 : i = 1 \/ i = 2  OBVIOUS
    <2>. QED  BY <1>3, <1>4, <2>1 DEF Flat
  <1>6. ~ InQuotes
    <2>1. QuotesIn(tokens, 0) = {}  BY DEF QuotesIn
    <2>2. Cardinality(QuotesIn(tokens, 0)) = 0  BY <2>1, FS_EmptySet
    <2>3. InQuotes <=> InLiteral(tokens, 0)  BY <1>1 DEF InQuotes
    <2>. QED  BY <2>2, <2>3 DEF InLiteral
  <1>7. ~ Quoting  BY <1>2, <1>4 DEF Quoting
  <1>. QED  BY <1>5, <1>6, <1>7 DEF ReadInv, InStep, ReadsOn

-----------------------------------------------------------------------------
\* What a tree says of the text it was read from, at each of its nodes.
Signs == {"unary", "binary"}
\* A node that says what is so, and groups its operators; a sign or an operation
\* spans listed tokens only.
Told(m) == Fair(m) /\ Grouped(m) /\ (m.kind \in Signs /\ m.keeps # {} => m.covers \subseteq 1 .. Len(tokens))
\* A tree all of whose nodes do.
Rated(n) == \E S : n \in S /\ Closed(S) /\ \A m \in S : Told(m)
\* All that has been read is such a tree.
AllRated == \A i \in 1 .. Len(done) : Rated(done[i])

LEMMA RatedIsFair == \A n : Rated(n) => Fair(n)
  BY DEF Rated, Told

LEMMA RatedDown ==
  \A n : Rated(n) => \A i \in DOMAIN n.kids : Rated(n.kids[i])
  BY DEF Rated, Closed

\* A node of rated parts is rated, if it says what is so itself.
LEMMA RatedNode ==
  ASSUME NEW kids, IsSequence(kids), \A i \in 1 .. Len(kids) : Rated(kids[i]), NEW n, n.kids = kids, Told(n)
  PROVE  Rated(n)
  <1>. DEFINE Witness(m, S) == m \in S /\ Closed(S) /\ \A x \in S : Told(x)
              F == [i \in DOMAIN kids |-> CHOOSE S : Witness(kids[i], S)]
              S == {n} \cup (UNION {F[i] : i \in DOMAIN kids})
  <1>0. DOMAIN kids = 1 .. Len(kids)  BY DomainIs
  <1>1. \A i \in DOMAIN kids : Witness(kids[i], F[i])
    <2>. TAKE i \in DOMAIN kids
    <2>1. \E X : Witness(kids[i], X)  BY <1>0 DEF Rated
    <2>. HIDE DEF Witness
    <2>. QED  BY <2>1
  <1>. HIDE DEF F
  <1>2. Closed(S)
    <2>. SUFFICES ASSUME NEW m \in S, NEW i \in DOMAIN m.kids PROVE m.kids[i] \in S
      BY DEF Closed
    <2>1. CASE m = n  BY <1>1, <2>1
    <2>2. CASE \E j \in DOMAIN kids : m \in F[j]  BY <1>1, <2>2 DEF Closed
    <2>. QED  BY <2>1, <2>2
  <1>3. \A m \in S : Told(m)  BY <1>1
  <1>. QED  BY <1>2, <1>3 DEF Rated

\* A node is fair when it is made; most kinds say nothing of operators.
LEMMA NodeFair ==
  \A kind, words, keeps, kids : Fair(Node(kind, words, keeps, kids))
  <1>. TAKE kind, words, keeps, kids
  <1>. DEFINE n == Node(kind, words, keeps, kids)
  <1>1. n.covers = keeps \cup (UNION {kids[i].covers : i \in DOMAIN kids})  BY CoversIs
  <1>2. n.keeps = keeps /\ n.kids = kids  BY NodeHas
  <1>. HIDE DEF n
  <1>3. Fair(n)  BY <1>1, <1>2 DEF Fair
  <1>. QED  BY <1>3 DEF n

LEMMA NodeRated ==
  ASSUME NEW kids, IsSequence(kids), \A i \in 1 .. Len(kids) : Rated(kids[i]),
         NEW kind, NEW words, NEW keeps, kind \notin Signs \/ keeps = {}
  PROVE  Rated(Node(kind, words, keeps, kids))
  <1>. DEFINE n == Node(kind, words, keeps, kids)
  <1>1. n.kind = kind /\ n.keeps = keeps /\ n.kids = kids /\ Fair(n)  BY NodeHas, NodeFair
  <1>. HIDE DEF n
  <1>2. Grouped(n)  BY <1>1 DEF Grouped, Signs
  <1>3. Told(n)  BY <1>1, <1>2 DEF Told
  <1>4. Rated(n)  BY <1>1, <1>3, RatedNode
  <1>. QED  BY <1>4 DEF n

LEMMA LeafRated ==
  ASSUME NEW kind, NEW words, NEW keeps, kind \notin Signs
  PROVE  Rated(Node(kind, words, keeps, <<>>))
  <1>. DEFINE kids == <<>>
  <1>1. IsSequence(kids) /\ Len(kids) = 0  BY Tuples
  <1>. HIDE DEF kids
  <1>2. Rated(Node(kind, words, keeps, kids))  BY <1>1, NodeRated
  <1>. QED  BY <1>2 DEF kids

LEMMA WordRated == /\ \A w, k : Rated(Word(w, k))
                   /\ Rated(Null) /\ Rated(One)
  <1>1. ASSUME NEW w, NEW k PROVE Rated(Word(w, k))
    <2>1. "word" \notin Signs  BY DEF Signs
    <2>2. PICK u : u = <<w>>  OBVIOUS
    <2>3. Rated(Node("word", u, k, <<>>))  BY <2>1, LeafRated
    <2>. QED  BY <2>2, <2>3 DEF Word
  <1>2. Rated(Null)
    <2>1. "null" \notin Signs  BY DEF Signs
    <2>. QED  BY <2>1, LeafRated DEF Null
  <1>3. Rated(One)
    <2>1. "int" \notin Signs  BY DEF Signs
    <2>. QED  BY <2>1, LeafRated DEF One
  <1>. QED  BY <1>1, <1>2, <1>3

LEMMA ChildrenRated ==
  ASSUME NEW p, IsSequence(p), \A i \in 1 .. Len(p) : ~ IsWord(p[i]) => Rated(p[i])
  PROVE  IsSequence(Children(p)) /\ \A i \in 1 .. Len(Children(p)) : Rated(Children(p)[i])
  <1>. DEFINE c == Children(p)
  <1>1. PICK e : Chosen(p, Len(p), c, e)  BY ChildrenChosen
  <1>. HIDE DEF c
  <1>2. IsSequence(c) /\ \A i \in 1 .. Len(c) : Rated(c[i])  BY <1>1 DEF Chosen
  <1>. QED  BY <1>2 DEF c

LEMMA MakeRated ==
  ASSUME NEW p, IsSequence(p), \A i \in 1 .. Len(p) : ~ IsWord(p[i]) => Rated(p[i]),
         NEW kind, kind \notin Signs
  PROVE  Rated(Make(kind, p))
  <1>. DEFINE c == Children(p)  w == Spelled(p)  k == KeptBy(p)
  <1>1. IsSequence(c) /\ \A i \in 1 .. Len(c) : Rated(c[i])  BY ChildrenRated
  <1>. HIDE DEF c, w, k
  <1>2. Rated(Node(kind, w, k, c))  BY <1>1, NodeRated
  <1>. QED  BY <1>2 DEF Make, c, w, k

LEMMA UpdateRated ==
  ASSUME NEW name, NEW op, NEW value, Rated(value)
  PROVE  Rated(Update(name, op, value))
  <1>. DEFINE w == name.words  u == Node("identifier", w, {}, <<>>)  p == <<u, value>>  o == <<op>>
              b == Node("binary", o, {}, p)  r == <<b>>  k == name.keeps
  <1>1. Rated(u)
    <2>1. "identifier" \notin Signs  BY DEF Signs
    <2>. HIDE DEF w
    <2>. QED  BY <2>1, LeafRated
  <1>. HIDE DEF u, w, o, k
  <1>2. Rated(b)
    <2>1. IsSequence(p) /\ Len(p) = 2 /\ p[1] = u /\ p[2] = value  BY Tuples
    <2>. HIDE DEF p
    <2>2. \A i \in 1 .. Len(p) : Rated(p[i])  BY <1>1, <2>1
    <2>. QED  BY <2>1, <2>2, NodeRated
  <1>. HIDE DEF b
  <1>3. IsSequence(r) /\ Len(r) = 1 /\ r[1] = b  BY Tuples
  <1>. HIDE DEF r
  <1>4. \A i \in 1 .. Len(r) : Rated(r[i])  BY <1>2, <1>3
  <1>5. Rated(Node("assign", w, k, r))
    <2>1. "assign" \notin Signs  BY DEF Signs
    <2>. QED  BY <1>3, <1>4, <2>1, NodeRated
  <1>. QED  BY <1>5, Zenon DEF Update, r, b, p, u, w, o, k
-----------------------------------------------------------------------------
\* What the list ahead brings changes nothing of it.
LEMMA ToldStays ==
  ASSUME Kept, DOMAIN tokens = 1 .. Len(tokens), DOMAIN tokens' = 1 .. Len(tokens'), Len(tokens') \in Nat,
         Len(tokens) <= Len(tokens')
  PROVE  \A m : Told(m) => Told(m)'
  <1>. TAKE m
  <1>. SUFFICES ASSUME Told(m) PROVE Told(m)'  OBVIOUS
  <1>0. Fair(m)'  BY DEF Told, Fair
  <1>1. CASE m.kind \notin Signs \/ m.keeps = {}
    <2>1. Grouped(m)'  BY <1>1 DEF Grouped, Signs
    <2>. QED  BY <1>0, <1>1, <2>1 DEF Told
  <1>2. CASE m.kind \in Signs /\ m.keeps # {}
    <2>1. m.covers \subseteq 1 .. Len(tokens) /\ m.keeps \subseteq m.covers /\ Len(tokens) \in Nat
      BY <1>2 DEF Told, Fair, Kept
    <2>2. m.covers \subseteq 1 .. Len(tokens')  BY <2>1
    <2>3. /\ \A q \in 0 .. Len(tokens) : Depth(q)' = Depth(q)
          /\ \A q \in 1 .. Len(tokens) : IsOperator(q)' = IsOperator(q) /\ tokens'[q] = tokens[q]
      BY DepthStays, OperatorStays
    <2>4. ASSUME NEW p \in m.keeps, NEW q, q \in Beside(m, p)' PROVE q \in Beside(m, p) /\ q \in 1 .. Len(tokens)
      <3>1. /\ q \in 1 .. Len(tokens') /\ (\E i \in m.covers : i < q) /\ (\E i \in m.covers : q <= i)
            /\ q # p /\ IsOperator(q)' /\ Depth(q)' = Depth(p)'
        BY <2>4 DEF Beside
      <3>2. q \in 1 .. Len(tokens)  BY <2>1, <3>1
      <3>3. p \in 0 .. Len(tokens) /\ q \in 0 .. Len(tokens)  BY <2>1, <3>2
      <3>4. IsOperator(q) /\ Depth(q) = Depth(p)  BY <2>3, <3>1, <3>2, <3>3
      <3>. QED  BY <3>1, <3>2, <3>4 DEF Beside
    <2>5. \A p \in m.keeps : tokens'[p] = tokens[p]  BY <2>1, <2>3
    <2>6. Grouped(m)  BY DEF Told
    <2>7. m.kind = "unary" => \A p \in m.keeps : Beside(m, p)' = {}  BY <2>4, <2>6 DEF Grouped
    <2>8. ASSUME m.kind = "binary", NEW p \in m.keeps, NEW q \in Beside(m, p)'
          PROVE  /\ Rank(tokens'[q]) >= Rank(tokens'[p])
                 /\ q > p => Rank(tokens'[q]) > Rank(tokens'[p])
      <3>1. q \in Beside(m, p) /\ tokens'[q] = tokens[q] /\ tokens'[p] = tokens[p]
        BY <2>3, <2>4, <2>5, <2>8
      <3>2. /\ Rank(tokens[q]) >= Rank(tokens[p])
            /\ q > p => Rank(tokens[q]) > Rank(tokens[p])
        BY <2>6, <2>8, <3>1 DEF Grouped
      <3>. QED  BY <3>1, <3>2
    <2>9. Grouped(m)'  BY <2>7, <2>8 DEF Grouped, Rank
    <2>. QED  BY <1>0, <2>2, <2>9 DEF Told
  <1>. QED  BY <1>1, <1>2

LEMMA RatedStays ==
  ASSUME Kept, DOMAIN tokens = 1 .. Len(tokens), DOMAIN tokens' = 1 .. Len(tokens'), Len(tokens') \in Nat,
         Len(tokens) <= Len(tokens')
  PROVE  \A n : Rated(n) => Rated(n)'
  <1>1. \A m : Told(m) => Told(m)'  BY ToldStays
  <1>2. \A S : Closed(S)' = Closed(S)  BY DEF Closed
  <1>. QED  BY <1>1, <1>2, Zenon DEF Rated

-----------------------------------------------------------------------------
\* Every step leaves the cursor, or moves it on, and keeps the input.
LEMMA StepsMove ==
  ASSUME Parse
  PROVE  (Stay \/ Advance) /\ UNCHANGED input
  <1>1. /\ \A items : Then(items) => UNCHANGED input
        /\ \A items : Go(items) => Stay /\ UNCHANGED input
        /\ \A items : Skip(items) => Advance /\ UNCHANGED input
        /\ \A items : Take(items) => Advance /\ UNCHANGED input
        /\ \A code : Fail(code) => Stay /\ UNCHANGED input
        /\ \A n : Reduce(n) => Stay /\ UNCHANGED input
    BY DEF Then, Go, Skip, Take, Fail, Reduce, Stay
  <1>2. Accept => Stay /\ UNCHANGED input  BY DEF Accept, Stay
  <1>3. CASE ParseFunction
    BY <1>1, <1>3, Zenon
       DEF ParseFunction, ParseProgram, ParseBlock, ParseType, Initializer, ReturnType, List, More
  <1>4. CASE ParseStatements
    BY <1>1, <1>4, Zenon
       DEF ParseStatements, ParseStatement, Directive, ElseBranch, ParseForStatement, BuildRange
  <1>5. CASE ParseExpressions
    BY <1>1, <1>5, Zenon
       DEF ParseExpressions, ParseExpression, ParseAssignment, AssignTo, ParseTernary, ParseOperator,
           ParseUnary, ParseCall, MethodArgs, BuildAccess, ParsePrimary, ParseQuoted
  <1>6. CASE Consume \/ ConsumeName \/ ConsumeEndOfStatement \/ BuildNode \/ Accept
    BY <1>1, <1>2, <1>6, Zenon DEF Consume, ConsumeName, ConsumeEndOfStatement, BuildNode
  <1>. QED  BY <1>3, <1>4, <1>5, <1>6, Zenon DEF Parse

LEMMA RatedKept ==
  ASSUME ParseInv, ParseInv', EofIsLast, UNCHANGED input, Stay \/ Advance
  PROVE  \A n : Rated(n) => Rated(n)'
  <1>1. DOMAIN tokens = 1 .. Len(tokens) /\ Len(tokens) \in Nat
    BY DomainIs DEF ParseInv, CursorInv
  <1>2. DOMAIN tokens' = 1 .. Len(tokens') /\ Len(tokens') \in Nat
    BY DomainIs DEF ParseInv, CursorInv
  <1>3. Kept
    <2>1. CASE Stay  BY <2>1, CursorRests
    <2>2. CASE Advance  BY <1>1, <2>2, TokensMove DEF ParseInv, Kept
    <2>. QED  BY <2>1, <2>2
  <1>4. Len(tokens) <= Len(tokens')
    <2>1. CASE Stay  BY <2>1, CursorRests
    <2>2. CASE Advance
      <3>1. tokens' = tokens \/ \E t : tokens' = Append(tokens, t)  BY <2>2 DEF Advance, Reveal
      <3>. QED  BY <1>1, <3>1, PushLength DEF ParseInv, CursorInv
    <2>. QED  BY <2>1, <2>2
  <1>. QED  BY <1>1, <1>2, <1>3, <1>4, RatedStays

\* What a step does to the pieces.
Puts(v) == done' = Append(done, v) \/ (todo # <<>> /\ status = "parsing" /\ Reduced(v))
\* A step makes no piece but such a tree.
Rates == UNCHANGED done \/ \E v : Rated(v) /\ Puts(v)

LEMMA AllRatedNext ==
  ASSUME ParseInv, AllRated, \A n : Rated(n) => Rated(n)', Rates
  PROVE  AllRated'
  <1>0. IsSequence(done) /\ Len(done) \in Nat  BY DomainIs DEF ParseInv
  <1>1. CASE UNCHANGED done  BY <1>1 DEF AllRated
  <1>2. ASSUME NEW v, Rated(v), done' = Append(done, v) PROVE AllRated'
    <2>1. /\ Len(done') = Len(done) + 1 /\ done'[Len(done) + 1] = v
          /\ \A i \in 1 .. Len(done) : done'[i] = done[i]
      BY <1>0, <1>2, PushLength
    <2>2. \A i \in 1 .. Len(done') : i \in 1 .. Len(done) \/ i = Len(done) + 1  BY <1>0, <2>1
    <2>3. \A i \in 1 .. Len(done') : Rated(done'[i])  BY <1>2, <2>1, <2>2 DEF AllRated
    <2>4. \A i \in 1 .. Len(done') : \E u : u = done'[i] /\ Rated(u)'  BY <2>3
    <2>. QED  BY <2>4, Zenon DEF AllRated
  <1>3. ASSUME NEW v, Rated(v), todo # <<>>, status = "parsing", Reduced(v) PROVE AllRated'
    <2>1. Doing(Head(todo).do)  BY <1>3 DEF Doing
    <2>2. PICK f : f = Head(todo).do  OBVIOUS
    <2>3. PICK x, q, n : x.do = f /\ Frame(x, q, n)
      <3>1. Doing(f)  BY <2>1, <2>2
      <3>. QED  BY <3>1, Framed
    <2>4. x = Head(todo) /\ n = Len(done) /\ x.base \in Nat /\ x.base <= n  BY <2>3 DEF Frame
    <2>5. done' = Append(SubSeq(done, 1, x.base), v)  BY <1>3, <2>4 DEF Reduced
    <2>6. /\ Len(done') = x.base + 1 /\ done'[x.base + 1] = v
          /\ \A i \in 1 .. x.base : done'[i] = done[i]
      BY <1>0, <2>4, <2>5, ReducedPieces
    <2>7. \A i \in 1 .. Len(done') : (i \in 1 .. x.base /\ i \in 1 .. Len(done)) \/ i = x.base + 1
      BY <2>4, <2>6
    <2>8. \A i \in 1 .. Len(done') : Rated(done'[i])  BY <1>3, <2>6, <2>7 DEF AllRated
    <2>9. \A i \in 1 .. Len(done') : \E u : u = done'[i] /\ Rated(u)'  BY <2>8
    <2>. QED  BY <2>9, Zenon DEF AllRated
  <1>. QED  BY <1>1, <1>2, <1>3 DEF Rates, Puts

LEMMA PiecesRated ==
  ASSUME ParseInv, AllRated, NEW f, Doing(f)
  PROVE  IsSequence(Pieces) /\ \A i \in 1 .. Len(Pieces) : Rated(Pieces[i])
  <1>1. PICK x, q, n : x.do = f /\ Frame(x, q, n)  BY Framed
  <1>2. n = Len(done) /\ n \in Nat /\ x.base \in Nat  BY <1>1 DEF Frame
  <1>3. /\ IsSequence(Pieces)
        /\ \A i \in 1 .. Len(Pieces) : Pieces[i] = done[x.base + i] /\ x.base + i \in x.base + 1 .. n
    BY <1>1, PiecesIn
  <1>4. ASSUME NEW i \in 1 .. Len(Pieces) PROVE Rated(Pieces[i])
    <2>1. x.base + i \in 1 .. n /\ Pieces[i] = done[x.base + i]  BY <1>2, <1>3
    <2>. QED  BY <1>2, <2>1, Zenon DEF AllRated
  <1>. QED  BY <1>3, <1>4

-----------------------------------------------------------------------------
\* What stands between the ends of an operation.
LEMMA BesideWithin ==
  ASSUME NEW v, NEW g, NEW e, g \in Nat, e \in Nat, v.covers \subseteq g .. e,
         DOMAIN tokens = 1 .. Len(tokens), NEW p
  PROVE  \A k \in Beside(v, p) :
           k \in g + 1 .. e /\ k # p /\ IsOperator(k) /\ Depth(k) = Depth(p)
  <1>. TAKE k \in Beside(v, p)
  <1>1. /\ k \in DOMAIN tokens /\ (\E i \in v.covers : i < k) /\ (\E i \in v.covers : k <= i)
        /\ k # p /\ IsOperator(k) /\ Depth(k) = Depth(p)
    BY DEF Beside
  <1>2. PICK i \in v.covers : i < k  BY <1>1
  <1>3. PICK j \in v.covers : k <= j  BY <1>1
  <1>4. i \in g .. e /\ j \in g .. e /\ k \in Int  BY <1>1, <1>2, <1>3
  <1>. QED  BY <1>1, <1>2, <1>3, <1>4

LEMMA KeepsOfMake ==
  ASSUME NEW kind, NEW p, IsSequence(p), NEW w \in 1 .. Len(p),
         \A i \in 1 .. Len(p) : IsWord(p[i]) <=> i = w
  PROVE  Make(kind, p).keeps = p[w].keeps /\ Make(kind, p).kind = kind /\ Make(kind, p).kids = Children(p)
  <1>1. DOMAIN p = 1 .. Len(p)  BY DomainIs
  <1>2. KeptBy(p) = p[w].keeps  BY <1>1 DEF KeptBy
  <1>3. Make(kind, p).keeps = KeptBy(p) /\ Make(kind, p).kind = kind /\ Make(kind, p).kids = Children(p)
    <2>. DEFINE a == Spelled(p)  b == KeptBy(p)  d == Children(p)
    <2>. HIDE DEF a, b, d
    <2>1. /\ Node(kind, a, b, d).keeps = b /\ Node(kind, a, b, d).kind = kind
          /\ Node(kind, a, b, d).kids = d
      BY NodeHas
    <2>. QED  BY <2>1 DEF Make, a, b, d
  <1>. QED  BY <1>2, <1>3

\* The node of a sign, and of an operation, is what its text says.
LEMMA UnaryGroups ==
  ASSUME NEW v, v.kind = "unary", NEW g, g \in Nat \ {0}, v.keeps = {g}, NEW c, c \in Nat \ {0},
         v.covers \subseteq g .. c - 1, DOMAIN tokens = 1 .. Len(tokens),
         tokens[g] \in {"!", "-"}, Over(g, c - 1, 7)
  PROVE  Grouped(v)
  <1>1. ASSUME NEW k \in Beside(v, g) PROVE FALSE
    <2>. DEFINE e == c - 1
    <2>0. e \in Nat /\ v.covers \subseteq g .. e /\ Over(g, e, 7)  OBVIOUS
    <2>. HIDE DEF e
    <2>1. k \in g + 1 .. e /\ IsOperator(k) /\ Depth(k) = Depth(g)  BY <2>0, BesideWithin
    <2>2. Depth(g) = Depth(g - 1)
      <3>1. tokens[g] \notin Openers \cup Enders  BY SignsAre
      <3>. QED  BY <3>1, DepthNext
    <2>3. Rank(tokens[k]) >= 7  BY <2>0, <2>1, <2>2 DEF Over
    <2>4. Rank(tokens[k]) = 9  BY <2>3, RankType
    <2>. QED  BY <2>1, <2>4 DEF IsOperator
  <1>. QED  BY <1>1 DEF Grouped

LEMMA BinaryGroups ==
  ASSUME NEW v, v.kind = "binary", NEW e, v.keeps = {e}, NEW g, NEW c, c \in Nat \ {0},
         g \in 1 .. c - 1, e \in 1 .. c - 1, v.covers \subseteq g .. c - 1, DOMAIN tokens = 1 .. Len(tokens),
         NEW s \in 1 .. 6, tokens[e] \in Operators(s), Over(g, c - 1, s), Over(e + 1, c - 1, s + 1),
         Depth(e) = Depth(g - 1), ~ IsOperator(e + 1)
  PROVE  Grouped(v)
  <1>1. ASSUME NEW k \in Beside(v, e)
        PROVE  /\ Rank(tokens[k]) >= Rank(tokens[e])
               /\ k > e => Rank(tokens[k]) > Rank(tokens[e])
    <2>. DEFINE d == c - 1
    <2>0. d \in Nat /\ v.covers \subseteq g .. d /\ Over(g, d, s) /\ Over(e + 1, d, s + 1)
          /\ g \in 1 .. d /\ e \in 1 .. d /\ g \in Nat /\ e \in Nat
      OBVIOUS
    <2>. HIDE DEF d
    <2>1. k \in g + 1 .. d /\ IsOperator(k) /\ Depth(k) = Depth(e)  BY <2>0, BesideWithin
    <2>2. Rank(tokens[e]) = s  BY OperatorsSplit
    <2>3. Rank(tokens[k]) >= s  BY <2>0, <2>1 DEF Over
    <2>4. ASSUME k > e PROVE Rank(tokens[k]) >= s + 1
      <3>1. k # e + 1  BY <2>1
      <3>2. k \in e + 1 + 1 .. d  BY <2>0, <2>1, <2>4, <3>1
      <3>3. Depth(e + 1 - 1) = Depth(e)  BY <2>0
      <3>4. \A u \in e + 1 + 1 .. d : IsOperator(u) /\ Depth(u) = Depth(e + 1 - 1) => Rank(tokens[u]) >= s + 1
        BY <2>0 DEF Over
      <3>. QED  BY <2>1, <3>2, <3>3, <3>4
    <2>5. Rank(tokens[k]) \in Int  BY RankType
    <2>. QED  BY <2>2, <2>3, <2>4, <2>5
  <1>. QED  BY <1>1 DEF Grouped
-----------------------------------------------------------------------------
LEMMA SignRates ==
  ASSUME ParseInv, TextInv, Listing, ReadInv, Fairly, AllRated, Doing("build"),
         NEW kind, kind = Head(todo).arg, kind \in Signs, NEW v, v = Make(kind, Pieces)
  PROVE  Rated(v)
  <1>1. Seated("build")
    <2>1. Head(todo).arg \in Valued  BY DEF Signs, Valued
    <2>. QED  BY <2>1, BuildsOnCourse
  <1>2. PICK x, q, c, n, t : x.do = "build" /\ Sits(x, q, c, n, t)  BY <1>1 DEF Seated
  <1>3. Frame(x, q, n) /\ x = Head(todo) /\ c = current /\ c \in Nat \ {0}  BY <1>2 DEF Sits, Frame
  <1>4. /\ IsSequence(Pieces) /\ Len(Pieces) = n - x.base
        /\ \A i \in 1 .. Len(Pieces) : Pieces[i] = done[x.base + i]
    BY <1>3, PiecesIn
  <1>5. Fits(kind, Pieces, Len(Pieces))  BY PiecesFit
  <1>6. \A i \in 1 .. Len(Pieces) : Rated(Pieces[i])  BY PiecesRated
  <1>7. v.covers \subseteq PiecesCover  BY MakeCovers
  <1>8. \A f : Within(x.base, n, f, c - 1) => v.covers \subseteq f .. c - 1
    BY <1>3, <1>7, WithinCovers
  <1>9. DOMAIN tokens = 1 .. Len(tokens) /\ Len(tokens) \in Nat /\ c - 1 <= Len(tokens)
    BY <1>3, DomainIs DEF ParseInv, CursorInv
  <1>10. Fair(v)  BY NodeFair DEF Make
  <1>. DEFINE p == Pieces
  <1>11. IsSequence(p) /\ IsSequence(Children(p)) /\ \A i \in 1 .. Len(Children(p)) : Rated(Children(p)[i])
    BY <1>4, <1>6, ChildrenRated
  <1>12. CASE kind = "unary"
    <2>1. PICK g \in 1 .. c - 1 : /\ BuiltFrom(x, q, c, n, t, g, 7) /\ n - 1 = x.base + 1 /\ n \in Nat
                                  /\ x.base \in Nat /\ done[n - 1].keeps = {g} /\ tokens[g] \in {"!", "-"}
      <3>1. Builds1(x, {"unary"})  BY <1>2, <1>3, <1>12 DEF Builds1
      <3>. QED  BY <1>2, <3>1, UnaryFrom
    <2>2. Len(p) = 2 /\ p[1].kind = "word" /\ p[2].kind \in Expressions /\ p[1] = done[n - 1]
      <3>1. Len(p) = 2 /\ p[1].kind = "word" /\ p[2].kind \in Expressions  BY <1>5, <1>12 DEF Fits
      <3>2. 1 \in 1 .. Len(p)  BY <3>1
      <3>3. p[1] = done[x.base + 1]  BY <1>4, <3>2
      <3>4. x.base + 1 = n - 1  BY <2>1
      <3>. QED  BY <3>1, <3>3, <3>4
    <2>3. \A i \in 1 .. Len(p) : IsWord(p[i]) <=> i = 1
      <3>1. \A i \in 1 .. 2 : i = 1 \/ i = 2  OBVIOUS
      <3>. QED  BY <2>2, <3>1, KindFacts DEF IsWord
    <2>4. v.keeps = {g} /\ v.kind = "unary" /\ v.kids = Children(p)
      <3>1. 1 \in 1 .. Len(p)  BY <2>2
      <3>. HIDE DEF p
      <3>2. /\ Make(kind, p).keeps = p[1].keeps /\ Make(kind, p).kind = kind
            /\ Make(kind, p).kids = Children(p)
        BY <1>11, <2>3, <3>1, KeepsOfMake
      <3>. QED  BY <1>12, <2>1, <2>2, <3>2 DEF p
    <2>. HIDE DEF p
    <2>5. v.covers \subseteq g .. c - 1 /\ Over(g, c - 1, 7)  BY <1>8, <2>1 DEF BuiltFrom
    <2>6. Grouped(v)
      <3>1. g \in Nat \ {0}  BY <1>3
      <3>2. \A d : d = c => d \in Nat \ {0} /\ v.covers \subseteq g .. d - 1 /\ Over(g, d - 1, 7)
        BY <1>3, <2>5
      <3>. QED  BY <1>9, <2>1, <2>4, <3>1, <3>2, UnaryGroups
    <2>7. v.covers \subseteq 1 .. Len(tokens)  BY <1>3, <1>9, <2>1, <2>5
    <2>8. Told(v)  BY <1>10, <2>6, <2>7 DEF Told
    <2>. QED  BY <1>11, <2>4, <2>8, RatedNode
  <1>13. CASE kind = "binary"
    <2>1. PICK g \in 1 .. c - 1, s \in 1 .. 6, e \in 1 .. c - 1 :
           /\ BuiltFrom(x, q, c, n, t, g, s) /\ n - 1 = x.base + 2 /\ n \in Nat /\ x.base \in Nat
           /\ done[n - 1].keeps = {e} /\ tokens[e] \in Operators(s) /\ Over(e + 1, c - 1, s + 1)
           /\ Depth(e) = Depth(g - 1) /\ ~ IsOperator(e + 1)
      <3>1. Builds1(x, {"binary"})  BY <1>2, <1>3, <1>13 DEF Builds1
      <3>. QED  BY <1>2, <3>1, BinaryFrom
    <2>2. /\ Len(p) = 3 /\ p[1].kind \in Expressions /\ p[2].kind = "word" /\ p[3].kind \in Expressions
          /\ p[2] = done[n - 1]
      <3>1. Len(p) = 3 /\ p[1].kind \in Expressions /\ p[2].kind = "word" /\ p[3].kind \in Expressions
        BY <1>5, <1>13 DEF Fits
      <3>2. 2 \in 1 .. Len(p)  BY <3>1
      <3>3. p[2] = done[x.base + 2]  BY <1>4, <3>2
      <3>4. x.base + 2 = n - 1  BY <2>1
      <3>. QED  BY <3>1, <3>3, <3>4
    <2>3. \A i \in 1 .. Len(p) : IsWord(p[i]) <=> i = 2
      <3>1. \A i \in 1 .. 3 : i = 1 \/ i = 2 \/ i = 3  OBVIOUS
      <3>. QED  BY <2>2, <3>1, KindFacts DEF IsWord
    <2>4. v.keeps = {e} /\ v.kind = "binary" /\ v.kids = Children(p)
      <3>1. 2 \in 1 .. Len(p)  BY <2>2
      <3>. HIDE DEF p
      <3>2. /\ Make(kind, p).keeps = p[2].keeps /\ Make(kind, p).kind = kind
            /\ Make(kind, p).kids = Children(p)
        BY <1>11, <2>3, <3>1, KeepsOfMake
      <3>. QED  BY <1>13, <2>1, <2>2, <3>2 DEF p
    <2>. HIDE DEF p
    <2>5. v.covers \subseteq g .. c - 1 /\ Over(g, c - 1, s)  BY <1>8, <2>1 DEF BuiltFrom
    <2>6. Grouped(v)  BY <1>3, <1>9, <2>1, <2>4, <2>5, BinaryGroups
    <2>7. v.covers \subseteq 1 .. Len(tokens)  BY <1>3, <1>9, <2>1, <2>5
    <2>8. Told(v)  BY <1>10, <2>6, <2>7 DEF Told
    <2>. QED  BY <1>11, <2>4, <2>8, RatedNode
  <1>. QED  BY <1>12, <1>13 DEF Signs

-----------------------------------------------------------------------------
\* Every step puts a rated piece where it puts one.
LEMMA PlainRates ==
  /\ \A items : Go(items) => Rates
  /\ \A items : Skip(items) => Rates
  /\ \A items : Take(items) => Rates
  /\ \A code : Fail(code) => Rates
  /\ \A v : Push(v) /\ Rated(v) => Rates
  /\ \A v : todo # <<>> /\ status = "parsing" /\ Reduced(v) /\ Rated(v) => Rates
  <1>1. \A v : Push(v) /\ Rated(v) => Rates  BY DEF Push, Rates, Puts
  <1>2. \A items : Take(items) => Rates  BY <1>1, WordRated DEF Take
  <1>3. \A items : Go(items) \/ Skip(items) => Rates  BY DEF Go, Skip, NoNode, Rates
  <1>4. \A code : Fail(code) => Rates  BY DEF Fail, Rates
  <1>5. \A v : todo # <<>> /\ status = "parsing" /\ Reduced(v) /\ Rated(v) => Rates
    BY DEF Rates, Puts
  <1>. QED  BY <1>1, <1>2, <1>3, <1>4, <1>5

LEMMA ReducedRates ==
  ASSUME NEW f, Doing(f), NEW v, Reduced(v), Rated(v)
  PROVE  Rates
  BY PlainRates DEF Doing

LEMMA BuildNodeRates ==
  ASSUME ParseInv, TextInv, Listing, ReadInv, Fairly, AllRated, BuildNode
  PROVE  Rates
  <1>1. Doing("build") /\ Reduced(Make(Head(todo).arg, Pieces))  BY DEF BuildNode, Reduce
  <1>2. PICK k : k = Head(todo).arg  OBVIOUS
  <1>3. PICK v : v = Make(k, Pieces)  OBVIOUS
  <1>4. Rated(v)
    <2>1. CASE k \in Signs  BY <1>1, <1>2, <1>3, <2>1, SignRates
    <2>2. CASE k \notin Signs
      <3>1. IsSequence(Pieces) /\ \A i \in 1 .. Len(Pieces) : Rated(Pieces[i])  BY <1>1, PiecesRated
      <3>2. PICK p : p = Pieces  OBVIOUS
      <3>3. IsSequence(p) /\ \A i \in 1 .. Len(p) : ~ IsWord(p[i]) => Rated(p[i])  BY <3>1, <3>2
      <3>4. Rated(Make(k, p))  BY <2>2, <3>3, MakeRated
      <3>. QED  BY <1>3, <3>2, <3>4
    <2>. QED  BY <2>1, <2>2
  <1>. QED  BY <1>1, <1>2, <1>3, <1>4, ReducedRates

\* The pieces by their places.
LEMMA PieceRated ==
  ASSUME ParseInv, AllRated, Doing("build")
  PROVE  /\ Head(todo).arg = "access" => Len(Pieces) = 2
         /\ Head(todo).arg \in {"assign", "compound", "range"} => Len(Pieces) = 3
         /\ \A i \in 1 .. Len(Pieces) : Rated(Pieces[i]) /\ Walks(Pieces[i])
  <1>1. Fits(Head(todo).arg, Pieces, Len(Pieces)) /\ \A i \in 1 .. Len(Pieces) : Walks(Pieces[i])
    BY PiecesFit
  <1>2. \A i \in 1 .. Len(Pieces) : Rated(Pieces[i])  BY PiecesRated
  <1>. QED  BY <1>1, <1>2 DEF Fits

LEMMA BuildAccessRates ==
  ASSUME ParseInv, AllRated, BuildAccess
  PROVE  Rates
  <1>1. Doing("build") /\ Head(todo).arg = "access"  BY DEF BuildAccess
  <1>2. PICK w, k, b : w = NameOf(Pieces[1]).words /\ k = NameOf(Pieces[1]).keeps /\ b = Pieces[2]  OBVIOUS
  <1>3. Rated(b)
    <2>1. Len(Pieces) = 2  BY <1>1, PieceRated
    <2>2. 2 \in 1 .. Len(Pieces)  BY <2>1
    <2>. QED  BY <1>1, <1>2, <2>2, PieceRated
  <1>. DEFINE p == <<b>>
  <1>4. IsSequence(p) /\ Len(p) = 1 /\ p[1] = b  BY Tuples
  <1>5. Reduced(Node("access", w, k, p))  BY <1>2 DEF BuildAccess
  <1>. HIDE DEF p
  <1>6. Rated(Node("access", w, k, p))
    <2>1. "access" \notin Signs  BY DEF Signs
    <2>2. \A i \in 1 .. Len(p) : Rated(p[i])  BY <1>3, <1>4
    <2>. QED  BY <1>4, <2>1, <2>2, NodeRated
  <1>7. PICK v : v = Node("access", w, k, p)  OBVIOUS
  <1>. QED  BY <1>1, <1>5, <1>6, <1>7, ReducedRates

\* The three ways to assign.
LEMMA AssignElementRated ==
  ASSUME NEW name, NEW target, NEW value, Rated(name), Walks(target), Rated(target), Rated(value)
  PROVE  Rated(Make("assign_element", <<name>> \o target.kids \o <<value>>))
  <1>. DEFINE k == target.kids  v == <<value>>  h == <<name>>  f == h \o k  p == f \o v
  <1>1. IsSequence(k)  BY WalksDown DEF Shaped
  <1>2. IsSequence(v) /\ Len(v) = 1 /\ v[1] = value /\ IsSequence(h) /\ Len(h) = 1 /\ h[1] = name
    BY Tuples
  <1>3. \A i \in 1 .. Len(k) : Rated(k[i])
    <2>1. DOMAIN k = 1 .. Len(k)  BY <1>1, DomainIs
    <2>. QED  BY <2>1, RatedDown
  <1>. HIDE DEF v, k, h
  <1>4. IsSequence(f) /\ \A i \in 1 .. Len(f) : Rated(f[i])
    <2>0. IsSequence(h) /\ IsSequence(k)  BY <1>1, <1>2
    <2>1. IsSequence(f) /\ Len(f) = Len(h) + Len(k) /\ Len(k) \in Nat /\ Len(h) \in Nat
          /\ (\A i \in 1 .. Len(h) : f[i] = h[i])
          /\ (\A i \in 1 .. Len(k) : f[Len(h) + i] = k[i])
      BY <2>0, ConcatLength
    <2>2. ASSUME NEW i \in 1 .. Len(f) PROVE Rated(f[i])
      <3>1. CASE i = 1  BY <1>2, <2>1, <3>1
      <3>2. CASE i # 1
        <4>1. i - 1 \in 1 .. Len(k) /\ Len(h) + (i - 1) = i  BY <1>2, <2>1, <3>2
        <4>2. f[Len(h) + (i - 1)] = k[i - 1]  BY <2>1, <4>1
        <4>. QED  BY <1>3, <4>1, <4>2
      <3>. QED  BY <3>1, <3>2
    <2>. QED  BY <2>1, <2>2
  <1>. HIDE DEF f
  <1>5. IsSequence(p) /\ \A i \in 1 .. Len(p) : Rated(p[i])
    <2>0. IsSequence(f) /\ IsSequence(v)  BY <1>2, <1>4
    <2>1. IsSequence(p) /\ Len(p) = Len(f) + Len(v) /\ Len(f) \in Nat
          /\ (\A i \in 1 .. Len(f) : p[i] = f[i])
          /\ (\A i \in 1 .. Len(v) : p[Len(f) + i] = v[i])
      BY <2>0, ConcatLength
    <2>2. \A i \in 1 .. Len(p) : i \in 1 .. Len(f) \/ i = Len(f) + 1  BY <1>2, <2>1
    <2>3. p[Len(f) + 1] = value  BY <1>2, <2>1
    <2>4. \A i \in 1 .. Len(f) : Rated(p[i])  BY <1>4, <2>1
    <2>. QED  BY <2>1, <2>2, <2>3, <2>4
  <1>. HIDE DEF p
  <1>6. "assign_element" \notin Signs  BY DEF Signs
  <1>7. Rated(Make("assign_element", p))  BY <1>5, <1>6, MakeRated
  <1>. QED  BY <1>7 DEF p, f, h, v, k

LEMMA AssignToRates ==
  ASSUME ParseInv, AllRated, AssignTo
  PROVE  Rates
  <1>1. Doing("build")  BY DEF AssignTo
  <1>2. CASE Fail("ERR_INVALID_ASSIGN_TARGET")  BY <1>2, PlainRates
  <1>3. CASE Head(todo).arg \in {"assign", "compound"}
    <2>1. 1 \in 1 .. Len(Pieces) /\ 3 \in 1 .. Len(Pieces)  BY <1>1, <1>3, PieceRated
    <2>2. PICK a, b, name, op : /\ a = Pieces[1] /\ b = Pieces[3]
                                /\ name = Word(Pieces[1].words[1], Pieces[1].keeps \cup Pieces[2].keeps)
                                /\ op = Compound[Pieces[2].words[1]]
      OBVIOUS
    <2>3. Rated(a) /\ Walks(a) /\ Rated(b)  BY <1>1, <2>1, <2>2, PieceRated
    <2>4. Rated(name)
      <3>1. PICK w, k : w = Pieces[1].words[1] /\ k = Pieces[1].keeps \cup Pieces[2].keeps  OBVIOUS
      <3>. QED  BY <2>2, <3>1, WordRated
    <2>. DEFINE A == Make("assign_element", <<name>> \o a.kids \o <<b>>)
                B == Make("assign", <<name, b>>)
                C == Update(name, op, b)
    <2>5. Rated(A)  BY <2>3, <2>4, AssignElementRated
    <2>6. Rated(B)
      <3>. DEFINE p == <<name, b>>
      <3>1. IsSequence(p) /\ Len(p) = 2 /\ p[1] = name /\ p[2] = b  BY Tuples
      <3>. HIDE DEF p
      <3>2. \A i \in 1 .. Len(p) : ~ IsWord(p[i]) => Rated(p[i])  BY <2>3, <2>4, <3>1
      <3>3. "assign" \notin Signs  BY DEF Signs
      <3>4. Rated(Make("assign", p))  BY <3>1, <3>2, <3>3, MakeRated
      <3>. QED  BY <3>4 DEF p
    <2>7. Rated(C)  BY <2>3, UpdateRated
    <2>8. Reduced(A) \/ Reduced(B) \/ Reduced(C) \/ Fail("ERR_INVALID_ASSIGN_TARGET")
      BY <2>2, Zenon DEF AssignTo, Reduce
    <2>. HIDE DEF A, B, C
    <2>9. Fail("ERR_INVALID_ASSIGN_TARGET") \/ \E v : Reduced(v) /\ Rated(v)
      BY <2>5, <2>6, <2>7, <2>8
    <2>. QED  BY <1>1, <1>2, <2>9, ReducedRates
  <1>. QED  BY <1>2, <1>3 DEF AssignTo

\* A range loop is made over a hidden index.
LEMMA BuildRangeRates ==
  ASSUME ParseInv, AllRated, BuildRange
  PROVE  Rates
  <1>1. Doing("build") /\ Head(todo).arg = "range"  BY DEF BuildRange
  <1>2. 1 \in 1 .. Len(Pieces) /\ 2 \in 1 .. Len(Pieces) /\ 3 \in 1 .. Len(Pieces)
    <2>1. Len(Pieces) = 3  BY <1>1, PieceRated
    <2>. QED  BY <2>1
  <1>3. PICK a, b, d, w : a = Pieces[1] /\ b = Pieces[2] /\ d = Pieces[3]
                          /\ w = "__pinum_i" \o ToString(rng_counter)
    OBVIOUS
  <1>4. Rated(b) /\ Rated(d)  BY <1>1, <1>2, <1>3, PieceRated
  <1>. DEFINE idx == Word(w, {})  int == Word("int", {})  zero == Node("int", <<"0">>, {}, <<>>)
              use == Node("identifier", idx.words, {}, <<>>)
              p == <<int, idx, zero>>  decl == Make("decl", p)
              o == <<"<">>  r == <<use, b>>  test == Node("binary", o, {}, r)
              next == Update(idx, "+", One)
              k == <<decl, test, next, d>>  v == Node("for", a.words, a.keeps, k)
  <1>5. Reduced(v)  BY <1>3, Zenon DEF BuildRange
  <1>6. Rated(idx) /\ Rated(int) /\ Rated(next)
    <2>1. Rated(One)  BY WordRated
    <2>2. Rated(next)  BY <2>1, UpdateRated
    <2>. QED  BY <2>2, WordRated
  <1>7. Rated(zero) /\ Rated(use)
    <2>1. "int" \notin Signs /\ "identifier" \notin Signs  BY DEF Signs
    <2>. DEFINE z == <<"0">>  u == idx.words
    <2>. HIDE DEF z, u
    <2>2. Rated(Node("int", z, {}, <<>>))  BY <2>1, LeafRated
    <2>3. Rated(Node("identifier", u, {}, <<>>))  BY <2>1, LeafRated
    <2>. QED  BY <2>2, <2>3, Zenon DEF z, u
  <1>. HIDE DEF idx, int, zero, use, next, o
  <1>8. Rated(decl)
    <2>1. IsSequence(p) /\ Len(p) = 3 /\ p[1] = int /\ p[2] = idx /\ p[3] = zero  BY Tuples
    <2>. HIDE DEF p
    <2>2. \A i \in 1 .. Len(p) : ~ IsWord(p[i]) => Rated(p[i])  BY <1>6, <1>7, <2>1
    <2>3. "decl" \notin Signs  BY DEF Signs
    <2>. QED  BY <2>1, <2>2, <2>3, MakeRated
  <1>. HIDE DEF decl
  <1>9. Rated(test)
    <2>1. IsSequence(r) /\ Len(r) = 2 /\ r[1] = use /\ r[2] = b  BY Tuples
    <2>. HIDE DEF r
    <2>2. \A i \in 1 .. Len(r) : Rated(r[i])  BY <1>4, <1>7, <2>1
    <2>. QED  BY <2>1, <2>2, NodeRated
  <1>. HIDE DEF test
  <1>10. Rated(v)
    <2>1. IsSequence(k) /\ Len(k) = 4 /\ k[1] = decl /\ k[2] = test /\ k[3] = next /\ k[4] = d
      <3>1. k \in Seq({decl, test, next, d})  OBVIOUS
      <3>. QED  BY <3>1 DEF IsSequence
    <2>. HIDE DEF k
    <2>2. \A i \in 1 .. Len(k) : Rated(k[i])
      <3>1. \A i \in 1 .. 4 : i = 1 \/ i = 2 \/ i = 3 \/ i = 4  OBVIOUS
      <3>. QED  BY <1>4, <1>6, <1>8, <1>9, <2>1, <3>1
    <2>3. "for" \notin Signs  BY DEF Signs
    <2>. QED  BY <2>1, <2>2, <2>3, NodeRated
  <1>. HIDE DEF v
  <1>11. PICK u : u = v  OBVIOUS
  <1>. QED  BY <1>1, <1>5, <1>10, <1>11, ReducedRates

LEMMA ParseCallRates ==
  ASSUME ParseInv, ParseCall
  PROVE  Rates
  <1>1. Doing("postfix")  BY DEF ParseCall
  <1>. DEFINE node == Last(done)  A == Word(node.words[1], node.keeps)
              B == Update(Word(node.words[1], node.keeps \cup {current}), Step[Peek], One)
  <1>2. Rated(A) /\ Rated(B)
    <2>1. PICK w, k, m, op : /\ w = node.words[1] /\ k = node.keeps
                             /\ m = Word(node.words[1], node.keeps \cup {current}) /\ op = Step[Peek]
      OBVIOUS
    <2>2. Rated(Word(w, k)) /\ Rated(One)  BY WordRated
    <2>3. Rated(Update(m, op, One))  BY <2>2, UpdateRated
    <2>. QED  BY <2>1, <2>2, <2>3
  <1>3. /\ \A items : Go(items) => Rates
        /\ \A items : Skip(items) => Rates
        /\ \A code : Fail(code) => Rates
    BY PlainRates
  <1>4. Rates \/ Reduced(A) \/ Reduced(B)  BY <1>3, Zenon DEF ParseCall
  <1>. HIDE DEF A, B
  <1>5. Rates \/ \E v : Reduced(v) /\ Rated(v)  BY <1>2, <1>4
  <1>. QED  BY <1>1, <1>5, ReducedRates

LEMMA ParsePrimaryRates ==
  ASSUME ParsePrimary
  PROVE  Rates
  <1>1. /\ \A items : Go(items) => Rates
        /\ \A items : Skip(items) => Rates
        /\ \A code : Fail(code) => Rates
    BY PlainRates
  <1>2. CASE Peek \in DOMAIN Literals /\ Push(Node(Literals[Peek], <<Peek>>, {current}, <<>>))
    <2>1. PICK kind, w, k : kind = Literals[Peek] /\ w = <<Peek>> /\ k = {current}  OBVIOUS
    <2>2. kind \notin Signs  BY <1>2, <2>1 DEF Literals, Signs
    <2>3. Rated(Node(kind, w, k, <<>>))  BY <2>2, LeafRated
    <2>4. PICK v : v = Node(kind, w, k, <<>>)  OBVIOUS
    <2>. QED  BY <1>2, <2>1, <2>3, <2>4, PlainRates
  <1>3. CASE Push(Node("identifier", <<Peek>>, {current}, <<>>))
    <2>1. PICK w, k : w = <<Peek>> /\ k = {current}  OBVIOUS
    <2>2. "identifier" \notin Signs  BY DEF Signs
    <2>3. Rated(Node("identifier", w, k, <<>>))  BY <2>2, LeafRated
    <2>4. PICK v : v = Node("identifier", w, k, <<>>)  OBVIOUS
    <2>. QED  BY <1>3, <2>1, <2>3, <2>4, PlainRates
  <1>. QED  BY <1>1, <1>2, <1>3, Zenon DEF ParsePrimary

LEMMA ParseQuotedRates ==
  ASSUME ParseInv, AllRated, ParseQuoted
  PROVE  Rates
  <1>1. Doing("quoted")  BY DEF ParseQuoted
  <1>2. CASE Take(<<Again>>)  BY <1>2, PlainRates
  <1>3. ASSUME NEW kind \in {"char", "string"}, Reduced(Make(kind, Pieces)) PROVE Rates
    <2>1. IsSequence(Pieces) /\ \A i \in 1 .. Len(Pieces) : Rated(Pieces[i])  BY <1>1, PiecesRated
    <2>2. PICK p : p = Pieces  OBVIOUS
    <2>3. IsSequence(p) /\ \A i \in 1 .. Len(p) : ~ IsWord(p[i]) => Rated(p[i])  BY <2>1, <2>2
    <2>4. kind \notin Signs  BY DEF Signs
    <2>5. Rated(Make(kind, p))  BY <2>3, <2>4, MakeRated
    <2>6. PICK v : v = Make(kind, p)  OBVIOUS
    <2>. QED  BY <1>1, <1>3, <2>2, <2>5, <2>6, ReducedRates
  <1>. QED  BY <1>2, <1>3 DEF ParseQuoted

LEMMA NextRates ==
  ASSUME ParseInv, TextInv, Listing, ReadInv, Fairly, AllRated, Parse
  PROVE  Rates
  <1>1. /\ \A items : Go(items) => Rates
        /\ \A items : Skip(items) => Rates
        /\ \A items : Take(items) => Rates
        /\ \A code : Fail(code) => Rates
        /\ Push(Null) => Rates
        /\ \A w, k : Push(Word(w, k)) => Rates
    BY PlainRates, WordRated
  <1>2. Accept => Rates  BY DEF Accept, Rates
  <1>3. CASE ParseFunction
    BY <1>1, <1>3, Zenon
       DEF ParseFunction, ParseProgram, ParseBlock, ParseType, Initializer, ReturnType, List, More
  <1>4. CASE ParseStatements
    <2>1. BuildRange => Rates  BY BuildRangeRates
    <2>. QED
      BY <1>1, <1>4, <2>1, Zenon
         DEF ParseStatements, ParseStatement, Directive, ElseBranch, ParseForStatement
  <1>5. CASE ParseExpressions
    <2>1. (AssignTo => Rates) /\ (ParseCall => Rates) /\ (BuildAccess => Rates)
          /\ (ParsePrimary => Rates) /\ (ParseQuoted => Rates)
      BY AssignToRates, ParseCallRates, BuildAccessRates, ParsePrimaryRates, ParseQuotedRates
    <2>. QED
      BY <1>1, <1>5, <2>1, Zenon
         DEF ParseExpressions, ParseExpression, ParseAssignment, ParseTernary, ParseOperator,
             ParseUnary, MethodArgs
  <1>6. CASE Consume \/ ConsumeName \/ ConsumeEndOfStatement \/ BuildNode \/ Accept
    <2>1. BuildNode => Rates  BY BuildNodeRates
    <2>. QED  BY <1>1, <1>2, <1>6, <2>1, Zenon DEF Consume, ConsumeName, ConsumeEndOfStatement
  <1>. QED  BY <1>3, <1>4, <1>5, <1>6, Zenon DEF Parse

\* The inductive invariant.
GroupInv == ParseInv /\ TextInv /\ Listing /\ ReadInv /\ AllRated

LEMMA NextKeepsRates ==
  ASSUME GroupInv, [Parse]_parserVars
  PROVE  GroupInv'
  <1>1. ParseInv' /\ TextInv'  BY NextKeepsInv, NextKeepsText DEF GroupInv
  <1>2. Fairly  BY RatedIsFair DEF GroupInv, AllRated, Fairly
  <1>3. ReadInv'  BY <1>2, NextKeepsReads DEF GroupInv
  <1>4. Listing'  BY ListingKept DEF GroupInv
  <1>5. AllRated'
    <2>1. CASE Parse
      <3>1. (Stay \/ Advance) /\ UNCHANGED input  BY <2>1, StepsMove
      <3>2. \A n : Rated(n) => Rated(n)'  BY <1>1, <3>1, RatedKept DEF GroupInv, TextInv
      <3>3. Rates  BY <1>2, <2>1, NextRates DEF GroupInv
      <3>. QED  BY <3>2, <3>3, AllRatedNext DEF GroupInv
    <2>2. CASE UNCHANGED parserVars
      <3>1. Stay /\ UNCHANGED <<input, done>>  BY <2>2 DEF parserVars, Stay
      <3>2. \A n : Rated(n) => Rated(n)'  BY <1>1, <3>1, RatedKept DEF GroupInv, TextInv
      <3>3. Rates  BY <3>1 DEF Rates
      <3>. QED  BY <3>2, <3>3, AllRatedNext DEF GroupInv
    <2>. QED  BY <2>1, <2>2
  <1>. QED  BY <1>1, <1>3, <1>4, <1>5 DEF GroupInv

LEMMA RatesTell ==
  ASSUME GroupInv
  PROVE  GroupedByPrecedence
  <1>. SUFFICES ASSUME status = "parsed" PROVE \A n \in Subtrees(tree) : Grouped(n)
    BY DEF GroupedByPrecedence
  <1>1. Len(done) = 1  BY NowIs DEF GroupInv, ParseInv, Whole
  <1>2. Walks(tree) /\ Rated(tree)  BY <1>1 DEF GroupInv, ParseInv, AllRated, tree
  <1>3. tree.height \in Nat  BY <1>2, WalksDown DEF Shaped
  <1>. HIDE DEF tree
  <1>4. PICK S : tree \in S /\ Closed(S) /\ \A m \in S : Told(m)  BY <1>2 DEF Rated
  <1>5. Subtrees(tree) \subseteq S
    <2>1. PICK r : r = tree  OBVIOUS
    <2>2. \A m \in S : \A i \in DOMAIN m.kids : m.kids[i] \in S  BY <1>4 DEF Closed
    <2>3. Subtrees(r) \subseteq S  BY <1>3, <1>4, <2>1, <2>2, SubtreesInside
    <2>. QED  BY <2>1, <2>3
  <1>. QED  BY <1>4, <1>5 DEF Told

\* On every token list, whatever its length, its names and its types, the tree
\* of a program that is parsed groups operators as C does: in the text an
\* operation spans, no operator beside it binds less tightly, and one to its
\* right that binds as tightly is outside of it; a sign spans no operator.
THEOREM ParserGroupsByPrecedence == ParserSpec => []GroupedByPrecedence
  <1>1. Init => GroupInv
    <2>1. ASSUME Init PROVE AllRated
      <3>1. Len(done) = 0  BY <2>1, Tuples DEF Init
      <3>. QED  BY <3>1 DEF AllRated
    <2>. QED  BY <2>1, InitGivesInv, InitGivesText, InitLists, InitReads DEF GroupInv
  <1>2. GroupInv /\ [Parse]_parserVars => GroupInv'  BY NextKeepsRates
  <1>3. GroupInv => GroupedByPrecedence  BY RatesTell
  <1>. QED  BY <1>1, <1>2, <1>3, PTL DEF ParserSpec
=============================================================================
