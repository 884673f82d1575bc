---------------------------- MODULE LexicalScope ----------------------------
(***************************************************************************)
(* What the symbol table of the semantic analyser promises: lexical        *)
(* scoping, stated on the program text alone.  A declaration is a fact     *)
(* that is never retracted; what a name means at a point is decided by the *)
(* scopes that enclose that point, the innermost one that declares the     *)
(* name winning.  Nothing here says how the table is stored.               *)
(***************************************************************************)
EXTENDS Integers, Sequences, FiniteSetsExt

CONSTANTS Names,   \* identifiers of the program
          Types,   \* the C types a declaration may carry
          NoType   \* "not declared"

VARIABLES path,    \* the scopes that enclose the current point, outermost first
          fresh,   \* the identity the next scope gets
          decls,   \* every declaration read so far: [scope, name, type]
          answer   \* what the last operation told its caller

lexVars == <<path, fresh, decls, answer>>

Decl(s, n, t) == [scope |-> s, name |-> n, type |-> t]
Declares(s, n) == \E t \in Types : Decl(s, n, t) \in decls
DeclaredType(s, n) == CHOOSE t \in Types : Decl(s, n, t) \in decls

Innermost(S) == Max(S)
Visible(n) == {i \in DOMAIN path : Declares(path[i], n)}

\* The type of the declaration that n refers to here, NoType if there is none.
Meaning(n) ==
  IF Visible(n) = {} THEN NoType
  ELSE DeclaredType(path[Innermost(Visible(n))], n)

Here == path[Len(path)]

-----------------------------------------------------------------------------
Init == path = <<>> /\ fresh = 0 /\ decls = {} /\ answer = "ok"

Enter == /\ path' = Append(path, fresh)
         /\ fresh' = fresh + 1
         /\ answer' = "ok"
         /\ UNCHANGED decls

Leave == /\ path # <<>>
         /\ path' = SubSeq(path, 1, Len(path) - 1)
         /\ answer' = "ok"
         /\ UNCHANGED <<fresh, decls>>

Declare(n, t) == /\ path # <<>>
                 /\ ~ Declares(Here, n)
                 /\ decls' = decls \cup {Decl(Here, n, t)}
                 /\ answer' = "ok"
                 /\ UNCHANGED <<path, fresh>>

Redeclare(n) == /\ path # <<>>
                /\ Declares(Here, n)
                /\ answer' = "redeclared"
                /\ UNCHANGED <<path, fresh, decls>>

Lookup(n) == /\ answer' = Meaning(n)
             /\ UNCHANGED <<path, fresh, decls>>

Next == \/ Enter
        \/ Leave
        \/ \E n \in Names : \/ \E t \in Types : Declare(n, t)
                            \/ Redeclare(n)
                            \/ Lookup(n)

Spec == Init /\ [][Next]_lexVars
=============================================================================
