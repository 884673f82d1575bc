----------------------------- MODULE ScopeTable -----------------------------
(***************************************************************************)
(* The scope stack of src/src/sema.c: an array of hash maps, one per open  *)
(* scope, grown by doubling.  frames and capacity are the analyser's       *)
(* fields; a map is a function from the names it holds to their types (the *)
(* hash map itself is module HashMap).  path, fresh and decls are history  *)
(* variables: they record the program text the calls come from, never      *)
(* guard a step, and are what LexicalScope is stated on.                   *)
(***************************************************************************)
EXTENDS Integers, Sequences

CONSTANTS Names, Types, NoType,
          InitialCapacity,   \* 8 in sem_push_scope
          MaxScopes          \* bound: scopes opened in one run

ASSUME NoTypeAssumption == NoType \notin Types
ASSUME AnswersAssumption == {"ok", "redeclared"} \cap (Types \cup {NoType}) = {}
ASSUME CapacityAssumption == InitialCapacity \in Nat \ {0}

VARIABLES frames, capacity, path, fresh, decls, answer

scopeVars == <<frames, capacity, path, fresh, decls, answer>>

Lexical == INSTANCE LexicalScope

Frames == UNION {[D -> Types] : D \in SUBSET Names}
Empty == [n \in {} |-> NoType]          \* hashmap_create
Top == frames[Len(frames)]
Holds(f, n) == n \in DOMAIN f
Insert(f, n, t) == [m \in DOMAIN f \cup {n} |-> IF m = n THEN t ELSE f[m]]

-----------------------------------------------------------------------------
ScopeInit == /\ frames = <<>> /\ capacity = 0
             /\ path = <<>> /\ fresh = 0 /\ decls = {} /\ answer = "ok"

\* Mutant: grows one push too late.
GrownLate == IF Len(frames) =< capacity /\ capacity > 0 THEN capacity
             ELSE IF capacity = 0 THEN InitialCapacity ELSE capacity * 2

\* sem_push_scope: make room when every slot is used, then store a new map.
Grown == IF Len(frames) < capacity THEN capacity
         ELSE IF capacity = 0 THEN InitialCapacity ELSE capacity * 2

PushScope == /\ fresh < MaxScopes
             /\ capacity' = Grown
             /\ frames' = Append(frames, Empty)
             /\ path' = Append(path, fresh)
             /\ fresh' = fresh + 1
             /\ answer' = "ok"
             /\ UNCHANGED decls

\* Mutant: the innermost map stays on the stack.
PopScopeKeepsMap == /\ frames # <<>>
                    /\ path' = SubSeq(path, 1, Len(path) - 1)
                    /\ answer' = "ok"
                    /\ UNCHANGED <<frames, capacity, fresh, decls>>

\* sem_pop_scope: an empty stack is left alone, the innermost map is freed.
PopScope == /\ frames # <<>>
            /\ frames' = SubSeq(frames, 1, Len(frames) - 1)
            /\ path' = SubSeq(path, 1, Len(path) - 1)
            /\ answer' = "ok"
            /\ UNCHANGED <<capacity, fresh, decls>>

\* sem_declare when hashmap_insert takes the key ...
Declare(n, t) ==
  /\ frames # <<>>
  /\ ~ Holds(Top, n)
  /\ frames' = [frames EXCEPT ![Len(frames)] = Insert(Top, n, t)]
  /\ decls' = decls \cup {Lexical!Decl(path[Len(path)], n, t)}
  /\ answer' = "ok"
  /\ UNCHANGED <<capacity, path, fresh>>

\* ... and when it refuses a key the innermost map already holds.
Redeclare(n) ==
  /\ frames # <<>>
  /\ Holds(Top, n)
  /\ answer' = "redeclared"
  /\ UNCHANGED <<frames, capacity, path, fresh, decls>>

Hits(n) == {i \in DOMAIN frames : Holds(frames[i], n)}

\* Mutant: the maps are tried from the outermost inwards.
ResolvedOutermost(n) == IF Hits(n) = {} THEN NoType
                        ELSE frames[CHOOSE i \in Hits(n) : \A j \in Hits(n) : i =< j][n]

\* sem_resolve: the maps are tried from the innermost outwards.
Resolved(n) == IF Hits(n) = {} THEN NoType
               ELSE frames[Lexical!Innermost(Hits(n))][n]

Resolve(n) == /\ answer' = Resolved(n)
              /\ UNCHANGED <<frames, capacity, path, fresh, decls>>

\* Everything one call to the table may do; a redeclaration ends the process.
ScopeNext ==
  /\ answer # "redeclared"
  /\ \/ PushScope
     \/ PopScope
     \/ \E n \in Names : \/ \E t \in Types : Declare(n, t)
                         \/ Redeclare(n)
                         \/ Resolve(n)

ScopeSpec == ScopeInit /\ [][ScopeNext]_scopeVars

-----------------------------------------------------------------------------
\* The values the table's state ranges over.
ScopeTypeOK ==
  /\ frames \in Seq(Frames)
  /\ capacity \in Nat /\ fresh \in Nat
  /\ path \in Seq(Nat)
  /\ decls \subseteq [scope : Nat, name : Names, type : Types]

\* The write frames[frame_count++] of sem_push_scope stays inside the array
\* that realloc returned: the stack never holds more maps than slots, through
\* any sequence of pushes, pops and doublings.
FramesFit == Len(frames) =< capacity

\* Open scopes are distinct and older than the next one.
PathDistinct ==
  /\ \A i \in DOMAIN path : path[i] < fresh
  /\ \A i, j \in DOMAIN path : i # j => path[i] # path[j]
  /\ \A d \in decls : d.scope < fresh

\* A scope declares a name at most once.
DeclaredOnce ==
  \A d, e \in decls : d.scope = e.scope /\ d.name = e.name => d = e

\* The maps on the stack are exactly the declarations of the enclosing
\* scopes: no binding of a closed scope survives, none of an open scope is
\* lost or shifted to a neighbour, however scopes were opened and closed
\* before (sem_push_scope, sem_pop_scope, sem_declare).
FramesMatchText ==
  /\ Len(frames) = Len(path)
  /\ \A i \in DOMAIN frames :
       /\ \A n \in DOMAIN frames[i] :
            Lexical!Decl(path[i], n, frames[i][n]) \in decls
       /\ \A d \in decls : d.scope = path[i] => d.name \in DOMAIN frames[i]

\* The inductive invariant of the table.
ScopeInv == /\ ScopeTypeOK
            /\ FramesFit
            /\ PathDistinct
            /\ DeclaredOnce
            /\ FramesMatchText

\* Whatever the calls, the table answers as lexical scoping says: a lookup
\* finds the innermost enclosing declaration, a declaration is refused
\* exactly when its own scope already has the name (sem_resolve, sem_declare).
ImplementsLexicalScope == Lexical!Spec
=============================================================================
