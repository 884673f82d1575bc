----------------------------- MODULE Sema_proofs -----------------------------
(***************************************************************************)
(* The scope stack and the walk of the semantic analyser that drives it.   *)
(*                                                                         *)
(* The first part is about ScopeTable alone.  The scope stack is correct   *)
(* for every set of names and types, every initial capacity and every      *)
(* number of scopes: its invariant holds, and it implements lexical        *)
(* scoping.                                                                *)
(*                                                                         *)
(* The second part is about the walk.  The verdict is right for every      *)
(* program, of any size, over any names: what it accepts has none of its   *)
(* errors, what it rejects has the error it reports.  The proof rests on   *)
(* the scope stack being driven as ScopeTable says, so that the invariant  *)
(* and the refinement of the first part carry over.  The last part is the  *)
(* balance of scopes: a count over the work that remains, kept by every    *)
(* step.                                                                   *)
(***************************************************************************)
EXTENDS Sema, SequenceTheorems, FiniteSetTheorems,
        WellFoundedInduction, TLAPS

-----------------------------------------------------------------------------
\* The scope stack.

\* An empty map is a map and holds nothing (hashmap_create).
LEMMA EmptyFrame == Empty \in Frames /\ \A n : ~ Holds(Empty, n)
  <1>1. Empty \in [{} -> Types]  BY DEF Empty
  <1>2. {} \in SUBSET Names  OBVIOUS
  <1>. QED  BY <1>1, <1>2 DEF Frames, Holds, Empty

\* What a map is.
LEMMA FrameDomain == ASSUME NEW f \in Frames
                     PROVE  /\ DOMAIN f \subseteq Names
                            /\ \A n \in DOMAIN f : f[n] \in Types
  BY DEF Frames

\* hashmap_insert adds one binding and disturbs no other.
LEMMA InsertFrame ==
  ASSUME NEW f \in Frames, NEW n \in Names, NEW t \in Types
  PROVE  /\ Insert(f, n, t) \in Frames
         /\ DOMAIN Insert(f, n, t) = DOMAIN f \cup {n}
         /\ Insert(f, n, t)[n] = t
         /\ \A m \in DOMAIN f : m # n => Insert(f, n, t)[m] = f[m]
  <1>1. DOMAIN f \cup {n} \in SUBSET Names  BY FrameDomain
  <1>2. Insert(f, n, t) \in [DOMAIN f \cup {n} -> Types]
    BY FrameDomain DEF Insert
  <1>. QED  BY <1>1, <1>2 DEF Insert, Frames

\* Doubling makes room: the slot the next push writes exists.
LEMMA GrownFits ==
  ASSUME ScopeTypeOK, FramesFit
  PROVE  Grown \in Nat /\ Len(frames) + 1 =< Grown
  <1>1. Len(frames) \in Nat /\ capacity \in Nat /\ Len(frames) =< capacity
    BY DEF ScopeTypeOK, FramesFit
  <1>2. InitialCapacity \in Nat /\ InitialCapacity >= 1
    BY CapacityAssumption
  <1>. QED  BY <1>1, <1>2 DEF Grown

-----------------------------------------------------------------------------
LEMMA InitInv == ScopeInit => ScopeInv
  BY DEF ScopeInit, ScopeInv, ScopeTypeOK, FramesFit, PathDistinct,
         DeclaredOnce, FramesMatchText

LEMMA PushInv == ScopeInv /\ PushScope => ScopeInv'
  <1>. SUFFICES ASSUME ScopeInv, PushScope PROVE ScopeInv'  OBVIOUS
  <1>. USE DEF ScopeInv
  <1>1. frames \in Seq(Frames) /\ path \in Seq(Nat) /\ fresh \in Nat
    BY DEF ScopeTypeOK
  <1>2. /\ Len(frames') = Len(frames) + 1
        /\ DOMAIN frames' = 1 .. Len(frames) + 1
        /\ frames'[Len(frames) + 1] = Empty
        /\ \A i \in 1 .. Len(frames) : frames'[i] = frames[i]
    BY <1>1, EmptyFrame DEF PushScope
  <1>3. /\ Len(path') = Len(path) + 1
        /\ DOMAIN path' = 1 .. Len(path) + 1
        /\ path'[Len(path) + 1] = fresh
        /\ \A i \in 1 .. Len(path) : path'[i] = path[i]
    BY <1>1 DEF PushScope
  <1>4. ScopeTypeOK'
    BY <1>1, EmptyFrame, GrownFits DEF ScopeTypeOK, PushScope
  <1>5. FramesFit'
    BY <1>2, GrownFits DEF FramesFit, PushScope
  <1>6. PathDistinct'
    <2>1. \A d \in decls : d.scope \in Nat  BY DEF ScopeTypeOK
    <2>2. \A i \in 1 .. Len(path) : path[i] \in Nat  BY <1>1
    <2>. QED  BY <1>1, <1>3, <2>1, <2>2 DEF PathDistinct, PushScope
  <1>7. DeclaredOnce'
    BY DEF DeclaredOnce, PushScope
  <1>8. FramesMatchText'
    <2>1. Len(frames) = Len(path) /\ DOMAIN frames = 1 .. Len(path) /\ Len(path) \in Nat
      BY <1>1 DEF FramesMatchText
    <2>2. \A d \in decls : d.scope # fresh
      BY <1>1 DEF PathDistinct, ScopeTypeOK
    <2>3. decls' = decls  BY DEF PushScope
    <2>4. DOMAIN Empty = {}  BY DEF Empty
    <2>5. ASSUME NEW i \in DOMAIN frames'
          PROVE  /\ \A n \in DOMAIN frames'[i] :
                      Lexical!Decl(path'[i], n, frames'[i][n]) \in decls'
                 /\ \A d \in decls' : d.scope = path'[i] => d.name \in DOMAIN frames'[i]
      <3>1. CASE i = Len(frames) + 1
        BY <3>1, <1>2, <1>3, <2>1, <2>2, <2>3, <2>4
      <3>2. CASE i \in 1 .. Len(frames)
        BY <3>2, <1>2, <1>3, <2>1, <2>3 DEF FramesMatchText
      <3>. QED  BY <3>1, <3>2, <1>2, <2>1
    <2>6. Len(frames') = Len(path')  BY <1>2, <1>3, <2>1
    <2>. QED  BY <2>5, <2>6 DEF FramesMatchText
  <1>. QED  BY <1>4, <1>5, <1>6, <1>7, <1>8

LEMMA PopInv == ScopeInv /\ PopScope => ScopeInv'
  <1>. SUFFICES ASSUME ScopeInv, PopScope PROVE ScopeInv'  OBVIOUS
  <1>. USE DEF ScopeInv
  <1>1. /\ frames \in Seq(Frames) /\ path \in Seq(Nat)
        /\ Len(frames) = Len(path) /\ Len(frames) \in Nat /\ Len(frames) > 0
    BY DEF ScopeTypeOK, FramesMatchText, PopScope
  <1>2. /\ frames' \in Seq(Frames) /\ Len(frames') = Len(frames) - 1
        /\ DOMAIN frames' = 1 .. Len(frames) - 1
        /\ \A i \in 1 .. Len(frames) - 1 : frames'[i] = frames[i]
    BY <1>1 DEF PopScope
  <1>3. /\ path' \in Seq(Nat) /\ Len(path') = Len(path) - 1
        /\ DOMAIN path' = 1 .. Len(path) - 1
        /\ \A i \in 1 .. Len(path) - 1 : path'[i] = path[i]
    BY <1>1 DEF PopScope
  <1>4. ScopeTypeOK'  BY <1>2, <1>3 DEF ScopeTypeOK, PopScope
  <1>5. FramesFit'  BY <1>1, <1>2 DEF FramesFit, PopScope, ScopeTypeOK
  <1>6. PathDistinct'  BY <1>1, <1>3 DEF PathDistinct, PopScope
  <1>7. DeclaredOnce'  BY DEF DeclaredOnce, PopScope
  <1>8. FramesMatchText'
    BY <1>1, <1>2, <1>3 DEF FramesMatchText, PopScope
  <1>. QED  BY <1>4, <1>5, <1>6, <1>7, <1>8

LEMMA DeclareInv ==
  ASSUME NEW n \in Names, NEW t \in Types
  PROVE  ScopeInv /\ Declare(n, t) => ScopeInv'
  <1>. SUFFICES ASSUME ScopeInv, Declare(n, t) PROVE ScopeInv'  OBVIOUS
  <1>. USE DEF ScopeInv
  <1>. DEFINE k == Len(frames)
              d0 == Lexical!Decl(path[k], n, t)
  <1>1. /\ frames \in Seq(Frames) /\ path \in Seq(Nat)
        /\ k = Len(path) /\ k \in Nat /\ k > 0 /\ DOMAIN frames = 1 .. k
        /\ DOMAIN path = 1 .. k /\ k \in 1 .. k
        /\ path[k] \in Nat /\ frames[k] \in Frames
    BY DEF ScopeTypeOK, FramesMatchText, Declare
  <1>2. /\ frames' \in Seq(Frames) /\ Len(frames') = k /\ DOMAIN frames' = 1 .. k
        /\ frames'[k] = Insert(frames[k], n, t)
        /\ \A i \in 1 .. k : i # k => frames'[i] = frames[i]
    <2>1. Insert(frames[k], n, t) \in Frames  BY <1>1, InsertFrame
    <2>2. frames' = [frames EXCEPT ![k] = Insert(frames[k], n, t)]
      BY DEF Declare, Top
    <2>. HIDE DEF k
    <2>. QED  BY <1>1, <2>1, <2>2, ExceptSeq
  <1>3. path' = path /\ fresh' = fresh /\ capacity' = capacity
    BY DEF Declare
  <1>4. decls' = decls \cup {d0}  BY <1>1 DEF Declare
  <1>5. d0 = [scope |-> path[k], name |-> n, type |-> t]
    BY DEF Lexical!Decl
  <1>6. \A d \in decls : ~ (d.scope = path[k] /\ d.name = n)
    BY <1>1 DEF FramesMatchText, Declare, Top, Holds
  <1>7. ScopeTypeOK'
    <2>1. d0 \in [scope : Nat, name : Names, type : Types]  BY <1>1, <1>5
    <2>. HIDE DEF d0, k
    <2>. QED  BY <1>2, <1>3, <1>4, <2>1 DEF ScopeTypeOK
  <1>8. FramesFit'  BY <1>2, <1>3 DEF FramesFit
  <1>9. PathDistinct'
    BY <1>1, <1>3, <1>4, <1>5 DEF PathDistinct
  <1>10. DeclaredOnce'
    BY <1>4, <1>5, <1>6 DEF DeclaredOnce
  <1>11. FramesMatchText'
    <2>1. ASSUME NEW i \in 1 .. k
          PROVE  /\ \A m \in DOMAIN frames'[i] :
                      Lexical!Decl(path[i], m, frames'[i][m]) \in decls'
                 /\ \A d \in decls' : d.scope = path[i] => d.name \in DOMAIN frames'[i]
      <3>. USE DEF Lexical!Decl
      <3>1. CASE i = k
        <4>1. /\ DOMAIN frames'[i] = DOMAIN frames[k] \cup {n}
              /\ frames'[i][n] = t
              /\ \A m \in DOMAIN frames[k] : m # n => frames'[i][m] = frames[k][m]
          <5>1. /\ DOMAIN Insert(frames[k], n, t) = DOMAIN frames[k] \cup {n}
                /\ Insert(frames[k], n, t)[n] = t
                /\ \A m \in DOMAIN frames[k] :
                     m # n => Insert(frames[k], n, t)[m] = frames[k][m]
            BY <1>1, InsertFrame
          <5>2. frames'[i] = Insert(frames[k], n, t)  BY <3>1, <1>2
          <5>. QED  BY <5>1, <5>2
        <4>2. /\ \A m \in DOMAIN frames[k] :
                   Lexical!Decl(path[k], m, frames[k][m]) \in decls
              /\ \A d \in decls : d.scope = path[k] => d.name \in DOMAIN frames[k]
          BY <1>1 DEF FramesMatchText
        <4>. HIDE DEF k
        <4>. QED  BY <3>1, <4>1, <4>2, <1>4
      <3>2. CASE i # k
        <4>1. path[i] # path[k]  BY <3>2, <1>1 DEF PathDistinct
        <4>2. frames'[i] = frames[i] /\ i \in DOMAIN frames  BY <3>2, <1>1, <1>2
        <4>3. /\ \A m \in DOMAIN frames[i] :
                   Lexical!Decl(path[i], m, frames[i][m]) \in decls
              /\ \A d \in decls : d.scope = path[i] => d.name \in DOMAIN frames[i]
          BY <4>2 DEF FramesMatchText
        <4>. HIDE DEF k
        <4>. QED  BY <4>1, <4>2, <4>3, <1>4
      <3>. QED  BY <3>1, <3>2
    <2>. QED  BY <2>1, <1>1, <1>2, <1>3 DEF FramesMatchText
  <1>. QED  BY <1>7, <1>8, <1>9, <1>10, <1>11

LEMMA UnchangedInv ==
  ScopeInv /\ UNCHANGED <<frames, capacity, path, fresh, decls>> => ScopeInv'
  BY DEF ScopeInv, ScopeTypeOK, FramesFit, PathDistinct, DeclaredOnce, FramesMatchText

LEMMA StepInv == ScopeInv /\ [ScopeNext]_scopeVars => ScopeInv'
  <1>. SUFFICES ASSUME ScopeInv, [ScopeNext]_scopeVars PROVE ScopeInv'  OBVIOUS
  <1>1. CASE PushScope  BY <1>1, PushInv
  <1>2. CASE PopScope  BY <1>2, PopInv
  <1>3. CASE \E n \in Names : \E t \in Types : Declare(n, t)
    BY <1>3, DeclareInv
  <1>4. CASE \E n \in Names : Redeclare(n)  BY <1>4, UnchangedInv DEF Redeclare
  <1>5. CASE \E n \in Names : Resolve(n)  BY <1>5, UnchangedInv DEF Resolve
  <1>6. CASE UNCHANGED scopeVars  BY <1>6, UnchangedInv DEF scopeVars
  <1>. QED  BY <1>1, <1>2, <1>3, <1>4, <1>5, <1>6 DEF ScopeNext

\* Every reachable state of the scope stack satisfies the table's invariant:
\* the maps on the stack are the declarations of the enclosing scopes and the
\* stack never outgrows its array.
THEOREM ScopeInvariant == ScopeSpec => []ScopeInv
  BY InitInv, StepInv, PTL DEF ScopeSpec

\* sem_push_scope never writes outside the array it reallocated.
THEOREM FramesAlwaysFit == ScopeSpec => []FramesFit
  <1>1. ScopeInv => FramesFit  BY DEF ScopeInv
  <1>. QED  BY <1>1, ScopeInvariant, PTL

\* The stack holds the bindings of the enclosing scopes and nothing else.
THEOREM FramesAlwaysMatchText == ScopeSpec => []FramesMatchText
  <1>1. ScopeInv => FramesMatchText  BY DEF ScopeInv
  <1>. QED  BY <1>1, ScopeInvariant, PTL

-----------------------------------------------------------------------------
\* The search of sem_resolve stops: among finitely many scopes one is innermost.
LEMMA InnermostExists ==
  ASSUME ScopeInv, NEW n \in Names, Hits(n) # {}
  PROVE  Lexical!Innermost(Hits(n)) \in Hits(n)
  <1>. DEFINE k == Len(frames)
              R == OpToRel(<, Nat)
              T == {j \in 1 .. k : k - j + 1 \in Hits(n)}
  <1>1. k \in Nat /\ DOMAIN frames = 1 .. k  BY DEF ScopeInv, ScopeTypeOK
  <1>2. Hits(n) \subseteq 1 .. k  BY <1>1 DEF Hits
  <1>3. T \subseteq Nat /\ T # {}
    <2>1. PICK i \in Hits(n) : TRUE  OBVIOUS
    <2>. HIDE DEF k
    <2>2. k - i + 1 \in 1 .. k /\ k - (k - i + 1) + 1 = i  BY <1>1, <1>2, <2>1
    <2>. QED  BY <2>1, <2>2
  <1>4. PICK j \in T : \A m \in T : ~ (<<m, j>> \in R)
    BY <1>3, NatLessThanWellFounded, WFMin
  <1>5. \A m \in T : j =< m
    <2>1. R = {ss \in Nat \X Nat : ss[1] < ss[2]}  BY Zenon DEF OpToRel
    <2>2. \A a, b \in Nat : a < b => <<a, b>> \in R
      <3>. HIDE DEF R
      <3>. QED  BY <2>1
    <2>. HIDE DEF R, T
    <2>3. ASSUME NEW m \in T PROVE j =< m
      <3>1. m \in Nat /\ j \in Nat  BY <1>3
      <3>2. ~ (<<m, j>> \in R)  BY <1>4
      <3>3. ~ (m < j)  BY ONLY <3>1, <3>2, <2>2
      <3>. QED  BY <3>1, <3>3
    <2>. QED  BY <2>3
  <1>6. /\ k - j + 1 \in Hits(n)
        /\ \A i \in Hits(n) : i =< k - j + 1
    <2>. HIDE DEF k
    <2>1. ASSUME NEW i \in Hits(n) PROVE i =< k - j + 1
      <3>1. k - i + 1 \in 1 .. k /\ k - (k - i + 1) + 1 = i  BY <1>1, <1>2
      <3>2. k - i + 1 \in T  BY <3>1
      <3>3. j =< k - i + 1 /\ j \in 1 .. k  BY <1>5, <3>2
      <3>. QED  BY <3>3, <1>1, <1>2
    <2>. QED  BY <2>1
  <1>. QED  BY <1>6 DEF Lexical!Innermost, Lexical!Max

\* A map of the stack holds a name exactly when its scope declares it, with
\* the type it declares it with.
LEMMA FrameIsScope ==
  ASSUME ScopeInv, NEW i \in DOMAIN frames, NEW n \in Names
  PROVE  /\ Holds(frames[i], n) <=> Lexical!Declares(path[i], n)
         /\ Holds(frames[i], n) => frames[i][n] = Lexical!DeclaredType(path[i], n)
  <1>. USE DEF ScopeInv
  <1>1. frames[i] \in Frames  BY DEF ScopeTypeOK
  <1>2. ASSUME Holds(frames[i], n)
        PROVE  frames[i][n] \in Types /\ Lexical!Decl(path[i], n, frames[i][n]) \in decls
    BY <1>1, <1>2, FrameDomain DEF Holds, FramesMatchText
  <1>3. ASSUME Lexical!Declares(path[i], n) PROVE Holds(frames[i], n)
    BY <1>3 DEF Holds, FramesMatchText, Lexical!Declares, Lexical!Decl
  <1>4. ASSUME Holds(frames[i], n)
        PROVE  frames[i][n] = Lexical!DeclaredType(path[i], n)
    <2>1. \A t \in Types : Lexical!Decl(path[i], n, t) \in decls => t = frames[i][n]
      BY <1>2, <1>4 DEF DeclaredOnce, Lexical!Decl
    <2>. QED  BY <1>2, <1>4, <2>1 DEF Lexical!DeclaredType
  <1>. QED  BY <1>2, <1>3, <1>4 DEF Lexical!Declares

\* The search of sem_resolve visits the scopes lexical scoping calls visible.
LEMMA HitsAreVisible ==
  ASSUME ScopeInv, NEW n \in Names
  PROVE  Hits(n) = Lexical!Visible(n)
  <1>1. DOMAIN frames = DOMAIN path
    BY DEF ScopeInv, ScopeTypeOK, FramesMatchText
  <1>. QED  BY <1>1, FrameIsScope DEF Hits, Lexical!Visible

\* A call that the table refuses is one lexical scoping refuses, and a name
\* resolves to what the text means by it.
LEMMA ResolvedIsMeaning ==
  ASSUME ScopeInv, NEW n \in Names
  PROVE  Resolved(n) = Lexical!Meaning(n)
  <1>1. Hits(n) = Lexical!Visible(n)  BY HitsAreVisible
  <1>2. CASE Hits(n) = {}  BY <1>1, <1>2 DEF Resolved, Lexical!Meaning
  <1>3. CASE Hits(n) # {}
    <2>. DEFINE i == Lexical!Innermost(Hits(n))
    <2>1. i \in Hits(n)  BY <1>3, InnermostExists
    <2>2. i \in DOMAIN frames /\ Holds(frames[i], n)  BY <2>1 DEF Hits
    <2>3. frames[i][n] = Lexical!DeclaredType(path[i], n)
      BY <2>2, FrameIsScope
    <2>. QED  BY <1>1, <1>3, <2>3 DEF Resolved, Lexical!Meaning
  <1>. QED  BY <1>2, <1>3

LEMMA StepRefines == ScopeInv /\ [ScopeNext]_scopeVars => [Lexical!Next]_(Lexical!lexVars)
  <1>. SUFFICES ASSUME ScopeInv, [ScopeNext]_scopeVars
                PROVE  [Lexical!Next]_(Lexical!lexVars)
    OBVIOUS
  <1>0. /\ frames \in Seq(Frames) /\ path \in Seq(Nat) /\ Len(frames) = Len(path)
        /\ DOMAIN frames = 1 .. Len(frames)
    BY DEF ScopeInv, ScopeTypeOK, FramesMatchText
  <1>1. CASE PushScope
    BY <1>1 DEF PushScope, Lexical!Enter, Lexical!Next
  <1>2. CASE PopScope
    BY <1>0, <1>2 DEF PopScope, Lexical!Leave, Lexical!Next
  <1>3. ASSUME frames # <<>>, NEW n \in Names
        PROVE  path # <<>> /\ (Holds(Top, n) <=> Lexical!Declares(Lexical!Here, n))
    <2>1. Len(frames) \in DOMAIN frames  BY <1>0, <1>3
    <2>. QED  BY <1>0, <1>3, <2>1, FrameIsScope DEF Top, Lexical!Here
  <1>4. ASSUME NEW n \in Names, NEW t \in Types, Declare(n, t)
        PROVE  Lexical!Next
    BY <1>3, <1>4 DEF Declare, Lexical!Here, Lexical!Declare, Lexical!Next
  <1>5. ASSUME NEW n \in Names, Redeclare(n)
        PROVE  Lexical!Next
    BY <1>3, <1>5 DEF Redeclare, Lexical!Redeclare, Lexical!Next
  <1>6. ASSUME NEW n \in Names, Resolve(n)
        PROVE  Lexical!Next
    BY <1>6, ResolvedIsMeaning DEF Resolve, Lexical!Lookup, Lexical!Next
  <1>7. CASE UNCHANGED scopeVars
    BY <1>7 DEF scopeVars, Lexical!lexVars
  <1>. QED  BY <1>1, <1>2, <1>4, <1>5, <1>6, <1>7 DEF ScopeNext

\* The scope stack implements lexical scoping: through any history of opened
\* and closed scopes, sem_resolve answers with the innermost enclosing
\* declaration and sem_declare refuses exactly the names of its own scope.
THEOREM ScopeTableRefines == ScopeSpec => ImplementsLexicalScope
  <1>1. ScopeInit => Lexical!Init  BY DEF ScopeInit, Lexical!Init
  <1>. QED
    BY <1>1, ScopeInvariant, StepRefines, PTL
    DEF ScopeSpec, ImplementsLexicalScope, Lexical!Spec

-----------------------------------------------------------------------------
\* The walk.

\* sem_resolve answers with a type or with NoType.
LEMMA ResolvedType ==
  ASSUME ScopeInv, NEW n \in Names
  PROVE  Resolved(n) \in Types \cup {NoType}
  <1>1. CASE Hits(n) = {}  BY <1>1 DEF Resolved
  <1>2. CASE Hits(n) # {}
    <2>. DEFINE i == Lexical!Innermost(Hits(n))
    <2>1. i \in DOMAIN frames /\ n \in DOMAIN frames[i]
      BY <1>2, InnermostExists DEF Hits, Holds
    <2>2. frames[i] \in Frames  BY <2>1 DEF ScopeInv, ScopeTypeOK
    <2>3. frames[i][n] \in Types  BY <2>1, <2>2, FrameDomain
    <2>. QED  BY <1>2, <2>3 DEF Resolved
  <1>. QED  BY <1>1, <1>2

\* A declaration the table takes is one lexical scoping takes.
LEMMA DeclareIsNew ==
  ASSUME ScopeInv, NEW n \in Names, frames # <<>>
  PROVE  Holds(Top, n) <=> Lexical!Declares(path[Len(path)], n)
  <1>1. /\ frames \in Seq(Frames) /\ path \in Seq(Nat) /\ Len(frames) = Len(path)
        /\ DOMAIN frames = 1 .. Len(frames)
    BY DEF ScopeInv, ScopeTypeOK, FramesMatchText
  <1>2. Len(frames) \in DOMAIN frames  BY <1>1
  <1>. QED  BY <1>1, <1>2, FrameIsScope DEF Top

\* What an operation of the table leaves in answer.
LEMMA Answers ==
  ASSUME ScopeInv
  PROVE  /\ PushScope => answer' # "redeclared"
         /\ PopScope => answer' # "redeclared"
         /\ \A n \in Names, t \in Types : Declare(n, t) => answer' # "redeclared"
         /\ \A n \in Names : Resolve(n) => answer' # "redeclared"
  BY ResolvedType, AnswersAssumption DEF PushScope, PopScope, Declare, Resolve

-----------------------------------------------------------------------------
\* Every step of the walk is one operation of the scope stack or none.
LEMMA StepUsesTable ==
  VerdictInv /\ [Next]_vars => [ScopeNext]_scopeVars
  <1>. SUFFICES ASSUME VerdictInv, [Next]_vars PROVE [ScopeNext]_scopeVars
    OBVIOUS
  <1>. USE SourceTypesAssumption DEF VerdictInv, ScopeNext
  <1>1. CASE Program  BY <1>1 DEF Program, Doing
  <1>2. CASE Block  BY <1>2 DEF Block, Doing
  <1>3. CASE CloseScope  BY <1>3 DEF CloseScope, Doing
  <1>4. CASE ListEnd \/ TopLevelStmt \/ Finish
    BY <1>4 DEF ListEnd, TopLevelStmt, Finish
  <1>5. CASE WalkDeclaration
    <2>1. ASSUME NEW n \in Names, NEW s \in SourceTypes, NEW k \in 0 .. 1, VarDecl(n, s, k)
          PROVE  ScopeNext
      BY <2>1 DEF VarDecl, Introduce, Doing
    <2>2. ASSUME NEW f \in Fns, NEW k \in 0 .. MaxParams, NEW r \in ReturnTypes, FuncDef(f, k, r)
          PROVE  [ScopeNext]_scopeVars
      BY <2>2 DEF FuncDef, Doing
    <2>3. ASSUME NEW n \in Names, NEW s \in SourceTypes, Param(n, s)
          PROVE  ScopeNext
      BY <2>3 DEF Param, Introduce, Doing
    <2>. QED  BY <1>5, <2>1, <2>2, <2>3 DEF WalkDeclaration
  <1>6. CASE WalkStatement
    <2>1. ASSUME NEW n \in Names, Read(n) PROVE ScopeNext
      BY <2>1 DEF Read, Use, Doing
    <2>2. ASSUME NEW init, NEW k, For(init, k) PROVE ScopeNext
      BY <2>2 DEF For, Doing
    <2>. QED
      BY <1>6, <2>1, <2>2 DEF WalkStatement, ExprStmt, If, While
  <1>7. CASE WalkExpression
    <2>1. ASSUME NEW n \in Names,
                 Identifier(n) \/ ArrayAccess(n) \/ Assign(n) \/ AssignElement(n)
          PROVE  ScopeNext
      BY <2>1 DEF Identifier, ArrayAccess, Assign, AssignElement, Use, Doing
    <2>. QED
      BY <1>7, <2>1
      DEF WalkExpression, Literal, Operation, Typed, MemberAccess, Member, FuncCall
  <1>8. CASE UNCHANGED vars  BY <1>8 DEF vars, scopeVars
  <1>. QED
    BY <1>1, <1>2, <1>3, <1>4, <1>5, <1>6, <1>7, <1>8 DEF Next

-----------------------------------------------------------------------------
\* A step that adds no known error and leaves the signatures alone.
LEMMA QuietStep ==
  ASSUME VerdictInv, ScopeInv', status = "analyzing",
         UNCHANGED <<status, functions, headers>>,
         answer' # "redeclared", defects' \cap Errors = {}
  PROVE  VerdictInv'
  BY DEF VerdictInv, SignaturesMatchText, AcceptedIsClean, RejectedForCause, Errors

\* A step that ends the process with an error the text has.
LEMMA FailingStep ==
  ASSUME VerdictInv, ScopeInv', NEW code, status' = code,
         code \in Errors \cup {"ERR_TOP_LEVEL_STMT"},
         UNCHANGED <<functions, headers>>,
         code \in Errors => code \in defects'
  PROVE  VerdictInv'
  BY DEF VerdictInv, SignaturesMatchText, AcceptedIsClean, RejectedForCause, Errors

\* The use of a name, as reported by sem_resolve.
LEMMA UseStep ==
  ASSUME VerdictInv, ScopeInv', status = "analyzing", NEW n \in Names,
         Use(n, {}, UNCHANGED status), NoCalls
  PROVE  VerdictInv'
  <1>. USE DEF Use, Note, Fail, NoCalls
  <1>1. Resolved(n) = Lexical!Meaning(n)  BY ResolvedIsMeaning DEF VerdictInv
  <1>2. answer' # "redeclared"  BY Answers DEF VerdictInv
  <1>3. CASE Resolved(n) = NoType
    <2>1. "ERR_UNDECLARED_VAR" \in defects'  BY <1>1, <1>3 DEF Undeclared
    <2>. QED  BY <1>3, <2>1, FailingStep DEF Errors
  <1>4. CASE Resolved(n) # NoType
    <2>1. defects' = defects  BY <1>1, <1>4 DEF Undeclared
    <2>. QED  BY <1>2, <1>4, <2>1, QuietStep DEF VerdictInv
  <1>. QED  BY <1>3, <1>4

\* A declaration, as reported by sem_declare.
LEMMA IntroduceStep ==
  ASSUME VerdictInv, ScopeInv', status = "analyzing", NEW n \in Names, NEW t \in Types,
         Introduce(n, t, UNCHANGED status), NoCalls
  PROVE  VerdictInv'
  <1>. USE DEF Introduce, Note, Fail, NoCalls
  <1>1. CASE Declare(n, t) /\ UNCHANGED status
    <2>1. ~ Lexical!Declares(path[Len(path)], n)
      BY <1>1, DeclareIsNew DEF VerdictInv, Declare
    <2>2. defects' = defects  BY <2>1 DEF Redeclared
    <2>3. answer' # "redeclared"  BY <1>1, Answers DEF VerdictInv
    <2>. QED  BY <1>1, <2>2, <2>3, QuietStep DEF VerdictInv
  <1>2. CASE Redeclare(n) /\ status' = "ERR_REDECLARED_VAR"
    <2>1. Lexical!Declares(path[Len(path)], n)
      BY <1>2, DeclareIsNew DEF VerdictInv, Redeclare
    <2>2. "ERR_REDECLARED_VAR" \in defects'  BY <2>1 DEF Redeclared
    <2>. QED  BY <1>2, <2>2, FailingStep DEF Errors
  <1>. QED  BY <1>1, <1>2

-----------------------------------------------------------------------------
LEMMA DeclarationStep == VerdictInv /\ ScopeInv' /\ WalkDeclaration => VerdictInv'
  <1>. SUFFICES ASSUME VerdictInv, ScopeInv', WalkDeclaration PROVE VerdictInv'
    OBVIOUS
  <1>. USE SourceTypesAssumption
  <1>1. ASSUME NEW n \in Names, NEW s \in SourceTypes, NEW k \in 0 .. 1, VarDecl(n, s, k)
        PROVE  VerdictInv'
    <2>1. status = "analyzing" /\ NoCalls /\ Introduce(n, Fulltype(s), UNCHANGED status)
      BY <1>1 DEF VarDecl, Doing, Introduce, Keep, Then
    <2>. QED  BY <2>1, IntroduceStep
  <1>2. ASSUME NEW n \in Names, NEW s \in SourceTypes, Param(n, s)
        PROVE  VerdictInv'
    <2>1. status = "analyzing" /\ NoCalls /\ Introduce(n, Fulltype(s), UNCHANGED status)
      BY <1>2 DEF Param, Doing, Introduce, Then
    <2>. QED  BY <2>1, IntroduceStep
  <1>3. ASSUME NEW f \in Fns, NEW k \in 0 .. MaxParams, NEW r \in ReturnTypes,
               FuncDef(f, k, r)
        PROVE  VerdictInv'
    <2>1. CASE f \in DOMAIN functions
      <3>1. /\ status' = "ERR_DUPLICATED_FUNC" /\ "ERR_DUPLICATED_FUNC" \in defects'
            /\ UNCHANGED <<functions, headers>>
        BY <1>3, <2>1 DEF FuncDef, Fail, Note, NoCalls
      <3>. QED  BY <3>1, FailingStep DEF Errors
    <2>2. CASE f \notin DOMAIN functions
      <3>1. /\ status = "analyzing" /\ status' = status
            /\ functions' = Insert(functions, f, Signature(k, r))
            /\ headers' = Insert(headers, f, k)
            /\ defects' = defects \cup EarlierWrongArity(f, k)
            /\ PushScope
        BY <1>3, <2>2 DEF FuncDef, Doing, Keep, Note
      <3>2. answer' # "redeclared"  BY <3>1, Answers DEF VerdictInv
      <3>3. defects' \cap Errors = {}
        BY <3>1 DEF VerdictInv, EarlierWrongArity, Errors
      <3>4. SignaturesMatchText'
        BY <3>1 DEF VerdictInv, SignaturesMatchText, Insert, Signature
      <3>. QED
        BY <3>1, <3>2, <3>3, <3>4
        DEF VerdictInv, AcceptedIsClean, RejectedForCause, Errors
    <2>. QED  BY <2>1, <2>2
  <1>. QED  BY <1>1, <1>2, <1>3 DEF WalkDeclaration

LEMMA StatementStep == VerdictInv /\ ScopeInv' /\ WalkStatement => VerdictInv'
  <1>. SUFFICES ASSUME VerdictInv, ScopeInv', WalkStatement PROVE VerdictInv'
    OBVIOUS
  <1>1. ASSUME NEW n \in Names, Read(n) PROVE VerdictInv'
    <2>1. status = "analyzing" /\ NoCalls /\ Use(n, {}, UNCHANGED status)
      BY <1>1 DEF Read, Doing, Use, Keep
    <2>. QED  BY <2>1, UseStep
  <1>2. ASSUME NEW init, NEW k, For(init, k) PROVE VerdictInv'
    <2>1. /\ status = "analyzing" /\ PushScope
          /\ UNCHANGED <<status, functions, headers, defects>>
      BY <1>2 DEF For, Doing, Keep, NoCalls
    <2>2. answer' # "redeclared"  BY <2>1, Answers DEF VerdictInv
    <2>. QED  BY <2>1, <2>2, QuietStep DEF VerdictInv
  <1>3. ASSUME (\E k \in 0 .. MaxArgs : ExprStmt(k)) \/ While
                 \/ (\E a \in {<<>>, Branch}, b \in {<<>>, <<Item("block")>>} : If(a, b))
        PROVE  VerdictInv'
    <2>1. /\ status = "analyzing"
          /\ UNCHANGED <<status, functions, headers, defects, answer>>
      BY <1>3 DEF ExprStmt, While, If, Doing, Keep, NoCalls, scopeVars
    <2>. QED  BY <2>1, QuietStep DEF VerdictInv
  <1>. QED  BY <1>1, <1>2, <1>3 DEF WalkStatement

LEMMA ExpressionStep == VerdictInv /\ ScopeInv' /\ WalkExpression => VerdictInv'
  <1>. SUFFICES ASSUME VerdictInv, ScopeInv', WalkExpression PROVE VerdictInv'
    OBVIOUS
  <1>1. ASSUME NEW n \in Names, Identifier(n) \/ ArrayAccess(n) \/ Assign(n)
        PROVE  VerdictInv'
    <2>1. status = "analyzing" /\ NoCalls /\ Use(n, {}, UNCHANGED status)
      BY <1>1 DEF Identifier, ArrayAccess, Assign, Doing, Use, Then
    <2>. QED  BY <2>1, UseStep
  <1>2. ASSUME NEW n \in Names, AssignElement(n) PROVE VerdictInv'
    <2>1. /\ status = "analyzing" /\ NoCalls /\ Resolve(n)
          /\ defects' = defects \cup Undeclared(n) \cup NotAVector(n)
      BY <1>2 DEF AssignElement, Doing, Use, Note
    <2>2. Resolved(n) = Lexical!Meaning(n)  BY ResolvedIsMeaning DEF VerdictInv
    <2>3. answer' # "redeclared"  BY <2>1, Answers DEF VerdictInv
    <2>4. CASE Resolved(n) = NoType
      <3>1. status' = "ERR_UNDECLARED_VAR"  BY <1>2, <2>4 DEF AssignElement, Use, Fail
      <3>2. "ERR_UNDECLARED_VAR" \in defects'  BY <2>1, <2>2, <2>4 DEF Undeclared
      <3>. QED  BY <2>1, <3>1, <3>2, FailingStep DEF Errors, NoCalls
    <2>5. CASE Resolved(n) # NoType /\ IsVec(Resolved(n))
      <3>1. status' = status
        BY <1>2, <2>5 DEF AssignElement, Use, Then
      <3>2. defects' = defects  BY <2>1, <2>2, <2>5 DEF Undeclared, NotAVector
      <3>. QED  BY <2>1, <2>3, <3>1, <3>2, QuietStep DEF VerdictInv, NoCalls
    <2>6. CASE Resolved(n) # NoType /\ ~ IsVec(Resolved(n))
      <3>1. status' = "ERR_UNKNOWN"  BY <1>2, <2>6 DEF AssignElement, Use, Fail
      <3>2. "ERR_UNKNOWN" \in defects'  BY <2>1, <2>2, <2>6 DEF NotAVector
      <3>. QED  BY <2>1, <3>1, <3>2, FailingStep DEF Errors, NoCalls
    <2>. QED  BY <2>4, <2>5, <2>6
  <1>3. ASSUME NEW parens \in BOOLEAN, Member(parens) PROVE VerdictInv'
    <2>. DEFINE m == Head(todo).name
                k == Head(todo).args
    <2>1. /\ status = "analyzing" /\ NoCalls /\ UNCHANGED answer
          /\ defects' = defects \cup BadMethod(result, m, k, parens)
      BY <1>3 DEF Member, Doing, Note, scopeVars
    <2>2. CASE k > 0 /\ ~ MethodLookup(result, m) /\ status' = "ERR_UNKNOWN"
      <3>1. "ERR_UNKNOWN" \in defects'  BY <2>1, <2>2 DEF BadMethod
      <3>. QED  BY <2>1, <2>2, <3>1, FailingStep DEF Errors, NoCalls
    <2>3. CASE (k > 0 => MethodLookup(result, m)) /\ status' = status
      <3>1. defects' \cap Errors = {}
        BY <2>1, <2>3 DEF BadMethod, Errors, VerdictInv
      <3>. QED  BY <2>1, <2>3, <3>1, QuietStep DEF VerdictInv, NoCalls
    <2>. QED  BY <1>3, <2>2, <2>3 DEF Member, Fail, Then
  <1>4. ASSUME NEW f \in Fns, NEW k \in 0 .. MaxArgs, NEW A \in SUBSET Names,
               FuncCall(f, k, A)
        PROVE  VerdictInv'
    <2>1. /\ status = "analyzing" /\ UNCHANGED <<functions, headers, answer>>
          /\ defects' = defects \cup WrongArity(f, k) \cup UndeclaredArgs(A)
      BY <1>4 DEF FuncCall, Doing, Note, scopeVars
    <2>2. WrongArity(f, k) =
            IF f \in DOMAIN functions /\ functions[f].params # k THEN {"ERR_ARG_COUNT"} ELSE {}
      BY DEF WrongArity, VerdictInv, SignaturesMatchText
    <2>3. CASE f \in DOMAIN functions /\ functions[f].params # k
      <3>1. status' = "ERR_ARG_COUNT"
        BY <1>4, <2>3 DEF FuncCall, ArityAgrees, Fail
      <3>. QED  BY <2>1, <2>2, <2>3, <3>1, FailingStep DEF Errors
    <2>4. CASE ~ (f \in DOMAIN functions /\ functions[f].params # k)
      <3>1. status' = status
        BY <1>4, <2>4 DEF FuncCall, ArityAgrees, Then
      <3>2. defects' \cap Errors = {}
        BY <2>1, <2>2, <2>4 DEF UndeclaredArgs, Errors, VerdictInv
      <3>. QED  BY <2>1, <3>1, <3>2, QuietStep DEF VerdictInv
    <2>. QED  BY <2>3, <2>4
  <1>5. ASSUME \/ Literal \/ Typed
               \/ \E k \in 1 .. 3 : Operation(k)
               \/ \E m \in {"append", "length"}, k \in 0 .. MaxArgs : MemberAccess(m, k)
        PROVE  VerdictInv'
    <2>1. /\ status = "analyzing"
          /\ UNCHANGED <<status, functions, headers, defects, answer>>
      BY <1>5 DEF Literal, Typed, Operation, MemberAccess, Doing, Then, NoCalls, scopeVars
    <2>. QED  BY <2>1, QuietStep DEF VerdictInv
  <1>. QED  BY <1>1, <1>2, <1>3, <1>4, <1>5 DEF WalkExpression

LEMMA VerdictStep == VerdictInv /\ [Next]_vars => VerdictInv'
  <1>. SUFFICES ASSUME VerdictInv, [Next]_vars PROVE VerdictInv'  OBVIOUS
  <1>1. ScopeInv'  BY StepUsesTable, StepInv DEF VerdictInv
  <1>2. CASE Program \/ Block \/ CloseScope
    <2>1. /\ status = "analyzing"
          /\ UNCHANGED <<status, functions, headers, defects>>
          /\ PushScope \/ PopScope
      BY <1>2 DEF Program, Block, CloseScope, Doing, Then, NoCalls
    <2>2. answer' # "redeclared"  BY <2>1, Answers DEF VerdictInv
    <2>. QED  BY <1>1, <2>1, <2>2, QuietStep DEF VerdictInv
  <1>3. CASE ListEnd
    <2>1. /\ status = "analyzing"
          /\ UNCHANGED <<status, functions, headers, defects, answer>>
      BY <1>3 DEF ListEnd, Doing, Then, NoCalls, scopeVars
    <2>. QED  BY <1>1, <2>1, QuietStep DEF VerdictInv
  <1>4. CASE TopLevelStmt
    <2>1. status' = "ERR_TOP_LEVEL_STMT" /\ UNCHANGED <<functions, headers>>
      BY <1>4 DEF TopLevelStmt, Fail, NoCalls
    <2>. QED  BY <1>1, <2>1, FailingStep DEF Errors
  <1>5. CASE WalkDeclaration  BY <1>1, <1>5, DeclarationStep
  <1>6. CASE WalkStatement  BY <1>1, <1>6, StatementStep
  <1>7. CASE WalkExpression  BY <1>1, <1>7, ExpressionStep
  <1>8. CASE Finish
    <2>1. /\ status = "analyzing" /\ UNCHANGED <<functions, headers, answer>>
          /\ defects' = defects \cup (IF Main \in DOMAIN headers THEN {} ELSE {"ERR_NO_MAIN"})
          /\ status' = IF Main \in DOMAIN functions THEN "accepted" ELSE "ERR_NO_MAIN"
      BY <1>8 DEF Finish, Note, NoCalls, scopeVars
    <2>2. CASE Main \in DOMAIN functions
      BY <1>1, <2>1, <2>2
      DEF VerdictInv, SignaturesMatchText, AcceptedIsClean, RejectedForCause, Errors
    <2>3. CASE Main \notin DOMAIN functions
      <3>1. "ERR_NO_MAIN" \in defects'
        BY <2>1, <2>3 DEF VerdictInv, SignaturesMatchText
      <3>. QED  BY <1>1, <2>1, <2>3, <3>1, FailingStep DEF Errors
    <2>. QED  BY <2>2, <2>3
  <1>9. CASE UNCHANGED vars
    BY <1>1, <1>9 DEF vars, VerdictInv, SignaturesMatchText, AcceptedIsClean, RejectedForCause
  <1>. QED
    BY <1>2, <1>3, <1>4, <1>5, <1>6, <1>7, <1>8, <1>9 DEF Next

LEMMA VerdictInit == Init => VerdictInv
  BY InitInv
  DEF Init, VerdictInv, ScopeInit, SignaturesMatchText, AcceptedIsClean, RejectedForCause, Errors

\* The values of the walk's own state, for any bounds.
THEOREM WalkTypeOK == Spec => []TypeOK
  <1>1. Init => TypeOK  BY BoundsAssumption DEF Init, TypeOK
  <1>2. TypeOK /\ [Next]_vars => TypeOK'
    <2>. SUFFICES ASSUME TypeOK, [Next]_vars PROVE TypeOK'  OBVIOUS
    <2>. USE BoundsAssumption DEF Then, Keep, Fail, Spend, NoCalls
    <2>1. ASSUME UNCHANGED <<functions, headers, calls>>,
                 budget' \in {budget, budget - 1}, budget' # budget => budget > 0,
                 status' \in {status, "ERR_TOP_LEVEL_STMT", "accepted"} \cup Errors
          PROVE  TypeOK'
      BY <2>1 DEF TypeOK
    <2>2. CASE Program \/ Block \/ CloseScope \/ ListEnd \/ TopLevelStmt \/ Finish
      BY <2>1, <2>2
      DEF Program, Block, CloseScope, ListEnd, TopLevelStmt, Finish, Errors
    <2>3. ASSUME NEW n \in Names, NEW s \in SourceTypes,
                 Param(n, s) \/ \E k \in 0 .. 1 : VarDecl(n, s, k)
          PROVE  TypeOK'
      BY <2>1, <2>3 DEF Param, VarDecl, Introduce, Errors
    <2>4. ASSUME NEW f \in Fns, NEW k \in 0 .. MaxParams, NEW r \in ReturnTypes,
                 FuncDef(f, k, r)
          PROVE  TypeOK'
      <3>1. CASE f \in DOMAIN functions
        BY <2>1, <2>4, <3>1 DEF FuncDef, Errors
      <3>2. CASE f \notin DOMAIN functions
        BY <2>4, <3>2 DEF FuncDef, TypeOK, Insert, Signature
      <3>. QED  BY <3>1, <3>2
    <2>5. CASE WalkStatement
      BY <2>1, <2>5 DEF WalkStatement, ExprStmt, Read, Use, If, While, For, Errors
    <2>6. ASSUME NEW n \in Names,
                 Identifier(n) \/ ArrayAccess(n) \/ Assign(n) \/ AssignElement(n)
          PROVE  TypeOK'
      BY <2>1, <2>6 DEF Identifier, ArrayAccess, Assign, AssignElement, Use, Errors
    <2>7. ASSUME NEW f \in Fns, NEW k \in 0 .. MaxArgs, NEW A \in SUBSET Names,
                 FuncCall(f, k, A)
          PROVE  TypeOK'
      BY <2>7 DEF FuncCall, TypeOK, Errors
    <2>8. ASSUME \/ Literal \/ Typed
                 \/ \E k \in 1 .. 3 : Operation(k)
                 \/ \E m \in {"append", "length"}, k \in 0 .. MaxArgs : MemberAccess(m, k)
                 \/ \E parens \in BOOLEAN : Member(parens)
          PROVE  TypeOK'
      BY <2>1, <2>8 DEF Literal, Typed, Operation, MemberAccess, Member, Errors
    <2>9. CASE UNCHANGED vars  BY <2>1, <2>9 DEF vars
    <2>. QED
      BY <2>2, <2>3, <2>4, <2>5, <2>6, <2>7, <2>8, <2>9
      DEF Next, WalkDeclaration, WalkExpression
  <1>. QED  BY <1>1, <1>2, PTL DEF Spec

\* The inductive invariant of the analysis.
THEOREM VerdictInvariant == Spec => []VerdictInv
  BY VerdictInit, VerdictStep, PTL DEF Spec

\* A program the analyser accepts has, outside call arguments, no undeclared
\* and no redeclared variable, and no call that disagrees with an earlier
\* definition.
THEOREM AcceptedProgramsAreClean == Spec => []AcceptedIsClean
  <1>1. VerdictInv => AcceptedIsClean  BY DEF VerdictInv
  <1>. QED  BY <1>1, VerdictInvariant, PTL

\* The analyser never rejects a program for an error the program has not.
THEOREM RejectionsHaveACause == Spec => []RejectedForCause
  <1>1. VerdictInv => RejectedForCause  BY DEF VerdictInv
  <1>. QED  BY <1>1, VerdictInvariant, PTL

\* The walk uses the scope stack as ScopeTable describes ...
THEOREM WalkUsesScopeTable == Spec => UsesScopeTable
  <1>1. Init => ScopeInit  BY DEF Init
  <1>. QED
    BY <1>1, VerdictInvariant, StepUsesTable, PTL DEF Spec, ScopeSpec, UsesScopeTable

\* ... so names mean in every analysed program what lexical scoping says.
THEOREM WalkIsLexical == Spec => ImplementsLexicalScope
  BY WalkUsesScopeTable, ScopeTableRefines DEF UsesScopeTable

-----------------------------------------------------------------------------
\* A list of pieces of work.
IsWork(s) == \E S : s \in Seq(S) /\ \A x \in S : x.args \in Nat

\* A list of work that closes c scopes, and the invariant.
Closes(s, c) == IsWork(s) /\ Cardinality(Pops(s)) = c
BalanceInv == IsWork(todo) /\ ScopeBalance

\* What the pieces of work are and how many arguments they carry.
LEMMA ItemHas ==
  /\ \A k : Item(k).args = 0
  /\ \A t : Yield(t).args = 0
  /\ \A m, k : MemberItem(m, k).args = k
  BY Zenon DEF Item, Yield, MemberItem

LEMMA ItemDoes ==
  /\ \A k : Item(k).do = k
  /\ \A t : Yield(t).do = "yield"
  /\ \A m, k : MemberItem(m, k).do = "member"
  BY Zenon DEF Item, Yield, MemberItem

LEMMA WorkOf ==
  \A S : (\A x \in S : x.args \in Nat) => \A s \in Seq(S) : IsWork(s)
  BY Zenon DEF IsWork

\* Pops is a finite set, so counting it makes sense.
LEMMA PopsFinite ==
  ASSUME NEW S, NEW s \in Seq(S)
  PROVE  IsFiniteSet(Pops(s)) /\ Cardinality(Pops(s)) \in Nat
  <1>1. IsFiniteSet(1 .. Len(s))  BY FS_Interval
  <1>2. Pops(s) \subseteq 1 .. Len(s)  BY DEF Pops
  <1>. QED  BY <1>1, <1>2, FS_Subset, FS_CardinalityType

\* The scopes that two pieces of work close one after the other.
LEMMA PopsOfConcat ==
  ASSUME NEW S, NEW s \in Seq(S), NEW t \in Seq(S)
  PROVE  Cardinality(Pops(s \o t)) = Cardinality(Pops(s)) + Cardinality(Pops(t))
  <1>. DEFINE later == {Len(s) + i : i \in Pops(t)}
  <1>1. Pops(s \o t) = Pops(s) \cup later
    <2>1. s \o t \in Seq(S) /\ DOMAIN (s \o t) = 1 .. Len(s) + Len(t)  OBVIOUS
    <2>2. Pops(s) \cup later \subseteq Pops(s \o t)  BY <2>1 DEF Pops
    <2>3. ASSUME NEW i \in Pops(s \o t) PROVE i \in Pops(s) \cup later
      <3>1. CASE i <= Len(s)  BY <2>1, <2>3, <3>1 DEF Pops
      <3>2. CASE i > Len(s)
        <4>1. i - Len(s) \in Pops(t) /\ i = Len(s) + (i - Len(s))
          BY <2>1, <2>3, <3>2 DEF Pops
        <4>. QED  BY <4>1
      <3>. QED  BY <2>3, <3>1, <3>2 DEF Pops
    <2>. QED  BY <2>2, <2>3
  <1>2. Pops(s) \cap later = {}  BY DEF Pops
  <1>3. IsFiniteSet(later) /\ Cardinality(later) = Cardinality(Pops(t))
    <2>. DEFINE f == [i \in Pops(t) |-> Len(s) + i]
    <2>1. f \in Bijection(Pops(t), later)
      BY DEF Bijection, Injection, Surjection, IsInjective, Pops
    <2>. QED  BY <2>1, PopsFinite, FS_Bijection DEF ExistsBijection
  <1>4. /\ IsFiniteSet(Pops(s)) /\ Cardinality(Pops(s)) \in Nat
        /\ IsFiniteSet(Pops(t)) /\ Cardinality(Pops(t)) \in Nat
    BY PopsFinite
  <1>. HIDE DEF later
  <1>5. Cardinality(Pops(s) \cup later)
          = Cardinality(Pops(s)) + Cardinality(later) - Cardinality(Pops(s) \cap later)
    BY <1>3, <1>4, FS_Union
  <1>6. Cardinality(Pops(s) \cap later) = 0  BY <1>2, FS_EmptySet
  <1>. QED  BY <1>1, <1>3, <1>4, <1>5, <1>6

\* Work without a "pop", and two lists one after the other.
LEMMA ClosesNothing ==
  ASSUME NEW s, IsWork(s), \A i \in DOMAIN s : s[i].do # "pop"
  PROVE  Closes(s, 0)
  <1>1. Pops(s) = {}  BY DEF Pops
  <1>. QED  BY <1>1, FS_EmptySet DEF Closes

LEMMA ListsJoin ==
  ASSUME NEW s, NEW t, IsWork(s), IsWork(t)
  PROVE  /\ IsWork(s \o t)
         /\ Cardinality(Pops(s \o t)) = Cardinality(Pops(s)) + Cardinality(Pops(t))
         /\ Cardinality(Pops(s)) \in Nat /\ Cardinality(Pops(t)) \in Nat
  <1>1. PICK S : s \in Seq(S) /\ \A x \in S : x.args \in Nat  BY DEF IsWork
  <1>2. PICK T : t \in Seq(T) /\ \A x \in T : x.args \in Nat  BY DEF IsWork
  <1>3. s \in Seq(S \cup T) /\ t \in Seq(S \cup T)  BY <1>1, <1>2
  <1>4. s \o t \in Seq(S \cup T)  BY <1>3
  <1>5. \A x \in S \cup T : x.args \in Nat  BY <1>1, <1>2
  <1>6. IsWork(s \o t)  BY <1>4, <1>5 DEF IsWork
  <1>. QED  BY <1>3, <1>6, PopsOfConcat, PopsFinite

\* What is left of the work when its next piece is taken.
LEMMA RestOfWork ==
  ASSUME IsWork(todo), todo # <<>>
  PROVE  /\ IsWork(Tail(todo)) /\ Head(todo).args \in Nat
         /\ Cardinality(Pops(todo))
              = Cardinality(Pops(Tail(todo))) + (IF Head(todo).do = "pop" THEN 1 ELSE 0)
         /\ Cardinality(Pops(Tail(todo))) \in Nat
  <1>1. PICK S : todo \in Seq(S) /\ \A x \in S : x.args \in Nat  BY DEF IsWork
  <1>2. /\ Tail(todo) \in Seq(S) /\ <<Head(todo)>> \in Seq(S)
        /\ todo = <<Head(todo)>> \o Tail(todo)
    BY <1>1
  <1>3. IsWork(Tail(todo)) /\ IsWork(<<Head(todo)>>) /\ Head(todo).args \in Nat
    BY <1>1, <1>2 DEF IsWork
  <1>4. Cardinality(Pops(<<Head(todo)>>)) = IF Head(todo).do = "pop" THEN 1 ELSE 0
    <2>1. CASE Head(todo).do = "pop"
      <3>1. Pops(<<Head(todo)>>) = {1}  BY <2>1 DEF Pops
      <3>. QED  BY <2>1, <3>1, FS_Singleton
    <2>2. CASE Head(todo).do # "pop"
      <3>1. Pops(<<Head(todo)>>) = {}  BY <2>2 DEF Pops
      <3>. QED  BY <2>2, <3>1, FS_EmptySet
    <2>. QED  BY <2>1, <2>2
  <1>5. Cardinality(Pops(<<Head(todo)>> \o Tail(todo)))
          = Cardinality(Pops(<<Head(todo)>>)) + Cardinality(Pops(Tail(todo)))
    BY <1>3, ListsJoin
  <1>6. Cardinality(Pops(Tail(todo))) \in Nat  BY <1>3, ListsJoin
  <1>7. Cardinality(Pops(todo)) = Cardinality(Pops(<<Head(todo)>> \o Tail(todo)))
    BY ONLY <1>2
  <1>8. Cardinality(Pops(todo))
          = Cardinality(Pops(Tail(todo))) + (IF Head(todo).do = "pop" THEN 1 ELSE 0)
    BY ONLY <1>4, <1>5, <1>6, <1>7
  <1>. QED  BY ONLY <1>3, <1>6, <1>8

\* The two ways a step goes on with the work.
LEMMA WorkGoesOn ==
  ASSUME IsWork(todo), todo # <<>>, NEW items, NEW c \in Nat, Closes(items, c)
  PROVE  /\ Then(items) =>
              /\ IsWork(todo')
              /\ Cardinality(Pops(todo'))
                   = Cardinality(Pops(todo)) + c - (IF Head(todo).do = "pop" THEN 1 ELSE 0)
         /\ Keep(items) => /\ IsWork(todo')
                           /\ Cardinality(Pops(todo')) = Cardinality(Pops(todo)) + c
         /\ Cardinality(Pops(todo)) \in Nat
  <1>1. IsWork(items) /\ Cardinality(Pops(items)) = c  BY DEF Closes
  <1>2. /\ IsWork(items \o todo)
        /\ Cardinality(Pops(items \o todo)) = c + Cardinality(Pops(todo))
        /\ Cardinality(Pops(todo)) \in Nat
    BY <1>1, ListsJoin
  <1>3. /\ IsWork(items \o Tail(todo))
        /\ Cardinality(Pops(items \o Tail(todo))) = c + Cardinality(Pops(Tail(todo)))
    BY <1>1, RestOfWork, ListsJoin
  <1>4. Cardinality(Pops(todo))
          = Cardinality(Pops(Tail(todo))) + (IF Head(todo).do = "pop" THEN 1 ELSE 0)
    BY RestOfWork
  <1>5. Cardinality(Pops(Tail(todo))) \in Nat  BY RestOfWork
  <1>6. ASSUME Then(items)
        PROVE  /\ IsWork(todo')
               /\ Cardinality(Pops(todo'))
                    = Cardinality(Pops(todo)) + c - (IF Head(todo).do = "pop" THEN 1 ELSE 0)
    <2>1. todo' = items \o Tail(todo)  BY <1>6 DEF Then
    <2>2. IsWork(todo') /\ Cardinality(Pops(todo')) = c + Cardinality(Pops(Tail(todo)))
      BY ONLY <2>1, <1>3
    <2>. QED  BY ONLY <2>2, <1>4, <1>5, c \in Nat
  <1>7. ASSUME Keep(items)
        PROVE  /\ IsWork(todo')
               /\ Cardinality(Pops(todo')) = Cardinality(Pops(todo)) + c
    <2>1. todo' = items \o todo  BY <1>7 DEF Keep
    <2>2. IsWork(todo') /\ Cardinality(Pops(todo')) = c + Cardinality(Pops(todo))
      BY ONLY <2>1, <1>2
    <2>. QED  BY ONLY <2>2, <1>2, c \in Nat
  <1>. QED  BY <1>2, <1>6, <1>7

\* A sequence loses one element at its end.
LEMMA FrontLength ==
  ASSUME NEW S, NEW s \in Seq(S), s # <<>>
  PROVE  Len(SubSeq(s, 1, Len(s) - 1)) = Len(s) - 1
  <1>1. Len(s) \in Nat /\ Len(s) > 0 /\ \A i \in 1 .. Len(s) : s[i] \in S  OBVIOUS
  <1>2. PICK n \in Nat : Len(s) = n + 1
    <2>1. Len(s) - 1 \in Nat /\ Len(s) = (Len(s) - 1) + 1  BY <1>1
    <2>. QED  BY <2>1
  <1>3. \A i \in 1 .. n : s[i] \in S  BY <1>1, <1>2
  <1>4. Len(SubSeq(s, 1, n)) = IF 1 <= n THEN n - 1 + 1 ELSE 0
    BY <1>2, <1>3, SubSeqProperties
  <1>5. Len(SubSeq(s, 1, n)) = n  BY <1>4
  <1>. QED  BY <1>2, <1>5

\* How the table's operations change the number of open scopes.
LEMMA OpenScopes ==
  ASSUME ScopeInv
  PROVE  /\ Len(frames) \in Nat
         /\ PushScope => Len(frames') = Len(frames) + 1
         /\ PopScope => Len(frames') = Len(frames) - 1
         /\ \A n \in Names, t \in Types : Declare(n, t) => Len(frames') = Len(frames)
  <1>1. frames \in Seq(Frames)  BY DEF ScopeInv, ScopeTypeOK
  <1>2. Len(frames) \in Nat  BY <1>1
  <1>3. PushScope => Len(frames') = Len(frames) + 1  BY <1>1 DEF PushScope
  <1>4. ASSUME PopScope PROVE Len(frames') = Len(frames) - 1
    <2>1. frames # <<>> /\ frames' = SubSeq(frames, 1, Len(frames) - 1)
      BY <1>1, <1>4 DEF PopScope
    <2>. QED  BY ONLY <1>1, <2>1, FrontLength
  <1>5. ASSUME NEW n \in Names, NEW t \in Types, Declare(n, t)
        PROVE  Len(frames') = Len(frames)
    BY <1>1, <1>5 DEF Declare
  <1>. QED  BY <1>2, <1>3, <1>4, <1>5

-----------------------------------------------------------------------------
\* The lists the steps put in front of the work.
LEMMA ListsClose ==
  /\ Closes(<<>>, 0)
  /\ \A x : x.do # "pop" /\ x.args \in Nat =>
       /\ Closes(<<x>>, 0)
       /\ \A k \in Nat : Closes(Times(k, x), 0)
       /\ Closes(<<x, Item("pop")>>, 1)
       /\ \A y : y.do # "pop" /\ y.args \in Nat => Closes(<<x, y>>, 0)
  <1>1. Closes(<<>>, 0)
    <2>1. <<>> \in Seq({})  OBVIOUS
    <2>2. IsWork(<<>>)  BY <2>1, WorkOf
    <2>. QED  BY <2>2, ClosesNothing
  <1>2. ASSUME NEW x, x.do # "pop", x.args \in Nat
        PROVE  /\ Closes(<<x>>, 0)
               /\ \A k \in Nat : Closes(Times(k, x), 0)
               /\ Closes(<<x, Item("pop")>>, 1)
               /\ \A y : y.do # "pop" /\ y.args \in Nat => Closes(<<x, y>>, 0)
    <2>1. Closes(<<x>>, 0)
      <3>1. IsWork(<<x>>)
        <4>1. <<x>> \in Seq({x}) /\ \A z \in {x} : z.args \in Nat  BY <1>2
        <4>. QED  BY <4>1, WorkOf, Zenon
      <3>. QED  BY <1>2, <3>1, ClosesNothing
    <2>2. ASSUME NEW k \in Nat PROVE Closes(Times(k, x), 0)
      <3>1. IsWork(Times(k, x))
        <4>1. Times(k, x) \in Seq({x}) /\ \A z \in {x} : z.args \in Nat  BY <1>2 DEF Times
        <4>. QED  BY <4>1, WorkOf, Zenon
      <3>2. \A i \in DOMAIN Times(k, x) : Times(k, x)[i].do # "pop"  BY <1>2 DEF Times
      <3>. QED  BY <3>1, <3>2, ClosesNothing
    <2>3. ASSUME NEW y, y.args \in Nat PROVE IsWork(<<x, y>>)
      <3>1. <<x, y>> \in Seq({x, y}) /\ \A z \in {x, y} : z.args \in Nat  BY <1>2, <2>3
      <3>. QED  BY <3>1, WorkOf, Zenon
    <2>4. Closes(<<x, Item("pop")>>, 1)
      <3>. DEFINE p == Item("pop")
      <3>1. p.do = "pop" /\ p.args \in Nat  BY ItemDoes, ItemHas
      <3>. HIDE DEF p
      <3>2. IsWork(<<x, p>>)  BY <2>3, <3>1
      <3>3. Closes(<<x, p>>, 1)
        <4>. DEFINE s == <<x, p>>
        <4>1. /\ DOMAIN s = 1 .. 2 /\ s[2].do = "pop"
              /\ \A i \in 1 .. 2 - 1 : s[i].do # "pop"
          BY <1>2, <3>1
        <4>2. IsWork(s)  BY <3>2
        <4>. HIDE DEF s
        <4>3. Pops(s) = {2}  BY <4>1 DEF Pops
        <4>4. Closes(s, 1)  BY <4>2, <4>3, FS_Singleton DEF Closes
        <4>. QED  BY <4>4 DEF s
      <3>. QED  BY <3>3 DEF p
    <2>5. ASSUME NEW y, y.do # "pop", y.args \in Nat PROVE Closes(<<x, y>>, 0)
      <3>1. IsWork(<<x, y>>)  BY <2>3, <2>5
      <3>. QED  BY <1>2, <2>5, <3>1, ClosesNothing
    <2>. QED  BY <2>1, <2>2, <2>4, <2>5
  <1>. QED  BY <1>1, <1>2

LEMMA ExprsClose ==
  \A k \in Nat : Closes(Exprs(k), 0) /\ Closes(Times(k, Item("param")), 0)
  <1>1. /\ Item("expr").do # "pop" /\ Item("expr").args \in Nat
        /\ Item("param").do # "pop" /\ Item("param").args \in Nat
    BY ItemDoes, ItemHas
  <1>. QED  BY <1>1, ListsClose, Zenon DEF Exprs

LEMMA CloseTogether ==
  ASSUME NEW s, NEW t, NEW c \in Nat, NEW d \in Nat, Closes(s, c), Closes(t, d)
  PROVE  Closes(s \o t, c + d)
  BY ListsJoin DEF Closes

\* A step that opens or closes scopes as its pieces of work do.
LEMMA BalancedStep ==
  ASSUME ScopeInv, BalanceInv, status = "analyzing", todo # <<>>,
         NEW items, NEW c \in Nat, Closes(items, c),
         \/ /\ Keep(items)
            /\ Len(frames') = Len(frames) + c
         \/ /\ Then(items)
            /\ Len(frames') = Len(frames) + c - (IF Head(todo).do = "pop" THEN 1 ELSE 0)
  PROVE  BalanceInv'
  <1>1. Len(frames) = Cardinality(Pops(todo)) /\ IsWork(todo)  BY DEF BalanceInv, ScopeBalance
  <1>2. CASE Keep(items) /\ Len(frames') = Len(frames) + c
    <2>1. /\ IsWork(todo')
          /\ Cardinality(Pops(todo')) = Cardinality(Pops(todo)) + c
      BY <1>1, <1>2, WorkGoesOn
    <2>. QED  BY <1>1, <1>2, <2>1 DEF BalanceInv, ScopeBalance
  <1>3. CASE /\ Then(items)
             /\ Len(frames') = Len(frames) + c - (IF Head(todo).do = "pop" THEN 1 ELSE 0)
    <2>1. /\ IsWork(todo')
          /\ Cardinality(Pops(todo'))
               = Cardinality(Pops(todo)) + c - (IF Head(todo).do = "pop" THEN 1 ELSE 0)
      BY <1>1, <1>3, WorkGoesOn
    <2>. QED  BY <1>1, <1>3, <2>1 DEF BalanceInv, ScopeBalance
  <1>. QED  BY <1>2, <1>3

\* A step that ends the walk has nothing to balance.
LEMMA EndingStep ==
  ASSUME BalanceInv, status' # "analyzing", UNCHANGED todo
  PROVE  BalanceInv'
  BY DEF BalanceInv, ScopeBalance

-----------------------------------------------------------------------------
\* The steps, in the groups of Next.
LEMMA BalancePrograms ==
  ASSUME VerdictInv, BalanceInv, Program \/ Block \/ CloseScope \/ ListEnd \/ TopLevelStmt
  PROVE  BalanceInv'
  <1>. USE ListsClose, ItemDoes, ItemHas
  <1>1. CASE Program \/ Block
    <2>1. PICK k \in {"toplevel", "stmts"} :
            /\ Then(<<Item(k), Item("pop")>>) /\ status = "analyzing" /\ todo # <<>>
            /\ Head(todo).do # "pop" /\ PushScope
      BY <1>1 DEF Program, Block, Doing
    <2>2. Closes(<<Item(k), Item("pop")>>, 1)
      <3>1. Item(k).do # "pop" /\ Item(k).args \in Nat
        BY ONLY k \in {"toplevel", "stmts"}, ItemDoes, ItemHas
      <3>. QED  BY ONLY <3>1, ListsClose, Zenon
    <2>3. Len(frames') = Len(frames) + 1 /\ Len(frames) \in Nat
      BY <2>1, OpenScopes DEF VerdictInv
    <2>. QED  BY <2>1, <2>2, <2>3, BalancedStep DEF VerdictInv
  <1>2. CASE CloseScope
    <2>1. /\ Then(<<>>) /\ status = "analyzing" /\ todo # <<>>
          /\ Head(todo).do = "pop" /\ PopScope
      BY <1>2 DEF CloseScope, Doing
    <2>3. Len(frames') = Len(frames) - 1 /\ Len(frames) \in Nat
      BY <2>1, OpenScopes DEF VerdictInv
    <2>. QED  BY <2>1, <2>3, BalancedStep DEF VerdictInv
  <1>3. CASE ListEnd
    <2>1. /\ Then(<<>>) /\ status = "analyzing" /\ todo # <<>>
          /\ Head(todo).do # "pop" /\ UNCHANGED frames
      BY <1>3 DEF ListEnd, Doing, scopeVars
    <2>. QED  BY <2>1, OpenScopes, BalancedStep DEF VerdictInv
  <1>4. CASE TopLevelStmt
    BY <1>4, EndingStep DEF TopLevelStmt, Fail
  <1>. QED  BY <1>1, <1>2, <1>3, <1>4

\* A step on a piece of work that closes no scope, after which the work is the
\* same but for items that close none, and as many scopes are open.
LEMMA EvenStep ==
  ASSUME VerdictInv, BalanceInv, status = "analyzing", todo # <<>>, Head(todo).do # "pop",
         NEW items, Closes(items, 0), Then(items) \/ Keep(items),
         Len(frames') = Len(frames)
  PROVE  BalanceInv'
  BY OpenScopes, BalancedStep DEF VerdictInv

\* The use of a name or its declaration, with what follows when it goes well.
LEMMA EvenUse ==
  ASSUME VerdictInv, BalanceInv, status = "analyzing", todo # <<>>, Head(todo).do # "pop",
         NEW items, Closes(items, 0), NEW n, NEW D,
         Use(n, D, Then(items) \/ Keep(items) \/ Fail("ERR_UNKNOWN"))
  PROVE  BalanceInv'
  <1>1. UNCHANGED frames  BY DEF Use, Resolve
  <1>2. Then(items) \/ Keep(items) \/ (status' # "analyzing" /\ UNCHANGED todo)
    BY DEF Use, Fail
  <1>. QED  BY <1>1, <1>2, EvenStep, EndingStep

LEMMA EvenIntroduction ==
  ASSUME VerdictInv, BalanceInv, status = "analyzing", todo # <<>>, Head(todo).do # "pop",
         NEW items, Closes(items, 0), NEW n \in Names, NEW s \in SourceTypes,
         Introduce(n, Fulltype(s), Then(items) \/ Keep(items))
  PROVE  BalanceInv'
  <1>1. Fulltype(s) \in Types  BY SourceTypesAssumption
  <1>2. CASE Declare(n, Fulltype(s)) /\ (Then(items) \/ Keep(items))
    <2>1. Len(frames') = Len(frames)  BY <1>1, <1>2, OpenScopes DEF VerdictInv
    <2>. QED  BY <1>2, <2>1, EvenStep
  <1>3. CASE Fail("ERR_REDECLARED_VAR")  BY <1>3, EndingStep DEF Fail
  <1>. QED  BY <1>2, <1>3 DEF Introduce

LEMMA BalanceDeclarations ==
  ASSUME VerdictInv, BalanceInv, WalkDeclaration
  PROVE  BalanceInv'
  <1>1. ASSUME NEW n \in Names, NEW s \in SourceTypes, NEW k \in 0 .. 1, VarDecl(n, s, k)
        PROVE  BalanceInv'
    <2>1. /\ status = "analyzing" /\ todo # <<>> /\ Head(todo).do # "pop"
          /\ Introduce(n, Fulltype(s), Then(Exprs(k)) \/ Keep(Exprs(k)))
      BY <1>1 DEF VarDecl, Doing, Introduce
    <2>. QED  BY ExprsClose, <2>1, EvenIntroduction
  <1>2. ASSUME NEW n \in Names, NEW s \in SourceTypes, Param(n, s)
        PROVE  BalanceInv'
    <2>1. /\ status = "analyzing" /\ todo # <<>> /\ Head(todo).do # "pop"
          /\ Introduce(n, Fulltype(s), Then(<<>>) \/ Keep(<<>>))
      BY <1>2 DEF Param, Doing, Introduce
    <2>. QED  BY <2>1, ListsClose, EvenIntroduction
  <1>3. ASSUME NEW f \in Fns, NEW k \in 0 .. MaxParams, NEW r \in ReturnTypes,
               FuncDef(f, k, r)
        PROVE  BalanceInv'
    <2>1. CASE Fail("ERR_DUPLICATED_FUNC")  BY <2>1, EndingStep DEF Fail
    <2>2. CASE /\ PushScope
               /\ Keep(Times(k, Item("param")) \o <<Item("block"), Item("pop")>>)
      <3>1. Closes(<<Item("block"), Item("pop")>>, 1)
        <4>1. Item("block").do # "pop" /\ Item("block").args \in Nat
          BY ItemDoes, ItemHas
        <4>. QED  BY <4>1, ListsClose, Zenon
      <3>2. Closes(Times(k, Item("param")), 0)  BY ExprsClose
      <3>3. Closes(Times(k, Item("param")) \o <<Item("block"), Item("pop")>>, 0 + 1)
        BY <3>1, <3>2, CloseTogether
      <3>4. status = "analyzing" /\ todo # <<>>  BY <1>3 DEF FuncDef, Doing
      <3>5. Len(frames') = Len(frames) + 1  BY <2>2, OpenScopes DEF VerdictInv
      <3>. QED  BY <2>2, <3>3, <3>4, <3>5, BalancedStep DEF VerdictInv
    <2>. QED  BY <1>3, <2>1, <2>2 DEF FuncDef
  <1>. QED  BY <1>1, <1>2, <1>3 DEF WalkDeclaration

LEMMA BalanceStatements ==
  ASSUME VerdictInv, BalanceInv, WalkStatement
  PROVE  BalanceInv'
  <1>1. ASSUME NEW k \in 0 .. MaxArgs, ExprStmt(k) PROVE BalanceInv'
    <2>1. /\ status = "analyzing" /\ todo # <<>> /\ Head(todo).do # "pop"
          /\ Keep(Exprs(k)) /\ Len(frames') = Len(frames)
      BY <1>1 DEF ExprStmt, Doing, scopeVars
    <2>. QED  BY ExprsClose, <2>1, EvenStep
  <1>2. ASSUME NEW n \in Names, Read(n) PROVE BalanceInv'
    <2>1. /\ status = "analyzing" /\ todo # <<>> /\ Head(todo).do # "pop"
          /\ Use(n, {}, Then(<<>>) \/ Keep(<<>>) \/ Fail("ERR_UNKNOWN"))
      BY <1>2 DEF Read, Doing, Use
    <2>. QED  BY <2>1, ListsClose, EvenUse
  <1>3. Closes(Branch, 0) /\ Closes(<<Item("block")>>, 0)
    <2>1. /\ Item("expr").do # "pop" /\ Item("block").do # "pop"
          /\ Item("expr").args \in Nat /\ Item("block").args \in Nat
      BY ItemDoes, ItemHas
    <2>. QED  BY <2>1, ListsClose, Zenon DEF Branch
  <1>4. ASSUME NEW elseIf \in {<<>>, Branch}, NEW else \in {<<>>, <<Item("block")>>},
               If(elseIf, else)
        PROVE  BalanceInv'
    <2>1. /\ status = "analyzing" /\ todo # <<>> /\ Head(todo).do # "pop"
          /\ Keep(Branch \o elseIf \o else) /\ Len(frames') = Len(frames)
      BY <1>4 DEF If, Doing, scopeVars
    <2>2. Closes(elseIf, 0) /\ Closes(else, 0)  BY <1>3, ListsClose
    <2>3. Closes(Branch \o elseIf, 0 + 0)  BY <1>3, <2>2, CloseTogether
    <2>4. Closes(Branch \o elseIf, 0)  BY <2>3
    <2>5. Closes(Branch \o elseIf \o else, 0 + 0)  BY <2>2, <2>4, CloseTogether
    <2>6. Closes(Branch \o elseIf \o else, 0)  BY <2>5
    <2>. QED  BY <2>1, <2>6, EvenStep
  <1>5. ASSUME While PROVE BalanceInv'
    <2>1. /\ status = "analyzing" /\ todo # <<>> /\ Head(todo).do # "pop"
          /\ Keep(Branch) /\ Len(frames') = Len(frames)
      BY <1>5 DEF While, Doing, scopeVars, Branch
    <2>. QED  BY <1>3, <2>1, EvenStep
  <1>6. ASSUME NEW init \in {<<>>, <<Item("init")>>, <<Item("expr")>>}, NEW k \in 0 .. 2,
               For(init, k)
        PROVE  BalanceInv'
    <2>1. /\ status = "analyzing" /\ todo # <<>> /\ PushScope
          /\ Keep(init \o Exprs(k) \o <<Item("block"), Item("pop")>>)
      BY <1>6 DEF For, Doing
    <2>2. Closes(init, 0)
      <3>1. /\ Item("expr").do # "pop" /\ Item("init").do # "pop"
            /\ Item("expr").args \in Nat /\ Item("init").args \in Nat
        BY ItemDoes, ItemHas
      <3>2. Closes(<<>>, 0) /\ Closes(<<Item("init")>>, 0) /\ Closes(<<Item("expr")>>, 0)
        BY <3>1, ListsClose, Zenon
      <3>. QED  BY <3>2
    <2>3. Closes(<<Item("block"), Item("pop")>>, 1)
      <3>1. Item("block").do # "pop" /\ Item("block").args \in Nat
        BY ItemDoes, ItemHas
      <3>. QED  BY <3>1, ListsClose, Zenon
    <2>4. Closes(init \o Exprs(k), 0 + 0)  BY ExprsClose, <2>2, CloseTogether
    <2>5. Closes(init \o Exprs(k), 0)  BY <2>4
    <2>6. Closes(init \o Exprs(k) \o <<Item("block"), Item("pop")>>, 0 + 1)
      BY <2>3, <2>5, CloseTogether
    <2>7. Len(frames') = Len(frames) + 1  BY <2>1, OpenScopes DEF VerdictInv
    <2>. QED  BY <2>1, <2>6, <2>7, BalancedStep DEF VerdictInv
  <1>. QED  BY <1>1, <1>2, <1>4, <1>5, <1>6 DEF WalkStatement

LEMMA BalanceExpressions ==
  ASSUME VerdictInv, BalanceInv, WalkExpression
  PROVE  BalanceInv'
  <1>. DEFINE Going == status = "analyzing" /\ todo # <<>> /\ Head(todo).do # "pop"
  <1>1. ASSUME NEW t
        PROVE  Closes(<<Yield(t)>>, 0) /\ Closes(<<Item("expr"), Yield(t)>>, 0)
    <2>1. /\ Item("expr").do # "pop" /\ Yield(t).do # "pop"
          /\ Item("expr").args \in Nat /\ Yield(t).args \in Nat
      BY ItemDoes, ItemHas
    <2>. QED  BY <2>1, ListsClose, Zenon
  <1>2. ASSUME NEW t, NEW k \in Nat PROVE Closes(Exprs(k) \o <<Yield(t)>>, 0)
    <2>1. Closes(Exprs(k) \o <<Yield(t)>>, 0 + 0)  BY ExprsClose, <1>1, CloseTogether
    <2>. QED  BY <2>1
  <1>3. CASE Literal \/ Typed
    <2>1. Going /\ Then(<<>>) /\ Len(frames') = Len(frames)
      BY <1>3 DEF Literal, Typed, Doing, scopeVars
    <2>. QED  BY <2>1, ListsClose, EvenStep
  <1>4. ASSUME NEW k \in 1 .. 3, Operation(k) PROVE BalanceInv'
    <2>1. Going /\ Then(Exprs(k) \o <<Yield(NoType)>>) /\ Len(frames') = Len(frames)
      BY <1>4 DEF Operation, Doing, scopeVars
    <2>. QED  BY <1>2, <2>1, EvenStep
  <1>5. ASSUME NEW n \in Names, Identifier(n) PROVE BalanceInv'
    <2>1. Going /\ Use(n, {}, Then(<<>>) \/ Keep(<<>>) \/ Fail("ERR_UNKNOWN"))
      BY <1>5 DEF Identifier, Doing, Use
    <2>. QED  BY <2>1, ListsClose, EvenUse
  <1>6. ASSUME NEW n \in Names, ArrayAccess(n) \/ Assign(n) PROVE BalanceInv'
    <2>1. PICK t : /\ Going
                   /\ Use(n, {}, \/ Then(<<Item("expr"), Yield(t)>>)
                                 \/ Keep(<<Item("expr"), Yield(t)>>) \/ Fail("ERR_UNKNOWN"))
      BY <1>6 DEF ArrayAccess, Assign, Doing, Use
    <2>. QED  BY <1>1, <2>1, EvenUse
  <1>7. ASSUME NEW n \in Names, AssignElement(n) PROVE BalanceInv'
    <2>. DEFINE items == Exprs(2) \o <<Yield(NoType)>>
    <2>1. Going /\ Use(n, NotAVector(n), Then(items) \/ Keep(items) \/ Fail("ERR_UNKNOWN"))
      BY <1>7 DEF AssignElement, Doing, Use
    <2>2. Closes(items, 0)  BY <1>2
    <2>. QED  BY <2>1, <2>2, EvenUse
  <1>8. ASSUME NEW m \in {"append", "length"}, NEW k \in 0 .. MaxArgs, MemberAccess(m, k)
        PROVE  BalanceInv'
    <2>1. Going /\ Then(<<Item("expr"), MemberItem(m, k)>>) /\ Len(frames') = Len(frames)
      BY <1>8 DEF MemberAccess, Doing, scopeVars
    <2>2. /\ Item("expr").do # "pop" /\ MemberItem(m, k).do # "pop"
          /\ Item("expr").args \in Nat /\ MemberItem(m, k).args \in Nat
      BY ItemDoes, ItemHas
    <2>3. Closes(<<Item("expr"), MemberItem(m, k)>>, 0)  BY <2>2, ListsClose, Zenon
    <2>. QED  BY <2>1, <2>3, EvenStep
  <1>9. ASSUME NEW parens \in BOOLEAN, Member(parens) PROVE BalanceInv'
    <2>. DEFINE k == Head(todo).args
    <2>1. Going /\ Len(frames') = Len(frames)  BY <1>9 DEF Member, Doing, scopeVars
    <2>2. CASE Fail("ERR_UNKNOWN")  BY <2>2, EndingStep DEF Fail
    <2>3. CASE Then(Exprs(k) \o <<Yield("int32")>>)
      <3>1. k \in Nat  BY <2>1, RestOfWork DEF BalanceInv
      <3>2. Closes(Exprs(k) \o <<Yield("int32")>>, 0)  BY <1>2, <3>1
      <3>. QED  BY <2>1, <2>3, <3>2, EvenStep
    <2>. QED  BY <1>9, <2>2, <2>3 DEF Member
  <1>10. ASSUME NEW f \in Fns, NEW k \in 0 .. MaxArgs, NEW A \in SUBSET Names,
                FuncCall(f, k, A)
         PROVE  BalanceInv'
    <2>1. Going /\ Len(frames') = Len(frames)  BY <1>10 DEF FuncCall, Doing, scopeVars
    <2>2. Then(<<>>) \/ Fail("ERR_ARG_COUNT")  BY <1>10 DEF FuncCall
    <2>3. CASE Then(<<>>)  BY <2>1, <2>3, ListsClose, EvenStep
    <2>4. CASE Fail("ERR_ARG_COUNT")  BY <2>4, EndingStep DEF Fail
    <2>. QED  BY <2>2, <2>3, <2>4
  <1>. QED
    BY <1>3, <1>4, <1>5, <1>6, <1>7, <1>8, <1>9, <1>10 DEF WalkExpression

LEMMA BalanceStep == VerdictInv /\ BalanceInv /\ [Next]_vars => BalanceInv'
  <1>. SUFFICES ASSUME VerdictInv, BalanceInv, [Next]_vars PROVE BalanceInv'  OBVIOUS
  <1>1. CASE Program \/ Block \/ CloseScope \/ ListEnd \/ TopLevelStmt
    BY <1>1, BalancePrograms
  <1>2. CASE WalkDeclaration  BY <1>2, BalanceDeclarations
  <1>3. CASE WalkStatement  BY <1>3, BalanceStatements
  <1>4. CASE WalkExpression  BY <1>4, BalanceExpressions
  <1>5. CASE Finish
    <2>1. status' # "analyzing" /\ UNCHANGED todo  BY <1>5 DEF Finish
    <2>. QED  BY <2>1, EndingStep
  <1>6. CASE UNCHANGED vars  BY <1>6 DEF vars, BalanceInv, ScopeBalance, Pops
  <1>. QED  BY <1>1, <1>2, <1>3, <1>4, <1>5, <1>6 DEF Next

\* As long as the walk goes on, each open scope has exactly one piece of work
\* that will close it, in programs of any size: sem_analyze_node leaves no
\* scope open and pops none twice, on any path.
THEOREM ScopesBalance == Spec => []ScopeBalance
  <1>1. Init => BalanceInv
    <2>. SUFFICES ASSUME Init PROVE BalanceInv  OBVIOUS
    <2>1. Closes(<<Item("program")>>, 0)
      <3>1. Item("program").do # "pop" /\ Item("program").args \in Nat
        BY ItemDoes, ItemHas
      <3>. QED  BY <3>1, ListsClose, Zenon
    <2>2. todo = <<Item("program")>> /\ frames = <<>>  BY DEF Init, ScopeInit
    <2>. QED  BY <2>1, <2>2 DEF BalanceInv, ScopeBalance, Closes
  <1>2. BalanceInv => ScopeBalance  BY DEF BalanceInv
  <1>. QED  BY <1>1, <1>2, VerdictInvariant, BalanceStep, PTL DEF Spec
=============================================================================
