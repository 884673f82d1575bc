--------------------------- MODULE Compiler_proofs ---------------------------
(***************************************************************************)
(* What the C back end writes of any program the parser and the analyser   *)
(* let through, whatever its length, its names and the types of its        *)
(* variables: its statements are ended and its brackets nest, each print   *)
(* has each argument once, and formats fit.  The compiler does to the      *)
(* parser's variables what the parser does: its theorems hold here too.    *)
(***************************************************************************)
EXTENDS Compiler, Grouping_proofs

-----------------------------------------------------------------------------
\* Walks over the tree.  What a fold makes of a node is the rule applied to the
\* node and to what the fold makes of its children: the recursive functions
\* exist on every tree whose nodes have their children below them, and two of
\* them agree wherever both are defined.  The argument is the same for each
\* rule; no prover here takes the rule as a parameter.
LEMMA IsStringUnfolds ==
  ASSUME NEW n, Walks(n), NEW env
  PROVE  IsString(n, env) = StringRule(n, [i \in DOMAIN n.kids |-> IsString(n.kids[i], env)], env)
  <1>. DEFINE Of(g, m) == [i \in DOMAIN m.kids |-> g[m.kids[i]]]
              B(m, kid) == StringRule(m, kid, env)
              IsFold(S, g) == DOMAIN g = S /\ \A m \in S : g[m] = B(m, Of(g, m))
              Low(h) == {m \in Subtrees(n) : m.height < h}
              T == {h \in Nat : \E g : IsFold(Low(h), g)}
              F(x) == CHOOSE f : f = [m \in Subtrees(x) |-> B(m, Of(f, m))]
  <1>1. ASSUME NEW x PROVE IsString(x, env) = F(x)[x]
    BY DEF IsString, FoldTree
  <1>2. ASSUME NEW x, Closed(Subtrees(x)), NEW g, IsFold(Subtrees(x), g)
        PROVE  IsFold(Subtrees(x), F(x))
    <2>. DEFINE d == [m \in Subtrees(x) |-> g[m]]
    <2>1. \A m \in Subtrees(x) : Of(d, m) = Of(g, m)  BY <1>2 DEF Closed
    <2>2. \A m \in Subtrees(x) : d[m] = g[m]  OBVIOUS
    <2>. HIDE DEF B, Of
    <2>3. d = [m \in Subtrees(x) |-> B(m, Of(d, m))]  BY <1>2, <2>1
    <2>. HIDE DEF d
    <2>4. F(x) = [m \in Subtrees(x) |-> B(m, Of(F(x), m))]  BY <2>3
    <2>. HIDE DEF F
    <2>. QED  BY <2>4
  <1>. HIDE DEF F, B
  <1>3. /\ Closed(Subtrees(n)) /\ n \in Subtrees(n)
        /\ \A m \in Subtrees(n) : m.height \in Nat /\ m.height <= n.height
        /\ \A m \in Subtrees(n) : \A i \in DOMAIN m.kids : m.kids[i].height < m.height
    BY SubtreesShaped DEF Shaped
  <1>4. 0 \in T
    <2>1. Low(0) = {}  BY <1>3
    <2>2. IsFold({}, [m \in {} |-> 0])  OBVIOUS
    <2>. QED  BY <2>1, <2>2
  <1>5. ASSUME NEW h \in Nat, h \in T PROVE h + 1 \in T
    <2>1. PICK g : IsFold(Low(h), g)  BY <1>5
    <2>. DEFINE d == [m \in Low(h + 1) |-> B(m, Of(g, m))]
    <2>2. ASSUME NEW m \in Low(h + 1) PROVE Of(d, m) = Of(g, m)
      <3>1. ASSUME NEW i \in DOMAIN m.kids PROVE d[m.kids[i]] = g[m.kids[i]]
        <4>1. m.kids[i] \in Low(h) /\ m.kids[i] \in Low(h + 1)
          BY <1>3, <3>1, <2>2 DEF Closed
        <4>. QED  BY <2>1, <4>1
      <3>. HIDE DEF d
      <3>. QED  BY <3>1
    <2>3. DOMAIN d = Low(h + 1) /\ \A m \in Low(h + 1) : d[m] = B(m, Of(g, m))  OBVIOUS
    <2>. HIDE DEF d, Of, Low
    <2>4. IsFold(Low(h + 1), d)  BY <2>2, <2>3
    <2>. HIDE DEF IsFold
    <2>. QED  BY <2>4
  <1>. HIDE DEF T
  <1>6. Nat \subseteq T  BY <1>4, <1>5, Induction
  <1>7. PICK g : IsFold(Subtrees(n), g)
    <2>1. n.height + 1 \in T  BY <1>3, <1>6
    <2>2. Low(n.height + 1) = Subtrees(n)  BY <1>3
    <2>. HIDE DEF Low, IsFold
    <2>. QED  BY <2>1, <2>2 DEF T
  <1>8. ASSUME NEW k \in DOMAIN n.kids PROVE F(n)[n.kids[k]] = F(n.kids[k])[n.kids[k]]
    <2>. DEFINE x == n.kids[k]
                U == {h \in Nat : \A m \in Subtrees(x) : m.height < h => F(n)[m] = F(x)[m]}
    <2>1. Walks(x) /\ x \in Subtrees(n)  BY <1>3, <1>8, WalksDown DEF Closed
    <2>. HIDE DEF x
    <2>2. /\ Subtrees(x) \subseteq Subtrees(n) /\ x \in Subtrees(x) /\ Closed(Subtrees(x))
      BY <2>1, SubtreesOfChild, SubtreesShaped
    <2>3. IsFold(Subtrees(n), F(n))
      <3>. HIDE DEF IsFold
      <3>. QED  BY <1>2, <1>3, <1>7
    <2>4. IsFold(Subtrees(x), F(x))
      <3>1. \A m \in Subtrees(x) : Of([y \in Subtrees(x) |-> g[y]], m) = Of(g, m)
        BY <2>2 DEF Closed
      <3>. DEFINE e == [m \in Subtrees(x) |-> g[m]]
      <3>2. DOMAIN e = Subtrees(x) /\ \A m \in Subtrees(x) : e[m] = g[m]  OBVIOUS
      <3>3. \A m \in Subtrees(x) : Of(e, m) = Of(g, m)  BY <3>1
      <3>. HIDE DEF e, Of
      <3>4. IsFold(Subtrees(x), e)  BY <1>7, <2>2, <3>2, <3>3
      <3>. HIDE DEF IsFold
      <3>. QED  BY <1>2, <2>2, <3>4
    <2>5. 0 \in U  BY <1>3, <2>2
    <2>6. ASSUME NEW h \in Nat, h \in U PROVE h + 1 \in U
      <3>. SUFFICES ASSUME NEW m \in Subtrees(x), m.height < h + 1 PROVE F(n)[m] = F(x)[m]
        OBVIOUS
      <3>1. ASSUME NEW i \in DOMAIN m.kids PROVE F(n)[m.kids[i]] = F(x)[m.kids[i]]
        <4>1. m.kids[i] \in Subtrees(x) /\ m.kids[i].height < h
          BY <1>3, <2>2, <3>1 DEF Closed
        <4>. QED  BY <2>6, <4>1
      <3>2. Of(F(n), m) = Of(F(x), m)  BY <3>1
      <3>3. F(n)[m] = B(m, Of(F(n), m)) /\ F(x)[m] = B(m, Of(F(x), m))
        <4>. HIDE DEF Of
        <4>. QED  BY <2>2, <2>3, <2>4
      <3>. QED  BY <3>2, <3>3
    <2>. HIDE DEF U
    <2>7. Nat \subseteq U  BY <2>5, <2>6, Induction
    <2>8. F(n)[x] = F(x)[x]
      <3>1. x.height \in Nat  BY <1>3, <2>1
      <3>2. x.height + 1 \in U /\ x.height < x.height + 1  BY <2>7, <3>1
      <3>. QED  BY <2>2, <3>2 DEF U
    <2>. QED  BY <2>8 DEF x
  <1>9. F(n)[n] = B(n, Of(F(n), n))
    <2>1. IsFold(Subtrees(n), F(n))
      <3>. HIDE DEF IsFold
      <3>. QED  BY <1>2, <1>3, <1>7
    <2>. HIDE DEF Of
    <2>. QED  BY <1>3, <2>1
  <1>10. Of(F(n), n) = [i \in DOMAIN n.kids |-> IsString(n.kids[i], env)]  BY <1>1, <1>8
  <1>. QED  BY <1>1, <1>9, <1>10 DEF B

\* codegen_specifier calls itself on the first alternative of a ternary.
LEMMA SpecifierUnfolds ==
  ASSUME NEW n, Walks(n), NEW env
  PROVE  Specifier(n, env) = SpecifierRule(n, [i \in DOMAIN n.kids |-> Specifier(n.kids[i], env)], env)
  <1>. DEFINE Of(g, m) == [i \in DOMAIN m.kids |-> g[m.kids[i]]]
              B(m, kid) == SpecifierRule(m, kid, env)
              IsFold(S, g) == DOMAIN g = S /\ \A m \in S : g[m] = B(m, Of(g, m))
              Low(h) == {m \in Subtrees(n) : m.height < h}
              T == {h \in Nat : \E g : IsFold(Low(h), g)}
              F(x) == CHOOSE f : f = [m \in Subtrees(x) |-> B(m, Of(f, m))]
  <1>1. ASSUME NEW x PROVE Specifier(x, env) = F(x)[x]
    BY DEF Specifier, FoldTree
  <1>2. ASSUME NEW x, Closed(Subtrees(x)), NEW g, IsFold(Subtrees(x), g)
        PROVE  IsFold(Subtrees(x), F(x))
    <2>. DEFINE d == [m \in Subtrees(x) |-> g[m]]
    <2>1. \A m \in Subtrees(x) : Of(d, m) = Of(g, m)  BY <1>2 DEF Closed
    <2>2. \A m \in Subtrees(x) : d[m] = g[m]  OBVIOUS
    <2>. HIDE DEF B, Of
    <2>3. d = [m \in Subtrees(x) |-> B(m, Of(d, m))]  BY <1>2, <2>1
    <2>. HIDE DEF d
    <2>4. F(x) = [m \in Subtrees(x) |-> B(m, Of(F(x), m))]  BY <2>3
    <2>. HIDE DEF F
    <2>. QED  BY <2>4
  <1>. HIDE DEF F, B
  <1>3. /\ Closed(Subtrees(n)) /\ n \in Subtrees(n)
        /\ \A m \in Subtrees(n) : m.height \in Nat /\ m.height <= n.height
        /\ \A m \in Subtrees(n) : \A i \in DOMAIN m.kids : m.kids[i].height < m.height
    BY SubtreesShaped DEF Shaped
  <1>4. 0 \in T
    <2>1. Low(0) = {}  BY <1>3
    <2>2. IsFold({}, [m \in {} |-> 0])  OBVIOUS
    <2>. QED  BY <2>1, <2>2
  <1>5. ASSUME NEW h \in Nat, h \in T PROVE h + 1 \in T
    <2>1. PICK g : IsFold(Low(h), g)  BY <1>5
    <2>. DEFINE d == [m \in Low(h + 1) |-> B(m, Of(g, m))]
    <2>2. ASSUME NEW m \in Low(h + 1) PROVE Of(d, m) = Of(g, m)
      <3>1. ASSUME NEW i \in DOMAIN m.kids PROVE d[m.kids[i]] = g[m.kids[i]]
        <4>1. m.kids[i] \in Low(h) /\ m.kids[i] \in Low(h + 1)
          BY <1>3, <3>1, <2>2 DEF Closed
        <4>. QED  BY <2>1, <4>1
      <3>. HIDE DEF d
      <3>. QED  BY <3>1
    <2>3. DOMAIN d = Low(h + 1) /\ \A m \in Low(h + 1) : d[m] = B(m, Of(g, m))  OBVIOUS
    <2>. HIDE DEF d, Of, Low
    <2>4. IsFold(Low(h + 1), d)  BY <2>2, <2>3
    <2>. HIDE DEF IsFold
    <2>. QED  BY <2>4
  <1>. HIDE DEF T
  <1>6. Nat \subseteq T  BY <1>4, <1>5, Induction
  <1>7. PICK g : IsFold(Subtrees(n), g)
    <2>1. n.height + 1 \in T  BY <1>3, <1>6
    <2>2. Low(n.height + 1) = Subtrees(n)  BY <1>3
    <2>. HIDE DEF Low, IsFold
    <2>. QED  BY <2>1, <2>2 DEF T
  <1>8. ASSUME NEW k \in DOMAIN n.kids PROVE F(n)[n.kids[k]] = F(n.kids[k])[n.kids[k]]
    <2>. DEFINE x == n.kids[k]
                U == {h \in Nat : \A m \in Subtrees(x) : m.height < h => F(n)[m] = F(x)[m]}
    <2>1. Walks(x) /\ x \in Subtrees(n)  BY <1>3, <1>8, WalksDown DEF Closed
    <2>. HIDE DEF x
    <2>2. /\ Subtrees(x) \subseteq Subtrees(n) /\ x \in Subtrees(x) /\ Closed(Subtrees(x))
      BY <2>1, SubtreesOfChild, SubtreesShaped
    <2>3. IsFold(Subtrees(n), F(n))
      <3>. HIDE DEF IsFold
      <3>. QED  BY <1>2, <1>3, <1>7
    <2>4. IsFold(Subtrees(x), F(x))
      <3>1. \A m \in Subtrees(x) : Of([y \in Subtrees(x) |-> g[y]], m) = Of(g, m)
        BY <2>2 DEF Closed
      <3>. DEFINE e == [m \in Subtrees(x) |-> g[m]]
      <3>2. DOMAIN e = Subtrees(x) /\ \A m \in Subtrees(x) : e[m] = g[m]  OBVIOUS
      <3>3. \A m \in Subtrees(x) : Of(e, m) = Of(g, m)  BY <3>1
      <3>. HIDE DEF e, Of
      <3>4. IsFold(Subtrees(x), e)  BY <1>7, <2>2, <3>2, <3>3
      <3>. HIDE DEF IsFold
      <3>. QED  BY <1>2, <2>2, <3>4
    <2>5. 0 \in U  BY <1>3, <2>2
    <2>6. ASSUME NEW h \in Nat, h \in U PROVE h + 1 \in U
      <3>. SUFFICES ASSUME NEW m \in Subtrees(x), m.height < h + 1 PROVE F(n)[m] = F(x)[m]
        OBVIOUS
      <3>1. ASSUME NEW i \in DOMAIN m.kids PROVE F(n)[m.kids[i]] = F(x)[m.kids[i]]
        <4>1. m.kids[i] \in Subtrees(x) /\ m.kids[i].height < h
          BY <1>3, <2>2, <3>1 DEF Closed
        <4>. QED  BY <2>6, <4>1
      <3>2. Of(F(n), m) = Of(F(x), m)  BY <3>1
      <3>3. F(n)[m] = B(m, Of(F(n), m)) /\ F(x)[m] = B(m, Of(F(x), m))
        <4>. HIDE DEF Of
        <4>. QED  BY <2>2, <2>3, <2>4
      <3>. QED  BY <3>2, <3>3
    <2>. HIDE DEF U
    <2>7. Nat \subseteq U  BY <2>5, <2>6, Induction
    <2>8. F(n)[x] = F(x)[x]
      <3>1. x.height \in Nat  BY <1>3, <2>1
      <3>2. x.height + 1 \in U /\ x.height < x.height + 1  BY <2>7, <3>1
      <3>. QED  BY <2>2, <3>2 DEF U
    <2>. QED  BY <2>8 DEF x
  <1>9. F(n)[n] = B(n, Of(F(n), n))
    <2>1. IsFold(Subtrees(n), F(n))
      <3>. HIDE DEF IsFold
      <3>. QED  BY <1>2, <1>3, <1>7
    <2>. HIDE DEF Of
    <2>. QED  BY <1>3, <2>1
  <1>10. Of(F(n), n) = [i \in DOMAIN n.kids |-> Specifier(n.kids[i], env)]  BY <1>1, <1>8
  <1>. QED  BY <1>1, <1>9, <1>10 DEF B

\* The type in C of an expression is found from those of its operands.
LEMMA CValueUnfolds ==
  ASSUME NEW n, Walks(n), NEW env
  PROVE  CValue(n, env) = ValueRule(n, [i \in DOMAIN n.kids |-> CValue(n.kids[i], env)], env)
  <1>. DEFINE Of(g, m) == [i \in DOMAIN m.kids |-> g[m.kids[i]]]
              B(m, kid) == ValueRule(m, kid, env)
              IsFold(S, g) == DOMAIN g = S /\ \A m \in S : g[m] = B(m, Of(g, m))
              Low(h) == {m \in Subtrees(n) : m.height < h}
              T == {h \in Nat : \E g : IsFold(Low(h), g)}
              F(x) == CHOOSE f : f = [m \in Subtrees(x) |-> B(m, Of(f, m))]
  <1>1. ASSUME NEW x PROVE CValue(x, env) = F(x)[x]
    BY DEF CValue, FoldTree
  <1>2. ASSUME NEW x, Closed(Subtrees(x)), NEW g, IsFold(Subtrees(x), g)
        PROVE  IsFold(Subtrees(x), F(x))
    <2>. DEFINE d == [m \in Subtrees(x) |-> g[m]]
    <2>1. \A m \in Subtrees(x) : Of(d, m) = Of(g, m)  BY <1>2 DEF Closed
    <2>2. \A m \in Subtrees(x) : d[m] = g[m]  OBVIOUS
    <2>. HIDE DEF B, Of
    <2>3. d = [m \in Subtrees(x) |-> B(m, Of(d, m))]  BY <1>2, <2>1
    <2>. HIDE DEF d
    <2>4. F(x) = [m \in Subtrees(x) |-> B(m, Of(F(x), m))]  BY <2>3
    <2>. HIDE DEF F
    <2>. QED  BY <2>4
  <1>. HIDE DEF F, B
  <1>3. /\ Closed(Subtrees(n)) /\ n \in Subtrees(n)
        /\ \A m \in Subtrees(n) : m.height \in Nat /\ m.height <= n.height
        /\ \A m \in Subtrees(n) : \A i \in DOMAIN m.kids : m.kids[i].height < m.height
    BY SubtreesShaped DEF Shaped
  <1>4. 0 \in T
    <2>1. Low(0) = {}  BY <1>3
    <2>2. IsFold({}, [m \in {} |-> 0])  OBVIOUS
    <2>. QED  BY <2>1, <2>2
  <1>5. ASSUME NEW h \in Nat, h \in T PROVE h + 1 \in T
    <2>1. PICK g : IsFold(Low(h), g)  BY <1>5
    <2>. DEFINE d == [m \in Low(h + 1) |-> B(m, Of(g, m))]
    <2>2. ASSUME NEW m \in Low(h + 1) PROVE Of(d, m) = Of(g, m)
      <3>1. ASSUME NEW i \in DOMAIN m.kids PROVE d[m.kids[i]] = g[m.kids[i]]
        <4>1. m.kids[i] \in Low(h) /\ m.kids[i] \in Low(h + 1)
          BY <1>3, <3>1, <2>2 DEF Closed
        <4>. QED  BY <2>1, <4>1
      <3>. HIDE DEF d
      <3>. QED  BY <3>1
    <2>3. DOMAIN d = Low(h + 1) /\ \A m \in Low(h + 1) : d[m] = B(m, Of(g, m))  OBVIOUS
    <2>. HIDE DEF d, Of, Low
    <2>4. IsFold(Low(h + 1), d)  BY <2>2, <2>3
    <2>. HIDE DEF IsFold
    <2>. QED  BY <2>4
  <1>. HIDE DEF T
  <1>6. Nat \subseteq T  BY <1>4, <1>5, Induction
  <1>7. PICK g : IsFold(Subtrees(n), g)
    <2>1. n.height + 1 \in T  BY <1>3, <1>6
    <2>2. Low(n.height + 1) = Subtrees(n)  BY <1>3
    <2>. HIDE DEF Low, IsFold
    <2>. QED  BY <2>1, <2>2 DEF T
  <1>8. ASSUME NEW k \in DOMAIN n.kids PROVE F(n)[n.kids[k]] = F(n.kids[k])[n.kids[k]]
    <2>. DEFINE x == n.kids[k]
                U == {h \in Nat : \A m \in Subtrees(x) : m.height < h => F(n)[m] = F(x)[m]}
    <2>1. Walks(x) /\ x \in Subtrees(n)  BY <1>3, <1>8, WalksDown DEF Closed
    <2>. HIDE DEF x
    <2>2. /\ Subtrees(x) \subseteq Subtrees(n) /\ x \in Subtrees(x) /\ Closed(Subtrees(x))
      BY <2>1, SubtreesOfChild, SubtreesShaped
    <2>3. IsFold(Subtrees(n), F(n))
      <3>. HIDE DEF IsFold
      <3>. QED  BY <1>2, <1>3, <1>7
    <2>4. IsFold(Subtrees(x), F(x))
      <3>1. \A m \in Subtrees(x) : Of([y \in Subtrees(x) |-> g[y]], m) = Of(g, m)
        BY <2>2 DEF Closed
      <3>. DEFINE e == [m \in Subtrees(x) |-> g[m]]
      <3>2. DOMAIN e = Subtrees(x) /\ \A m \in Subtrees(x) : e[m] = g[m]  OBVIOUS
      <3>3. \A m \in Subtrees(x) : Of(e, m) = Of(g, m)  BY <3>1
      <3>. HIDE DEF e, Of
      <3>4. IsFold(Subtrees(x), e)  BY <1>7, <2>2, <3>2, <3>3
      <3>. HIDE DEF IsFold
      <3>. QED  BY <1>2, <2>2, <3>4
    <2>5. 0 \in U  BY <1>3, <2>2
    <2>6. ASSUME NEW h \in Nat, h \in U PROVE h + 1 \in U
      <3>. SUFFICES ASSUME NEW m \in Subtrees(x), m.height < h + 1 PROVE F(n)[m] = F(x)[m]
        OBVIOUS
      <3>1. ASSUME NEW i \in DOMAIN m.kids PROVE F(n)[m.kids[i]] = F(x)[m.kids[i]]
        <4>1. m.kids[i] \in Subtrees(x) /\ m.kids[i].height < h
          BY <1>3, <2>2, <3>1 DEF Closed
        <4>. QED  BY <2>6, <4>1
      <3>2. Of(F(n), m) = Of(F(x), m)  BY <3>1
      <3>3. F(n)[m] = B(m, Of(F(n), m)) /\ F(x)[m] = B(m, Of(F(x), m))
        <4>. HIDE DEF Of
        <4>. QED  BY <2>2, <2>3, <2>4
      <3>. QED  BY <3>2, <3>3
    <2>. HIDE DEF U
    <2>7. Nat \subseteq U  BY <2>5, <2>6, Induction
    <2>8. F(n)[x] = F(x)[x]
      <3>1. x.height \in Nat  BY <1>3, <2>1
      <3>2. x.height + 1 \in U /\ x.height < x.height + 1  BY <2>7, <3>1
      <3>. QED  BY <2>2, <3>2 DEF U
    <2>. QED  BY <2>8 DEF x
  <1>9. F(n)[n] = B(n, Of(F(n), n))
    <2>1. IsFold(Subtrees(n), F(n))
      <3>. HIDE DEF IsFold
      <3>. QED  BY <1>2, <1>3, <1>7
    <2>. HIDE DEF Of
    <2>. QED  BY <1>3, <2>1
  <1>10. Of(F(n), n) = [i \in DOMAIN n.kids |-> CValue(n.kids[i], env)]  BY <1>1, <1>8
  <1>. QED  BY <1>1, <1>9, <1>10 DEF B

\* Whether there is a format for an expression, from its alternatives.
LEMMA RegularUnfolds ==
  ASSUME NEW n, Walks(n), NEW env
  PROVE  Regular(n, env) = RegularRule(n, [i \in DOMAIN n.kids |-> Regular(n.kids[i], env)], env)
  <1>. DEFINE Of(g, m) == [i \in DOMAIN m.kids |-> g[m.kids[i]]]
              B(m, kid) == RegularRule(m, kid, env)
              IsFold(S, g) == DOMAIN g = S /\ \A m \in S : g[m] = B(m, Of(g, m))
              Low(h) == {m \in Subtrees(n) : m.height < h}
              T == {h \in Nat : \E g : IsFold(Low(h), g)}
              F(x) == CHOOSE f : f = [m \in Subtrees(x) |-> B(m, Of(f, m))]
  <1>1. ASSUME NEW x PROVE Regular(x, env) = F(x)[x]
    BY DEF Regular, FoldTree
  <1>2. ASSUME NEW x, Closed(Subtrees(x)), NEW g, IsFold(Subtrees(x), g)
        PROVE  IsFold(Subtrees(x), F(x))
    <2>. DEFINE d == [m \in Subtrees(x) |-> g[m]]
    <2>1. \A m \in Subtrees(x) : Of(d, m) = Of(g, m)  BY <1>2 DEF Closed
    <2>2. \A m \in Subtrees(x) : d[m] = g[m]  OBVIOUS
    <2>. HIDE DEF B, Of
    <2>3. d = [m \in Subtrees(x) |-> B(m, Of(d, m))]  BY <1>2, <2>1
    <2>. HIDE DEF d
    <2>4. F(x) = [m \in Subtrees(x) |-> B(m, Of(F(x), m))]  BY <2>3
    <2>. HIDE DEF F
    <2>. QED  BY <2>4
  <1>. HIDE DEF F, B
  <1>3. /\ Closed(Subtrees(n)) /\ n \in Subtrees(n)
        /\ \A m \in Subtrees(n) : m.height \in Nat /\ m.height <= n.height
        /\ \A m \in Subtrees(n) : \A i \in DOMAIN m.kids : m.kids[i].height < m.height
    BY SubtreesShaped DEF Shaped
  <1>4. 0 \in T
    <2>1. Low(0) = {}  BY <1>3
    <2>2. IsFold({}, [m \in {} |-> 0])  OBVIOUS
    <2>. QED  BY <2>1, <2>2
  <1>5. ASSUME NEW h \in Nat, h \in T PROVE h + 1 \in T
    <2>1. PICK g : IsFold(Low(h), g)  BY <1>5
    <2>. DEFINE d == [m \in Low(h + 1) |-> B(m, Of(g, m))]
    <2>2. ASSUME NEW m \in Low(h + 1) PROVE Of(d, m) = Of(g, m)
      <3>1. ASSUME NEW i \in DOMAIN m.kids PROVE d[m.kids[i]] = g[m.kids[i]]
        <4>1. m.kids[i] \in Low(h) /\ m.kids[i] \in Low(h + 1)
          BY <1>3, <3>1, <2>2 DEF Closed
        <4>. QED  BY <2>1, <4>1
      <3>. HIDE DEF d
      <3>. QED  BY <3>1
    <2>3. DOMAIN d = Low(h + 1) /\ \A m \in Low(h + 1) : d[m] = B(m, Of(g, m))  OBVIOUS
    <2>. HIDE DEF d, Of, Low
    <2>4. IsFold(Low(h + 1), d)  BY <2>2, <2>3
    <2>. HIDE DEF IsFold
    <2>. QED  BY <2>4
  <1>. HIDE DEF T
  <1>6. Nat \subseteq T  BY <1>4, <1>5, Induction
  <1>7. PICK g : IsFold(Subtrees(n), g)
    <2>1. n.height + 1 \in T  BY <1>3, <1>6
    <2>2. Low(n.height + 1) = Subtrees(n)  BY <1>3
    <2>. HIDE DEF Low, IsFold
    <2>. QED  BY <2>1, <2>2 DEF T
  <1>8. ASSUME NEW k \in DOMAIN n.kids PROVE F(n)[n.kids[k]] = F(n.kids[k])[n.kids[k]]
    <2>. DEFINE x == n.kids[k]
                U == {h \in Nat : \A m \in Subtrees(x) : m.height < h => F(n)[m] = F(x)[m]}
    <2>1. Walks(x) /\ x \in Subtrees(n)  BY <1>3, <1>8, WalksDown DEF Closed
    <2>. HIDE DEF x
    <2>2. /\ Subtrees(x) \subseteq Subtrees(n) /\ x \in Subtrees(x) /\ Closed(Subtrees(x))
      BY <2>1, SubtreesOfChild, SubtreesShaped
    <2>3. IsFold(Subtrees(n), F(n))
      <3>. HIDE DEF IsFold
      <3>. QED  BY <1>2, <1>3, <1>7
    <2>4. IsFold(Subtrees(x), F(x))
      <3>1. \A m \in Subtrees(x) : Of([y \in Subtrees(x) |-> g[y]], m) = Of(g, m)
        BY <2>2 DEF Closed
      <3>. DEFINE e == [m \in Subtrees(x) |-> g[m]]
      <3>2. DOMAIN e = Subtrees(x) /\ \A m \in Subtrees(x) : e[m] = g[m]  OBVIOUS
      <3>3. \A m \in Subtrees(x) : Of(e, m) = Of(g, m)  BY <3>1
      <3>. HIDE DEF e, Of
      <3>4. IsFold(Subtrees(x), e)  BY <1>7, <2>2, <3>2, <3>3
      <3>. HIDE DEF IsFold
      <3>. QED  BY <1>2, <2>2, <3>4
    <2>5. 0 \in U  BY <1>3, <2>2
    <2>6. ASSUME NEW h \in Nat, h \in U PROVE h + 1 \in U
      <3>. SUFFICES ASSUME NEW m \in Subtrees(x), m.height < h + 1 PROVE F(n)[m] = F(x)[m]
        OBVIOUS
      <3>1. ASSUME NEW i \in DOMAIN m.kids PROVE F(n)[m.kids[i]] = F(x)[m.kids[i]]
        <4>1. m.kids[i] \in Subtrees(x) /\ m.kids[i].height < h
          BY <1>3, <2>2, <3>1 DEF Closed
        <4>. QED  BY <2>6, <4>1
      <3>2. Of(F(n), m) = Of(F(x), m)  BY <3>1
      <3>3. F(n)[m] = B(m, Of(F(n), m)) /\ F(x)[m] = B(m, Of(F(x), m))
        <4>. HIDE DEF Of
        <4>. QED  BY <2>2, <2>3, <2>4
      <3>. QED  BY <3>2, <3>3
    <2>. HIDE DEF U
    <2>7. Nat \subseteq U  BY <2>5, <2>6, Induction
    <2>8. F(n)[x] = F(x)[x]
      <3>1. x.height \in Nat  BY <1>3, <2>1
      <3>2. x.height + 1 \in U /\ x.height < x.height + 1  BY <2>7, <3>1
      <3>. QED  BY <2>2, <3>2 DEF U
    <2>. QED  BY <2>8 DEF x
  <1>9. F(n)[n] = B(n, Of(F(n), n))
    <2>1. IsFold(Subtrees(n), F(n))
      <3>. HIDE DEF IsFold
      <3>. QED  BY <1>2, <1>3, <1>7
    <2>. HIDE DEF Of
    <2>. QED  BY <1>3, <2>1
  <1>10. Of(F(n), n) = [i \in DOMAIN n.kids |-> Regular(n.kids[i], env)]  BY <1>1, <1>8
  <1>. QED  BY <1>1, <1>9, <1>10 DEF B

\* sem_analyze_node calls itself on the children of a node.
LEMMA AcceptedUnfolds ==
  ASSUME NEW n, Walks(n), NEW env
  PROVE  Accepted(n, env) = AcceptRule(n, [i \in DOMAIN n.kids |-> Accepted(n.kids[i], env)], env)
  <1>. DEFINE Of(g, m) == [i \in DOMAIN m.kids |-> g[m.kids[i]]]
              B(m, kid) == AcceptRule(m, kid, env)
              IsFold(S, g) == DOMAIN g = S /\ \A m \in S : g[m] = B(m, Of(g, m))
              Low(h) == {m \in Subtrees(n) : m.height < h}
              T == {h \in Nat : \E g : IsFold(Low(h), g)}
              F(x) == CHOOSE f : f = [m \in Subtrees(x) |-> B(m, Of(f, m))]
  <1>1. ASSUME NEW x PROVE Accepted(x, env) = F(x)[x]
    BY DEF Accepted, FoldTree
  <1>2. ASSUME NEW x, Closed(Subtrees(x)), NEW g, IsFold(Subtrees(x), g)
        PROVE  IsFold(Subtrees(x), F(x))
    <2>. DEFINE d == [m \in Subtrees(x) |-> g[m]]
    <2>1. \A m \in Subtrees(x) : Of(d, m) = Of(g, m)  BY <1>2 DEF Closed
    <2>2. \A m \in Subtrees(x) : d[m] = g[m]  OBVIOUS
    <2>. HIDE DEF B, Of
    <2>3. d = [m \in Subtrees(x) |-> B(m, Of(d, m))]  BY <1>2, <2>1
    <2>. HIDE DEF d
    <2>4. F(x) = [m \in Subtrees(x) |-> B(m, Of(F(x), m))]  BY <2>3
    <2>. HIDE DEF F
    <2>. QED  BY <2>4
  <1>. HIDE DEF F, B
  <1>3. /\ Closed(Subtrees(n)) /\ n \in Subtrees(n)
        /\ \A m \in Subtrees(n) : m.height \in Nat /\ m.height <= n.height
        /\ \A m \in Subtrees(n) : \A i \in DOMAIN m.kids : m.kids[i].height < m.height
    BY SubtreesShaped DEF Shaped
  <1>4. 0 \in T
    <2>1. Low(0) = {}  BY <1>3
    <2>2. IsFold({}, [m \in {} |-> 0])  OBVIOUS
    <2>. QED  BY <2>1, <2>2
  <1>5. ASSUME NEW h \in Nat, h \in T PROVE h + 1 \in T
    <2>1. PICK g : IsFold(Low(h), g)  BY <1>5
    <2>. DEFINE d == [m \in Low(h + 1) |-> B(m, Of(g, m))]
    <2>2. ASSUME NEW m \in Low(h + 1) PROVE Of(d, m) = Of(g, m)
      <3>1. ASSUME NEW i \in DOMAIN m.kids PROVE d[m.kids[i]] = g[m.kids[i]]
        <4>1. m.kids[i] \in Low(h) /\ m.kids[i] \in Low(h + 1)
          BY <1>3, <3>1, <2>2 DEF Closed
        <4>. QED  BY <2>1, <4>1
      <3>. HIDE DEF d
      <3>. QED  BY <3>1
    <2>3. DOMAIN d = Low(h + 1) /\ \A m \in Low(h + 1) : d[m] = B(m, Of(g, m))  OBVIOUS
    <2>. HIDE DEF d, Of, Low
    <2>4. IsFold(Low(h + 1), d)  BY <2>2, <2>3
    <2>. HIDE DEF IsFold
    <2>. QED  BY <2>4
  <1>. HIDE DEF T
  <1>6. Nat \subseteq T  BY <1>4, <1>5, Induction
  <1>7. PICK g : IsFold(Subtrees(n), g)
    <2>1. n.height + 1 \in T  BY <1>3, <1>6
    <2>2. Low(n.height + 1) = Subtrees(n)  BY <1>3
    <2>. HIDE DEF Low, IsFold
    <2>. QED  BY <2>1, <2>2 DEF T
  <1>8. ASSUME NEW k \in DOMAIN n.kids PROVE F(n)[n.kids[k]] = F(n.kids[k])[n.kids[k]]
    <2>. DEFINE x == n.kids[k]
                U == {h \in Nat : \A m \in Subtrees(x) : m.height < h => F(n)[m] = F(x)[m]}
    <2>1. Walks(x) /\ x \in Subtrees(n)  BY <1>3, <1>8, WalksDown DEF Closed
    <2>. HIDE DEF x
    <2>2. /\ Subtrees(x) \subseteq Subtrees(n) /\ x \in Subtrees(x) /\ Closed(Subtrees(x))
      BY <2>1, SubtreesOfChild, SubtreesShaped
    <2>3. IsFold(Subtrees(n), F(n))
      <3>. HIDE DEF IsFold
      <3>. QED  BY <1>2, <1>3, <1>7
    <2>4. IsFold(Subtrees(x), F(x))
      <3>1. \A m \in Subtrees(x) : Of([y \in Subtrees(x) |-> g[y]], m) = Of(g, m)
        BY <2>2 DEF Closed
      <3>. DEFINE e == [m \in Subtrees(x) |-> g[m]]
      <3>2. DOMAIN e = Subtrees(x) /\ \A m \in Subtrees(x) : e[m] = g[m]  OBVIOUS
      <3>3. \A m \in Subtrees(x) : Of(e, m) = Of(g, m)  BY <3>1
      <3>. HIDE DEF e, Of
      <3>4. IsFold(Subtrees(x), e)  BY <1>7, <2>2, <3>2, <3>3
      <3>. HIDE DEF IsFold
      <3>. QED  BY <1>2, <2>2, <3>4
    <2>5. 0 \in U  BY <1>3, <2>2
    <2>6. ASSUME NEW h \in Nat, h \in U PROVE h + 1 \in U
      <3>. SUFFICES ASSUME NEW m \in Subtrees(x), m.height < h + 1 PROVE F(n)[m] = F(x)[m]
        OBVIOUS
      <3>1. ASSUME NEW i \in DOMAIN m.kids PROVE F(n)[m.kids[i]] = F(x)[m.kids[i]]
        <4>1. m.kids[i] \in Subtrees(x) /\ m.kids[i].height < h
          BY <1>3, <2>2, <3>1 DEF Closed
        <4>. QED  BY <2>6, <4>1
      <3>2. Of(F(n), m) = Of(F(x), m)  BY <3>1
      <3>3. F(n)[m] = B(m, Of(F(n), m)) /\ F(x)[m] = B(m, Of(F(x), m))
        <4>. HIDE DEF Of
        <4>. QED  BY <2>2, <2>3, <2>4
      <3>. QED  BY <3>2, <3>3
    <2>. HIDE DEF U
    <2>7. Nat \subseteq U  BY <2>5, <2>6, Induction
    <2>8. F(n)[x] = F(x)[x]
      <3>1. x.height \in Nat  BY <1>3, <2>1
      <3>2. x.height + 1 \in U /\ x.height < x.height + 1  BY <2>7, <3>1
      <3>. QED  BY <2>2, <3>2 DEF U
    <2>. QED  BY <2>8 DEF x
  <1>9. F(n)[n] = B(n, Of(F(n), n))
    <2>1. IsFold(Subtrees(n), F(n))
      <3>. HIDE DEF IsFold
      <3>. QED  BY <1>2, <1>3, <1>7
    <2>. HIDE DEF Of
    <2>. QED  BY <1>3, <2>1
  <1>10. Of(F(n), n) = [i \in DOMAIN n.kids |-> Accepted(n.kids[i], env)]  BY <1>1, <1>8
  <1>. QED  BY <1>1, <1>9, <1>10 DEF B

\* So do codegen_node and codegen_for_param.
LEMMA WrittenUnfolds ==
  ASSUME NEW n, Walks(n), NEW env
  PROVE  Written(n, env) = WrittenRule(n, [i \in DOMAIN n.kids |-> Written(n.kids[i], env)], env)
  <1>. DEFINE Of(g, m) == [i \in DOMAIN m.kids |-> g[m.kids[i]]]
              B(m, kid) == WrittenRule(m, kid, env)
              IsFold(S, g) == DOMAIN g = S /\ \A m \in S : g[m] = B(m, Of(g, m))
              Low(h) == {m \in Subtrees(n) : m.height < h}
              T == {h \in Nat : \E g : IsFold(Low(h), g)}
              F(x) == CHOOSE f : f = [m \in Subtrees(x) |-> B(m, Of(f, m))]
  <1>1. ASSUME NEW x PROVE Written(x, env) = F(x)[x]
    BY DEF Written, FoldTree
  <1>2. ASSUME NEW x, Closed(Subtrees(x)), NEW g, IsFold(Subtrees(x), g)
        PROVE  IsFold(Subtrees(x), F(x))
    <2>. DEFINE d == [m \in Subtrees(x) |-> g[m]]
    <2>1. \A m \in Subtrees(x) : Of(d, m) = Of(g, m)  BY <1>2 DEF Closed
    <2>2. \A m \in Subtrees(x) : d[m] = g[m]  OBVIOUS
    <2>. HIDE DEF B, Of
    <2>3. d = [m \in Subtrees(x) |-> B(m, Of(d, m))]  BY <1>2, <2>1
    <2>. HIDE DEF d
    <2>4. F(x) = [m \in Subtrees(x) |-> B(m, Of(F(x), m))]  BY <2>3
    <2>. HIDE DEF F
    <2>. QED  BY <2>4
  <1>. HIDE DEF F, B
  <1>3. /\ Closed(Subtrees(n)) /\ n \in Subtrees(n)
        /\ \A m \in Subtrees(n) : m.height \in Nat /\ m.height <= n.height
        /\ \A m \in Subtrees(n) : \A i \in DOMAIN m.kids : m.kids[i].height < m.height
    BY SubtreesShaped DEF Shaped
  <1>4. 0 \in T
    <2>1. Low(0) = {}  BY <1>3
    <2>2. IsFold({}, [m \in {} |-> 0])  OBVIOUS
    <2>. QED  BY <2>1, <2>2
  <1>5. ASSUME NEW h \in Nat, h \in T PROVE h + 1 \in T
    <2>1. PICK g : IsFold(Low(h), g)  BY <1>5
    <2>. DEFINE d == [m \in Low(h + 1) |-> B(m, Of(g, m))]
    <2>2. ASSUME NEW m \in Low(h + 1) PROVE Of(d, m) = Of(g, m)
      <3>1. ASSUME NEW i \in DOMAIN m.kids PROVE d[m.kids[i]] = g[m.kids[i]]
        <4>1. m.kids[i] \in Low(h) /\ m.kids[i] \in Low(h + 1)
          BY <1>3, <3>1, <2>2 DEF Closed
        <4>. QED  BY <2>1, <4>1
      <3>. HIDE DEF d
      <3>. QED  BY <3>1
    <2>3. DOMAIN d = Low(h + 1) /\ \A m \in Low(h + 1) : d[m] = B(m, Of(g, m))  OBVIOUS
    <2>. HIDE DEF d, Of, Low
    <2>4. IsFold(Low(h + 1), d)  BY <2>2, <2>3
    <2>. HIDE DEF IsFold
    <2>. QED  BY <2>4
  <1>. HIDE DEF T
  <1>6. Nat \subseteq T  BY <1>4, <1>5, Induction
  <1>7. PICK g : IsFold(Subtrees(n), g)
    <2>1. n.height + 1 \in T  BY <1>3, <1>6
    <2>2. Low(n.height + 1) = Subtrees(n)  BY <1>3
    <2>. HIDE DEF Low, IsFold
    <2>. QED  BY <2>1, <2>2 DEF T
  <1>8. ASSUME NEW k \in DOMAIN n.kids PROVE F(n)[n.kids[k]] = F(n.kids[k])[n.kids[k]]
    <2>. DEFINE x == n.kids[k]
                U == {h \in Nat : \A m \in Subtrees(x) : m.height < h => F(n)[m] = F(x)[m]}
    <2>1. Walks(x) /\ x \in Subtrees(n)  BY <1>3, <1>8, WalksDown DEF Closed
    <2>. HIDE DEF x
    <2>2. /\ Subtrees(x) \subseteq Subtrees(n) /\ x \in Subtrees(x) /\ Closed(Subtrees(x))
      BY <2>1, SubtreesOfChild, SubtreesShaped
    <2>3. IsFold(Subtrees(n), F(n))
      <3>. HIDE DEF IsFold
      <3>. QED  BY <1>2, <1>3, <1>7
    <2>4. IsFold(Subtrees(x), F(x))
      <3>1. \A m \in Subtrees(x) : Of([y \in Subtrees(x) |-> g[y]], m) = Of(g, m)
        BY <2>2 DEF Closed
      <3>. DEFINE e == [m \in Subtrees(x) |-> g[m]]
      <3>2. DOMAIN e = Subtrees(x) /\ \A m \in Subtrees(x) : e[m] = g[m]  OBVIOUS
      <3>3. \A m \in Subtrees(x) : Of(e, m) = Of(g, m)  BY <3>1
      <3>. HIDE DEF e, Of
      <3>4. IsFold(Subtrees(x), e)  BY <1>7, <2>2, <3>2, <3>3
      <3>. HIDE DEF IsFold
      <3>. QED  BY <1>2, <2>2, <3>4
    <2>5. 0 \in U  BY <1>3, <2>2
    <2>6. ASSUME NEW h \in Nat, h \in U PROVE h + 1 \in U
      <3>. SUFFICES ASSUME NEW m \in Subtrees(x), m.height < h + 1 PROVE F(n)[m] = F(x)[m]
        OBVIOUS
      <3>1. ASSUME NEW i \in DOMAIN m.kids PROVE F(n)[m.kids[i]] = F(x)[m.kids[i]]
        <4>1. m.kids[i] \in Subtrees(x) /\ m.kids[i].height < h
          BY <1>3, <2>2, <3>1 DEF Closed
        <4>. QED  BY <2>6, <4>1
      <3>2. Of(F(n), m) = Of(F(x), m)  BY <3>1
      <3>3. F(n)[m] = B(m, Of(F(n), m)) /\ F(x)[m] = B(m, Of(F(x), m))
        <4>. HIDE DEF Of
        <4>. QED  BY <2>2, <2>3, <2>4
      <3>. QED  BY <3>2, <3>3
    <2>. HIDE DEF U
    <2>7. Nat \subseteq U  BY <2>5, <2>6, Induction
    <2>8. F(n)[x] = F(x)[x]
      <3>1. x.height \in Nat  BY <1>3, <2>1
      <3>2. x.height + 1 \in U /\ x.height < x.height + 1  BY <2>7, <3>1
      <3>. QED  BY <2>2, <3>2 DEF U
    <2>. QED  BY <2>8 DEF x
  <1>9. F(n)[n] = B(n, Of(F(n), n))
    <2>1. IsFold(Subtrees(n), F(n))
      <3>. HIDE DEF IsFold
      <3>. QED  BY <1>2, <1>3, <1>7
    <2>. HIDE DEF Of
    <2>. QED  BY <1>3, <2>1
  <1>10. Of(F(n), n) = [i \in DOMAIN n.kids |-> Written(n.kids[i], env)]  BY <1>1, <1>8
  <1>. QED  BY <1>1, <1>9, <1>10 DEF B

-----------------------------------------------------------------------------
\* Reading a sequence of symbols: where a reader of C stands behind a symbol.
\* It is in so many parentheses and braces, and expects so many semicolons
\* (due) for the loop headers it has read.
Readers == [parens : Nat, braces : Nat, due : Int]
ReaderAt(p, b, d) == [parens |-> p, braces |-> b, due |-> d]
Read(x, m) ==
  ReaderAt(IF m = LParen THEN x.parens + 1 ELSE IF m = RParen THEN x.parens - 1 ELSE x.parens,
           IF m = LBrace THEN x.braces + 1 ELSE IF m = RBrace THEN x.braces - 1 ELSE x.braces,
           IF m = For THEN x.due + 2
           ELSE IF m = Semicolon /\ x.parens > 0 THEN x.due - 1 ELSE x.due)
Allows(x, m) == /\ m = RParen => x.parens > 0
                /\ m \in {LBrace, RBrace} => x.parens = 0
                /\ m = RBrace => x.braces > 0

\* The code leads from x to y, through the places t[0], t[1] and so on.
Along(code, t) ==
  \A i \in 1 .. Len(code) : Allows(t[i - 1], code[i]) /\ t[i] = Read(t[i - 1], code[i])
Takes(code, x, y) == \E t : t[0] = x /\ t[Len(code)] = y /\ Along(code, t)

\* No symbol is two marks, and text is none.
LEMMA MarksDiffer ==
  /\ LParen \notin {RParen, LBrace, RBrace, Semicolon, For}
  /\ RParen \notin {LParen, LBrace, RBrace, Semicolon, For}
  /\ LBrace \notin {LParen, RParen, RBrace, Semicolon, For}
  /\ RBrace \notin {LParen, RParen, LBrace, Semicolon, For}
  /\ Semicolon \notin {LParen, RParen, LBrace, RBrace, For}
  /\ For \notin {LParen, RParen, LBrace, RBrace, Semicolon}
  /\ Mark("comma") \notin {LParen, RParen, LBrace, RBrace, Semicolon, For}
  /\ \A w : Text(w) \notin {LParen, RParen, LBrace, RBrace, Semicolon, For}
  BY DEF LParen, RParen, LBrace, RBrace, Semicolon, For, Mark, Text

\* The fields of a place, and places of given fields.
LEMMA ReaderFields ==
  /\ \A p, b, d : /\ ReaderAt(p, b, d).parens = p /\ ReaderAt(p, b, d).braces = b
                  /\ ReaderAt(p, b, d).due = d
  /\ \A p, b \in Nat, d \in Int : ReaderAt(p, b, d) \in Readers
  /\ \A x \in Readers : /\ x = ReaderAt(x.parens, x.braces, x.due)
                          /\ x.parens \in Nat /\ x.braces \in Nat /\ x.due \in Int
  BY DEF ReaderAt, Readers

\* Two codes in a row lead where the second leads from the end of the first.
LEMMA TakesJoin ==
  ASSUME NEW a, IsSequence(a), NEW b, IsSequence(b), NEW x, NEW y, NEW z,
         Takes(a, x, y), Takes(b, y, z)
  PROVE  Takes(a \o b, x, z)
  <1>1. PICK t : t[0] = x /\ t[Len(a)] = y /\ Along(a, t)  BY DEF Takes
  <1>2. PICK u : u[0] = y /\ u[Len(b)] = z /\ Along(b, u)  BY DEF Takes
  <1>. PICK c : c = a \o b  OBVIOUS
  <1>3. /\ Len(c) = Len(a) + Len(b) /\ Len(a) \in Nat /\ Len(b) \in Nat
        /\ \A i \in 1 .. Len(a) : c[i] = a[i]
        /\ \A i \in 1 .. Len(b) : c[Len(a) + i] = b[i]
    BY ConcatLength
  <1>. DEFINE v == [i \in 0 .. Len(a) + Len(b) |-> IF i <= Len(a) THEN t[i] ELSE u[i - Len(a)]]
  <1>4. \A i \in 0 .. Len(a) : v[i] = t[i]  BY <1>3
  <1>5. \A i \in 0 .. Len(b) : v[Len(a) + i] = u[i]
    <2>. TAKE i \in 0 .. Len(b)
    <2>1. CASE i = 0  BY <1>1, <1>2, <1>3, <2>1
    <2>2. CASE i # 0  BY <1>3, <2>2
    <2>. QED  BY <2>1, <2>2
  <1>. HIDE DEF v
  <1>6. ASSUME NEW i \in 1 .. Len(c) PROVE Allows(v[i - 1], c[i]) /\ v[i] = Read(v[i - 1], c[i])
    <2>1. CASE i \in 1 .. Len(a)
      <3>1. v[i - 1] = t[i - 1] /\ v[i] = t[i] /\ c[i] = a[i]  BY <1>3, <1>4, <2>1
      <3>. QED  BY <1>1, <2>1, <3>1 DEF Along
    <2>2. CASE i \notin 1 .. Len(a)
      <3>1. PICK j \in 1 .. Len(b) : i = Len(a) + j
        <4>1. i - Len(a) \in 1 .. Len(b) /\ i = Len(a) + (i - Len(a))  BY <1>3, <2>2
        <4>. QED  BY <4>1
      <3>2. v[Len(a) + j] = u[j] /\ c[Len(a) + j] = b[j]  BY <1>3, <1>5
      <3>3. v[Len(a) + (j - 1)] = u[j - 1] /\ Len(a) + (j - 1) = i - 1  BY <1>3, <1>5, <3>1
      <3>. QED  BY <1>2, <3>1, <3>2, <3>3 DEF Along
    <2>. QED  BY <2>1, <2>2
  <1>7. v[0] = x /\ v[Len(c)] = z  BY <1>1, <1>2, <1>3, <1>4, <1>5
  <1>. QED  BY <1>6, <1>7 DEF Takes, Along

\* No code leads nowhere.
LEMMA TakesNowhere == \A x : Takes(<<>>, x, x)
  <1>. TAKE x
  <1>. DEFINE t == [i \in 0 .. 0 |-> x]
  <1>1. t[0] = x /\ Len(<<>>) = 0  OBVIOUS
  <1>2. Along(<<>>, t)  BY <1>1 DEF Along
  <1>. HIDE DEF t
  <1>. QED  BY <1>1, <1>2 DEF Takes

\* One symbol is one step.
LEMMA TakesByOne ==
  ASSUME NEW x, NEW m, Allows(x, m)
  PROVE  Takes(<<m>>, x, Read(x, m))
  <1>. DEFINE t == [i \in 0 .. 1 |-> IF i = 0 THEN x ELSE Read(x, m)]
  <1>1. t[0] = x /\ t[1] = Read(x, m)  OBVIOUS
  <1>2. Len(<<m>>) = 1 /\ <<m>>[1] = m  BY Tuples
  <1>. HIDE DEF t
  <1>3. Along(<<m>>, t)  BY <1>1, <1>2 DEF Along
  <1>. QED  BY <1>1, <1>2, <1>3 DEF Takes

-----------------------------------------------------------------------------
\* Code of expressions: it leads from any place back to it.
Inline(code) == IsSequence(code) /\ \A x \in Readers : Takes(code, x, x)

\* Code of statements: so it does outside of parentheses.
Outline(code) ==
  IsSequence(code) /\ \A x \in Readers : x.parens = 0 => Takes(code, x, x)
Ended(code) == code[Len(code)] \in {Semicolon, RBrace}
Stated(code) == Outline(code) /\ (code # <<>> => Ended(code))

LEMMA InlineIsOutline == \A c : Inline(c) => Outline(c)
  BY DEF Inline, Outline

LEMMA InlineNothing == Inline(<<>>) /\ Stated(<<>>)
  BY TakesNowhere, Tuples DEF Inline, Outline, Stated

\* Expressions in a row, statements in a row, one code in front of a statement.
LEMMA InlineJoin ==
  ASSUME NEW a, Inline(a), NEW b, Inline(b) PROVE Inline(a \o b)
  <1>1. IsSequence(a \o b)  BY ConcatLength DEF Inline
  <1>2. \A x \in Readers : Takes(a \o b, x, x)  BY TakesJoin DEF Inline
  <1>. QED  BY <1>1, <1>2 DEF Inline

LEMMA OutlineJoin ==
  ASSUME NEW a, Outline(a), NEW b, Outline(b) PROVE Outline(a \o b)
  <1>1. IsSequence(a \o b)  BY ConcatLength DEF Outline
  <1>2. \A x \in Readers : x.parens = 0 => Takes(a \o b, x, x)  BY TakesJoin DEF Outline
  <1>. QED  BY <1>1, <1>2 DEF Outline

LEMMA JoinNothing ==
  ASSUME NEW a, IsSequence(a) PROVE a \o <<>> = a
  <1>. PICK S : a \in Seq(S)  BY DEF IsSequence
  <1>. QED  OBVIOUS

LEMMA EndedJoin ==
  ASSUME NEW a, IsSequence(a), NEW b, IsSequence(b), b # <<>>, Ended(b)
  PROVE  a \o b # <<>> /\ Ended(a \o b)
  <1>1. Len(b) \in Nat \ {0}  BY TailLength
  <1>2. /\ Len(a \o b) = Len(a) + Len(b) /\ Len(a) \in Nat
        /\ \A i \in 1 .. Len(b) : (a \o b)[Len(a) + i] = b[i]
    BY ConcatLength
  <1>3. Len(<<>>) = 0  BY Tuples
  <1>4. a \o b # <<>>  BY <1>1, <1>2, <1>3
  <1>. QED  BY <1>2, <1>4 DEF Ended

LEMMA StatedJoin ==
  ASSUME NEW a, Stated(a), NEW b, Stated(b) PROVE Stated(a \o b)
  <1>1. Outline(a \o b)  BY OutlineJoin DEF Stated
  <1>2. CASE b = <<>>
    <2>1. a \o b = a  BY <1>2, JoinNothing DEF Stated, Outline
    <2>. QED  BY <2>1
  <1>3. CASE b # <<>>
    <2>1. Ended(a \o b)  BY <1>3, EndedJoin DEF Stated, Outline
    <2>. QED  BY <1>1, <2>1 DEF Stated
  <1>. QED  BY <1>2, <1>3

\* Symbols without a meaning for the structure.
Mute(m) == m \notin {LParen, RParen, LBrace, RBrace, Semicolon, For}

LEMMA InlineOfMute ==
  ASSUME NEW m, Mute(m) PROVE Inline(<<m>>)
  <1>1. IsSequence(<<m>>)  BY Tuples
  <1>2. ASSUME NEW x \in Readers PROVE Takes(<<m>>, x, x)
    <2>1. Allows(x, m)  BY DEF Allows, Mute
    <2>2. Read(x, m) = x  BY ReaderFields DEF Read, Mute
    <2>. QED  BY <2>1, <2>2, TakesByOne
  <1>. QED  BY <1>1, <1>2 DEF Inline

\* Text, a code in parentheses, a code that is ended, and code in braces.
LEMMA InlineText == \A w : Inline(<<Text(w)>>)
  BY InlineOfMute, MarksDiffer DEF Mute

LEMMA InlineEnclosed ==
  ASSUME NEW c, Inline(c) PROVE Inline(Enclosed(c))
  <1>1. IsSequence(<<LParen>>) /\ IsSequence(<<RParen>>) /\ IsSequence(c)  BY Tuples DEF Inline
  <1>2. IsSequence(<<LParen>> \o c)  BY <1>1, ConcatLength
  <1>3. IsSequence(Enclosed(c))  BY <1>1, <1>2, ConcatLength DEF Enclosed
  <1>4. ASSUME NEW x \in Readers PROVE Takes(Enclosed(c), x, x)
    <2>. PICK y : y = ReaderAt(x.parens + 1, x.braces, x.due)  OBVIOUS
    <2>1. y \in Readers /\ y.parens = x.parens + 1  BY ReaderFields
    <2>2. Allows(x, LParen) /\ Read(x, LParen) = y  BY MarksDiffer DEF Allows, Read
    <2>3. Allows(y, RParen) /\ Read(y, RParen) = x
      <3>1. Allows(y, RParen)  BY <2>1, ReaderFields, MarksDiffer DEF Allows
      <3>2. Read(y, RParen) = ReaderAt(x.parens, x.braces, x.due)
        BY ReaderFields, MarksDiffer DEF Read
      <3>. QED  BY <3>1, <3>2, ReaderFields
    <2>4. Takes(<<LParen>>, x, y)  BY <2>2, TakesByOne
    <2>5. Takes(<<RParen>>, y, x)  BY <2>3, TakesByOne
    <2>6. Takes(c, y, y)  BY <2>1 DEF Inline
    <2>7. Takes(<<LParen>> \o c, x, y)  BY <1>1, <2>4, <2>6, TakesJoin
    <2>. QED  BY <1>1, <1>2, <2>5, <2>7, TakesJoin DEF Enclosed
  <1>. QED  BY <1>3, <1>4 DEF Inline

LEMMA StatedEnd ==
  ASSUME NEW c, Inline(c) PROVE Stated(End(c)) /\ End(c) # <<>> /\ IsSequence(End(c))
  <1>1. IsSequence(c) /\ IsSequence(<<Semicolon>>)  BY Tuples DEF Inline
  <1>2. End(c) = c \o <<Semicolon>>
    <2>. PICK S : c \in Seq(S)  BY <1>1 DEF IsSequence
    <2>1. c \in Seq(S \cup {Semicolon}) /\ Semicolon \in S \cup {Semicolon}  OBVIOUS
    <2>. QED  BY <2>1 DEF End
  <1>3. \A x \in Readers : x.parens = 0 => Takes(<<Semicolon>>, x, x)
    <2>. SUFFICES ASSUME NEW x \in Readers, x.parens = 0 PROVE Takes(<<Semicolon>>, x, x)
      OBVIOUS
    <2>1. Allows(x, Semicolon) /\ Read(x, Semicolon) = x
      BY MarksDiffer, ReaderFields DEF Allows, Read
    <2>. QED  BY <2>1, TakesByOne
  <1>4. Stated(<<Semicolon>>) /\ <<Semicolon>> # <<>>
    <2>1. <<Semicolon>>[Len(<<Semicolon>>)] = Semicolon  BY Tuples
    <2>. QED  BY <1>1, <1>3, <2>1 DEF Stated, Outline, Ended
  <1>5. Outline(c \o <<Semicolon>>)
    BY <1>4, InlineIsOutline, OutlineJoin DEF Stated
  <1>6. c \o <<Semicolon>> # <<>> /\ Ended(c \o <<Semicolon>>)
    BY <1>1, <1>4, EndedJoin DEF Stated
  <1>. QED  BY <1>2, <1>5, <1>6 DEF Stated, Outline

LEMMA StatedBraces ==
  ASSUME NEW c, Outline(c)
  PROVE  Stated(<<LBrace>> \o c \o <<RBrace>>) /\ <<LBrace>> \o c \o <<RBrace>> # <<>>
  <1>1. IsSequence(<<LBrace>>) /\ IsSequence(<<RBrace>>) /\ IsSequence(c)  BY Tuples DEF Outline
  <1>2. IsSequence(<<LBrace>> \o c)  BY <1>1, ConcatLength
  <1>. PICK b : b = <<LBrace>> \o c \o <<RBrace>>  OBVIOUS
  <1>3. IsSequence(b)  BY <1>1, <1>2, ConcatLength
  <1>4. ASSUME NEW x \in Readers, x.parens = 0 PROVE Takes(b, x, x)
    <2>. PICK y : y = ReaderAt(x.parens, x.braces + 1, x.due)  OBVIOUS
    <2>1. y \in Readers /\ y.parens = 0 /\ y.braces = x.braces + 1
      BY <1>4, ReaderFields
    <2>2. Allows(x, LBrace) /\ Read(x, LBrace) = y  BY <1>4, MarksDiffer DEF Allows, Read
    <2>3. Allows(y, RBrace) /\ Read(y, RBrace) = x
      <3>1. Allows(y, RBrace)  BY <2>1, ReaderFields, MarksDiffer DEF Allows
      <3>2. y.parens = x.parens /\ y.braces - 1 = x.braces /\ y.due = x.due
        <4>1. x.braces \in Nat  BY ReaderFields
        <4>2. y.due = x.due  BY ReaderFields
        <4>. QED  BY <1>4, <2>1, <4>1, <4>2
      <3>3. Read(y, RBrace) = ReaderAt(x.parens, x.braces, x.due)
        BY <3>2, MarksDiffer DEF Read
      <3>. QED  BY <3>1, <3>3, ReaderFields
    <2>4. Takes(<<LBrace>>, x, y)  BY <2>2, TakesByOne
    <2>5. Takes(<<RBrace>>, y, x)  BY <2>3, TakesByOne
    <2>6. Takes(c, y, y)  BY <2>1 DEF Outline
    <2>7. Takes(<<LBrace>> \o c, x, y)  BY <1>1, <2>4, <2>6, TakesJoin
    <2>. QED  BY <1>1, <1>2, <2>5, <2>7, TakesJoin
  <1>5. Ended(<<RBrace>>) /\ <<RBrace>> # <<>>
    <2>1. <<RBrace>>[Len(<<RBrace>>)] = RBrace  BY Tuples
    <2>. QED  BY <2>1 DEF Ended
  <1>6. b # <<>> /\ Ended(b)  BY <1>1, <1>2, <1>5, EndedJoin
  <1>. QED  BY <1>3, <1>4, <1>6 DEF Stated, Outline

\* The header of a loop: the two semicolons it announces are in its parentheses.
LEMMA OutlineHeader ==
  ASSUME NEW a, Inline(a), NEW b, Inline(b), NEW c, Inline(c)
  PROVE  Outline(<<For>> \o Enclosed(End(a) \o End(b) \o c))
  <1>1. /\ IsSequence(<<LParen>>) /\ IsSequence(<<RParen>>) /\ IsSequence(<<For>>)
        /\ IsSequence(<<Semicolon>>) /\ IsSequence(a) /\ IsSequence(b) /\ IsSequence(c)
    BY Tuples DEF Inline
  <1>2. End(a) = a \o <<Semicolon>> /\ End(b) = b \o <<Semicolon>>
    <2>1. \A s : IsSequence(s) => Append(s, Semicolon) = s \o <<Semicolon>>
      <3>. TAKE s
      <3>. HAVE IsSequence(s)
      <3>. PICK S : s \in Seq(S)  BY DEF IsSequence
      <3>1. s \in Seq(S \cup {Semicolon}) /\ Semicolon \in S \cup {Semicolon}  OBVIOUS
      <3>. QED  BY <3>1
    <2>. QED  BY <1>1, <2>1 DEF End
  <1>. PICK p, q : p = End(a) /\ q = End(b)  OBVIOUS
  <1>3. IsSequence(p) /\ IsSequence(q)  BY <1>1, <1>2, ConcatLength
  <1>4. IsSequence(p \o q)  BY <1>3, ConcatLength
  <1>5. IsSequence(p \o q \o c)  BY <1>1, <1>4, ConcatLength
  <1>6. IsSequence(<<LParen>> \o (p \o q \o c))  BY <1>1, <1>5, ConcatLength
  <1>7. IsSequence(Enclosed(p \o q \o c))  BY <1>1, <1>6, ConcatLength DEF Enclosed
  <1>8. IsSequence(<<For>> \o Enclosed(p \o q \o c))  BY <1>1, <1>7, ConcatLength
  <1>9. ASSUME NEW x \in Readers, x.parens = 0
        PROVE  Takes(<<For>> \o Enclosed(p \o q \o c), x, x)
    <2>. DEFINE At(u, d) == ReaderAt(u, x.braces, x.due + d)
    <2>0. /\ x.braces \in Nat /\ x.due \in Int /\ x = ReaderAt(0, x.braces, x.due)
          /\ x.due + 0 = x.due /\ x = At(0, 0)
      BY <1>9, ReaderFields
    <2>1. \A u \in Nat, d \in Int : /\ At(u, d) \in Readers /\ At(u, d).parens = u
                                    /\ At(u, d).braces = x.braces /\ At(u, d).due = x.due + d
      BY <2>0, ReaderFields
    <2>2. Takes(<<For>>, x, At(0, 2))
      <3>1. Allows(x, For) /\ Read(x, For) = At(0, 2)
        BY <1>9, <2>0, MarksDiffer DEF Allows, Read
      <3>. QED  BY <3>1, TakesByOne
    <2>3. Takes(<<LParen>>, At(0, 2), At(1, 2))
      <3>1. Allows(At(0, 2), LParen) /\ Read(At(0, 2), LParen) = At(1, 2)
        BY <2>1, MarksDiffer DEF Allows, Read
      <3>. QED  BY <3>1, TakesByOne
    <2>4. \A d \in {1, 2} : Takes(<<Semicolon>>, At(1, d), At(1, d - 1))
      <3>. SUFFICES ASSUME NEW d \in {1, 2} PROVE Takes(<<Semicolon>>, At(1, d), At(1, d - 1))
        OBVIOUS
      <3>1. Allows(At(1, d), Semicolon) /\ Read(At(1, d), Semicolon) = At(1, d - 1)
        <4>. PICK y : y = At(1, d)  OBVIOUS
        <4>1. /\ y.parens = 1 /\ y.braces = x.braces /\ y.due = x.due + d
              /\ y.due - 1 = x.due + (d - 1)
          BY <2>0, <2>1
        <4>2. Semicolon \notin {LParen, RParen, LBrace, RBrace, For}  BY MarksDiffer
        <4>3. y.parens > 0  BY <4>1
        <4>4. Read(y, Semicolon) = ReaderAt(y.parens, y.braces, y.due - 1)
          BY <4>2, <4>3 DEF Read
        <4>. QED  BY <4>1, <4>2, <4>3, <4>4 DEF Allows
      <3>. QED  BY <3>1, TakesByOne
    <2>5. Takes(<<RParen>>, At(1, 0), At(0, 0))
      <3>1. Allows(At(1, 0), RParen) /\ Read(At(1, 0), RParen) = At(0, 0)
        BY <2>1, MarksDiffer DEF Allows, Read
      <3>. QED  BY <3>1, TakesByOne
    <2>. HIDE DEF At
    <2>6. Takes(a, At(1, 2), At(1, 2)) /\ Takes(b, At(1, 1), At(1, 1)) /\ Takes(c, At(1, 0), At(1, 0))
      BY <2>1 DEF Inline
    <2>7. Takes(p, At(1, 2), At(1, 1))  BY <1>1, <1>2, <2>4, <2>6, TakesJoin
    <2>8. Takes(q, At(1, 1), At(1, 0))  BY <1>1, <1>2, <2>4, <2>6, TakesJoin
    <2>9. Takes(p \o q, At(1, 2), At(1, 0))  BY <1>3, <2>7, <2>8, TakesJoin
    <2>10. Takes(p \o q \o c, At(1, 2), At(1, 0))  BY <1>1, <1>4, <2>6, <2>9, TakesJoin
    <2>11. Takes(<<LParen>> \o (p \o q \o c), At(0, 2), At(1, 0))
      BY <1>1, <1>5, <2>3, <2>10, TakesJoin
    <2>12. Takes(Enclosed(p \o q \o c), At(0, 2), At(0, 0))
      BY <1>1, <1>6, <2>5, <2>11, TakesJoin DEF Enclosed
    <2>. QED  BY <1>1, <1>7, <2>0, <2>2, <2>12, TakesJoin
  <1>. QED  BY <1>8, <1>9 DEF Outline

-----------------------------------------------------------------------------
\* Sequences of codes.
LEMMA FunctionIsSequence ==
  ASSUME NEW k \in Nat, NEW f, f = [i \in 1 .. k |-> f[i]]
  PROVE  IsSequence(f) /\ Len(f) = k
  <1>. DEFINE S == {f[i] : i \in 1 .. k}
  <1>1. f \in [1 .. k -> S]  OBVIOUS
  <1>2. f \in Seq(S)  BY <1>1
  <1>. HIDE DEF S
  <1>3. Len(f) = k  BY <1>1, <1>2
  <1>. QED  BY <1>2, <1>3 DEF IsSequence

\* The indices of a sequence.
LEMMA DomainOfSequence == \A s : IsSequence(s) => DOMAIN s = 1 .. Len(s) /\ Len(s) \in Nat
  <1>. TAKE s
  <1>. HAVE IsSequence(s)
  <1>. PICK S : s \in Seq(S)  BY DEF IsSequence
  <1>. QED  OBVIOUS

\* FlattenSeq puts one code after the other.
LEMMA FlattenUnfold ==
  ASSUME NEW s, IsSequence(s), Len(s) > 0
  PROVE  \E f : /\ FlattenSeq(s) = f[Len(s)]
                /\ f[1] = s[1]
                /\ \A i \in 2 .. Len(s) : f[i] = f[i - 1] \o s[i]
  <1>. DEFINE N == Len(s)
              Following(g, i) == IF i = 1 THEN s[i] ELSE g[i - 1] \o s[i]
              Upto(n, g) == DOMAIN g = 1 .. n /\ \A i \in 1 .. n : g[i] = Following(g, i)
              T == {n \in Nat : \E g : Upto(n, g)}
              F == CHOOSE f : f = [i \in 1 .. N |-> Following(f, i)]
  <1>0. N \in Nat /\ N > 0  BY DomainOfSequence
  <1>1. 0 \in T
    <2>. DEFINE g == [i \in 1 .. 0 |-> <<>>]
    <2>1. Upto(0, g)  OBVIOUS
    <2>. QED  BY <2>1
  <1>2. ASSUME NEW n \in Nat, n \in T PROVE n + 1 \in T
    <2>1. PICK g : Upto(n, g)  BY <1>2
    <2>. DEFINE h == [i \in 1 .. n + 1 |-> IF i = n + 1 THEN Following(g, i) ELSE g[i]]
    <2>2. \A i \in 1 .. n : h[i] = g[i]  OBVIOUS
    <2>3. ASSUME NEW i \in 1 .. n + 1 PROVE Following(h, i) = Following(g, i)
      <3>1. CASE i = 1  BY <3>1
      <3>2. CASE i # 1
        <4>1. h[i - 1] = g[i - 1]  BY <2>2, <3>2
        <4>. HIDE DEF h
        <4>. QED  BY <3>2, <4>1
      <3>. QED  BY <3>1, <3>2
    <2>4. ASSUME NEW i \in 1 .. n + 1 PROVE h[i] = Following(h, i)
      <3>. HIDE DEF Following
      <3>1. CASE i = n + 1  BY <2>3, <3>1
      <3>2. CASE i \in 1 .. n  BY <2>1, <2>2, <2>3, <3>2
      <3>. QED  BY <3>1, <3>2
    <2>5. DOMAIN h = 1 .. n + 1  OBVIOUS
    <2>6. Upto(n + 1, h)  BY <2>4, <2>5
    <2>. HIDE DEF Upto, h
    <2>. QED  BY <2>6
  <1>. HIDE DEF T
  <1>3. Nat \subseteq T  BY <1>1, <1>2, Induction
  <1>4. PICK g : Upto(N, g)  BY <1>0, <1>3 DEF T
  <1>. DEFINE h == [i \in 1 .. N |-> g[i]]
  <1>5. h = [i \in 1 .. N |-> Following(h, i)]
    <2>. SUFFICES ASSUME NEW i \in 1 .. N PROVE h[i] = Following(h, i)  OBVIOUS
    <2>1. h[i] = Following(g, i)  BY <1>4
    <2>2. i # 1 => h[i - 1] = g[i - 1]  BY <1>0
    <2>. QED  BY <2>1, <2>2
  <1>. HIDE DEF h, Upto
  <1>6. F = [i \in 1 .. N |-> Following(F, i)]  BY <1>5
  <1>7. FlattenSeq(s) = F[N]  BY <1>0 DEF FlattenSeq
  <1>. HIDE DEF F, Following
  <1>8. \A i \in 1 .. N : F[i] = Following(F, i)  BY <1>6
  <1>9. 1 \in 1 .. N /\ \A i \in 2 .. N : i \in 1 .. N /\ i # 1  BY <1>0
  <1>10. F[1] = s[1]  BY <1>8, <1>9 DEF Following
  <1>11. \A i \in 2 .. N : F[i] = F[i - 1] \o s[i]  BY <1>8, <1>9, Zenon DEF Following
  <1>. QED  BY <1>7, <1>10, <1>11

\* No codes are no code.
LEMMA FlattenNothing ==
  ASSUME NEW s, IsSequence(s), ~ (Len(s) > 0)
  PROVE  FlattenSeq(s) = <<>>
  <1>. PICK S : s \in Seq(S)  BY DEF IsSequence
  <1>1. Len(s) = 0 /\ s = <<>>  OBVIOUS
  <1>. QED  BY <1>1 DEF FlattenSeq

\* What all codes are, they are in a row.
LEMMA InlineFlatten ==
  ASSUME NEW s, IsSequence(s), \A i \in 1 .. Len(s) : Inline(s[i])
  PROVE  Inline(FlattenSeq(s))
  <1>1. CASE ~ (Len(s) > 0)  BY <1>1, FlattenNothing, InlineNothing
  <1>2. CASE Len(s) > 0
    <2>1. PICK f : /\ FlattenSeq(s) = f[Len(s)] /\ f[1] = s[1]
                   /\ \A i \in 2 .. Len(s) : f[i] = f[i - 1] \o s[i]
      BY <1>2, FlattenUnfold
    <2>. DEFINE T == {k \in Nat : k + 1 <= Len(s) => Inline(f[k + 1])}
    <2>2. Len(s) \in Nat  BY DomainOfSequence
    <2>3. 0 \in T  BY <1>2, <2>1, <2>2
    <2>4. ASSUME NEW k \in Nat, k \in T PROVE k + 1 \in T
      <3>. SUFFICES ASSUME k + 1 + 1 <= Len(s) PROVE Inline(f[k + 1 + 1])  OBVIOUS
      <3>. PICK j : j = k + 1 + 1  OBVIOUS
      <3>1. j \in 2 .. Len(s) /\ j - 1 = k + 1 /\ j \in 1 .. Len(s)  BY <2>2
      <3>2. f[j] = f[k + 1] \o s[j]  BY <2>1, <3>1
      <3>3. Inline(f[k + 1])  BY <2>2, <2>4
      <3>. QED  BY <3>1, <3>2, <3>3, InlineJoin
    <2>. HIDE DEF T
    <2>5. Nat \subseteq T  BY <2>3, <2>4, Induction
    <2>6. Len(s) - 1 \in Nat /\ Len(s) - 1 + 1 = Len(s)  BY <1>2, <2>2
    <2>. QED  BY <2>1, <2>5, <2>6 DEF T
  <1>. QED  BY <1>1, <1>2

LEMMA StatedFlatten ==
  ASSUME NEW s, IsSequence(s), \A i \in 1 .. Len(s) : Stated(s[i])
  PROVE  Stated(FlattenSeq(s))
  <1>1. CASE ~ (Len(s) > 0)  BY <1>1, FlattenNothing, InlineNothing
  <1>2. CASE Len(s) > 0
    <2>1. PICK f : /\ FlattenSeq(s) = f[Len(s)] /\ f[1] = s[1]
                   /\ \A i \in 2 .. Len(s) : f[i] = f[i - 1] \o s[i]
      BY <1>2, FlattenUnfold
    <2>. DEFINE T == {k \in Nat : k + 1 <= Len(s) => Stated(f[k + 1])}
    <2>2. Len(s) \in Nat  BY DomainOfSequence
    <2>3. 0 \in T  BY <1>2, <2>1, <2>2
    <2>4. ASSUME NEW k \in Nat, k \in T PROVE k + 1 \in T
      <3>. SUFFICES ASSUME k + 1 + 1 <= Len(s) PROVE Stated(f[k + 1 + 1])  OBVIOUS
      <3>. PICK j : j = k + 1 + 1  OBVIOUS
      <3>1. j \in 2 .. Len(s) /\ j - 1 = k + 1 /\ j \in 1 .. Len(s)  BY <2>2
      <3>2. f[j] = f[k + 1] \o s[j]  BY <2>1, <3>1
      <3>3. Stated(f[k + 1])  BY <2>2, <2>4
      <3>. QED  BY <3>1, <3>2, <3>3, StatedJoin
    <2>. HIDE DEF T
    <2>5. Nat \subseteq T  BY <2>3, <2>4, Induction
    <2>6. Len(s) - 1 \in Nat /\ Len(s) - 1 + 1 = Len(s)  BY <1>2, <2>2
    <2>. QED  BY <2>1, <2>5, <2>6 DEF T
  <1>. QED  BY <1>1, <1>2

-----------------------------------------------------------------------------
\* The pieces of C the generator puts expressions together with.
LEMMA InlineTexts ==
  ASSUME NEW words, IsSequence(words) PROVE Inline(Texts(words)) /\ IsSequence(Texts(words))
  <1>. PICK k : k = Len(words)  OBVIOUS
  <1>1. k \in Nat /\ DOMAIN words = 1 .. k  BY DomainOfSequence
  <1>. PICK c : c = [i \in 1 .. k |-> Text(words[i])]  OBVIOUS
  <1>2. c = [i \in 1 .. k |-> c[i]]  OBVIOUS
  <1>3. IsSequence(c) /\ Len(c) = k  BY <1>1, <1>2, FunctionIsSequence
  <1>4. ASSUME NEW x \in Readers PROVE Takes(c, x, x)
    <2>. DEFINE t == [i \in 0 .. k |-> x]
    <2>1. t[0] = x /\ t[k] = x /\ \A i \in 1 .. k : t[i] = x /\ t[i - 1] = x  BY <1>1
    <2>. HIDE DEF t
    <2>2. ASSUME NEW i \in 1 .. k PROVE Allows(x, c[i]) /\ Read(x, c[i]) = x
      <3>1. Mute(c[i])  BY MarksDiffer DEF Mute
      <3>2. Allows(x, c[i])  BY <3>1 DEF Allows, Mute
      <3>3. Read(x, c[i]) = x  BY <3>1, ReaderFields DEF Read, Mute
      <3>. QED  BY <3>2, <3>3
    <2>3. Along(c, t)  BY <1>3, <2>1, <2>2 DEF Along
    <2>. QED  BY <1>3, <2>1, <2>3 DEF Takes
  <1>5. Texts(words) = c  BY <1>1 DEF Texts
  <1>. QED  BY <1>3, <1>4, <1>5 DEF Inline

LEMMA InlineShortTexts ==
  /\ \A a : Inline(Texts(<<a>>))
  /\ \A a, b : Inline(Texts(<<a, b>>))
  /\ \A a, b, c : Inline(Texts(<<a, b, c>>))
  BY InlineTexts, Tuples

\* Arguments between commas, and calls of C with them.
LEMMA InlineCommas ==
  ASSUME NEW codes, IsSequence(codes), \A i \in 1 .. Len(codes) : Inline(codes[i])
  PROVE  Inline(Commas(codes))
  <1>. PICK k : k = Len(codes)  OBVIOUS
  <1>1. k \in Nat /\ DOMAIN codes = 1 .. k  BY DomainOfSequence
  <1>. PICK s : s = [i \in 1 .. k |-> IF i = 1 THEN codes[i] ELSE <<Mark("comma")>> \o codes[i]]
    OBVIOUS
  <1>2. IsSequence(s) /\ Len(s) = k
    <2>1. s = [i \in 1 .. k |-> s[i]]  OBVIOUS
    <2>. QED  BY <1>1, <2>1, FunctionIsSequence
  <1>3. ASSUME NEW i \in 1 .. k PROVE Inline(s[i])
    <2>1. Inline(<<Mark("comma")>>)  BY InlineOfMute, MarksDiffer DEF Mute
    <2>2. Inline(codes[i]) /\ Inline(<<Mark("comma")>> \o codes[i])  BY <2>1, InlineJoin
    <2>. QED  BY <2>2
  <1>4. Commas(codes) = FlattenSeq(s)  BY <1>1 DEF Commas
  <1>. QED  BY <1>2, <1>3, <1>4, InlineFlatten

LEMMA InlineCall ==
  ASSUME NEW f, IsSequence(f), NEW codes, IsSequence(codes),
         \A i \in 1 .. Len(codes) : Inline(codes[i])
  PROVE  Inline(CCall(f, codes))
  <1>1. Inline(Texts(f))  BY InlineTexts
  <1>2. Inline(Enclosed(Commas(codes)))  BY InlineCommas, InlineEnclosed
  <1>. QED  BY <1>1, <1>2, InlineJoin DEF CCall

LEMMA InlineCallOfOne ==
  ASSUME NEW f, IsSequence(f), NEW a, Inline(a)
  PROVE  Inline(CCall(f, <<a>>))
  <1>1. IsSequence(<<a>>) /\ Len(<<a>>) = 1 /\ <<a>>[1] = a  BY Tuples
  <1>. QED  BY <1>1, InlineCall

LEMMA InlineCallOfTwo ==
  ASSUME NEW f, IsSequence(f), NEW a, Inline(a), NEW b, Inline(b)
  PROVE  Inline(CCall(f, <<a, b>>))
  <1>1. IsSequence(<<a, b>>) /\ Len(<<a, b>>) = 2  BY Tuples
  <1>2. <<a, b>>[1] = a /\ <<a, b>>[2] = b  OBVIOUS
  <1>3. \A i \in 1 .. 2 : i = 1 \/ i = 2  OBVIOUS
  <1>. QED  BY <1>1, <1>2, <1>3, InlineCall

\* An element of a vector behind its bounds check.
LEMMA InlineElementAt ==
  ASSUME NEW name, NEW index, Inline(index)
  PROVE  Inline(ElementAt(name, index))
  <1>. PICK bounds : bounds = CCall(<<"__pinum_check_bounds">>, <<Texts(<<name, ".size">>), index>>)
    OBVIOUS
  <1>1. Inline(bounds)  BY InlineShortTexts, InlineCallOfTwo, Tuples
  <1>2. Inline(Texts(<<name, ".data[">>)) /\ Inline(Texts(<<"]">>))  BY InlineShortTexts
  <1>3. Inline(Texts(<<name, ".data[">>) \o bounds)  BY <1>1, <1>2, InlineJoin
  <1>4. Inline(Texts(<<name, ".data[">>) \o bounds \o Texts(<<"]">>))  BY <1>2, <1>3, InlineJoin
  <1>. QED  BY <1>4 DEF ElementAt

\* A name with its type.
LEMMA InlineTyped == \A words, i, name : Inline(Typed(words, i, name))
  BY InlineShortTexts DEF Typed

-----------------------------------------------------------------------------
\* The recursive function behind PrintGroups exists and is what it says.
GroupedBy(g, args, env) ==
  /\ PrintGroups(args, env) = Flushed(g[Len(args)], Len(args) + 1)
  /\ g[0] = [start |-> 1, out |-> <<>>]
  /\ \A i \in 1 .. Len(args) :
       g[i] = IF IsVec(args[i], env)
              THEN [start |-> i + 1, out |-> Append(Flushed(g[i - 1], i), <<i, i>>)]
              ELSE g[i - 1]

\* The loop of NODE_PRINT runs on arguments of any number.
LEMMA PrintGroupsUnfold ==
  ASSUME NEW args, IsSequence(args), NEW env
  PROVE  \E g : GroupedBy(g, args, env)
  <1>. DEFINE N == Len(args)
              First == [start |-> 1, out |-> <<>>]
              Flushing(x, i) == [start |-> i + 1, out |-> Append(Flushed(x, i), <<i, i>>)]
              Following(g, i) == IF i = 0 THEN First
                            ELSE IF IsVec(args[i], env) THEN Flushing(g[i - 1], i) ELSE g[i - 1]
              Upto(n, g) == DOMAIN g = 0 .. n /\ \A i \in 0 .. n : g[i] = Following(g, i)
              T == {n \in Nat : \E g : Upto(n, g)}
              F == CHOOSE f : f = [i \in 0 .. N |-> Following(f, i)]
  <1>0. N \in Nat  BY DomainOfSequence
  <1>8. PrintGroups(args, env) = Flushed(F[N], N + 1)  BY Zenon DEF PrintGroups
  <1>. HIDE DEF Flushing, First
  <1>1. 0 \in T
    <2>. DEFINE g == [i \in 0 .. 0 |-> First]
    <2>1. Upto(0, g)  OBVIOUS
    <2>. QED  BY <2>1
  <1>2. ASSUME NEW n \in Nat, n \in T PROVE n + 1 \in T
    <2>1. PICK g : Upto(n, g)  BY <1>2
    <2>. DEFINE h == [i \in 0 .. n + 1 |-> IF i = n + 1 THEN Following(g, i) ELSE g[i]]
    <2>2. \A i \in 0 .. n : h[i] = g[i]  OBVIOUS
    <2>3. ASSUME NEW i \in 0 .. n + 1 PROVE Following(h, i) = Following(g, i)
      <3>1. CASE i = 0  BY <3>1
      <3>2. CASE i # 0
        <4>1. h[i - 1] = g[i - 1]  BY <2>2, <3>2
        <4>. HIDE DEF h
        <4>. QED  BY <3>2, <4>1
      <3>. QED  BY <3>1, <3>2
    <2>4. ASSUME NEW i \in 0 .. n + 1 PROVE h[i] = Following(h, i)
      <3>. HIDE DEF Following
      <3>1. CASE i = n + 1  BY <2>3, <3>1
      <3>2. CASE i \in 0 .. n  BY <2>1, <2>2, <2>3, <3>2
      <3>. QED  BY <3>1, <3>2
    <2>5. DOMAIN h = 0 .. n + 1  OBVIOUS
    <2>6. Upto(n + 1, h)  BY <2>4, <2>5
    <2>. HIDE DEF Upto, h
    <2>. QED  BY <2>6
  <1>. HIDE DEF T
  <1>3. Nat \subseteq T  BY <1>1, <1>2, Induction
  <1>4. PICK g : Upto(N, g)  BY <1>0, <1>3 DEF T
  <1>. DEFINE h == [i \in 0 .. N |-> g[i]]
  <1>5. h = [i \in 0 .. N |-> Following(h, i)]
    <2>. SUFFICES ASSUME NEW i \in 0 .. N PROVE h[i] = Following(h, i)  OBVIOUS
    <2>1. h[i] = Following(g, i)  BY <1>4
    <2>2. i # 0 => h[i - 1] = g[i - 1]  BY <1>0
    <2>. HIDE DEF h
    <2>. QED  BY <2>1, <2>2
  <1>. HIDE DEF h, Upto
  <1>6. F = [i \in 0 .. N |-> Following(F, i)]  BY <1>5
  <1>. HIDE DEF F, Following
  <1>7. \A i \in 0 .. N : F[i] = Following(F, i)  BY <1>6
  <1>9. 0 \in 0 .. N /\ \A i \in 1 .. N : i \in 0 .. N /\ i # 0  BY <1>0
  <1>10. F[0] = First  BY <1>7, <1>9 DEF Following
  <1>11. ASSUME NEW i \in 1 .. N
         PROVE  F[i] = IF IsVec(args[i], env) THEN Flushing(F[i - 1], i) ELSE F[i - 1]
    BY <1>7, <1>9, Zenon DEF Following
  <1>. QED  BY <1>8, <1>10, <1>11, Zenon DEF First, Flushing, GroupedBy

\* The pairs of out follow one another from 1 to n; those that hold a member of
\* V hold nothing else, and of two neighbours one does.
Groups(out, n, V) ==
  /\ IsSequence(out) /\ n \in Nat
  /\ out = <<>> => n = 0
  /\ out # <<>> => out[Len(out)][2] = n
  /\ \A g \in 1 .. Len(out) :
       /\ out[g][1] = (IF g = 1 THEN 1 ELSE out[g - 1][2] + 1)
       /\ out[g][1] \in 1 .. n /\ out[g][2] \in 1 .. n /\ out[g][1] <= out[g][2]
       /\ (\E k \in out[g][1] .. out[g][2] : k \in V) => out[g][1] = out[g][2]
       /\ g > 1 => out[g][1] \in V \/ out[g - 1][2] \in V

\* One turn of the loop adds one group.
LEMMA GroupsNext ==
  ASSUME NEW out, NEW n, NEW V, Groups(out, n, V), NEW m \in Nat, n < m,
         (\E k \in n + 1 .. m : k \in V) => m = n + 1,
         out # <<>> => n + 1 \in V \/ n \in V
  PROVE  Groups(Append(out, <<n + 1, m>>), m, V)
  <1>. PICK o : o = Append(out, <<n + 1, m>>)  OBVIOUS
  <1>. PICK e : e = Len(out)  OBVIOUS
  <1>1. /\ IsSequence(o) /\ Len(o) = e + 1 /\ e \in Nat
        /\ \A i \in 1 .. e : o[i] = out[i]
        /\ o[e + 1] = <<n + 1, m>>
    BY PushLength DEF Groups
  <1>2. n \in Nat  BY DEF Groups
  <1>3. o # <<>>  BY <1>1, Tuples
  <1>4. out = <<>> <=> e = 0  BY TailLength, Tuples DEF Groups
  <1>5. o[e + 1][1] = n + 1 /\ o[e + 1][2] = m  BY <1>1
  <1>6. ASSUME NEW g \in 1 .. e + 1
        PROVE  /\ o[g][1] = (IF g = 1 THEN 1 ELSE o[g - 1][2] + 1)
               /\ o[g][1] \in 1 .. m /\ o[g][2] \in 1 .. m /\ o[g][1] <= o[g][2]
               /\ (\E k \in o[g][1] .. o[g][2] : k \in V) => o[g][1] = o[g][2]
               /\ g > 1 => o[g][1] \in V \/ o[g - 1][2] \in V
    <2>1. CASE g \in 1 .. e
      <3>1. o[g] = out[g] /\ (g > 1 => o[g - 1] = out[g - 1])  BY <1>1, <2>1
      <3>2. /\ out[g][1] = (IF g = 1 THEN 1 ELSE out[g - 1][2] + 1)
            /\ out[g][1] \in 1 .. n /\ out[g][2] \in 1 .. n /\ out[g][1] <= out[g][2]
            /\ (\E k \in out[g][1] .. out[g][2] : k \in V) => out[g][1] = out[g][2]
            /\ g > 1 => out[g][1] \in V \/ out[g - 1][2] \in V
        BY <2>1 DEF Groups
      <3>. QED  BY <1>2, <2>1, <3>1, <3>2
    <2>2. CASE g = e + 1
      <3>1. o[g][1] = n + 1 /\ o[g][2] = m  BY <1>5, <2>2
      <3>2. CASE e = 0
        <4>1. n = 0 /\ g = 1  BY <1>4, <2>2, <3>2 DEF Groups
        <4>. QED  BY <1>2, <3>1, <4>1
      <3>3. CASE e # 0
        <4>1. o[e] = out[e] /\ g - 1 = e /\ g > 1  BY <1>1, <2>2, <3>3
        <4>2. out[e][2] = n /\ out # <<>>  BY <1>4, <3>3 DEF Groups
        <4>3. o[g - 1][2] = n  BY <4>1, <4>2
        <4>. QED  BY <1>2, <3>1, <4>1, <4>2, <4>3
      <3>. QED  BY <3>2, <3>3
    <2>. QED  BY <1>1, <2>1, <2>2
  <1>. QED  BY <1>1, <1>3, <1>5, <1>6 DEF Groups

\* What the loop of NODE_PRINT makes of any arguments.
LEMMA PrintGroupsCover ==
  ASSUME NEW args, IsSequence(args), NEW env
  PROVE  Groups(PrintGroups(args, env), Len(args), {k \in 1 .. Len(args) : IsVec(args[k], env)})
  <1>. DEFINE N == Len(args)
  <1>. PICK V : V = {k \in 1 .. N : IsVec(args[k], env)}  OBVIOUS
  <1>0. N \in Nat  BY DomainOfSequence
  <1>. PICK g : GroupedBy(g, args, env)  BY PrintGroupsUnfold
  <1>1. /\ PrintGroups(args, env) = Flushed(g[N], N + 1)
        /\ g[0] = [start |-> 1, out |-> <<>>]
        /\ \A i \in 1 .. N :
             g[i] = IF IsVec(args[i], env)
                    THEN [start |-> i + 1, out |-> Append(Flushed(g[i - 1], i), <<i, i>>)]
                    ELSE g[i - 1]
    BY Zenon DEF GroupedBy
  <1>. HIDE DEF N
  <1>. DEFINE Good(x, i) == /\ x.start \in 1 .. i + 1
                            /\ \A k \in x.start .. i : k \notin V
                            /\ Groups(x.out, x.start - 1, V)
                            /\ x.out # <<>> => x.start - 1 \in V
              T == {i \in Nat : i <= N => Good(g[i], i)}
  <1>2. ASSUME NEW x, NEW i \in Nat, Good(x, i)
        PROVE  Groups(Flushed(x, i + 1), i, V)
    <2>. PICK s : s = x.start - 1  OBVIOUS
    <2>1. s \in Nat /\ s + 1 = x.start /\ s <= i  BY <1>2
    <2>2. CASE i + 1 > x.start
      <3>1. Flushed(x, i + 1) = Append(x.out, <<s + 1, i>>)  BY <2>1, <2>2 DEF Flushed
      <3>2. s < i  BY <2>1, <2>2
      <3>3. ~ \E k \in s + 1 .. i : k \in V  BY <1>2, <2>1
      <3>4. Groups(x.out, s, V) /\ (x.out # <<>> => s \in V)  BY <1>2
      <3>5. Groups(Append(x.out, <<s + 1, i>>), i, V)  BY <3>2, <3>3, <3>4, GroupsNext
      <3>. QED  BY <3>1, <3>5
    <2>3. CASE ~ (i + 1 > x.start)
      <3>1. Flushed(x, i + 1) = x.out  BY <2>3 DEF Flushed
      <3>2. i = s  BY <2>1, <2>3
      <3>. QED  BY <1>2, <3>1, <3>2
    <2>. QED  BY <2>2, <2>3
  <1>. HIDE DEF Good
  <1>3. 0 \in T
    <2>. PICK x : x = g[0]  OBVIOUS
    <2>1. x.start = 1 /\ x.out = <<>>  BY <1>1
    <2>2. Groups(<<>>, 0, V)  BY Tuples DEF Groups
    <2>3. Good(x, 0)  BY <2>1, <2>2 DEF Good
    <2>. QED  BY <2>3
  <1>4. ASSUME NEW i \in Nat, i \in T PROVE i + 1 \in T
    <2>. SUFFICES ASSUME i + 1 <= N PROVE Good(g[i + 1], i + 1)  OBVIOUS
    <2>. PICK x, y : x = g[i] /\ y = g[i + 1]  OBVIOUS
    <2>1. Good(x, i)  BY <1>0, <1>4
    <2>2. i + 1 \in 1 .. N /\ (i + 1) - 1 = i  BY <1>0
    <2>3. y = IF IsVec(args[i + 1], env)
              THEN [start |-> i + 1 + 1, out |-> Append(Flushed(x, i + 1), <<i + 1, i + 1>>)]
              ELSE x
      BY <1>1, <2>2
    <2>4. CASE IsVec(args[i + 1], env)
      <3>1. y.start = i + 1 + 1 /\ y.out = Append(Flushed(x, i + 1), <<i + 1, i + 1>>)
        BY <2>3, <2>4
      <3>2. i + 1 \in V  BY <2>2, <2>4
      <3>3. Groups(Flushed(x, i + 1), i, V)  BY <1>2, <2>1
      <3>4. \E k \in i + 1 .. i + 1 : k \in V  BY <3>2
      <3>5. Groups(Append(Flushed(x, i + 1), <<i + 1, i + 1>>), i + 1, V)
        BY <3>2, <3>3, GroupsNext
      <3>6. y.start - 1 = i + 1 /\ y.start \in 1 .. (i + 1) + 1  BY <3>1
      <3>. QED  BY <3>1, <3>2, <3>5, <3>6 DEF Good
    <2>5. CASE ~ IsVec(args[i + 1], env)
      <3>1. y = x  BY <2>3, <2>5
      <3>2. i + 1 \notin V  BY <2>2, <2>5
      <3>3. /\ x.start \in 1 .. i + 1
            /\ \A k \in x.start .. i : k \notin V
        BY <2>1 DEF Good
      <3>4. x.start \in 1 .. (i + 1) + 1 /\ \A k \in x.start .. i + 1 : k \notin V
        BY <3>2, <3>3
      <3>. QED  BY <2>1, <3>1, <3>4 DEF Good
    <2>. QED  BY <2>4, <2>5
  <1>. HIDE DEF T
  <1>5. Nat \subseteq T  BY <1>3, <1>4, Induction
  <1>6. Good(g[N], N)  BY <1>0, <1>5 DEF T
  <1>7. Groups(Flushed(g[N], N + 1), N, V)  BY <1>0, <1>2, <1>6
  <1>. QED  BY <1>1, <1>7 DEF N

-----------------------------------------------------------------------------
\* Formats.
LEMMA FormatsOfTypes ==
  \A t : ValueOfType(t) # "other" /\ t # "string" => ValueOfType(t) \in Fitting(SpecifierForType(t))
  BY DEF ValueOfType, SpecifierForType, Fitting

\* The types of vectors and of their elements, written out.
LEMMA VecTypesAre ==
  VecTypes = {"vec_int8", "vec_int16", "vec_int32", "vec_int64", "vec_uint8", "vec_uint16",
              "vec_uint32", "vec_uint64", "vec_float32", "vec_float64", "vec_char", "vec_bool",
              "vec_string"}
  BY DEF VecTypes, VecOf

LEMMA ElementsAreNoStrings ==
  ASSUME NEW t \in VecTypes PROVE ElementType(t) # "string"
  <1>. DEFINE e == CHOOSE e \in DOMAIN VecOf : VecOf[e] = t
  <1>1. ElementType(t) = IF e = "string" THEN "char*" ELSE e  BY DEF ElementType
  <1>. QED  BY <1>1

LEMMA ConvertedIs == \A a, b : Converted(a, b) \in {"int", "other"}
  BY DEF Converted

\* Kind by kind, the format and the value are decided alike.
LEMMA FormatOfOne ==
  ASSUME NEW n, Walks(n), n.kind \in Expressions \ {"ternary"}, NEW env, env.vars = NameType,
         Regular(n, env)
  PROVE  CValue(n, env) \in Fitting(Specifier(n, env))
  <1>. DEFINE c == [i \in DOMAIN n.kids |-> CValue(n.kids[i], env)]
              s == [i \in DOMAIN n.kids |-> Specifier(n.kids[i], env)]
              r == [i \in DOMAIN n.kids |-> Regular(n.kids[i], env)]
              R == Resolved(n, env)
  <1>1. /\ CValue(n, env) = ValueRule(n, c, env)
        /\ Specifier(n, env) = SpecifierRule(n, s, env)
        /\ Regular(n, env) = RegularRule(n, r, env)
    BY CValueUnfolds, SpecifierUnfolds, RegularUnfolds
  <1>. HIDE DEF c, s, r
  <1>2. CValue(n, env) # "other" /\ (n.kind = "call" => R # "string")
    BY <1>1 DEF RegularRule
  <1>3. CASE n.kind \in {"string", "float", "char", "int", "bool"}
    <2>1. \/ n.kind = "string" /\ CValue(n, env) = "char*" /\ Specifier(n, env) = "%s"
          \/ n.kind = "float" /\ CValue(n, env) = "double" /\ Specifier(n, env) = "%f"
          \/ n.kind = "char" /\ CValue(n, env) = "char" /\ Specifier(n, env) = "%c"
          \/ n.kind \in {"int", "bool"} /\ CValue(n, env) = "int" /\ Specifier(n, env) = "%d"
      BY <1>1, <1>3 DEF ValueRule, SpecifierRule
    <2>. QED  BY <2>1 DEF Fitting
  <1>4. CASE n.kind \in {"identifier", "call", "access"}
    <2>1. R # "string"
      <3>1. CASE n.kind = "call"  BY <1>2, <3>1
      <3>2. CASE n.kind \in {"identifier", "access"}
        <4>. DEFINE t == TypeIn(env.vars, n.words[1])
        <4>1. t \in FullTypes \cup {NoType}  BY NameTypeAssumption DEF TypeIn
        <4>2. t # "string"  BY <4>1, VecTypesAre DEF FullTypes, NoType
        <4>3. CASE n.kind = "identifier"  BY <4>2, <4>3 DEF Resolved
        <4>4. CASE n.kind = "access"
          <5>. HIDE DEF t
          <5>1. R = IF t \in VecTypes THEN ElementType(t) ELSE t  BY <4>4 DEF Resolved, t
          <5>. QED  BY <4>2, <5>1, ElementsAreNoStrings
        <4>. QED  BY <3>2, <4>3, <4>4
      <3>. QED  BY <1>4, <3>1, <3>2
    <2>. HIDE DEF R
    <2>2. CValue(n, env) = ValueOfType(R)  BY <1>1, <1>2, <1>4 DEF ValueRule, R
    <2>3. Specifier(n, env) = SpecifierForType(R)  BY <1>1, <1>4 DEF SpecifierRule, R
    <2>. QED  BY <1>2, <2>1, <2>2, <2>3, FormatsOfTypes
  <1>5. CASE n.kind = "member"
    <2>1. CValue(n, env) = "size_t" /\ Specifier(n, env) = "%zu"
      BY <1>1, <1>2, <1>5 DEF ValueRule, SpecifierRule
    <2>. QED  BY <2>1 DEF Fitting
  <1>6. CASE n.kind = "unary"
    <2>1. CValue(n, env) = "int" /\ Specifier(n, env) = "%d"
      BY <1>1, <1>2, <1>6, ConvertedIs DEF ValueRule, SpecifierRule
    <2>. QED  BY <2>1 DEF Fitting
  <1>7. CASE n.kind = "binary"
    <2>. DEFINE op == n.words[1]  l == n.kids[1]  right == n.kids[2]
                Textual == \/ op = "*" /\ (IsChar(l, env) \/ IsChar(right, env))
                           \/ op = "*" /\ (IsString(l, env) \/ IsString(right, env))
                           \/ op = "+" /\ IsString(l, env) /\ IsString(right, env)
    <2>1. Specifier(n, env) = IF Textual THEN "%s" ELSE "%d"
      BY <1>1, <1>7 DEF SpecifierRule
    <2>2. Helper(n, env) # NoHelper <=> Textual
      <3>. HIDE DEF op, l, right
      <3>1. Helper(n, env) =
              IF op = "*" /\ IsChar(l, env)
                THEN [f |-> "__pinum_repeat_char", first |-> 1, second |-> 2]
              ELSE IF op = "*" /\ IsChar(right, env)
                THEN [f |-> "__pinum_repeat_char", first |-> 2, second |-> 1]
              ELSE IF op = "*" /\ IsString(l, env)
                THEN [f |-> "__pinum_repeat_string", first |-> 1, second |-> 2]
              ELSE IF op = "*" /\ IsString(right, env)
                THEN [f |-> "__pinum_repeat_string", first |-> 2, second |-> 1]
              ELSE IF op = "+" /\ IsString(l, env) /\ IsString(right, env)
                THEN [f |-> "__pinum_add_string", first |-> 1, second |-> 2]
              ELSE NoHelper
        BY Zenon DEF Helper, op, l, right
      <3>. QED  BY <3>1 DEF NoHelper
    <2>. HIDE DEF Textual
    <2>3. CValue(n, env) = IF Textual THEN "char*" ELSE "int"
      BY <1>1, <1>2, <1>7, <2>2, ConvertedIs DEF ValueRule
    <2>. QED  BY <2>1, <2>3 DEF Fitting
  <1>8. CASE n.kind \in Assignments \cup {"list"}
    BY <1>1, <1>2, <1>8 DEF ValueRule, Assignments
  <1>. QED  BY <1>3, <1>4, <1>5, <1>6, <1>7, <1>8 DEF Expressions, Literal

\* The format of an expression fits, however deep its ternaries are.
LEMMA FormatOfExpression ==
  ASSUME NEW env, env.vars = NameType
  PROVE  \A n : Walks(n) /\ n.kind \in Expressions /\ Regular(n, env)
                  => CValue(n, env) \in Fitting(Specifier(n, env))
  <1>. DEFINE Fits0(n) == Walks(n) /\ n.kind \in Expressions /\ Regular(n, env)
                            => CValue(n, env) \in Fitting(Specifier(n, env))
              T == {h \in Nat : \A n : n.height < h => Fits0(n)}
  <1>1. 0 \in T
    <2>1. \A n : Walks(n) => n.height \in Nat  BY WalksDown DEF Shaped
    <2>2. \A h \in Nat : ~ (h < 0)  OBVIOUS
    <2>. QED  BY <2>1, <2>2
  <1>2. ASSUME NEW h \in Nat, h \in T PROVE h + 1 \in T
    <2>. SUFFICES ASSUME NEW n, n.height < h + 1, Walks(n), n.kind \in Expressions,
                         Regular(n, env)
                  PROVE  CValue(n, env) \in Fitting(Specifier(n, env))
      OBVIOUS
    <2>1. CASE n.kind # "ternary"  BY <2>1, FormatOfOne
    <2>2. CASE n.kind = "ternary"
      <3>. DEFINE c == [i \in DOMAIN n.kids |-> CValue(n.kids[i], env)]
                  s == [i \in DOMAIN n.kids |-> Specifier(n.kids[i], env)]
                  r == [i \in DOMAIN n.kids |-> Regular(n.kids[i], env)]
      <3>1. /\ CValue(n, env) = ValueRule(n, c, env)
            /\ Specifier(n, env) = SpecifierRule(n, s, env)
            /\ Regular(n, env) = RegularRule(n, r, env)
        BY CValueUnfolds, SpecifierUnfolds, RegularUnfolds
      <3>2. /\ IsSequence(n.kids) /\ Placed(n) /\ n.height \in Nat
            /\ \A i \in DOMAIN n.kids : n.kids[i].height < n.height /\ Walks(n.kids[i])
        BY WalksDown DEF Shaped
      <3>3. Len(n.kids) = 3 /\ All(Kinds(n), Expressions)  BY <2>2, <3>2 DEF Placed
      <3>4. \A i \in 1 .. 3 : n.kids[i].kind \in Expressions  BY <3>2, <3>3, KindsOfChildren
      <3>5. 2 \in DOMAIN n.kids /\ 3 \in DOMAIN n.kids
        <4>. PICK S : n.kids \in Seq(S)  BY <3>2 DEF IsSequence
        <4>. QED  BY <3>3
      <3>. DEFINE k == n.kids[2]
      <3>6. c[2] = CValue(k, env) /\ c[3] = CValue(n.kids[3], env) /\ s[2] = Specifier(k, env)
            /\ r[2] = Regular(k, env)
        BY <3>5
      <3>. HIDE DEF c, s, r
      <3>7. CValue(k, env) = CValue(n.kids[3], env) /\ Regular(k, env)
        BY <2>2, <3>1, <3>6 DEF RegularRule
      <3>8. CValue(n, env) = CValue(k, env)  BY <2>2, <3>1, <3>6, <3>7 DEF ValueRule
      <3>9. Specifier(n, env) = Specifier(k, env)  BY <2>2, <3>1, <3>6 DEF SpecifierRule
      <3>10. Walks(k) /\ k.kind \in Expressions /\ k.height \in Nat /\ k.height < n.height
        <4>1. Walks(k) /\ k.kind \in Expressions /\ k.height < n.height  BY <3>2, <3>4, <3>5
        <4>2. k.height \in Nat  BY <4>1, WalksDown DEF Shaped
        <4>. QED  BY <4>1, <4>2
      <3>. HIDE DEF k
      <3>11. k.height < h  BY <3>2, <3>10
      <3>. QED  BY <1>2, <3>7, <3>8, <3>9, <3>10, <3>11
    <2>. QED  BY <2>1, <2>2
  <1>. HIDE DEF T
  <1>3. Nat \subseteq T  BY <1>1, <1>2, Induction
  <1>4. ASSUME NEW n, Walks(n) PROVE Fits0(n)
    <2>1. n.height \in Nat  BY <1>4, WalksDown DEF Shaped
    <2>2. n.height + 1 \in T /\ n.height < n.height + 1  BY <1>3, <2>1
    <2>. QED  BY <2>2 DEF T
  <1>. QED  BY <1>4

-----------------------------------------------------------------------------
\* The code of one node.
Codes(n, kid, env) == [i \in DOMAIN n.kids |-> kid[i][<<"node", env>>]]

\* What is written for a node is its rule on what is written for its children.
LEMMA WrittenIs ==
  ASSUME NEW n, Walks(n), NEW env, NEW e \in {env, Unseen}
  PROVE  LET kid == [i \in DOMAIN n.kids |-> Written(n.kids[i], env)] IN
         /\ Written(n, env)[<<"node", e>>] = NodeCode(n, kid, e)
         /\ Written(n, env)[<<"param", e>>] = ForParam(n, kid, e)
  <1>. DEFINE kid == [i \in DOMAIN n.kids |-> Written(n.kids[i], env)]
  <1>1. Written(n, env) = WrittenRule(n, kid, env)  BY WrittenUnfolds
  <1>. HIDE DEF kid
  <1>. PICK w : w = WrittenRule(n, kid, env)  OBVIOUS
  <1>2. <<"node", e>> \in {"node", "param"} \X {env, Unseen}
        /\ <<"param", e>> \in {"node", "param"} \X {env, Unseen}
    OBVIOUS
  <1>3. w[<<"node", e>>] = NodeCode(n, kid, e)
    <2>1. <<"node", e>>[1] = "node" /\ <<"node", e>>[2] = e  OBVIOUS
    <2>. QED  BY <1>2, <2>1, Zenon DEF WrittenRule
  <1>4. w[<<"param", e>>] = ForParam(n, kid, e)
    <2>1. <<"param", e>>[1] = "param" /\ <<"param", e>>[2] = e /\ "param" # "node"  OBVIOUS
    <2>. QED  BY <1>2, <2>1, Zenon DEF WrittenRule
  <1>. QED  BY <1>1, <1>3, <1>4 DEF kid

\* The cases of codegen_node, for expressions and for statements.
LEMMA NodeCodeOfExpressions ==
  ASSUME NEW n, NEW kid, NEW env
  PROVE  LET codes == Codes(n, kid, env)
             unseen == Codes(n, kid, Unseen)
             code == NodeCode(n, kid, env) IN
         /\ n.kind \in {"int", "float", "bool", "char", "identifier"} => code = Texts(<<n.words[1]>>)
         /\ n.kind = "string" => code = Texts(<<"text">>)
         /\ n.kind = "list" => code = CCall(<<"__pinum_vec_init">>, <<Texts(<<"count">>)>> \o
                                        [i \in DOMAIN codes |-> <<Text("cast")>> \o codes[i]])
         /\ n.kind = "access" => code = ElementAt(n.words[1], codes[1])
         /\ n.kind = "binary" => code = BinaryCode(n, codes, env)
         /\ n.kind = "unary" => code = Enclosed(<<Text(n.words[1])>> \o codes[1])
         /\ n.kind = "ternary" => code = Enclosed(codes[1] \o <<Text("?")>> \o codes[2] \o
                                                  <<Text(":")>> \o codes[3])
         /\ n.kind = "call" => code = CCall(<<n.words[1]>>, unseen)
         /\ n.kind = "member" => code = MemberCode(n, codes, env)
         /\ n.kind \in Assignments => code = End(AssignCode(n, kid, env))
  BY DEF NodeCode, Codes, Assignments

LEMMA NodeCodeOfStatements ==
  ASSUME NEW n, NEW kid, NEW env
  PROVE  LET codes == Codes(n, kid, env)
             code == NodeCode(n, kid, env) IN
         /\ n.kind = "decl" => code = End(DeclCode(n, kid, env))
         /\ n.kind = "block" => code = <<LBrace>> \o
                                  FlattenSeq([i \in DOMAIN codes |-> StmtCode(n.kids[i], codes[i])])
                                  \o <<RBrace>>
         /\ n.kind = "if" => code = <<Text("if")>> \o Enclosed(codes[1]) \o codes[2] \o
                                  (IF Len(codes) = 3 THEN <<Text("else")>> \o codes[3] ELSE <<>>)
         /\ n.kind = "while" => code = <<Text("while")>> \o Enclosed(codes[1]) \o codes[2]
         /\ n.kind = "for" => code = <<For>> \o
                                  Enclosed(End(kid[1][<<"param", env>>]) \o
                                           End(IF n.kids[2].kind = "null" THEN <<>> ELSE codes[2]) \o
                                           kid[3][<<"param", env>>]) \o codes[4]
         /\ n.kind = "return" => code = End(<<Text("return")>> \o codes[1])
         /\ n.kind = "read" => \E s : code = End(CCall(<<"scanf">>, <<Texts(<<s>>),
                                                                Texts(<<"&", n.words[2]>>)>>))
         /\ n.kind \in {"break", "continue"} => code = End(Texts(<<n.words[1]>>))
         /\ n.kind = "print" => code = PrintCode(n, codes, env)
         /\ n.kind = "directive" => code = <<>>
         /\ n.kind = "func" => code = FuncCode(n, kid, env)
  BY DEF NodeCode, Codes, Assignments

-----------------------------------------------------------------------------
\* One operation of an expression.
LEMMA InlineAll ==
  ASSUME NEW a, IsSequence(a), \A i \in 1 .. Len(a) : Inline(a[i]),
         NEW b, IsSequence(b), \A i \in 1 .. Len(b) : Inline(b[i])
  PROVE  IsSequence(a \o b) /\ \A i \in 1 .. Len(a \o b) : Inline((a \o b)[i])
  <1>1. /\ IsSequence(a \o b) /\ Len(a \o b) = Len(a) + Len(b)
        /\ Len(a) \in Nat /\ Len(b) \in Nat
        /\ \A i \in 1 .. Len(a) : (a \o b)[i] = a[i]
        /\ \A i \in 1 .. Len(b) : (a \o b)[Len(a) + i] = b[i]
    BY ConcatLength
  <1>2. ASSUME NEW i \in 1 .. Len(a \o b) PROVE Inline((a \o b)[i])
    <2>1. CASE i \in 1 .. Len(a)  BY <1>1, <2>1
    <2>2. CASE i \notin 1 .. Len(a)
      <3>. PICK j : j = i - Len(a)  OBVIOUS
      <3>1. j \in 1 .. Len(b) /\ Len(a) + j = i  BY <1>1, <2>2
      <3>. QED  BY <1>1, <3>1
    <2>. QED  BY <2>1, <2>2
  <1>. QED  BY <1>1, <1>2

\* The calls of the runtime that operators on text become.
LEMMA InlineHelper ==
  ASSUME NEW n, NEW env, NEW codes, Inline(codes[1]), Inline(codes[2])
  PROVE  Inline(BinaryCode(n, codes, env))
  <1>1. CASE Helper(n, env) = NoHelper
    <2>1. Inline(codes[1] \o <<Text(n.words[1])>>)  BY InlineText, InlineJoin
    <2>2. Inline(codes[1] \o <<Text(n.words[1])>> \o codes[2])  BY <2>1, InlineJoin
    <2>3. Inline(Enclosed(codes[1] \o <<Text(n.words[1])>> \o codes[2]))
      BY <2>2, InlineEnclosed
    <2>. QED  BY <1>1, <2>3 DEF BinaryCode
  <1>2. CASE Helper(n, env) # NoHelper
    <2>. DEFINE h == Helper(n, env)
    <2>1. h.first \in {1, 2} /\ h.second \in {1, 2}  BY DEF Helper, NoHelper
    <2>. HIDE DEF h
    <2>2. Inline(codes[h.first]) /\ Inline(codes[h.second])  BY <2>1
    <2>3. Inline(CCall(<<h.f>>, <<codes[h.first], codes[h.second]>>))
      BY <2>2, InlineCallOfTwo, Tuples
    <2>. QED  BY <1>2, <2>3 DEF BinaryCode, h
  <1>. QED  BY <1>1, <1>2

\* An expression whose operands are written as such.
LEMMA OneExpressionInline ==
  ASSUME NEW n, Shaped(n), n.kind \in Expressions, ~ EndsItself(n), NEW kid, NEW env,
         \A i \in DOMAIN n.kids : /\ Inline(kid[i][<<"node", env>>])
                                  /\ Inline(kid[i][<<"node", Unseen>>])
  PROVE  Inline(NodeCode(n, kid, env))
  <1>. DEFINE codes == Codes(n, kid, env)
              unseen == Codes(n, kid, Unseen)
              code == NodeCode(n, kid, env)
  <1>1. DOMAIN n.kids = 1 .. Len(n.kids) /\ Len(n.kids) \in Nat  BY DomainOfSequence DEF Shaped
  <1>2. /\ IsSequence(codes) /\ Len(codes) = Len(n.kids)
        /\ IsSequence(unseen) /\ Len(unseen) = Len(n.kids)
    <2>1. codes = [i \in 1 .. Len(n.kids) |-> codes[i]] /\ unseen = [i \in 1 .. Len(n.kids) |-> unseen[i]]
      BY <1>1 DEF Codes
    <2>. HIDE DEF codes, unseen
    <2>. QED  BY <1>1, <2>1, FunctionIsSequence
  <1>3. \A i \in 1 .. Len(n.kids) : Inline(codes[i]) /\ Inline(unseen[i])  BY <1>1 DEF Codes
  <1>4. /\ n.kind \in {"int", "float", "bool", "char", "identifier"} => code = Texts(<<n.words[1]>>)
        /\ n.kind = "string" => code = Texts(<<"text">>)
        /\ n.kind = "list" => code = CCall(<<"__pinum_vec_init">>, <<Texts(<<"count">>)>> \o
                                       [i \in DOMAIN codes |-> <<Text("cast")>> \o codes[i]])
        /\ n.kind = "access" => code = ElementAt(n.words[1], codes[1])
        /\ n.kind = "binary" => code = BinaryCode(n, codes, env)
        /\ n.kind = "unary" => code = Enclosed(<<Text(n.words[1])>> \o codes[1])
        /\ n.kind = "ternary" => code = Enclosed(codes[1] \o <<Text("?")>> \o codes[2] \o
                                                 <<Text(":")>> \o codes[3])
        /\ n.kind = "call" => code = CCall(<<n.words[1]>>, unseen)
        /\ n.kind = "member" => code = MemberCode(n, codes, env)
    BY NodeCodeOfExpressions
  <1>5. /\ n.kind = "member" => Len(n.kids) = 1
        /\ n.kind \in {"access", "unary"} => Len(n.kids) = 1
        /\ n.kind = "binary" => Len(n.kids) = 2
        /\ n.kind = "ternary" => Len(n.kids) = 3
    <2>1. Placed(n)  BY DEF Shaped
    <2>2. /\ n.kind = "member" => Len(n.kids) >= 1
          /\ n.kind \in {"access", "unary"} => Len(n.kids) = 1
          /\ n.kind = "binary" => Len(n.kids) = 2
          /\ n.kind = "ternary" => Len(n.kids) = 3
      BY <2>1 DEF Placed
    <2>3. n.kind = "member" => ~ (Len(n.kids) > 1)  BY DEF EndsItself
    <2>. HIDE DEF codes, unseen, code
    <2>4. n.kind = "member" => Len(n.kids) = 1
      <3>1. \A m \in Nat : m >= 1 /\ ~ (m > 1) => m = 1  OBVIOUS
      <3>2. Len(n.kids) \in Nat  BY <1>1
      <3>. QED  BY <2>2, <2>3, <3>1, <3>2, Zenon
    <2>. QED  BY <2>2, <2>4
  <1>. HIDE DEF codes, unseen, code
  <1>6. CASE n.kind \in Literal \cup {"identifier"}
    BY <1>4, <1>6, InlineShortTexts DEF Literal, code
  <1>7. CASE n.kind = "list"
    <2>. PICK s : s = [i \in 1 .. Len(n.kids) |-> <<Text("cast")>> \o codes[i]]  OBVIOUS
    <2>1. IsSequence(s) /\ Len(s) = Len(n.kids)
      <3>1. s = [i \in 1 .. Len(n.kids) |-> s[i]]  OBVIOUS
      <3>. QED  BY <1>1, <3>1, FunctionIsSequence
    <2>2. \A i \in 1 .. Len(s) : Inline(s[i])  BY <1>3, <2>1, InlineText, InlineJoin
    <2>. PICK t : t = <<Texts(<<"count">>)>>  OBVIOUS
    <2>3. IsSequence(t) /\ Len(t) = 1 /\ Inline(t[1])  BY Tuples, InlineShortTexts
    <2>4. IsSequence(t \o s) /\ \A i \in 1 .. Len(t \o s) : Inline((t \o s)[i])
      <3>1. \A i \in 1 .. Len(t) : Inline(t[i])
        <4>1. \A i \in 1 .. Len(t) : i = 1  BY <2>3
        <4>. QED  BY <2>3, <4>1
      <3>. QED  BY <2>1, <2>2, <2>3, <3>1, InlineAll
    <2>5. DOMAIN codes = 1 .. Len(n.kids)  BY <1>2, DomainOfSequence
    <2>6. code = CCall(<<"__pinum_vec_init">>, t \o s)  BY <1>4, <1>7, <2>5
    <2>7. IsSequence(<<"__pinum_vec_init">>)  BY Tuples
    <2>. QED  BY <2>4, <2>6, <2>7, InlineCall DEF code
  <1>8. CASE n.kind = "access"
    <2>1. Inline(codes[1])  BY <1>3, <1>5, <1>8
    <2>. QED  BY <1>4, <1>8, <2>1, InlineElementAt DEF code
  <1>9. CASE n.kind = "binary"
    <2>0. Len(n.kids) = 2  BY <1>5, <1>9
    <2>1. Inline(codes[1]) /\ Inline(codes[2])  BY <1>3, <2>0
    <2>. QED  BY <1>4, <1>9, <2>1, InlineHelper DEF code
  <1>10. CASE n.kind = "unary"
    <2>1. Inline(codes[1])  BY <1>3, <1>5, <1>10
    <2>2. Inline(<<Text(n.words[1])>> \o codes[1])  BY <2>1, InlineText, InlineJoin
    <2>. QED  BY <1>4, <1>10, <2>2, InlineEnclosed DEF code
  <1>11. CASE n.kind = "ternary"
    <2>1. Inline(codes[1]) /\ Inline(codes[2]) /\ Inline(codes[3])  BY <1>3, <1>5, <1>11
    <2>. PICK q, c : q = <<Text("?")>> /\ c = <<Text(":")>>  OBVIOUS
    <2>2. Inline(q) /\ Inline(c)  BY InlineText
    <2>3. Inline(codes[1] \o q)  BY <2>1, <2>2, InlineJoin
    <2>4. Inline(codes[1] \o q \o codes[2])  BY <2>1, <2>3, InlineJoin
    <2>5. Inline(codes[1] \o q \o codes[2] \o c)  BY <2>2, <2>4, InlineJoin
    <2>6. Inline(codes[1] \o q \o codes[2] \o c \o codes[3])  BY <2>1, <2>5, InlineJoin
    <2>. QED  BY <1>4, <1>11, <2>6, InlineEnclosed DEF code
  <1>12. CASE n.kind = "call"
    <2>1. IsSequence(<<n.words[1]>>)  BY Tuples
    <2>. QED  BY <1>2, <1>3, <1>4, <1>12, <2>1, InlineCall DEF code
  <1>13. CASE n.kind = "member"
    <2>0. Len(n.kids) = 1  BY <1>5, <1>13
    <2>1. Len(n.kids) = 1 /\ Inline(codes[1])  BY <1>3, <2>0
    <2>2. code = codes[1] \o Texts(<<".", n.words[1]>>)
      BY <1>4, <1>13, <2>1 DEF MemberCode
    <2>3. Inline(Texts(<<".", n.words[1]>>))  BY InlineShortTexts
    <2>. QED  BY <2>1, <2>2, <2>3, InlineJoin DEF code
  <1>14. n.kind \notin Assignments  BY DEF EndsItself
  <1>. QED
    BY <1>6, <1>7, <1>8, <1>9, <1>10, <1>11, <1>12, <1>13, <1>14 DEF Expressions

-----------------------------------------------------------------------------
\* One statement.
LEMMA AssignInline ==
  ASSUME NEW n, Shaped(n), n.kind \in Assignments, NEW kid, NEW env,
         \A i \in DOMAIN n.kids : Inline(kid[i][<<"node", env>>])
  PROVE  Inline(AssignCode(n, kid, env))
  <1>1. DOMAIN n.kids = 1 .. Len(n.kids)  BY DomainOfSequence DEF Shaped
  <1>2. Placed(n)  BY DEF Shaped
  <1>3. CASE n.kind = "assign"
    <2>1. Len(n.kids) = 1  BY <1>2, <1>3 DEF Placed
    <2>2. Inline(kid[1][<<"node", env>>])  BY <1>1, <2>1
    <2>3. Inline(Texts(<<n.words[1], "=">>))  BY InlineShortTexts
    <2>4. Inline(Texts(<<n.words[1], "=">>) \o kid[1][<<"node", env>>])
      BY <2>2, <2>3, InlineJoin
    <2>. QED  BY <1>3, <2>4 DEF AssignCode
  <1>4. CASE n.kind = "assign_element"
    <2>1. Len(n.kids) = 2  BY <1>2, <1>4 DEF Placed
    <2>. PICK c, d : c = kid[1][<<"node", env>>] /\ d = kid[2][<<"node", env>>]  OBVIOUS
    <2>2. Inline(c) /\ Inline(d)  BY <1>1, <2>1
    <2>. PICK a, b : a = ElementAt(n.words[1], c) /\ b = <<Text("=")>>  OBVIOUS
    <2>3. Inline(a) /\ Inline(b)  BY <2>2, InlineElementAt, InlineText
    <2>4. Inline(a \o b)  BY <2>3, InlineJoin
    <2>5. Inline(a \o b \o d)  BY <2>2, <2>4, InlineJoin
    <2>6. AssignCode(n, kid, env) = a \o b \o d  BY <1>4, Zenon DEF AssignCode
    <2>. QED  BY <2>5, <2>6
  <1>. QED  BY <1>3, <1>4 DEF Assignments

\* A declaration without its end.
LEMMA DeclInline ==
  ASSUME NEW n, Shaped(n), n.kind = "decl", NEW kid, NEW env,
         \A i \in DOMAIN n.kids : Inline(kid[i][<<"node", env>>])
  PROVE  Inline(DeclCode(n, kid, env))
  <1>1. IsSequence(n.kids) /\ DOMAIN n.kids = 1 .. Len(n.kids)
    BY DomainOfSequence DEF Shaped
  <1>2. Inline(Typed(n.words, 1, Last(n.words)))  BY InlineTyped
  <1>3. CASE n.kids = <<>>
    <2>1. Inline(Typed(n.words, 1, Last(n.words)) \o <<>>)
      BY <1>2, InlineNothing, InlineJoin
    <2>. QED  BY <1>3, <2>1 DEF DeclCode
  <1>4. CASE n.kids # <<>>
    <2>1. Len(n.kids) \in Nat \ {0}  BY <1>1, <1>4, TailLength
    <2>2. Inline(kid[1][<<"node", env>>])  BY <1>1, <2>1
    <2>3. Inline(<<Text("=")>> \o kid[1][<<"node", env>>])  BY <2>2, InlineText, InlineJoin
    <2>4. Inline(Typed(n.words, 1, Last(n.words)) \o (<<Text("=")>> \o kid[1][<<"node", env>>]))
      BY <1>2, <2>3, InlineJoin
    <2>. QED  BY <1>4, <2>4 DEF DeclCode
  <1>. QED  BY <1>3, <1>4

\* A call of append ends itself.
LEMMA MethodStated ==
  ASSUME NEW n, NEW env, NEW codes, Len(n.kids) > 1, IsVec(n.kids[1], env),
         Inline(codes[1]), Inline(codes[2])
  PROVE  Stated(MemberCode(n, codes, env))
  <1>. PICK f, a : /\ f = <<"__pinum_", Resolved(n.kids[1], env), "_append">>
                   /\ a = <<Text("&")>> \o codes[1]
    OBVIOUS
  <1>1. IsSequence(f)  BY Tuples
  <1>2. Inline(a)  BY InlineText, InlineJoin
  <1>3. Inline(CCall(f, <<a, codes[2]>>))  BY <1>1, <1>2, InlineCallOfTwo
  <1>4. Len(n.kids) # 1
    <2>1. ~ (1 > 1)  OBVIOUS
    <2>. QED  BY <2>1, Zenon
  <1>5. MemberCode(n, codes, env) = End(CCall(f, <<a, codes[2]>>))
    BY <1>4, Zenon DEF MemberCode
  <1>. QED  BY <1>3, <1>5, StatedEnd

\* The arguments of one group.
LEMMA SliceInline ==
  ASSUME NEW s, IsSequence(s), \A i \in 1 .. Len(s) : Inline(s[i]),
         NEW a \in 1 .. Len(s), NEW b \in 1 .. Len(s), a <= b
  PROVE  /\ IsSequence(SubSeq(s, a, b))
         /\ \A i \in 1 .. Len(SubSeq(s, a, b)) : Inline(SubSeq(s, a, b)[i])
  <1>. PICK S : s \in Seq(S)  BY DEF IsSequence
  <1>0. Len(s) \in Nat  OBVIOUS
  <1>. PICK t : t = SubSeq(s, a, b)  OBVIOUS
  <1>1. /\ t \in Seq(S) /\ Len(t) = b - a + 1
        /\ \A i \in 1 .. Len(t) : t[i] = s[a + i - 1]
    BY <1>0
  <1>2. \A i \in 1 .. Len(t) : a + i - 1 \in 1 .. Len(s)  BY <1>0, <1>1
  <1>. QED  BY <1>1, <1>2 DEF IsSequence

\* One group is one call of printf or of a helper.
LEMMA PrintGroupStated ==
  ASSUME NEW args, NEW codes, IsSequence(codes), \A i \in 1 .. Len(codes) : Inline(codes[i]),
         NEW g, NEW env, g[1] \in 1 .. Len(codes), g[2] \in 1 .. Len(codes), g[1] <= g[2]
  PROVE  Stated(PrintGroup(args, codes, g, env))
  <1>0. Len(codes) \in Nat  BY DomainOfSequence
  <1>1. CASE IsVec(args[g[1]], env)
    <2>. PICK f : f = <<"__pinum_", Resolved(args[g[1]], env), "_print">>  OBVIOUS
    <2>1. IsSequence(f)  BY Tuples
    <2>2. Inline(codes[g[1]])  OBVIOUS
    <2>3. Inline(CCall(f, <<codes[g[1]]>>))  BY <2>1, <2>2, InlineCallOfOne
    <2>4. PrintGroup(args, codes, g, env) = End(CCall(f, <<codes[g[1]]>>))
      BY <1>1, Zenon DEF PrintGroup
    <2>. QED  BY <2>3, <2>4, StatedEnd
  <1>2. CASE ~ IsVec(args[g[1]], env)
    <2>. PICK k : k = g[2] - g[1] + 1  OBVIOUS
    <2>. PICK format : format = [i \in 1 .. k |-> Specifier(args[g[1] + i - 1], env)]  OBVIOUS
    <2>1. k \in Nat  BY <1>0
    <2>2. IsSequence(format)
      <3>1. format = [i \in 1 .. k |-> format[i]]  OBVIOUS
      <3>. QED  BY <2>1, <3>1, FunctionIsSequence
    <2>. PICK t, s, f : t = <<Texts(format)>> /\ s = SubSeq(codes, g[1], g[2]) /\ f = <<"printf">>
      OBVIOUS
    <2>3. IsSequence(t) /\ Len(t) = 1 /\ t[1] = Texts(format) /\ IsSequence(f)  BY Tuples
    <2>4. Inline(Texts(format))  BY <2>2, InlineTexts
    <2>5. \A i \in 1 .. Len(t) : Inline(t[i])
      <3>1. \A i \in 1 .. Len(t) : i = 1  BY <2>3
      <3>. QED  BY <2>3, <2>4, <3>1
    <2>6. IsSequence(s) /\ \A i \in 1 .. Len(s) : Inline(s[i])  BY SliceInline
    <2>7. IsSequence(t \o s) /\ \A i \in 1 .. Len(t \o s) : Inline((t \o s)[i])
      BY <2>3, <2>5, <2>6, InlineAll
    <2>8. Inline(CCall(f, t \o s))  BY <2>3, <2>7, InlineCall
    <2>9. PrintGroup(args, codes, g, env) = End(CCall(f, t \o s))
      BY <1>2, Zenon DEF PrintGroup
    <2>. QED  BY <2>8, <2>9, StatedEnd
  <1>. QED  BY <1>1, <1>2

\* A print is these calls in a row.
LEMMA PrintStated ==
  ASSUME NEW n, IsSequence(n.kids), NEW codes, IsSequence(codes), Len(codes) = Len(n.kids),
         \A i \in 1 .. Len(codes) : Inline(codes[i]), NEW env
  PROVE  Stated(PrintCode(n, codes, env))
  <1>. PICK groups : groups = PrintGroups(n.kids, env)  OBVIOUS
  <1>. PICK V : V = {k \in 1 .. Len(n.kids) : IsVec(n.kids[k], env)}  OBVIOUS
  <1>1. Groups(groups, Len(n.kids), V)  BY PrintGroupsCover
  <1>. PICK k : k = Len(groups)  OBVIOUS
  <1>2. IsSequence(groups) /\ DOMAIN groups = 1 .. k /\ k \in Nat
    BY <1>1, DomainOfSequence DEF Groups
  <1>. PICK s : s = [i \in 1 .. k |-> PrintGroup(n.kids, codes, groups[i], env)]  OBVIOUS
  <1>3. IsSequence(s) /\ Len(s) = k
    <2>1. s = [i \in 1 .. k |-> s[i]]  OBVIOUS
    <2>. QED  BY <1>2, <2>1, FunctionIsSequence
  <1>4. ASSUME NEW i \in 1 .. k PROVE Stated(s[i])
    <2>. PICK g : g = groups[i]  OBVIOUS
    <2>1. g[1] \in 1 .. Len(codes) /\ g[2] \in 1 .. Len(codes) /\ g[1] <= g[2]
      BY <1>1 DEF Groups
    <2>2. Stated(PrintGroup(n.kids, codes, g, env))  BY <2>1, PrintGroupStated
    <2>. QED  BY <2>2
  <1>5. Stated(FlattenSeq(s))  BY <1>3, <1>4, StatedFlatten
  <1>. PICK line : line = End(CCall(<<"printf">>, <<Texts(<<"newline">>)>>))  OBVIOUS
  <1>6. Stated(line)
    <2>1. IsSequence(<<"printf">>) /\ Inline(Texts(<<"newline">>))  BY Tuples, InlineShortTexts
    <2>. QED  BY <2>1, InlineCallOfOne, StatedEnd
  <1>7. Stated(FlattenSeq(s) \o line) /\ Stated(FlattenSeq(s) \o <<>>)
    BY <1>5, <1>6, InlineNothing, StatedJoin
  <1>8. PrintCode(n, codes, env) =
          FlattenSeq(s) \o (IF n.words[1] = "println" THEN line ELSE <<>>)
    BY <1>2 DEF PrintCode
  <1>. QED  BY <1>7, <1>8

-----------------------------------------------------------------------------
\* Trees whose assignments and method calls are statements.
Sited(n) ==
  \A i \in DOMAIN n.kids :
    LET kid == n.kids[i] IN
    /\ EndsItself(kid) => \/ n.kind = "block"
                          \/ n.kind = "for" /\ i \in {1, 3} /\ kid.kind \in Assignments
    /\ n.kind = "block" /\ kid.kind \in Expressions => EndsItself(kid) \/ kid.kind = "call"
Neat(n) == Walks(n) /\ \A m \in Subtrees(n) : Sited(m)

\* The children of a neat tree are neat.
LEMMA NeatDown ==
  ASSUME NEW n, Neat(n)
  PROVE  /\ Walks(n) /\ Shaped(n) /\ Sited(n)
         /\ \A i \in DOMAIN n.kids : Neat(n.kids[i])
  <1>1. Walks(n)  BY DEF Neat
  <1>2. n \in Subtrees(n) /\ Closed(Subtrees(n)) /\ \A m \in Subtrees(n) : Shaped(m) /\ Walks(m)
    BY <1>1, SubtreesShaped
  <1>3. ASSUME NEW i \in DOMAIN n.kids PROVE Neat(n.kids[i])
    <2>. PICK k : k = n.kids[i]  OBVIOUS
    <2>1. k \in Subtrees(n)  BY <1>2 DEF Closed
    <2>2. Subtrees(k) \subseteq Subtrees(n)  BY <1>1, <2>1, SubtreesOfChild
    <2>. QED  BY <1>2, <2>1, <2>2 DEF Neat
  <1>. QED  BY <1>1, <1>2, <1>3 DEF Neat

\* Below expressions, declarations, prints and returns are expressions.
LEMMA ExpressionsBelow ==
  ASSUME NEW n, Shaped(n), n.kind \in Expressions \cup {"decl", "print", "return"}
  PROVE  \A i \in DOMAIN n.kids : n.kids[i].kind \in Expressions
  <1>1. IsSequence(n.kids) /\ Placed(n)  BY DEF Shaped
  <1>2. DOMAIN n.kids = 1 .. Len(n.kids)  BY <1>1, DomainOfSequence
  <1>3. CASE n.kind \in Literal \cup {"identifier"}
    <2>1. n.kind \notin Inner  BY <1>3 DEF Literal, Inner, Assignments
    <2>2. Len(n.kids) = 0  BY <1>1, <2>1 DEF Placed
    <2>. QED  BY <1>2, <2>2
  <1>4. CASE n.kind \notin Literal \cup {"identifier"}
    <2>1. n.kind \in Assignments \cup {"list", "access", "binary", "unary", "ternary", "call",
                                       "member", "decl", "print", "return"}
      BY <1>4 DEF Expressions
    <2>2. All(Kinds(n), Expressions)  BY <1>1, <2>1 DEF Placed, Assignments
    <2>. QED  BY <1>1, <1>2, <2>2, KindsOfChildren
  <1>. QED  BY <1>3, <1>4

\* What codegen_node writes of an expression, whatever is known of its types.
LEMMA ExpressionsInline ==
  ASSUME NEW env
  PROVE  \A n : Neat(n) /\ n.kind \in Expressions /\ ~ EndsItself(n)
                  => /\ Inline(Written(n, env)[<<"node", env>>])
                     /\ Inline(Written(n, env)[<<"node", Unseen>>])
  <1>. DEFINE Both(n) == /\ Inline(Written(n, env)[<<"node", env>>])
                         /\ Inline(Written(n, env)[<<"node", Unseen>>])
              Claim(n) == Neat(n) /\ n.kind \in Expressions /\ ~ EndsItself(n) => Both(n)
              T == {h \in Nat : \A n : n.height < h => Claim(n)}
  <1>0. \A n : Neat(n) => n.height \in Nat  BY NeatDown DEF Shaped
  <1>1. 0 \in T
    <2>1. \A h \in Nat : ~ (h < 0)  OBVIOUS
    <2>. HIDE DEF Both
    <2>. QED  BY <1>0, <2>1
  <1>2. ASSUME NEW h \in Nat, h \in T PROVE h + 1 \in T
    <2>. HIDE DEF Both
    <2>. SUFFICES ASSUME NEW n, n.height < h + 1, Neat(n), n.kind \in Expressions,
                         ~ EndsItself(n)
                  PROVE  Both(n)
      OBVIOUS
    <2>1. Walks(n) /\ Shaped(n) /\ Sited(n)  BY NeatDown
    <2>2. ASSUME NEW i \in DOMAIN n.kids PROVE Both(n.kids[i])
      <3>. PICK k : k = n.kids[i]  OBVIOUS
      <3>1. Neat(k)  BY NeatDown
      <3>2. k.kind \in Expressions  BY <2>1, ExpressionsBelow
      <3>3. ~ EndsItself(k)
        <4>1. n.kind # "block" /\ n.kind # "for"  BY KindFacts DEF Expressions, Literal, Assignments
        <4>. QED  BY <2>1, <4>1 DEF Sited
      <3>4. k.height \in Nat /\ n.height \in Nat /\ k.height < n.height
        BY <1>0, <2>1, <3>1 DEF Shaped
      <3>5. k.height < h  BY <3>4
      <3>. QED  BY <1>2, <3>1, <3>2, <3>3, <3>5
    <2>. DEFINE kid == [i \in DOMAIN n.kids |-> Written(n.kids[i], env)]
    <2>3. \A i \in DOMAIN n.kids : kid[i] = Written(n.kids[i], env)  OBVIOUS
    <2>4. /\ Written(n, env)[<<"node", env>>] = NodeCode(n, kid, env)
          /\ Written(n, env)[<<"node", Unseen>>] = NodeCode(n, kid, Unseen)
      BY <2>1, WrittenIs
    <2>. HIDE DEF kid
    <2>5. \A i \in DOMAIN n.kids : /\ Inline(kid[i][<<"node", env>>])
                                   /\ Inline(kid[i][<<"node", Unseen>>])
      BY <2>2, <2>3 DEF Both
    <2>6. Inline(NodeCode(n, kid, env)) /\ Inline(NodeCode(n, kid, Unseen))
      BY <2>1, <2>5, OneExpressionInline
    <2>. QED  BY <2>4, <2>6 DEF Both
  <1>. HIDE DEF T
  <1>3. Nat \subseteq T  BY <1>1, <1>2, Induction
  <1>4. ASSUME NEW n, Neat(n) PROVE Claim(n)
    <2>1. n.height \in Nat  BY <1>0, <1>4
    <2>2. n.height + 1 \in T /\ n.height < n.height + 1  BY <1>3, <2>1
    <2>. HIDE DEF Claim
    <2>. QED  BY <2>2 DEF T
  <1>. QED  BY <1>4

\* The parts of a for header, and parameters.
LEMMA ParamInline ==
  ASSUME NEW env, NEW n, Neat(n), n.kind \in Expressions \cup {"decl", "null"},
         EndsItself(n) => n.kind \in Assignments
  PROVE  Inline(Written(n, env)[<<"param", env>>])
  <1>. DEFINE kid == [i \in DOMAIN n.kids |-> Written(n.kids[i], env)]
  <1>1. Walks(n) /\ Shaped(n) /\ Sited(n)  BY NeatDown
  <1>2. /\ Written(n, env)[<<"node", env>>] = NodeCode(n, kid, env)
        /\ Written(n, env)[<<"param", env>>] = ForParam(n, kid, env)
    BY <1>1, WrittenIs
  <1>3. \A i \in DOMAIN n.kids : kid[i] = Written(n.kids[i], env)  OBVIOUS
  <1>. HIDE DEF kid
  <1>4. n.kind # "null" => \A i \in DOMAIN n.kids : Inline(kid[i][<<"node", env>>])
    <2>. SUFFICES ASSUME n.kind # "null", NEW i \in DOMAIN n.kids
                  PROVE  Inline(kid[i][<<"node", env>>])
      OBVIOUS
    <2>. PICK k : k = n.kids[i]  OBVIOUS
    <2>1. Neat(k) /\ k.kind \in Expressions
      <3>1. n.kind \in Expressions \cup {"decl", "print", "return"}  OBVIOUS
      <3>. QED  BY <1>1, <3>1, NeatDown, ExpressionsBelow
    <2>2. ~ EndsItself(k)
      <3>1. n.kind # "block" /\ n.kind # "for"  BY DEF Expressions, Literal, Assignments
      <3>. QED  BY <1>1, <3>1 DEF Sited
    <2>3. Inline(Written(k, env)[<<"node", env>>])  BY <2>1, <2>2, ExpressionsInline
    <2>. QED  BY <1>3, <2>3
  <1>5. CASE n.kind = "null"
    <2>1. ForParam(n, kid, env) = <<>>  BY <1>5 DEF ForParam, Assignments
    <2>. QED  BY <1>2, <2>1, InlineNothing
  <1>6. CASE n.kind = "decl"
    <2>1. ForParam(n, kid, env) = DeclCode(n, kid, env)  BY <1>6 DEF ForParam, Assignments
    <2>. QED  BY <1>1, <1>2, <1>4, <1>6, <2>1, DeclInline
  <1>7. CASE n.kind \in Assignments
    <2>0. n.kind # "null" /\ n.kind # "decl"  BY <1>7 DEF Assignments
    <2>1. ForParam(n, kid, env) = AssignCode(n, kid, env)  BY <1>7, <2>0 DEF ForParam
    <2>. QED  BY <1>1, <1>2, <1>4, <1>7, <2>0, <2>1, AssignInline
  <1>8. CASE n.kind \in Expressions /\ n.kind \notin Assignments
    <2>0. n.kind # "null" /\ n.kind # "decl"  BY <1>8 DEF Expressions, Literal, Assignments
    <2>1. ForParam(n, kid, env) = NodeCode(n, kid, env)  BY <1>8, <2>0 DEF ForParam
    <2>2. Inline(Written(n, env)[<<"node", env>>])  BY <1>8, ExpressionsInline
    <2>. QED  BY <1>2, <2>1, <2>2
  <1>. QED  BY <1>5, <1>6, <1>7, <1>8

-----------------------------------------------------------------------------
\* What codegen_stmt writes.
Statement(n) == /\ n.kind \in Statements \cup {"block"}
                /\ n.kind \in Expressions => EndsItself(n) \/ n.kind = "call"
WrittenWell(n, env) == /\ Stated(StmtCode(n, Code(n, env)))
                       /\ n.kind \in {"block", "if"} => Code(n, env) # <<>>

\* What the analyser accepts it accepts below, except in the arguments of a call.
LEMMA AcceptedDown ==
  ASSUME NEW env, NEW n, Walks(n), Accepted(n, env)
  PROVE  /\ n.kind # "call" => \A i \in DOMAIN n.kids : Accepted(n.kids[i], env)
         /\ n.kind = "member" /\ Len(n.kids) > 1 => IsVec(n.kids[1], env)
  <1>. DEFINE kid == [i \in DOMAIN n.kids |-> Accepted(n.kids[i], env)]
  <1>1. Accepted(n, env) = AcceptRule(n, kid, env)  BY AcceptedUnfolds
  <1>2. \A i \in DOMAIN n.kids : kid[i] = Accepted(n.kids[i], env)  OBVIOUS
  <1>. HIDE DEF kid
  <1>3. AcceptRule(n, kid, env)  BY <1>1
  <1>4. /\ n.kind # "call" => \A i \in DOMAIN n.kids : kid[i]
        /\ n.kind = "member" /\ Len(n.kids) > 1 => IsVec(n.kids[1], env)
    BY <1>3, Zenon DEF AcceptRule
  <1>. QED  BY <1>2, <1>4

\* A statement whose own statements are written well.
LEMMA OneStatement ==
  ASSUME NEW env, NEW n, Neat(n), Accepted(n, env), Statement(n),
         \A i \in DOMAIN n.kids :
           Accepted(n.kids[i], env) /\ Statement(n.kids[i]) => WrittenWell(n.kids[i], env)
  PROVE  WrittenWell(n, env)
  <1>. DEFINE kid == [i \in DOMAIN n.kids |-> Written(n.kids[i], env)]
              codes == Codes(n, kid, env)
              code == NodeCode(n, kid, env)
  <1>1. Walks(n) /\ Shaped(n) /\ Sited(n) /\ Placed(n) /\ IsSequence(n.kids)
    BY NeatDown DEF Shaped
  <1>2. DOMAIN n.kids = 1 .. Len(n.kids) /\ Len(n.kids) \in Nat  BY <1>1, DomainOfSequence
  <1>3. Code(n, env) = code
    <2>1. Written(n, env)[<<"node", env>>] = NodeCode(n, kid, env)  BY <1>1, WrittenIs
    <2>. QED  BY <2>1 DEF Code
  <1>4. \A i \in DOMAIN n.kids : kid[i] = Written(n.kids[i], env)  OBVIOUS
  <1>. HIDE DEF kid
  <1>5. \A i \in DOMAIN n.kids : codes[i] = Code(n.kids[i], env)
    BY <1>4 DEF Codes, Code
  <1>6. IsSequence(codes) /\ Len(codes) = Len(n.kids) /\ DOMAIN codes = DOMAIN n.kids
    <2>1. codes = [i \in 1 .. Len(n.kids) |-> codes[i]]  BY <1>2 DEF Codes
    <2>2. DOMAIN codes = DOMAIN n.kids  BY DEF Codes
    <2>. HIDE DEF codes
    <2>. QED  BY <1>2, <2>1, <2>2, FunctionIsSequence
  <1>7. \A i \in DOMAIN n.kids : kid[i][<<"node", env>>] = codes[i]  BY DEF Codes
  <1>. HIDE DEF codes, code
  <1>8. ASSUME NEW i \in DOMAIN n.kids, n.kids[i].kind \in Expressions, ~ EndsItself(n.kids[i])
        PROVE  Inline(codes[i])
    <2>1. Neat(n.kids[i])  BY NeatDown
    <2>2. Inline(Written(n.kids[i], env)[<<"node", env>>])  BY <1>8, <2>1, ExpressionsInline
    <2>. QED  BY <1>5, <2>2 DEF Code
  <1>9. n.kind # "call" => \A i \in DOMAIN n.kids : Accepted(n.kids[i], env)
    BY <1>1, AcceptedDown
  <1>10. n.kind \notin {"block", "for"} => \A i \in DOMAIN n.kids : ~ EndsItself(n.kids[i])
    BY <1>1 DEF Sited
  <1>11. n.kind # "call" => StmtCode(n, code) = code  BY DEF StmtCode
  <1>12. ASSUME n.kind \in Expressions \cup {"decl", "print", "return"}
         PROVE  \A i \in DOMAIN n.kids : Inline(codes[i])
    <2>1. n.kind \notin {"block", "for"}
      BY <1>12 DEF Expressions, Literal, Assignments
    <2>. QED  BY <1>1, <1>8, <1>10, <1>12, <2>1, ExpressionsBelow
  <1>13. ASSUME NEW i \in DOMAIN n.kids, n.kids[i].kind \in {"block", "if"}, n.kind # "call"
         PROVE  Stated(codes[i]) /\ codes[i] # <<>> /\ IsSequence(codes[i]) /\ Ended(codes[i])
    <2>. PICK k : k = n.kids[i]  OBVIOUS
    <2>1. Statement(k)
      BY <1>13 DEF Statement, Statements, Expressions, Literal, Assignments
    <2>2. WrittenWell(k, env)  BY <1>9, <1>13, <2>1
    <2>3. StmtCode(k, Code(k, env)) = Code(k, env)  BY <1>13 DEF StmtCode
    <2>4. Stated(codes[i]) /\ codes[i] # <<>>  BY <1>5, <1>13, <2>2, <2>3 DEF WrittenWell
    <2>. QED  BY <2>4 DEF Stated, Outline
  <1>14. CASE n.kind \in Assignments
    <2>0. n.kind \in Expressions /\ n.kind \notin {"block", "if", "call"}
      BY <1>14 DEF Expressions, Assignments
    <2>1. Inline(AssignCode(n, kid, env))  BY <1>1, <1>7, <1>12, <1>14, <2>0, AssignInline
    <2>2. code = End(AssignCode(n, kid, env))  BY <1>14, NodeCodeOfExpressions DEF code
    <2>. QED  BY <1>3, <1>11, <2>0, <2>1, <2>2, StatedEnd DEF WrittenWell
  <1>15. CASE n.kind = "member"
    <2>1. Len(n.kids) > 1
      BY <1>15 DEF Statement, EndsItself, Expressions, Assignments
    <2>2. IsVec(n.kids[1], env)  BY <1>1, <1>15, <2>1, AcceptedDown
    <2>3. Inline(codes[1]) /\ Inline(codes[2])
      <3>1. n.kind \in Expressions \cup {"decl", "print", "return"}  BY <1>15 DEF Expressions
      <3>2. 1 \in DOMAIN n.kids /\ 2 \in DOMAIN n.kids  BY <1>2, <2>1
      <3>. QED  BY <1>12, <3>1, <3>2
    <2>4. Stated(MemberCode(n, codes, env))  BY <2>1, <2>2, <2>3, MethodStated
    <2>5. code = MemberCode(n, codes, env)  BY <1>15, NodeCodeOfExpressions DEF code, codes
    <2>. QED  BY <1>3, <1>11, <1>15, <2>4, <2>5 DEF WrittenWell
  <1>16. CASE n.kind = "call"
    <2>1. n.kind \in Expressions /\ ~ EndsItself(n)
      BY <1>16 DEF Expressions, EndsItself, Assignments
    <2>2. Inline(code)
      <3>1. Inline(Written(n, env)[<<"node", env>>])  BY <2>1, ExpressionsInline
      <3>. QED  BY <1>3, <3>1 DEF Code
    <2>3. StmtCode(n, code) = End(code)  BY <1>16 DEF StmtCode
    <2>. QED  BY <1>3, <1>16, <2>2, <2>3, StatedEnd DEF WrittenWell
  <1>17. CASE n.kind = "decl"
    <2>1. Inline(DeclCode(n, kid, env))  BY <1>1, <1>7, <1>12, <1>17, DeclInline
    <2>2. code = End(DeclCode(n, kid, env))  BY <1>17, NodeCodeOfStatements DEF code
    <2>. QED  BY <1>3, <1>11, <1>17, <2>1, <2>2, StatedEnd DEF WrittenWell
  <1>18. CASE n.kind = "print"
    <2>1. \A i \in 1 .. Len(codes) : Inline(codes[i])  BY <1>2, <1>6, <1>12, <1>18
    <2>2. Stated(PrintCode(n, codes, env))  BY <1>1, <1>6, <2>1, PrintStated
    <2>3. code = PrintCode(n, codes, env)  BY <1>18, NodeCodeOfStatements DEF code, codes
    <2>. QED  BY <1>3, <1>11, <1>18, <2>2, <2>3 DEF WrittenWell
  <1>19. CASE n.kind = "read"
    <2>1. PICK s : code = End(CCall(<<"scanf">>, <<Texts(<<s>>), Texts(<<"&", n.words[2]>>)>>))
      BY <1>19, NodeCodeOfStatements DEF code
    <2>2. Inline(Texts(<<s>>)) /\ Inline(Texts(<<"&", n.words[2]>>)) /\ IsSequence(<<"scanf">>)
      BY InlineShortTexts, Tuples
    <2>3. Inline(CCall(<<"scanf">>, <<Texts(<<s>>), Texts(<<"&", n.words[2]>>)>>))
      BY <2>2, InlineCallOfTwo
    <2>. QED  BY <1>3, <1>11, <1>19, <2>1, <2>3, StatedEnd DEF WrittenWell
  <1>20. CASE n.kind = "return"
    <2>1. Len(n.kids) = 1  BY <1>1, <1>20 DEF Placed
    <2>2. Inline(codes[1])  BY <1>2, <1>12, <1>20, <2>1
    <2>3. Inline(<<Text("return")>> \o codes[1])  BY <2>2, InlineText, InlineJoin
    <2>4. code = End(<<Text("return")>> \o codes[1])
      BY <1>20, NodeCodeOfStatements DEF code, codes
    <2>. QED  BY <1>3, <1>11, <1>20, <2>3, <2>4, StatedEnd DEF WrittenWell
  <1>21. CASE n.kind \in {"break", "continue"}
    <2>1. Inline(Texts(<<n.words[1]>>))  BY InlineShortTexts
    <2>2. code = End(Texts(<<n.words[1]>>))  BY <1>21, NodeCodeOfStatements DEF code
    <2>. QED  BY <1>3, <1>11, <1>21, <2>1, <2>2, StatedEnd DEF WrittenWell
  <1>22. CASE n.kind = "directive"
    <2>1. code = <<>>  BY <1>22, NodeCodeOfStatements DEF code
    <2>. QED  BY <1>3, <1>11, <1>22, <2>1, InlineNothing DEF WrittenWell
  <1>23. CASE n.kind = "block"
    <2>. PICK s : s = [i \in DOMAIN codes |-> StmtCode(n.kids[i], codes[i])]  OBVIOUS
    <2>1. IsSequence(s) /\ Len(s) = Len(n.kids)
      <3>1. s = [i \in 1 .. Len(n.kids) |-> s[i]]  BY <1>2, <1>6
      <3>. QED  BY <1>2, <3>1, FunctionIsSequence
    <2>2. ASSUME NEW i \in 1 .. Len(s) PROVE Stated(s[i])
      <3>. PICK k : k = n.kids[i]  OBVIOUS
      <3>1. i \in DOMAIN n.kids /\ i \in DOMAIN codes  BY <1>2, <1>6, <2>1
      <3>2. k.kind \in Statements
        <4>1. All(Kinds(n), Statements)  BY <1>1, <1>23 DEF Placed
        <4>. QED  BY <1>1, <1>2, <3>1, <4>1, KindsOfChildren
      <3>3. Statement(k)  BY <1>1, <1>23, <3>1, <3>2 DEF Sited, Statement
      <3>4. WrittenWell(k, env)  BY <1>9, <1>23, <3>1, <3>3
      <3>5. s[i] = StmtCode(k, Code(k, env))  BY <1>5, <3>1
      <3>. QED  BY <3>4, <3>5 DEF WrittenWell
    <2>3. Outline(FlattenSeq(s))  BY <2>1, <2>2, StatedFlatten DEF Stated
    <2>4. code = <<LBrace>> \o FlattenSeq(s) \o <<RBrace>>
      BY <1>23, NodeCodeOfStatements DEF code, codes
    <2>. QED  BY <1>3, <1>11, <1>23, <2>3, <2>4, StatedBraces DEF WrittenWell
  <1>24. CASE n.kind = "while"
    <2>0. n.kind \notin {"call", "block", "for", "if"}  BY <1>24
    <2>1. Len(n.kids) = 2 /\ Kinds(n)[1] \in Expressions /\ Kinds(n)[2] = "block"
      BY <1>1, <1>24 DEF Placed
    <2>2. 1 \in DOMAIN n.kids /\ 2 \in DOMAIN n.kids  BY <1>2, <2>1
    <2>3. n.kids[1].kind \in Expressions /\ n.kids[2].kind = "block"
      BY <2>1, <2>2 DEF Kinds
    <2>4. Inline(codes[1])  BY <1>8, <1>10, <2>0, <2>2, <2>3
    <2>5. Stated(codes[2]) /\ codes[2] # <<>> /\ IsSequence(codes[2]) /\ Ended(codes[2])
      BY <1>13, <2>0, <2>2, <2>3
    <2>. PICK head : head = <<Text("while")>> \o Enclosed(codes[1])  OBVIOUS
    <2>6. Inline(head)  BY <2>4, InlineText, InlineEnclosed, InlineJoin
    <2>7. Outline(head \o codes[2])  BY <2>5, <2>6, InlineIsOutline, OutlineJoin DEF Stated
    <2>8. Ended(head \o codes[2])  BY <2>5, <2>6, EndedJoin DEF Inline
    <2>9. code = head \o codes[2]  BY <1>24, NodeCodeOfStatements DEF code, codes
    <2>. QED  BY <1>3, <1>11, <2>0, <2>7, <2>8, <2>9 DEF WrittenWell, Stated
  <1>25. CASE n.kind = "if"
    <2>0. n.kind \notin {"call", "block", "for"}  BY <1>25
    <2>1. /\ Len(n.kids) \in 2 .. 3 /\ Kinds(n)[1] \in Expressions /\ Kinds(n)[2] = "block"
          /\ Len(n.kids) = 3 => Kinds(n)[3] \in {"block", "if"}
      BY <1>1, <1>25 DEF Placed
    <2>2. /\ 1 \in DOMAIN n.kids /\ 2 \in DOMAIN n.kids
          /\ Len(n.kids) = 3 => 3 \in DOMAIN n.kids
      BY <1>2, <2>1
    <2>3. /\ n.kids[1].kind \in Expressions /\ n.kids[2].kind = "block"
          /\ Len(n.kids) = 3 => n.kids[3].kind \in {"block", "if"}
      BY <2>1, <2>2 DEF Kinds
    <2>4. Inline(codes[1])  BY <1>8, <1>10, <2>0, <2>2, <2>3
    <2>5. Stated(codes[2]) /\ codes[2] # <<>> /\ IsSequence(codes[2]) /\ Ended(codes[2])
      BY <1>13, <2>0, <2>2, <2>3
    <2>. PICK head : head = <<Text("if")>> \o Enclosed(codes[1])  OBVIOUS
    <2>6. Inline(head)  BY <2>4, InlineText, InlineEnclosed, InlineJoin
    <2>7. Outline(head \o codes[2])  BY <2>5, <2>6, InlineIsOutline, OutlineJoin DEF Stated
    <2>8. Ended(head \o codes[2]) /\ head \o codes[2] # <<>>
      BY <2>5, <2>6, EndedJoin DEF Inline
    <2>. PICK then : then = head \o codes[2]  OBVIOUS
    <2>9. Stated(then) /\ then # <<>> /\ IsSequence(then)  BY <2>7, <2>8 DEF Stated, Outline
    <2>. PICK else : else = IF Len(codes) = 3 THEN <<Text("else")>> \o codes[3] ELSE <<>>
      OBVIOUS
    <2>10. code = then \o else  BY <1>25, NodeCodeOfStatements DEF code, codes
    <2>11. CASE Len(codes) = 3
      <3>1. Stated(codes[3]) /\ codes[3] # <<>> /\ IsSequence(codes[3]) /\ Ended(codes[3])
        BY <1>6, <1>13, <2>0, <2>2, <2>3, <2>11
      <3>2. Inline(<<Text("else")>>)  BY InlineText
      <3>3. Outline(<<Text("else")>> \o codes[3])
        BY <3>1, <3>2, InlineIsOutline, OutlineJoin DEF Stated
      <3>4. Ended(<<Text("else")>> \o codes[3]) /\ <<Text("else")>> \o codes[3] # <<>>
        BY <3>1, <3>2, EndedJoin DEF Inline
      <3>5. else = <<Text("else")>> \o codes[3]  BY <2>11
      <3>6. Stated(else) /\ else # <<>> /\ Ended(else) /\ IsSequence(else)
        BY <3>3, <3>4, <3>5 DEF Stated, Outline
      <3>7. Stated(code) /\ code # <<>>
        BY <2>9, <2>10, <3>6, StatedJoin, EndedJoin
      <3>. QED  BY <1>3, <1>11, <2>0, <3>7 DEF WrittenWell
    <2>12. CASE Len(codes) # 3
      <3>1. code = then  BY <2>9, <2>10, <2>12, JoinNothing
      <3>. QED  BY <1>3, <1>11, <2>0, <2>9, <3>1 DEF WrittenWell
    <2>. QED  BY <2>11, <2>12
  <1>26. CASE n.kind = "for"
    <2>0. n.kind \notin {"call", "block", "if"}  BY <1>26
    <2>1. /\ Len(n.kids) = 4 /\ Kinds(n)[1] \in Expressions \cup {"decl", "null"}
          /\ All(SubSeq(Kinds(n), 2, 3), Expressions \cup {"null"}) /\ Kinds(n)[4] = "block"
      BY <1>1, <1>26 DEF Placed
    <2>2. \A i \in 1 .. 4 : i \in DOMAIN n.kids  BY <1>2, <2>1
    <2>3. /\ n.kids[1].kind \in Expressions \cup {"decl", "null"}
          /\ n.kids[2].kind \in Expressions \cup {"null"}
          /\ n.kids[3].kind \in Expressions \cup {"null"}
          /\ n.kids[4].kind = "block"
      <3>1. n.kids[1].kind = Kinds(n)[1] /\ n.kids[4].kind = Kinds(n)[4]  BY <2>2 DEF Kinds
      <3>2. n.kids[2].kind \in Expressions \cup {"null"} /\ n.kids[3].kind \in Expressions \cup {"null"}
        BY <1>1, <2>1, KindsOfChildren
      <3>. QED  BY <2>1, <3>1, <3>2
    <2>4. ASSUME NEW i \in {1, 3} PROVE Inline(kid[i][<<"param", env>>])
      <3>. PICK k : k = n.kids[i]  OBVIOUS
      <3>1. i \in DOMAIN n.kids  BY <2>2
      <3>2. EndsItself(k) => k.kind \in Assignments  BY <1>1, <1>26, <3>1 DEF Sited
      <3>3. Neat(k) /\ k.kind \in Expressions \cup {"decl", "null"}  BY <2>3, <3>1, NeatDown
      <3>4. Inline(Written(k, env)[<<"param", env>>])  BY <3>2, <3>3, ParamInline
      <3>. QED  BY <1>4, <3>1, <3>4
    <2>. PICK test : test = IF n.kids[2].kind = "null" THEN <<>> ELSE codes[2]  OBVIOUS
    <2>5. Inline(test)
      <3>1. CASE n.kids[2].kind = "null"  BY <3>1, InlineNothing
      <3>2. CASE n.kids[2].kind # "null"
        <4>1. ~ EndsItself(n.kids[2])  BY <1>1, <1>26, <2>2 DEF Sited
        <4>2. Inline(codes[2])  BY <1>8, <2>2, <2>3, <3>2, <4>1
        <4>. QED  BY <3>2, <4>2
      <3>. QED  BY <3>1, <3>2
    <2>. PICK a, c : a = kid[1][<<"param", env>>] /\ c = kid[3][<<"param", env>>]  OBVIOUS
    <2>6. Outline(<<For>> \o Enclosed(End(a) \o End(test) \o c))
      BY <2>4, <2>5, OutlineHeader
    <2>. PICK head : head = <<For>> \o Enclosed(End(a) \o End(test) \o c)  OBVIOUS
    <2>7. Stated(codes[4]) /\ codes[4] # <<>> /\ IsSequence(codes[4]) /\ Ended(codes[4])
      BY <1>13, <2>0, <2>2, <2>3
    <2>8. Outline(head \o codes[4])  BY <2>6, <2>7, OutlineJoin DEF Stated
    <2>9. Ended(head \o codes[4])  BY <2>6, <2>7, EndedJoin DEF Outline
    <2>10. code = head \o codes[4]
      BY <1>26, NodeCodeOfStatements DEF code, codes
    <2>. QED  BY <1>3, <1>11, <2>0, <2>8, <2>9, <2>10 DEF WrittenWell, Stated
  <1>27. n.kind \in Assignments \cup {"member", "call", "decl", "print", "read", "return", "break",
                                      "continue", "directive", "block", "while", "if", "for"}
    BY DEF Statement, Statements, EndsItself
  <1>. QED
    BY <1>14, <1>15, <1>16, <1>17, <1>18, <1>19, <1>20, <1>21, <1>22, <1>23, <1>24, <1>25, <1>26,
       <1>27

\* What codegen_node writes of a statement in a neat tree.
LEMMA StatementsWritten ==
  ASSUME NEW env
  PROVE  \A n : Neat(n) /\ Accepted(n, env) /\ Statement(n) => WrittenWell(n, env)
  <1>. DEFINE Claim(n) == Neat(n) /\ Accepted(n, env) /\ Statement(n) => WrittenWell(n, env)
              T == {h \in Nat : \A n : n.height < h => Claim(n)}
  <1>0. \A n : Neat(n) => n.height \in Nat  BY NeatDown DEF Shaped
  <1>1. 0 \in T
    <2>1. \A h \in Nat : ~ (h < 0)  OBVIOUS
    <2>. QED  BY <1>0, <2>1
  <1>2. ASSUME NEW h \in Nat, h \in T PROVE h + 1 \in T
    <2>. SUFFICES ASSUME NEW n, n.height < h + 1, Neat(n), Accepted(n, env), Statement(n)
                  PROVE  WrittenWell(n, env)
      OBVIOUS
    <2>1. ASSUME NEW i \in DOMAIN n.kids, Accepted(n.kids[i], env), Statement(n.kids[i])
          PROVE  WrittenWell(n.kids[i], env)
      <3>. PICK k : k = n.kids[i]  OBVIOUS
      <3>1. Neat(k) /\ Shaped(n)  BY NeatDown
      <3>2. k.height \in Nat /\ n.height \in Nat /\ k.height < n.height
        BY <1>0, <3>1 DEF Shaped
      <3>3. k.height < h  BY <3>2
      <3>. QED  BY <1>2, <2>1, <3>1, <3>3
    <2>. QED  BY <2>1, OneStatement
  <1>. HIDE DEF T
  <1>3. Nat \subseteq T  BY <1>1, <1>2, Induction
  <1>4. ASSUME NEW n, Neat(n) PROVE Claim(n)
    <2>1. n.height \in Nat  BY <1>0, <1>4
    <2>2. n.height + 1 \in T /\ n.height < n.height + 1  BY <1>3, <2>1
    <2>. HIDE DEF Claim
    <2>. QED  BY <2>2 DEF T
  <1>. QED  BY <1>4

\* Parameters are written without an end, the body with its braces.
LEMMA FunctionWritten ==
  ASSUME NEW env, NEW n, Neat(n), Accepted(n, env), n.kind = "func"
  PROVE  Stated(Code(n, env))
  <1>. DEFINE kid == [i \in DOMAIN n.kids |-> Written(n.kids[i], env)]
  <1>1. Walks(n) /\ Shaped(n) /\ Sited(n) /\ Placed(n) /\ IsSequence(n.kids)
    BY NeatDown DEF Shaped
  <1>. PICK m : m = Len(n.kids)  OBVIOUS
  <1>2. DOMAIN n.kids = 1 .. m /\ m \in Nat  BY <1>1, DomainOfSequence
  <1>3. Code(n, env) = FuncCode(n, kid, env)
    <2>1. Written(n, env)[<<"node", env>>] = NodeCode(n, kid, env)  BY <1>1, WrittenIs
    <2>2. NodeCode(n, kid, env) = FuncCode(n, kid, env)  BY NodeCodeOfStatements
    <2>. QED  BY <2>1, <2>2 DEF Code
  <1>4. \A i \in DOMAIN n.kids : kid[i] = Written(n.kids[i], env)  OBVIOUS
  <1>. HIDE DEF kid
  <1>5. m > 0 /\ Kinds(n)[m] = "block" /\ All(Front(Kinds(n)), {"decl"})
    BY <1>1 DEF Placed
  <1>6. m \in DOMAIN n.kids /\ n.kids[m].kind = "block"
    <2>1. m \in DOMAIN n.kids  BY <1>2, <1>5
    <2>. QED  BY <1>5, <2>1 DEF Kinds
  <1>7. \A i \in 1 .. m - 1 : i \in DOMAIN n.kids /\ n.kids[i].kind = "decl"
    <2>1. \A i \in 1 .. m - 1 : i \in DOMAIN n.kids  BY <1>2
    <2>. QED  BY <1>1, <1>5, <2>1, KindsOfChildren
  <1>8. ASSUME NEW i \in 1 .. m - 1 PROVE Inline(kid[i][<<"param", env>>])
    <2>. PICK k : k = n.kids[i]  OBVIOUS
    <2>1. Neat(k) /\ k.kind = "decl"  BY <1>7, NeatDown
    <2>2. ~ EndsItself(k)  BY <2>1 DEF EndsItself, Assignments
    <2>3. Inline(Written(k, env)[<<"param", env>>])  BY <2>1, <2>2, ParamInline
    <2>. QED  BY <1>4, <1>7, <2>3
  <1>9. /\ Stated(kid[m][<<"node", env>>]) /\ kid[m][<<"node", env>>] # <<>>
        /\ IsSequence(kid[m][<<"node", env>>]) /\ Ended(kid[m][<<"node", env>>])
    <2>. PICK k : k = n.kids[m]  OBVIOUS
    <2>1. Neat(k) /\ k.kind = "block" /\ Accepted(k, env)
      BY <1>1, <1>6, NeatDown, AcceptedDown
    <2>2. Statement(k)  BY <2>1 DEF Statement, Expressions, Literal, Assignments
    <2>3. WrittenWell(k, env)  BY <2>1, <2>2, StatementsWritten
    <2>4. StmtCode(k, Code(k, env)) = Code(k, env)  BY <2>1 DEF StmtCode
    <2>5. Stated(Code(k, env)) /\ Code(k, env) # <<>>  BY <2>1, <2>3, <2>4 DEF WrittenWell
    <2>6. kid[m][<<"node", env>>] = Code(k, env)  BY <1>4, <1>6 DEF Code
    <2>. QED  BY <2>5, <2>6 DEF Stated, Outline
  <1>. PICK s : s = [i \in 1 .. m - 1 |-> kid[i][<<"param", env>>]]  OBVIOUS
  <1>10. IsSequence(s) /\ Len(s) = m - 1
    <2>1. s = [i \in 1 .. m - 1 |-> s[i]]  OBVIOUS
    <2>2. m - 1 \in Nat  BY <1>2, <1>5
    <2>. QED  BY <2>1, <2>2, FunctionIsSequence
  <1>11. Inline(Commas(s))  BY <1>8, <1>10, InlineCommas
  <1>. PICK head : head = IF n.words[2] = "main" THEN CCall(<<"int", "main">>, <<Texts(<<"void">>)>>)
                          ELSE Typed(n.words, 3, n.words[2]) \o Enclosed(Commas(s))
    OBVIOUS
  <1>12. Inline(head)
    <2>1. Inline(CCall(<<"int", "main">>, <<Texts(<<"void">>)>>))
      BY Tuples, InlineShortTexts, InlineCallOfOne
    <2>2. Inline(Typed(n.words, 3, n.words[2]) \o Enclosed(Commas(s)))
      BY <1>11, InlineTyped, InlineEnclosed, InlineJoin
    <2>. QED  BY <2>1, <2>2
  <1>13. FuncCode(n, kid, env) = head \o kid[m][<<"node", env>>]  BY Zenon DEF FuncCode
  <1>14. Outline(head \o kid[m][<<"node", env>>])
    BY <1>9, <1>12, InlineIsOutline, OutlineJoin DEF Stated
  <1>15. Ended(head \o kid[m][<<"node", env>>])  BY <1>9, <1>12, EndedJoin DEF Inline
  <1>. QED  BY <1>3, <1>13, <1>14, <1>15 DEF Stated

-----------------------------------------------------------------------------
\* Counting symbols.
LEMMA MarksNext ==
  \A code, m : \A i \in Nat :
    /\ Marks(code, m, 0) = 0 /\ Marks(code, m, i) \in Nat
    /\ Marks(code, m, i + 1) = Marks(code, m, i) + (IF code[i + 1] = m THEN 1 ELSE 0)
  <1>. TAKE code, m
  <1>. TAKE i \in Nat
  <1>. DEFINE S(k) == {j \in 1 .. k : code[j] = m}
  <1>1. \A k \in Nat : IsFiniteSet(S(k)) /\ Cardinality(S(k)) \in Nat
    <2>. TAKE k \in Nat
    <2>1. IsFiniteSet(1 .. k)  BY FS_Interval
    <2>2. S(k) \subseteq 1 .. k  OBVIOUS
    <2>. QED  BY <2>1, <2>2, FS_Subset, FS_CardinalityType
  <1>2. Cardinality(S(0)) = 0
    <2>1. S(0) = {}  OBVIOUS
    <2>. QED  BY <2>1, FS_EmptySet
  <1>3. CASE code[i + 1] = m
    <2>1. S(i + 1) = S(i) \cup {i + 1} /\ i + 1 \notin S(i)  BY <1>3
    <2>. HIDE DEF S
    <2>2. Cardinality(S(i + 1)) = Cardinality(S(i)) + 1  BY <1>1, <2>1, FS_AddElement
    <2>. QED  BY <1>1, <1>2, <1>3, <2>2 DEF S, Marks
  <1>4. CASE code[i + 1] # m
    <2>1. S(i + 1) = S(i)  BY <1>4
    <2>. HIDE DEF S
    <2>2. Cardinality(S(i + 1)) = Cardinality(S(i)) + 0  BY <1>1, <2>1
    <2>. QED  BY <1>1, <1>2, <1>4, <2>2 DEF S, Marks
  <1>. QED  BY <1>3, <1>4

\* Counting the semicolons inside of parentheses.
LEMMA InnerNext ==
  ASSUME NEW code, NEW i \in Nat
  PROVE  LET HeaderEnds(k) == Cardinality({j \in 1 .. k : code[j] = Semicolon /\ OpenParens(code, j) > 0})
         IN  /\ HeaderEnds(0) = 0 /\ HeaderEnds(i) \in Nat
             /\ HeaderEnds(i + 1) = HeaderEnds(i) +
                  (IF code[i + 1] = Semicolon /\ OpenParens(code, i + 1) > 0 THEN 1 ELSE 0)
  <1>. DEFINE P(j) == code[j] = Semicolon /\ OpenParens(code, j) > 0
              S(k) == {j \in 1 .. k : P(j)}
  <1>. HIDE DEF P
  <1>1. \A k \in Nat : IsFiniteSet(S(k)) /\ Cardinality(S(k)) \in Nat
    <2>. TAKE k \in Nat
    <2>1. IsFiniteSet(1 .. k)  BY FS_Interval
    <2>2. S(k) \subseteq 1 .. k  OBVIOUS
    <2>. QED  BY <2>1, <2>2, FS_Subset, FS_CardinalityType
  <1>2. Cardinality(S(0)) = 0
    <2>1. S(0) = {}  OBVIOUS
    <2>. QED  BY <2>1, FS_EmptySet
  <1>3. Cardinality(S(i + 1)) = Cardinality(S(i)) + (IF P(i + 1) THEN 1 ELSE 0)
    <2>1. CASE P(i + 1)
      <3>1. S(i + 1) = S(i) \cup {i + 1} /\ i + 1 \notin S(i)  BY <2>1
      <3>. HIDE DEF S
      <3>2. Cardinality(S(i + 1)) = Cardinality(S(i)) + 1  BY <1>1, <3>1, FS_AddElement
      <3>. QED  BY <2>1, <3>2
    <2>2. CASE ~ P(i + 1)
      <3>1. S(i + 1) = S(i)  BY <2>2
      <3>. HIDE DEF S
      <3>2. Cardinality(S(i + 1)) = Cardinality(S(i)) + 0  BY <1>1, <3>1
      <3>. QED  BY <2>2, <3>2
    <2>. QED  BY <2>1, <2>2
  <1>. QED  BY <1>1, <1>2, <1>3 DEF P

\* What may stand anywhere outside of parentheses is well formed.
LEMMA StatedIsWellFormed ==
  ASSUME NEW code, Stated(code)
  PROVE  WellFormed(code)
  <1>. SUFFICES ASSUME code # <<>>
                PROVE  /\ code[Len(code)] \in {Semicolon, RBrace}
                       /\ OpenParens(code, Len(code)) = 0 /\ OpenBraces(code, Len(code)) = 0
                       /\ \A i \in 1 .. Len(code) :
                            /\ OpenParens(code, i) >= 0 /\ OpenBraces(code, i) >= 0
                            /\ code[i] \in {LBrace, RBrace} => OpenParens(code, i) = 0
                       /\ Cardinality({i \in 1 .. Len(code) : code[i] = Semicolon /\ OpenParens(code, i) > 0})
                            = 2 * Marks(code, For, Len(code))
    BY DEF WellFormed
  <1>. PICK len : len = Len(code)  OBVIOUS
  <1>0. len \in Nat  BY DomainOfSequence DEF Stated, Outline
  <1>1. code[len] \in {Semicolon, RBrace}  BY DEF Stated, Ended
  <1>. PICK x : x = ReaderAt(0, 0, 0)  OBVIOUS
  <1>2. x \in Readers /\ x.parens = 0 /\ x.braces = 0 /\ x.due = 0  BY ReaderFields
  <1>3. PICK t : t[0] = x /\ t[len] = x /\ Along(code, t)
    BY <1>2 DEF Stated, Outline, Takes
  <1>. DEFINE Inside(k) == Cardinality({j \in 1 .. k : code[j] = Semicolon /\ OpenParens(code, j) > 0})
              At(i) == /\ t[i].parens = OpenParens(code, i) /\ t[i].parens \in Nat
                       /\ t[i].braces = OpenBraces(code, i) /\ t[i].braces \in Nat
                       /\ t[i].due = 2 * Marks(code, For, i) - Inside(i)
              T == {i \in Nat : i <= len => At(i)}
  <1>4. /\ Inside(0) = 0 /\ \A i \in Nat : Inside(i) \in Nat
        /\ \A i \in Nat : Inside(i + 1) = Inside(i) +
             (IF code[i + 1] = Semicolon /\ OpenParens(code, i + 1) > 0 THEN 1 ELSE 0)
    BY InnerNext
  <1>. HIDE DEF Inside
  <1>5. \A m : \A i \in Nat :
          /\ Marks(code, m, 0) = 0 /\ Marks(code, m, i) \in Nat
          /\ Marks(code, m, i + 1) = Marks(code, m, i) + (IF code[i + 1] = m THEN 1 ELSE 0)
    BY MarksNext
  <1>6. 0 \in T
    <2>1. OpenParens(code, 0) = 0 /\ OpenBraces(code, 0) = 0
      BY <1>5 DEF OpenParens, OpenBraces
    <2>2. t[0].due = 2 * Marks(code, For, 0) - Inside(0)
      <3>1. Marks(code, For, 0) = 0 /\ t[0].due = 0  BY <1>2, <1>3, <1>5
      <3>. QED  BY <1>4, <3>1
    <2>. QED  BY <1>2, <1>3, <2>1, <2>2
  <1>7. ASSUME NEW i \in Nat, i + 1 <= len, At(i)
        PROVE  /\ At(i + 1)
               /\ code[i + 1] \in {LBrace, RBrace} => OpenParens(code, i + 1) = 0
    <2>. PICK y, z, m : y = t[i] /\ z = t[i + 1] /\ m = code[i + 1]  OBVIOUS
    <2>1. Allows(y, m) /\ z = Read(y, m)
      <3>1. i + 1 \in 1 .. len /\ (i + 1) - 1 = i  BY <1>0, <1>7
      <3>. QED  BY <1>3, <3>1 DEF Along
    <2>2. /\ z.parens = IF m = LParen THEN y.parens + 1 ELSE IF m = RParen THEN y.parens - 1 ELSE y.parens
          /\ z.braces = IF m = LBrace THEN y.braces + 1 ELSE IF m = RBrace THEN y.braces - 1 ELSE y.braces
          /\ z.due = IF m = For THEN y.due + 2
                     ELSE IF m = Semicolon /\ y.parens > 0 THEN y.due - 1 ELSE y.due
      BY <2>1, ReaderFields DEF Read
    <2>3. /\ m = RParen => y.parens > 0
          /\ m \in {LBrace, RBrace} => y.parens = 0
          /\ m = RBrace => y.braces > 0
      BY <2>1 DEF Allows
    <2>4. /\ y.parens = OpenParens(code, i) /\ y.parens \in Nat
          /\ y.braces = OpenBraces(code, i) /\ y.braces \in Nat
          /\ y.due = 2 * Marks(code, For, i) - Inside(i)
      BY <1>7
    <2>5. /\ OpenParens(code, i + 1) = OpenParens(code, i) + (IF m = LParen THEN 1 ELSE 0)
                                                           - (IF m = RParen THEN 1 ELSE 0)
          /\ OpenBraces(code, i + 1) = OpenBraces(code, i) + (IF m = LBrace THEN 1 ELSE 0)
                                                           - (IF m = RBrace THEN 1 ELSE 0)
      <3>. PICK a, b, c, d : /\ a = Marks(code, LParen, i) /\ b = Marks(code, RParen, i)
                             /\ c = Marks(code, LBrace, i) /\ d = Marks(code, RBrace, i)
        OBVIOUS
      <3>1. a \in Nat /\ b \in Nat /\ c \in Nat /\ d \in Nat  BY <1>5
      <3>2. /\ Marks(code, LParen, i + 1) = a + (IF m = LParen THEN 1 ELSE 0)
            /\ Marks(code, RParen, i + 1) = b + (IF m = RParen THEN 1 ELSE 0)
            /\ Marks(code, LBrace, i + 1) = c + (IF m = LBrace THEN 1 ELSE 0)
            /\ Marks(code, RBrace, i + 1) = d + (IF m = RBrace THEN 1 ELSE 0)
        BY <1>5
      <3>. PICK p, q, r, s : /\ p = (IF m = LParen THEN 1 ELSE 0) /\ q = (IF m = RParen THEN 1 ELSE 0)
                             /\ r = (IF m = LBrace THEN 1 ELSE 0) /\ s = (IF m = RBrace THEN 1 ELSE 0)
        OBVIOUS
      <3>3. p \in Int /\ q \in Int /\ r \in Int /\ s \in Int  OBVIOUS
      <3>4. /\ OpenParens(code, i + 1) = (a + p) - (b + q) /\ OpenParens(code, i) = a - b
            /\ OpenBraces(code, i + 1) = (c + r) - (d + s) /\ OpenBraces(code, i) = c - d
        BY <3>2 DEF OpenParens, OpenBraces
      <3>5. (a + p) - (b + q) = a - b + p - q /\ (c + r) - (d + s) = c - d + r - s
        <4>1. \A e, f, u, v \in Int : (e + u) - (f + v) = e - f + u - v  OBVIOUS
        <4>. QED  BY ONLY <3>1, <3>3, <4>1
      <3>. QED  BY <3>4, <3>5
    <2>6. z.parens = OpenParens(code, i + 1) /\ z.parens \in Nat
      BY <2>2, <2>3, <2>4, <2>5, MarksDiffer
    <2>7. z.braces = OpenBraces(code, i + 1) /\ z.braces \in Nat
      BY <2>2, <2>3, <2>4, <2>5, MarksDiffer
    <2>8. z.due = 2 * Marks(code, For, i + 1) - Inside(i + 1)
      <3>. PICK a, b : a = Marks(code, For, i) /\ b = Inside(i)  OBVIOUS
      <3>1. a \in Nat /\ b \in Nat /\ y.due = 2 * a - b  BY <1>4, <1>5, <2>4
      <3>2. Marks(code, For, i + 1) = a + (IF m = For THEN 1 ELSE 0)  BY <1>5
      <3>3. Inside(i + 1) = b + (IF m = Semicolon /\ z.parens > 0 THEN 1 ELSE 0)
        BY <1>4, <2>6
      <3>4. m = Semicolon => z.parens = y.parens  BY <2>2, MarksDiffer
      <3>5. CASE m = For
        <4>1. m # Semicolon  BY <3>5, MarksDiffer
        <4>2. z.due = y.due + 2  BY <2>2, <3>5
        <4>3. Marks(code, For, i + 1) = a + 1 /\ Inside(i + 1) = b  BY <3>1, <3>2, <3>3, <3>5, <4>1
        <4>. QED  BY <3>1, <4>2, <4>3
      <3>6. CASE m = Semicolon /\ y.parens > 0
        <4>1. m # For  BY <3>6, MarksDiffer
        <4>2. z.due = y.due - 1  BY <2>2, <3>6, <4>1
        <4>3. Marks(code, For, i + 1) = a /\ Inside(i + 1) = b + 1
          BY <3>1, <3>2, <3>3, <3>4, <3>6, <4>1
        <4>. QED  BY <3>1, <4>2, <4>3
      <3>7. CASE m # For /\ ~ (m = Semicolon /\ y.parens > 0)
        <4>1. z.due = y.due  BY <2>2, <3>7
        <4>2. Marks(code, For, i + 1) = a /\ Inside(i + 1) = b
          BY <3>1, <3>2, <3>3, <3>4, <3>7
        <4>. QED  BY <3>1, <4>1, <4>2
      <3>. QED  BY <3>5, <3>6, <3>7
    <2>9. m \in {LBrace, RBrace} => OpenParens(code, i + 1) = 0
      BY <2>2, <2>3, <2>6, MarksDiffer
    <2>. QED  BY <2>6, <2>7, <2>8, <2>9
  <1>. HIDE DEF At
  <1>8. ASSUME NEW i \in Nat, i \in T PROVE i + 1 \in T
    <2>. SUFFICES ASSUME i + 1 <= len PROVE At(i + 1)  OBVIOUS
    <2>1. At(i)  BY <1>0, <1>8
    <2>. QED  BY <1>7, <2>1
  <1>. HIDE DEF T
  <1>9. Nat \subseteq T  BY <1>6, <1>8, Induction
  <1>10. \A i \in 0 .. len : At(i)  BY <1>0, <1>9 DEF T
  <1>11. ASSUME NEW i \in 1 .. len
         PROVE  /\ OpenParens(code, i) >= 0 /\ OpenBraces(code, i) >= 0
                /\ code[i] \in {LBrace, RBrace} => OpenParens(code, i) = 0
    <2>. PICK j : j = i - 1  OBVIOUS
    <2>1. j \in Nat /\ j + 1 = i /\ j + 1 <= len /\ j \in 0 .. len /\ i \in 0 .. len  BY <1>0
    <2>2. At(i)  BY <1>10, <2>1
    <2>3. code[j + 1] \in {LBrace, RBrace} => OpenParens(code, j + 1) = 0
      BY <1>7, <1>10, <2>1
    <2>. QED  BY <2>1, <2>2, <2>3 DEF At
  <1>12. /\ OpenParens(code, len) = 0 /\ OpenBraces(code, len) = 0
         /\ Inside(len) = 2 * Marks(code, For, len)
    <2>1. At(len)  BY <1>0, <1>10
    <2>2. t[len].parens = 0 /\ t[len].braces = 0 /\ t[len].due = 0  BY <1>2, <1>3
    <2>3. Inside(len) \in Nat /\ Marks(code, For, len) \in Nat  BY <1>0, <1>4, <1>5
    <2>. QED  BY <2>1, <2>2, <2>3 DEF At
  <1>. QED  BY <1>1, <1>11, <1>12 DEF Inside

-----------------------------------------------------------------------------
\* The parser inside the compiler.
LEMMA ParseMeansParsing ==
  ASSUME Parse
  PROVE  status = "parsing"
  <1>1. ASSUME ParseFunction PROVE status = "parsing"
    BY <1>1, Zenon DEF ParseFunction, ParseProgram, ParseBlock, ParseType, Initializer, ReturnType,
       List, More, Doing
  <1>2. ASSUME ParseStatements PROVE status = "parsing"
    BY <1>2, Zenon DEF ParseStatements, ParseStatement, Directive, ElseBranch, ParseForStatement,
       BuildRange, Doing
  <1>3. ASSUME ParseExpressions PROVE status = "parsing"
    BY <1>3, Zenon DEF ParseExpressions, ParseExpression, ParseAssignment, AssignTo, ParseTernary,
       ParseOperator, ParseUnary, ParseCall, MethodArgs, BuildAccess, ParsePrimary, ParseQuoted,
       Doing
  <1>4. ASSUME Consume \/ ConsumeName \/ ConsumeEndOfStatement \/ BuildNode \/ Accept
        PROVE  status = "parsing"
    BY <1>4, Zenon DEF Consume, ConsumeName, ConsumeEndOfStatement, BuildNode, Accept, Doing
  <1>. QED  BY <1>1, <1>2, <1>3, <1>4 DEF Parse

\* A file is written of an analysed tree only, and the tree stays as it is.
CompilerInv == ParseInv /\ (output # <<>> => status = "parsed" /\ Analysed(tree))

\* Nothing is written at first.
LEMMA CompilerStarts ==
  ASSUME CompilerInit
  PROVE  CompilerInv
  BY InitGivesInv DEF CompilerInit, CompilerInv

\* A parse that goes on has written nothing, and code generation changes nothing else.
LEMMA CompilerKeepsInv ==
  ASSUME CompilerInv, [Next]_vars
  PROVE  CompilerInv'
  <1>1. CASE Parse /\ UNCHANGED output
    <2>1. output = <<>>  BY <1>1, ParseMeansParsing DEF CompilerInv
    <2>2. ParseInv'  BY <1>1, NextKeepsInv DEF CompilerInv
    <2>. QED  BY <1>1, <2>1, <2>2 DEF CompilerInv
  <1>2. CASE Generate
    <2>1. UNCHANGED parserVars /\ status = "parsed" /\ Analysed(tree)  BY <1>2 DEF Generate
    <2>2. ParseInv'  BY <2>1, NextKeepsInv DEF CompilerInv
    <2>3. tree' = tree /\ status' = status  BY <2>1 DEF tree, parserVars
    <2>. QED  BY <2>1, <2>2, <2>3 DEF CompilerInv, Analysed
  <1>3. CASE UNCHANGED vars
    <2>1. UNCHANGED parserVars /\ output' = output  BY <1>3 DEF vars, parserVars
    <2>2. ParseInv'  BY <2>1, NextKeepsInv DEF CompilerInv
    <2>3. tree' = tree /\ status' = status  BY <2>1 DEF tree, parserVars
    <2>. QED  BY <2>1, <2>2, <2>3 DEF CompilerInv, Analysed
  <1>. QED  BY <1>1, <1>2, <1>3 DEF Next

\* The compiler's steps are steps of the parser, or leave it alone.
THEOREM CompilerParses == Spec => ParserSpec
  <1>1. CompilerInit => Init  BY DEF CompilerInit
  <1>2. [Next]_vars => [Parse]_parserVars
    <2>1. UNCHANGED vars => UNCHANGED parserVars  BY DEF vars, parserVars
    <2>. QED  BY <2>1 DEF Next, Generate
  <1>. QED  BY <1>1, <1>2, PTL DEF Spec, ParserSpec

\* In every program, of any length and names, the parser keeps its invariant while the
\* compiler runs, and a file was written of an analysed tree that is still the same.
THEOREM CompilerInvariant == Spec => []CompilerInv
  <1>1. CompilerInit => CompilerInv  BY CompilerStarts
  <1>2. CompilerInv /\ [Next]_vars => CompilerInv'  BY CompilerKeepsInv
  <1>. QED  BY <1>1, <1>2, PTL DEF Spec

-----------------------------------------------------------------------------
\* The tree a file is written of.
LEMMA TreeOfOutput ==
  ASSUME CompilerInv, output # <<>>
  PROVE  /\ Walks(tree) /\ Analysed(tree)
         /\ \A i \in DOMAIN tree.kids : \A n \in Subtrees(tree.kids[i]) : Walks(n)
  <1>1. ParseInv /\ status = "parsed" /\ Analysed(tree)  BY DEF CompilerInv
  <1>2. Len(done) = 1  BY <1>1, NowIs DEF ParseInv, Whole
  <1>3. Walks(tree)  BY <1>1, <1>2 DEF ParseInv, tree
  <1>. HIDE DEF tree
  <1>4. ASSUME NEW i \in DOMAIN tree.kids, NEW n \in Subtrees(tree.kids[i]) PROVE Walks(n)
    <2>1. Walks(tree.kids[i])  BY <1>3, WalksDown
    <2>. QED  BY <2>1, SubtreesShaped
  <1>. QED  BY <1>1, <1>3, <1>4

\* The arguments of a print are expressions of the tree.
LEMMA PrintArguments ==
  ASSUME CompilerInv, output # <<>>, NEW i \in DOMAIN tree.kids,
         NEW n \in Subtrees(tree.kids[i]), n.kind = "print"
  PROVE  /\ IsSequence(n.kids)
         /\ \A k \in DOMAIN n.kids : Walks(n.kids[k]) /\ n.kids[k].kind \in Expressions
  <1>1. Walks(n)  BY TreeOfOutput
  <1>2. Shaped(n) /\ \A k \in DOMAIN n.kids : Walks(n.kids[k])  BY <1>1, WalksDown
  <1>3. \A k \in DOMAIN n.kids : n.kids[k].kind \in Expressions  BY <1>2, ExpressionsBelow
  <1>. QED  BY <1>2, <1>3 DEF Shaped

\* In such a tree every printed value has its format,
LEMMA FormatsOfOutput ==
  ASSUME CompilerInv
  PROVE  FormatsFit
  <1>. SUFFICES ASSUME output # <<>>, NEW i \in DOMAIN tree.kids,
                       NEW n \in Subtrees(tree.kids[i]), n.kind = "print", NEW k \in DOMAIN n.kids,
                       Regular(n.kids[k], Env(tree, i))
                PROVE  CValue(n.kids[k], Env(tree, i)) \in Fitting(Specifier(n.kids[k], Env(tree, i)))
    BY DEF FormatsFit
  <1>1. Walks(n.kids[k]) /\ n.kids[k].kind \in Expressions  BY PrintArguments
  <1>2. Env(tree, i).vars = NameType  BY DEF Env
  <1>. QED  BY <1>1, <1>2, FormatOfExpression

\* every print has each of its arguments once,
LEMMA PrintsOfOutput ==
  ASSUME CompilerInv
  PROVE  PrintsEachOnce
  <1>. SUFFICES ASSUME output # <<>>, NEW i \in DOMAIN tree.kids,
                       NEW n \in Subtrees(tree.kids[i]), n.kind = "print"
                PROVE
      LET groups == PrintGroups(n.kids, Env(tree, i))
          Vector(k) == IsVec(n.kids[k], Env(tree, i))
      IN
      /\ n.kids # <<>> => groups # <<>> /\ Last(groups)[2] = Len(n.kids)
      /\ \A g \in DOMAIN groups :
           /\ groups[g][1] = (IF g = 1 THEN 1 ELSE groups[g - 1][2] + 1)
           /\ groups[g][1] <= groups[g][2]
           /\ groups[g][2] \in DOMAIN n.kids
           /\ (\E k \in groups[g][1] .. groups[g][2] : Vector(k)) => groups[g][1] = groups[g][2]
           /\ g > 1 => Vector(groups[g][1]) \/ Vector(groups[g - 1][2])
    BY DEF PrintsEachOnce
  <1>1. IsSequence(n.kids)  BY PrintArguments
  <1>. PICK e : e = Env(tree, i)  OBVIOUS
  <1>. PICK args : args = n.kids  OBVIOUS
  <1>. PICK m : m = Len(args)  OBVIOUS
  <1>. PICK out : out = PrintGroups(args, e)  OBVIOUS
  <1>. DEFINE V == {k \in 1 .. m : IsVec(args[k], e)}
  <1>2. DOMAIN args = 1 .. m /\ m \in Nat  BY <1>1, DomainOfSequence
  <1>3. Groups(out, m, V)  BY <1>1, PrintGroupsCover
  <1>4. IsSequence(out) /\ DOMAIN out = 1 .. Len(out) /\ Len(out) \in Nat
    BY <1>3, DomainOfSequence DEF Groups
  <1>5. args # <<>> => out # <<>> /\ Last(out)[2] = m
    <2>1. m = 0 => args = <<>>  BY <1>1, TailLength
    <2>2. out = <<>> => m = 0  BY <1>3 DEF Groups
    <2>3. out # <<>> => out[Len(out)][2] = m  BY <1>3 DEF Groups
    <2>. QED  BY <2>1, <2>2, <2>3 DEF Last
  <1>6. ASSUME NEW g \in DOMAIN out
        PROVE  /\ out[g][1] = (IF g = 1 THEN 1 ELSE out[g - 1][2] + 1)
               /\ out[g][1] <= out[g][2]
               /\ out[g][2] \in DOMAIN args
               /\ (\E k \in out[g][1] .. out[g][2] : IsVec(args[k], e)) => out[g][1] = out[g][2]
               /\ g > 1 => IsVec(args[out[g][1]], e) \/ IsVec(args[out[g - 1][2]], e)
    <2>. HIDE DEF V
    <2>1. g \in 1 .. Len(out)  BY <1>4
    <2>2. /\ out[g][1] = (IF g = 1 THEN 1 ELSE out[g - 1][2] + 1)
          /\ out[g][1] \in 1 .. m /\ out[g][2] \in 1 .. m /\ out[g][1] <= out[g][2]
          /\ (\E k \in out[g][1] .. out[g][2] : k \in V) => out[g][1] = out[g][2]
          /\ g > 1 => out[g][1] \in V \/ out[g - 1][2] \in V
      BY <1>3, <2>1 DEF Groups
    <2>3. \A k \in 1 .. m : k \in V <=> IsVec(args[k], e)  BY DEF V
    <2>4. \A k : k \in V => IsVec(args[k], e)  BY DEF V
    <2>5. \A k \in out[g][1] .. out[g][2] : k \in 1 .. m
      <3>1. \A a, b \in 1 .. m : \A k \in a .. b : k \in 1 .. m  BY <1>2
      <3>. QED  BY <2>2, <3>1
    <2>. QED  BY <1>2, <2>2, <2>3, <2>4, <2>5
  <1>. QED  BY <1>5, <1>6

\* A declaration of the file.
LEMMA DeclarationWritten ==
  ASSUME NEW env, NEW n, Neat(n), Accepted(n, env), n.kind \in {"func", "decl", "directive"}
  PROVE  WellFormed(Code(n, env))
  <1>1. CASE n.kind = "func"  BY <1>1, FunctionWritten, StatedIsWellFormed
  <1>2. CASE n.kind \in {"decl", "directive"}
    <2>1. Statement(n) /\ n.kind # "call"
      BY <1>2 DEF Statement, Statements, Expressions, Literal, Assignments
    <2>2. WrittenWell(n, env)  BY <2>1, StatementsWritten
    <2>3. StmtCode(n, Code(n, env)) = Code(n, env)  BY <2>1 DEF StmtCode
    <2>4. Stated(Code(n, env))  BY <2>2, <2>3 DEF WrittenWell
    <2>. QED  BY <2>4, StatedIsWellFormed
  <1>. QED  BY <1>1, <1>2

\* The analyser has been in every block of a declaration.
LEMMA BlocksAccepted ==
  ASSUME NEW env, NEW n, Walks(n), Accepted(n, env)
  PROVE  \A m \in Subtrees(n) : m.kind = "block" => Accepted(m, env)
  <1>. DEFINE S == {m \in Subtrees(n) : m.kind \in Expressions \/ Accepted(m, env)}
  <1>1. /\ n \in Subtrees(n) /\ n.height \in Nat
        /\ \A m \in Subtrees(n) : /\ Walks(m) /\ Shaped(m)
                                 /\ \A i \in DOMAIN m.kids : m.kids[i] \in Subtrees(n)
    BY SubtreesShaped DEF Closed, Shaped
  <1>2. n \in S  BY <1>1
  <1>3. ASSUME NEW m \in S, NEW i \in DOMAIN m.kids PROVE m.kids[i] \in S
    <2>1. Walks(m) /\ Shaped(m) /\ m.kids[i] \in Subtrees(n)  BY <1>1
    <2>2. CASE m.kind \in Expressions
      <3>1. m.kids[i].kind \in Expressions  BY <2>1, <2>2, ExpressionsBelow
      <3>. QED  BY <2>1, <3>1
    <2>3. CASE m.kind \notin Expressions
      <3>1. Accepted(m, env)  BY <2>3
      <3>2. m.kind # "call"  BY <2>3 DEF Expressions
      <3>3. Accepted(m.kids[i], env)  BY <2>1, <3>1, <3>2, AcceptedDown
      <3>. QED  BY <2>1, <3>3
    <2>. QED  BY <2>2, <2>3
  <1>. HIDE DEF S
  <1>4. Subtrees(n) \subseteq S  BY <1>1, <1>2, <1>3, SubtreesInside
  <1>5. "block" \notin Expressions  BY DEF Expressions, Literal, Assignments
  <1>. QED  BY <1>4, <1>5 DEF S

\* A statement in a block.
LEMMA StatementOfBlock ==
  ASSUME NEW env, NEW n, Neat(n), Accepted(n, env), n.kind = "block", NEW k \in DOMAIN n.kids
  PROVE  WellFormed(StmtCode(n.kids[k], Code(n.kids[k], env)))
  <1>. PICK s : s = n.kids[k]  OBVIOUS
  <1>1. Walks(n) /\ Sited(n) /\ Neat(s) /\ IsSequence(n.kids) /\ Placed(n)
    BY NeatDown DEF Shaped
  <1>2. Accepted(s, env)  BY <1>1, AcceptedDown
  <1>3. s.kind \in Statements
    <2>1. All(Kinds(n), Statements)  BY <1>1 DEF Placed
    <2>2. \A i \in DOMAIN n.kids : n.kids[i].kind \in Statements  BY <1>1, <2>1, KindsOfChildren
    <2>. QED  BY <2>2
  <1>4. s.kind \in Expressions => EndsItself(s) \/ s.kind = "call"  BY <1>1 DEF Sited
  <1>5. WrittenWell(s, env)  BY <1>1, <1>2, <1>3, <1>4, StatementsWritten DEF Statement
  <1>. QED  BY <1>5, StatedIsWellFormed DEF WrittenWell

\* and every statement is ended.
LEMMA StatementsOfOutput ==
  ASSUME CompilerInv
  PROVE  StatementsTerminate
  <1>. SUFFICES ASSUME output # <<>>, InStatements(tree), NEW i \in DOMAIN tree.kids
                PROVE
      LET env == Env(tree, i) IN
      /\ WellFormed(Code(tree.kids[i], env))
      /\ \A n \in Subtrees(tree.kids[i]) : n.kind = "block" =>
           \A k \in DOMAIN n.kids : WellFormed(StmtCode(n.kids[k], Code(n.kids[k], env)))
    BY DEF StatementsTerminate
  <1>. PICK env : env = Env(tree, i)  OBVIOUS
  <1>. PICK top : top = tree.kids[i]  OBVIOUS
  <1>1. Walks(tree) /\ Analysed(tree)  BY TreeOfOutput
  <1>2. top.kind \in {"func", "decl", "directive"} /\ Accepted(top, env)  BY <1>1 DEF Analysed
  <1>3. Neat(tree)  BY <1>1 DEF Neat, InStatements, Sited
  <1>4. Neat(top)  BY <1>3, NeatDown
  <1>5. ASSUME NEW n \in Subtrees(top), n.kind = "block", NEW k \in DOMAIN n.kids
        PROVE  WellFormed(StmtCode(n.kids[k], Code(n.kids[k], env)))
    <2>1. Walks(top) /\ Walks(n)  BY <1>4, SubtreesShaped DEF Neat
    <2>2. Neat(n)  BY <1>4, <2>1, SubtreesOfChild DEF Neat
    <2>3. Accepted(n, env)  BY <1>2, <1>5, <2>1, BlocksAccepted
    <2>. QED  BY <1>5, <2>2, <2>3, StatementOfBlock
  <1>6. WellFormed(Code(top, env))  BY <1>2, <1>4, DeclarationWritten
  <1>. QED  BY <1>5, <1>6

-----------------------------------------------------------------------------
\* In every program the analyser accepts in which assignments and method calls stand as
\* statements, whatever its length, depth, names and types, each statement and each
\* declaration of the generated C is ended, its parentheses and braces nest, and no
\* semicolon is inside of an expression (codegen_node, codegen_stmt, codegen_for_param).
THEOREM CompilerTerminatesStatements == Spec => []StatementsTerminate
  <1>1. CompilerInv => StatementsTerminate  BY StatementsOfOutput
  <1>. QED  BY <1>1, CompilerInvariant, PTL

\* In every program the analyser accepts, each print writes each of its arguments once
\* and in its place, however vectors and scalars alternate (codegen_node, NODE_PRINT).
THEOREM CompilerPrintsEachOnce == Spec => []PrintsEachOnce
  <1>1. CompilerInv => PrintsEachOnce  BY PrintsOfOutput
  <1>. QED  BY <1>1, CompilerInvariant, PTL

\* In every program the analyser accepts, whatever the types of its variables, each value
\* for which there is a format is printed with the one for its type in C
\* (codegen_specifier and the cases of codegen_node).
THEOREM CompilerFormatsFit == Spec => []FormatsFit
  <1>1. CompilerInv => FormatsFit  BY FormatsOfOutput
  <1>. QED  BY <1>1, CompilerInvariant, PTL

\* While the compiler runs, the cursor, the counter of range loops and the pieces of the
\* parse functions stay within their bounds.
THEOREM CompilerKeepsTypeOK == Spec => []TypeOK
  BY CompilerParses, ParserKeepsTypeOK, PTL

\* The tree that is analysed and written has the shape both index into.
THEOREM CompilerBuildsWalkableTrees == Spec => []TreesAreWalkable
  BY CompilerParses, ParserBuildsWalkableTrees, PTL

\* The tree that is analysed and written keeps every token that does more than separate,
\* and no node holds one twice, unless an index was put on what is not a name.
THEOREM CompilerDropsNothing == Spec => []NothingDropped
  BY CompilerParses, ParserDropsNothing, PTL

\* The tree that is analysed and written groups operators as C does.
THEOREM CompilerGroupsByPrecedence == Spec => []GroupedByPrecedence
  BY CompilerParses, ParserGroupsByPrecedence, PTL
=============================================================================
