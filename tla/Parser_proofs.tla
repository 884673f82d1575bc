---------------------------- MODULE Parser_proofs ----------------------------
(***************************************************************************)
(* The parser on token lists of any length, over any names and kinds.      *)
(* First what the constructors of the tree do with any number of pieces,   *)
(* and how facts about nodes carry over to the trees they are put together *)
(* in; then the parse functions.                                           *)
(***************************************************************************)
EXTENDS Parser, WellFoundedInduction, TLAPS

\* A sequence, whatever its elements are.
IsSequence(s) == \E S : s \in Seq(S)

-----------------------------------------------------------------------------
\* Induction.
LEMMA LeastNatural ==
  ASSUME NEW S \in SUBSET Nat, S # {}
  PROVE  \E n \in S : \A m \in S : n <= m
  <1>1. \E n \in S : \A m \in S : ~ (<<m, n>> \in OpToRel(<, Nat))
    BY NatLessThanWellFounded, WFMin, Zenon
  <1>2. \A m, n \in Nat : ~ (<<m, n>> \in OpToRel(<, Nat)) => n <= m
    BY DEF OpToRel
  <1>. QED  BY <1>1, <1>2

LEMMA Induction ==
  ASSUME NEW S, 0 \in S, \A n \in Nat : n \in S => n + 1 \in S
  PROVE  Nat \subseteq S
  <1>. SUFFICES ASSUME Nat \ S # {} PROVE FALSE  OBVIOUS
  <1>1. PICK n \in Nat \ S : \A m \in Nat \ S : n <= m  BY LeastNatural
  <1>2. n - 1 \in Nat \ S  BY <1>1
  <1>. QED  BY <1>1, <1>2

-----------------------------------------------------------------------------
\* Sequences.
LEMMA PushLength ==
  ASSUME NEW s, IsSequence(s), NEW n
  PROVE  /\ IsSequence(Append(s, n)) /\ Len(Append(s, n)) = Len(s) + 1 /\ Len(s) \in Nat
         /\ \A i \in 1 .. Len(s) : Append(s, n)[i] = s[i]
         /\ Append(s, n)[Len(s) + 1] = n
  <1>. PICK S : s \in Seq(S)  BY DEF IsSequence
  <1>1. s \in Seq(S \cup {n})  OBVIOUS
  <1>2. Append(s, n) \in Seq(S \cup {n})  BY <1>1
  <1>. QED  BY <1>1, <1>2 DEF IsSequence

LEMMA ConcatLength ==
  ASSUME NEW s, IsSequence(s), NEW t, IsSequence(t)
  PROVE  /\ IsSequence(s \o t) /\ Len(s \o t) = Len(s) + Len(t)
         /\ Len(s) \in Nat /\ Len(t) \in Nat
         /\ DOMAIN (s \o t) = 1 .. Len(s) + Len(t)
         /\ \A i \in 1 .. Len(s) : (s \o t)[i] = s[i]
         /\ \A i \in 1 .. Len(t) : (s \o t)[Len(s) + i] = t[i]
  <1>. PICK S : s \in Seq(S)  BY DEF IsSequence
  <1>. PICK T : t \in Seq(T)  BY DEF IsSequence
  <1>. DEFINE U == S \cup T
  <1>1. s \in Seq(U) /\ t \in Seq(U)  OBVIOUS
  <1>2. s \o t \in Seq(U)  BY <1>1
  <1>3. IsSequence(s \o t)  BY <1>2 DEF IsSequence
  <1>. HIDE DEF U
  <1>4. Len(s \o t) = Len(s) + Len(t) /\ Len(s) \in Nat /\ Len(t) \in Nat  BY <1>1
  <1>5. \A i \in 1 .. Len(s) : (s \o t)[i] = s[i]  BY <1>1
  <1>6. \A i \in 1 .. Len(t) : (s \o t)[Len(s) + i] = t[i]  BY <1>1
  <1>7. DOMAIN (s \o t) = 1 .. Len(s) + Len(t)  BY <1>2, <1>4
  <1>. QED  BY <1>3, <1>4, <1>5, <1>6, <1>7

LEMMA TailLength ==
  ASSUME NEW s, IsSequence(s), s # <<>>
  PROVE  /\ IsSequence(Tail(s)) /\ Len(Tail(s)) = Len(s) - 1 /\ Len(s) \in Nat \ {0}
         /\ \A i \in 1 .. Len(s) - 1 : Tail(s)[i] = s[i + 1]
         /\ Head(s) = s[1]
  <1>. PICK S : s \in Seq(S)  BY DEF IsSequence
  <1>1. Tail(s) \in Seq(S)  OBVIOUS
  <1>2. Len(s) \in Nat \ {0} /\ Len(Tail(s)) = Len(s) - 1 /\ Head(s) = s[1]  OBVIOUS
  <1>3. \A i \in 1 .. Len(s) - 1 : Tail(s)[i] = s[i + 1]  OBVIOUS
  <1>. QED  BY <1>1, <1>2, <1>3 DEF IsSequence

LEMMA Tuples ==
  /\ IsSequence(<<>>) /\ Len(<<>>) = 0
  /\ \A a : IsSequence(<<a>>) /\ Len(<<a>>) = 1 /\ <<a>>[1] = a
  /\ \A a, b : IsSequence(<<a, b>>) /\ Len(<<a, b>>) = 2
  /\ \A a, b, c : IsSequence(<<a, b, c>>) /\ Len(<<a, b, c>>) = 3
  <1>1. \A a : <<a>> \in Seq({a}) /\ Len(<<a>>) = 1 /\ <<a>>[1] = a  OBVIOUS
  <1>2. \A a, b : <<a, b>> \in Seq({a, b}) /\ Len(<<a, b>>) = 2  OBVIOUS
  <1>3. \A a, b, c : <<a, b, c>> \in Seq({a, b, c}) /\ Len(<<a, b, c>>) = 3  OBVIOUS
  <1>4. <<>> \in Seq({}) /\ Len(<<>>) = 0  OBVIOUS
  <1>. QED  BY <1>1, <1>2, <1>3, <1>4 DEF IsSequence

LEMMA ReduceLength ==
  ASSUME NEW s, IsSequence(s), NEW b \in Nat, b =< Len(s), NEW n
  PROVE  /\ IsSequence(Append(SubSeq(s, 1, b), n))
         /\ Len(Append(SubSeq(s, 1, b), n)) = b + 1
  <1>. PICK S : s \in Seq(S)  BY DEF IsSequence
  <1>1. SubSeq(s, 1, b) \in Seq(S) /\ Len(SubSeq(s, 1, b)) = b
    OBVIOUS
  <1>2. IsSequence(SubSeq(s, 1, b))  BY <1>1 DEF IsSequence
  <1>. QED  BY <1>1, <1>2, PushLength


-----------------------------------------------------------------------------
\* The recursive function behind Children exists and is what it says.
LEMMA ChildrenUnfold ==
  ASSUME NEW p, IsSequence(p)
  PROVE  \E f : /\ Children(p) = f[Len(p)]
                /\ f[0] = <<>>
                /\ \A i \in 1 .. Len(p) :
                     f[i] = IF IsWord(p[i]) THEN f[i - 1] ELSE Append(f[i - 1], p[i])
  <1>. DEFINE N == Len(p)
              Following(g, i) == IF i = 0 THEN <<>>
                            ELSE IF IsWord(p[i]) THEN g[i - 1] ELSE Append(g[i - 1], p[i])
              Upto(n, g) == DOMAIN g = 0 .. n /\ \A i \in 0 .. n : g[i] = Following(g, i)
              S == {n \in Nat : \E g : Upto(n, g)}
              F == CHOOSE f : f = [i \in 0 .. N |-> Following(f, i)]
  <1>0. N \in Nat  BY PushLength
  <1>1. 0 \in S
    <2>. DEFINE g == [i \in 0 .. 0 |-> <<>>]
    <2>1. Upto(0, g)  OBVIOUS
    <2>. QED  BY <2>1
  <1>2. ASSUME NEW n \in Nat, n \in S PROVE n + 1 \in S
    <2>1. PICK g : Upto(n, g)  BY <1>2
    <2>. DEFINE h == [i \in 0 .. n + 1 |-> IF i = n + 1 THEN Following(g, i) ELSE g[i]]
    <2>2. \A i \in 0 .. n : h[i] = g[i]  OBVIOUS
    <2>3. \A i \in 0 .. n + 1 : Following(h, i) = Following(g, i)  BY <2>2
    <2>4. ASSUME NEW i \in 0 .. n + 1 PROVE h[i] = Following(h, i)
      <3>. HIDE DEF Following
      <3>1. CASE i = n + 1  BY <2>3, <3>1
      <3>2. CASE i \in 0 .. n  BY <2>1, <2>2, <2>3, <3>2
      <3>. QED  BY <3>1, <3>2
    <2>5. DOMAIN h = 0 .. n + 1  OBVIOUS
    <2>6. Upto(n + 1, h)  BY <2>4, <2>5
    <2>. HIDE DEF Upto, h
    <2>. QED  BY <2>6
  <1>. HIDE DEF S
  <1>3. Nat \subseteq S  BY <1>1, <1>2, Induction
  <1>4. PICK g : Upto(N, g)  BY <1>0, <1>3 DEF S
  <1>5. DOMAIN [i \in 0 .. N |-> g[i]] = 0 .. N  OBVIOUS
  <1>. DEFINE h == [i \in 0 .. N |-> g[i]]
  <1>6. h = [i \in 0 .. N |-> Following(h, i)]  BY <1>0, <1>4
  <1>. HIDE DEF h, Upto
  <1>7. F = [i \in 0 .. N |-> Following(F, i)]  BY <1>6
  <1>8. Children(p) = F[N]  BY DEF Children
  <1>. HIDE DEF F
  <1>. HIDE DEF Following
  <1>9. \A i \in 0 .. N : F[i] = Following(F, i)  BY <1>0, <1>7
  <1>. HIDE DEF N
  <1>10. F[0] = <<>>  BY <1>0, <1>9 DEF Following
  <1>11. ASSUME NEW i \in 1 .. N
         PROVE  F[i] = IF IsWord(p[i]) THEN F[i - 1] ELSE Append(F[i - 1], p[i])
    <2>1. i \in 0 .. N /\ i # 0  BY <1>0
    <2>. QED  BY <1>9, <2>1, Zenon DEF Following
  <1>. QED  BY <1>8, <1>10, <1>11 DEF N

\* The children are the pieces that are no words, in their order: child j is
\* piece e[j].
Chosen(p, n, q, e) ==
  /\ IsSequence(q)
  /\ \A j \in 1 .. Len(q) : e[j] \in 1 .. n /\ ~ IsWord(p[e[j]]) /\ q[j] = p[e[j]]
  /\ \A j, k \in 1 .. Len(q) : j < k => e[j] < e[k]
  /\ \A i \in 1 .. n : ~ IsWord(p[i]) => \E j \in 1 .. Len(q) : e[j] = i

LEMMA ChosenNext ==
  ASSUME NEW p, NEW n \in Nat, NEW q, NEW e, Chosen(p, n, q, e)
  PROVE  \E d : Chosen(p, n + 1, IF IsWord(p[n + 1]) THEN q ELSE Append(q, p[n + 1]), d)
  <1>1. CASE IsWord(p[n + 1])
    <2>1. Chosen(p, n + 1, q, e)  BY <1>1 DEF Chosen
    <2>. QED  BY <1>1, <2>1
  <1>2. CASE ~ IsWord(p[n + 1])
    <2>. DEFINE r == Append(q, p[n + 1])
                m == Len(q) + 1
                d == [j \in 1 .. m |-> IF j = m THEN n + 1 ELSE e[j]]
    <2>1. /\ IsSequence(r) /\ Len(r) = m /\ Len(q) \in Nat
      BY PushLength DEF Chosen
    <2>2. r[m] = p[n + 1] /\ \A j \in 1 .. Len(q) : r[j] = q[j]
      <3>. PICK S : q \in Seq(S)  BY DEF Chosen, IsSequence
      <3>. QED  OBVIOUS
    <2>. HIDE DEF r
    <2>3. d[m] = n + 1 /\ \A j \in 1 .. Len(q) : d[j] = e[j]  BY <2>1
    <2>. HIDE DEF d
    <2>4. \A j \in 1 .. m : d[j] \in 1 .. n + 1 /\ ~ IsWord(p[d[j]]) /\ r[j] = p[d[j]]
      BY <1>2, <2>1, <2>2, <2>3 DEF Chosen
    <2>5. \A j, k \in 1 .. m : j < k => d[j] < d[k]
      BY <2>1, <2>3 DEF Chosen
    <2>6. ASSUME NEW i \in 1 .. n + 1, ~ IsWord(p[i])
          PROVE  \E j \in 1 .. m : d[j] = i
      <3>1. CASE i = n + 1  BY <2>1, <2>3, <3>1
      <3>2. CASE i \in 1 .. n
        <4>1. PICK j \in 1 .. Len(q) : e[j] = i  BY <2>6, <3>2 DEF Chosen
        <4>. QED  BY <2>1, <2>3, <4>1
      <3>. QED  BY <3>1, <3>2
    <2>7. Chosen(p, n + 1, r, d)  BY <2>1, <2>4, <2>5, <2>6 DEF Chosen
    <2>. QED  BY <1>2, <2>7 DEF r
  <1>. QED  BY <1>1, <1>2

LEMMA ChildrenChosen ==
  ASSUME NEW p, IsSequence(p)
  PROVE  \E e : Chosen(p, Len(p), Children(p), e)
  <1>0. Len(p) \in Nat  BY PushLength
  <1>1. PICK f : /\ Children(p) = f[Len(p)]
                 /\ f[0] = <<>>
                 /\ \A i \in 1 .. Len(p) :
                      f[i] = IF IsWord(p[i]) THEN f[i - 1] ELSE Append(f[i - 1], p[i])
    BY ChildrenUnfold
  <1>. DEFINE S == {n \in Nat : n <= Len(p) => \E e : Chosen(p, n, f[n], e)}
  <1>2. 0 \in S
    <2>1. Chosen(p, 0, f[0], <<>>)  BY <1>1, Tuples DEF Chosen
    <2>. QED  BY <2>1
  <1>3. ASSUME NEW n \in Nat, n \in S PROVE n + 1 \in S
    <2>. SUFFICES ASSUME n + 1 <= Len(p) PROVE \E e : Chosen(p, n + 1, f[n + 1], e)
      OBVIOUS
    <2>1. PICK e : Chosen(p, n, f[n], e)  BY <1>0, <1>3
    <2>2. n + 1 \in 1 .. Len(p) /\ (n + 1) - 1 = n  BY <1>0
    <2>3. f[n + 1] = IF IsWord(p[n + 1]) THEN f[n] ELSE Append(f[n], p[n + 1])
      BY <1>1, <2>2
    <2>. QED  BY <2>1, <2>3, ChosenNext
  <1>. HIDE DEF S
  <1>4. Nat \subseteq S  BY <1>2, <1>3, Induction
  <1>. QED  BY <1>0, <1>1, <1>4 DEF S

\* Nothing but words gives no child; one child after words is the last piece.
LEMMA ChildrenOfWords ==
  ASSUME NEW p, IsSequence(p)
  PROVE  /\ IsSequence(Children(p)) /\ Len(Children(p)) \in Nat
         /\ \A j \in 1 .. Len(Children(p)) :
              \E i \in 1 .. Len(p) : ~ IsWord(p[i]) /\ Children(p)[j] = p[i]
         /\ (\A i \in 1 .. Len(p) : IsWord(p[i])) => Len(Children(p)) = 0
         /\ Len(p) > 0 /\ ~ IsWord(p[Len(p)]) =>
              /\ Len(Children(p)) > 0
              /\ Children(p)[Len(Children(p))] = p[Len(p)]
              /\ \A j \in 1 .. Len(Children(p)) - 1 :
                   \E i \in 1 .. Len(p) - 1 : ~ IsWord(p[i]) /\ Children(p)[j] = p[i]
  <1>. DEFINE q == Children(p)
  <1>1. PICK e : Chosen(p, Len(p), q, e)  BY ChildrenChosen
  <1>2. Len(p) \in Nat /\ IsSequence(q) /\ Len(q) \in Nat
    BY <1>1, PushLength DEF Chosen
  <1>. HIDE DEF q
  <1>3. \A j \in 1 .. Len(q) : \E i \in 1 .. Len(p) : ~ IsWord(p[i]) /\ q[j] = p[i]
    BY <1>1 DEF Chosen
  <1>4. ASSUME \A i \in 1 .. Len(p) : IsWord(p[i]) PROVE Len(q) = 0
    BY <1>2, <1>3, <1>4
  <1>5. ASSUME Len(p) > 0, ~ IsWord(p[Len(p)])
        PROVE  /\ Len(q) > 0 /\ q[Len(q)] = p[Len(p)]
               /\ \A j \in 1 .. Len(q) - 1 :
                    \E i \in 1 .. Len(p) - 1 : ~ IsWord(p[i]) /\ q[j] = p[i]
    <2>1. PICK k \in 1 .. Len(q) : e[k] = Len(p)  BY <1>1, <1>2, <1>5 DEF Chosen
    <2>2. k = Len(q)
      <3>. SUFFICES ASSUME k < Len(q) PROVE FALSE  BY <1>2
      <3>1. Len(q) \in 1 .. Len(q)  BY <1>2
      <3>2. e[k] < e[Len(q)] /\ e[Len(q)] \in 1 .. Len(p)  BY <1>1, <3>1 DEF Chosen
      <3>. QED  BY <1>2, <2>1, <3>2
    <2>3. ASSUME NEW j \in 1 .. Len(q) - 1
          PROVE  \E i \in 1 .. Len(p) - 1 : ~ IsWord(p[i]) /\ q[j] = p[i]
      <3>1. j \in 1 .. Len(q) /\ Len(q) \in 1 .. Len(q) /\ j < Len(q)  BY <1>2
      <3>2. e[j] < e[Len(q)] /\ e[j] \in 1 .. Len(p) /\ ~ IsWord(p[e[j]]) /\ q[j] = p[e[j]]
        BY <1>1, <3>1 DEF Chosen
      <3>. QED  BY <1>2, <2>1, <2>2, <3>2
    <2>. QED  BY <1>1, <1>2, <2>1, <2>2, <2>3 DEF Chosen
  <1>. QED  BY <1>2, <1>3, <1>4, <1>5 DEF q

\* One word among the pieces, at w.
LEMMA ChildrenBesideWord ==
  ASSUME NEW p, IsSequence(p), NEW w \in 1 .. Len(p), IsWord(p[w]),
         \A i \in 1 .. Len(p) : i # w => ~ IsWord(p[i])
  PROVE  /\ IsSequence(Children(p)) /\ Len(Children(p)) = Len(p) - 1
         /\ \A i \in 1 .. Len(p) - 1 : Children(p)[i] = IF i < w THEN p[i] ELSE p[i + 1]
  <1>0. Len(p) \in Nat  BY PushLength
  <1>1. PICK f : /\ Children(p) = f[Len(p)]
                 /\ f[0] = <<>>
                 /\ \A i \in 1 .. Len(p) :
                      f[i] = IF IsWord(p[i]) THEN f[i - 1] ELSE Append(f[i - 1], p[i])
    BY ChildrenUnfold
  <1>. DEFINE Number(n) == IF n < w THEN n ELSE n - 1
              Q(n) == /\ IsSequence(f[n]) /\ Len(f[n]) = Number(n)
                      /\ \A i \in 1 .. Number(n) : f[n][i] = IF i < w THEN p[i] ELSE p[i + 1]
              S == {n \in Nat : n <= Len(p) => Q(n)}
  <1>2. 0 \in S  BY <1>1, Tuples
  <1>3. ASSUME NEW n \in Nat, n \in S PROVE n + 1 \in S
    <2>. SUFFICES ASSUME n + 1 <= Len(p) PROVE Q(n + 1)  OBVIOUS
    <2>1. Q(n) /\ n + 1 \in 1 .. Len(p) /\ (n + 1) - 1 = n  BY <1>0, <1>3
    <2>2. f[n + 1] = IF IsWord(p[n + 1]) THEN f[n] ELSE Append(f[n], p[n + 1])
      BY <1>1, <2>1
    <2>3. CASE n + 1 = w
      <3>1. f[n + 1] = f[n] /\ Number(n + 1) = Number(n)  BY <2>1, <2>2, <2>3
      <3>. QED  BY <2>1, <3>1
    <2>4. CASE n + 1 # w
      <3>1. f[n + 1] = Append(f[n], p[n + 1])  BY <2>1, <2>2, <2>4
      <3>2. /\ IsSequence(f[n + 1]) /\ Len(f[n + 1]) = Number(n) + 1
            /\ \A i \in 1 .. Number(n) : f[n + 1][i] = f[n][i]
            /\ f[n + 1][Number(n) + 1] = p[n + 1]
        BY <2>1, <3>1, PushLength
      <3>3. Number(n + 1) = Number(n) + 1 /\ Number(n) \in Nat
        BY <1>0, <2>1, <2>4
      <3>4. \A i \in 1 .. Number(n + 1) : i \in 1 .. Number(n) \/ i = Number(n) + 1
        BY <3>3
      <3>5. p[n + 1] = IF Number(n) + 1 < w THEN p[Number(n) + 1] ELSE p[(Number(n) + 1) + 1]
        BY <1>0, <2>1, <2>4
      <3>6. \A i \in 1 .. Number(n) : f[n][i] = IF i < w THEN p[i] ELSE p[i + 1]
        BY <2>1
      <3>. HIDE DEF Number
      <3>7. \A i \in 1 .. Number(n + 1) : f[n + 1][i] = IF i < w THEN p[i] ELSE p[i + 1]
        BY <3>2, <3>3, <3>4, <3>5, <3>6
      <3>. QED  BY <3>2, <3>3, <3>7
    <2>. QED  BY <2>3, <2>4
  <1>. HIDE DEF S
  <1>4. Nat \subseteq S  BY <1>2, <1>3, Induction
  <1>5. Q(Len(p))  BY <1>0, <1>4 DEF S
  <1>. QED  BY <1>0, <1>1, <1>5

-----------------------------------------------------------------------------
\* The nodes below a node.

\* The recursive function behind Subtrees exists and is what it says.
LEMMA SubtreesUnfold ==
  ASSUME NEW n, n.height \in Nat
  PROVE  \E level : /\ Subtrees(n) = UNION {level[d] : d \in 0 .. n.height}
                    /\ level[0] = {n}
                    /\ \A d \in 1 .. n.height :
                         level[d] = UNION {ToSet(m.kids) : m \in level[d - 1]}
  <1>. DEFINE N == n.height
              Following(g, d) == IF d = 0 THEN {n} ELSE UNION {ToSet(m.kids) : m \in g[d - 1]}
              Upto(k, g) == DOMAIN g = 0 .. k /\ \A d \in 0 .. k : g[d] = Following(g, d)
              T == {k \in Nat : \E g : Upto(k, g)}
              L == CHOOSE f : f = [d \in 0 .. N |-> Following(f, d)]
  <1>1. 0 \in T
    <2>. DEFINE g == [d \in 0 .. 0 |-> {n}]
    <2>1. Upto(0, g)  OBVIOUS
    <2>. QED  BY <2>1
  <1>2. ASSUME NEW k \in Nat, k \in T PROVE k + 1 \in T
    <2>1. PICK g : Upto(k, g)  BY <1>2
    <2>. DEFINE h == [d \in 0 .. k + 1 |-> IF d = k + 1 THEN Following(g, d) ELSE g[d]]
    <2>2. \A d \in 0 .. k : h[d] = g[d]  OBVIOUS
    <2>3. \A d \in 0 .. k + 1 : Following(h, d) = Following(g, d)
      <3>. TAKE d \in 0 .. k + 1
      <3>1. CASE d = 0  BY <3>1
      <3>2. CASE d # 0
        <4>1. h[d - 1] = g[d - 1]  BY <2>2, <3>2
        <4>. QED  BY <3>2, <4>1
      <3>. QED  BY <3>1, <3>2
    <2>4. ASSUME NEW d \in 0 .. k + 1 PROVE h[d] = Following(h, d)
      <3>. HIDE DEF Following
      <3>1. CASE d = k + 1  BY <2>3, <3>1
      <3>2. CASE d \in 0 .. k  BY <2>1, <2>2, <2>3, <3>2
      <3>. QED  BY <3>1, <3>2
    <2>5. DOMAIN h = 0 .. k + 1  OBVIOUS
    <2>6. Upto(k + 1, h)  BY <2>4, <2>5
    <2>. HIDE DEF Upto, h
    <2>. QED  BY <2>6
  <1>. HIDE DEF T
  <1>3. Nat \subseteq T  BY <1>1, <1>2, Induction
  <1>4. PICK g : Upto(N, g)  BY <1>3 DEF T
  <1>. DEFINE h == [d \in 0 .. N |-> g[d]]
  <1>5. h = [d \in 0 .. N |-> Following(h, d)]
    <2>. SUFFICES ASSUME NEW d \in 0 .. N PROVE h[d] = Following(h, d)  OBVIOUS
    <2>1. h[d] = Following(g, d)  BY <1>4
    <2>2. d # 0 => h[d - 1] = g[d - 1]  OBVIOUS
    <2>. QED  BY <2>1, <2>2
  <1>. HIDE DEF h, Upto
  <1>6. L = [d \in 0 .. N |-> Following(L, d)]  BY <1>5
  <1>7. Subtrees(n) = UNION {L[d] : d \in 0 .. N}  BY DEF Subtrees
  <1>. HIDE DEF L, Following
  <1>8. \A d \in 0 .. N : L[d] = Following(L, d)  BY <1>6
  <1>9. 0 \in 0 .. N /\ \A d \in 1 .. N : d \in 0 .. N /\ d # 0  OBVIOUS
  <1>10. L[0] = {n}  BY <1>8, <1>9 DEF Following
  <1>11. \A d \in 1 .. N : L[d] = UNION {ToSet(m.kids) : m \in L[d - 1]}
    BY <1>8, <1>9, Zenon DEF Following
  <1>. HIDE DEF N
  <1>. QED  BY <1>7, <1>10, <1>11 DEF N

\* A set of nodes that holds n and the children of its members holds them all.
LEMMA SubtreesInside ==
  ASSUME NEW n, n.height \in Nat, NEW S, n \in S,
         \A m \in S : \A i \in DOMAIN m.kids : m.kids[i] \in S
  PROVE  Subtrees(n) \subseteq S
  <1>1. PICK L : /\ Subtrees(n) = UNION {L[d] : d \in 0 .. n.height}
                 /\ L[0] = {n}
                 /\ \A d \in 1 .. n.height : L[d] = UNION {ToSet(m.kids) : m \in L[d - 1]}
    BY SubtreesUnfold
  <1>. DEFINE R == {d \in Nat : d <= n.height => L[d] \subseteq S}
  <1>2. 0 \in R  BY <1>1
  <1>3. ASSUME NEW d \in Nat, d \in R PROVE d + 1 \in R
    <2>. SUFFICES ASSUME d + 1 <= n.height, NEW x \in L[d + 1] PROVE x \in S  OBVIOUS
    <2>1. d + 1 \in 1 .. n.height /\ (d + 1) - 1 = d  OBVIOUS
    <2>2. L[d + 1] = UNION {ToSet(m.kids) : m \in L[d]}  BY <1>1, <2>1
    <2>3. L[d] \subseteq S  BY <1>3
    <2>. QED  BY <2>2, <2>3 DEF ToSet
  <1>. HIDE DEF R
  <1>4. Nat \subseteq R  BY <1>2, <1>3, Induction
  <1>. QED  BY <1>1, <1>4 DEF R

\* A tree every node of which has the shape its kind calls for.
Shaped(m) == /\ Placed(m) /\ IsSequence(m.kids) /\ m.height \in Nat
             /\ \A i \in DOMAIN m.kids : m.kids[i].height < m.height
Closed(S) == \A m \in S : \A i \in DOMAIN m.kids : m.kids[i] \in S
Walks(n) == \E S : n \in S /\ Closed(S) /\ \A m \in S : Shaped(m)

LEMMA WalksDown ==
  ASSUME NEW n, Walks(n)
  PROVE  /\ Shaped(n)
         /\ \A i \in DOMAIN n.kids : Walks(n.kids[i])
         /\ \A m \in Subtrees(n) : Placed(m)
  <1>1. PICK S : n \in S /\ Closed(S) /\ \A m \in S : Shaped(m)  BY DEF Walks
  <1>2. \A i \in DOMAIN n.kids : Walks(n.kids[i])  BY <1>1 DEF Walks, Closed
  <1>3. Subtrees(n) \subseteq S  BY <1>1, SubtreesInside DEF Closed, Shaped
  <1>. QED  BY <1>1, <1>2, <1>3 DEF Shaped

\* The nodes below a walkable one: closed under children, and as well shaped.
LEMMA SubtreesShaped ==
  ASSUME NEW n, Walks(n)
  PROVE  /\ n \in Subtrees(n) /\ Closed(Subtrees(n))
         /\ \A m \in Subtrees(n) : Shaped(m) /\ Walks(m) /\ m.height <= n.height
  <1>1. PICK S : n \in S /\ Closed(S) /\ \A m \in S : Shaped(m)  BY DEF Walks
  <1>2. n.height \in Nat  BY <1>1 DEF Shaped
  <1>3. Subtrees(n) \subseteq S  BY <1>1, <1>2, SubtreesInside DEF Closed
  <1>4. \A m \in Subtrees(n) : Shaped(m) /\ Walks(m)  BY <1>1, <1>3 DEF Walks
  <1>5. PICK L : /\ Subtrees(n) = UNION {L[d] : d \in 0 .. n.height}
                 /\ L[0] = {n}
                 /\ \A d \in 1 .. n.height : L[d] = UNION {ToSet(m.kids) : m \in L[d - 1]}
    BY <1>2, SubtreesUnfold
  <1>6. 0 \in 0 .. n.height  BY <1>2
  <1>7. n \in Subtrees(n)  BY <1>5, <1>6
  <1>. DEFINE R == {d \in Nat : d <= n.height => \A m \in L[d] : m.height <= n.height - d}
  <1>8. 0 \in R  BY <1>2, <1>5
  <1>9. ASSUME NEW d \in Nat, d \in R PROVE d + 1 \in R
    <2>. SUFFICES ASSUME d + 1 <= n.height, NEW x \in L[d + 1]
                  PROVE  x.height <= n.height - (d + 1)
      OBVIOUS
    <2>1. d + 1 \in 1 .. n.height /\ (d + 1) - 1 = d /\ d \in 0 .. n.height  BY <1>2
    <2>2. L[d + 1] = UNION {ToSet(m.kids) : m \in L[d]}  BY <1>5, <2>1
    <2>3. PICK m \in L[d] : \E i \in DOMAIN m.kids : x = m.kids[i]  BY <2>2 DEF ToSet
    <2>4. m \in Subtrees(n) /\ x \in Subtrees(n)  BY <1>5, <2>1
    <2>5. m.height \in Nat /\ x.height \in Nat /\ x.height < m.height
      BY <1>4, <2>3, <2>4 DEF Shaped
    <2>6. m.height <= n.height - d  BY <1>2, <1>9, <2>1
    <2>. QED  BY <1>2, <2>5, <2>6
  <1>. HIDE DEF R
  <1>10. Nat \subseteq R  BY <1>8, <1>9, Induction
  <1>11. \A d \in 0 .. n.height : \A m \in L[d] : m.height <= n.height - d
    BY <1>2, <1>10 DEF R
  <1>12. \A m \in Subtrees(n) : m.height <= n.height
    <2>. SUFFICES ASSUME NEW m \in Subtrees(n) PROVE m.height <= n.height  OBVIOUS
    <2>1. PICK d \in 0 .. n.height : m \in L[d]  BY <1>5
    <2>2. m.height <= n.height - d /\ m.height \in Nat  BY <1>4, <1>11, <2>1 DEF Shaped
    <2>. QED  BY <1>2, <2>2
  <1>13. Closed(Subtrees(n))
    <2>. SUFFICES ASSUME NEW m \in Subtrees(n), NEW i \in DOMAIN m.kids
                  PROVE  m.kids[i] \in Subtrees(n)
      BY DEF Closed
    <2>1. PICK d \in 0 .. n.height : m \in L[d]  BY <1>5
    <2>2. m \in S /\ m.kids[i] \in S  BY <1>1, <1>3 DEF Closed
    <2>3. m.height \in Nat /\ m.kids[i].height \in Nat /\ m.kids[i].height < m.height
      BY <1>1, <2>2 DEF Shaped
    <2>4. m.height <= n.height - d  BY <1>11, <2>1
    <2>. DEFINE e == d + 1
    <2>5. e \in 1 .. n.height /\ e \in 0 .. n.height /\ e - 1 = d  BY <1>2, <2>3, <2>4
    <2>. HIDE DEF e
    <2>6. L[e] = UNION {ToSet(x.kids) : x \in L[d]}  BY <1>5, <2>5
    <2>7. m.kids[i] \in L[e]  BY <2>1, <2>6 DEF ToSet
    <2>. QED  BY <1>5, <2>5, <2>7
  <1>. QED  BY <1>4, <1>7, <1>12, <1>13

\* The nodes below a child are below its parent.
LEMMA SubtreesOfChild ==
  ASSUME NEW n, Walks(n), NEW m \in Subtrees(n)
  PROVE  Subtrees(m) \subseteq Subtrees(n)
  <1>1. Closed(Subtrees(n)) /\ m.height \in Nat  BY SubtreesShaped DEF Shaped
  <1>. QED  BY <1>1, SubtreesInside DEF Closed

\* The height of a node is a number above those of its children.
LEMMA HeightOfNode ==
  ASSUME NEW kids, IsSequence(kids), \A i \in 1 .. Len(kids) : kids[i].height \in Nat,
         NEW kind, NEW words, NEW keeps
  PROVE  /\ Node(kind, words, keeps, kids).height \in Nat
         /\ \A i \in DOMAIN kids : kids[i].height < Node(kind, words, keeps, kids).height
  <1>0. Len(kids) \in Nat /\ DOMAIN kids = 1 .. Len(kids)
    <2>. PICK S : kids \in Seq(S)  BY DEF IsSequence
    <2>. QED  OBVIOUS
  <1>. DEFINE H == {0} \cup {kids[i].height : i \in DOMAIN kids}
              Top(n) == \E x \in H : x \in Nat /\ \A i \in 1 .. n : kids[i].height <= x
              T == {n \in Nat : n <= Len(kids) => Top(n)}
  <1>1. 0 \in T  OBVIOUS
  <1>2. ASSUME NEW n \in Nat, n \in T PROVE n + 1 \in T
    <2>. SUFFICES ASSUME n + 1 <= Len(kids) PROVE Top(n + 1)  OBVIOUS
    <2>1. PICK x \in H : x \in Nat /\ \A i \in 1 .. n : kids[i].height <= x
      BY <1>0, <1>2
    <2>. DEFINE y == kids[n + 1].height
    <2>2. y \in H /\ y \in Nat  BY <1>0
    <2>. HIDE DEF y, H
    <2>3. CASE x <= y
      <3>1. \A i \in 1 .. n + 1 : kids[i].height <= y
        BY <1>0, <2>1, <2>2, <2>3 DEF y
      <3>. QED  BY <2>2, <3>1
    <2>4. CASE ~ x <= y
      <3>1. \A i \in 1 .. n + 1 : kids[i].height <= x
        BY <1>0, <2>1, <2>2, <2>4 DEF y
      <3>. QED  BY <2>1, <3>1
    <2>. QED  BY <2>3, <2>4
  <1>. HIDE DEF T
  <1>3. Nat \subseteq T  BY <1>1, <1>2, Induction
  <1>4. PICK x \in H : x \in Nat /\ \A i \in 1 .. Len(kids) : kids[i].height <= x
    <2>. HIDE DEF Top
    <2>1. Top(Len(kids))  BY <1>0, <1>3 DEF T
    <2>. QED  BY <2>1 DEF Top
  <1>5. \A y \in H : x >= y  BY <1>0, <1>4
  <1>6. Max(H) \in H /\ \A y \in H : Max(H) >= y  BY <1>4, <1>5 DEF Max
  <1>7. H \subseteq Nat  BY <1>0
  <1>. DEFINE h == Node(kind, words, keeps, kids).height
              top == Max(H)
  <1>8. h = 1 + top  BY DEF Node
  <1>9. \A i \in DOMAIN kids : kids[i].height \in H  OBVIOUS
  <1>10. top \in Nat /\ \A y \in H : top >= y  BY <1>6, <1>7
  <1>. HIDE DEF H, h, top
  <1>11. h \in Nat /\ \A i \in DOMAIN kids : kids[i].height < h
    BY <1>7, <1>8, <1>9, <1>10
  <1>. QED  BY <1>11 DEF h

LEMMA NodeWalks ==
  ASSUME NEW kids, IsSequence(kids), \A i \in 1 .. Len(kids) : Walks(kids[i]),
         NEW kind, NEW words, NEW keeps,
         Placed(Node(kind, words, keeps, kids))
  PROVE  Walks(Node(kind, words, keeps, kids))
  <1>. DEFINE n == Node(kind, words, keeps, kids)
              Witness(m, S) == m \in S /\ Closed(S) /\ \A x \in S : Shaped(x)
              F == [i \in DOMAIN kids |-> CHOOSE S : Witness(kids[i], S)]
              S == {n} \cup UNION {F[i] : i \in DOMAIN kids}
  <1>0. DOMAIN kids = 1 .. Len(kids)
    <2>. PICK E : kids \in Seq(E)  BY DEF IsSequence
    <2>. QED  OBVIOUS
  <1>1. n.kids = kids  BY DEF Node
  <1>2. n.height \in Nat /\ \A i \in DOMAIN kids : kids[i].height < n.height
    <2>1. \A i \in 1 .. Len(kids) : kids[i].height \in Nat
      BY WalksDown DEF Shaped
    <2>. QED  BY <2>1, HeightOfNode
  <1>. HIDE DEF n
  <1>3. \A i \in DOMAIN kids : Witness(kids[i], F[i])
    <2>. TAKE i \in DOMAIN kids
    <2>1. \E X : Witness(kids[i], X)  BY <1>0 DEF Walks
    <2>. HIDE DEF Witness
    <2>. QED  BY <2>1
  <1>. HIDE DEF F
  <1>4. Closed(S)
    <2>. SUFFICES ASSUME NEW m \in S, NEW i \in DOMAIN m.kids PROVE m.kids[i] \in S
      BY DEF Closed
    <2>1. CASE m = n  BY <1>1, <1>3, <2>1
    <2>2. CASE \E j \in DOMAIN kids : m \in F[j]  BY <1>3, <2>2 DEF Closed
    <2>. QED  BY <2>1, <2>2
  <1>5. Shaped(n)  BY <1>1, <1>2 DEF Shaped, n
  <1>6. \A m \in S : Shaped(m)  BY <1>3, <1>5
  <1>. QED  BY <1>4, <1>6 DEF Walks, n

-----------------------------------------------------------------------------
\* Which pieces make a node of the right shape.
LEMMA KindFacts ==
  /\ Expressions \subseteq Statements
  /\ {"word", "func", "block", "program", "null"} \cap Statements = {}
  /\ {"decl", "if", "for"} \cap Expressions = {}
  BY DEF Expressions, Statements, Literal, Assignments

LEMMA KindsOfChildren ==
  ASSUME NEW n, IsSequence(n.kids)
  PROVE  /\ Len(n.kids) \in Nat
         /\ \A i \in 1 .. Len(n.kids) : Kinds(n)[i] = n.kids[i].kind
         /\ \A S : All(Kinds(n), S) <=> \A i \in 1 .. Len(n.kids) : n.kids[i].kind \in S
         /\ Len(n.kids) > 0 => \A S : All(Front(Kinds(n)), S)
                                 <=> \A i \in 1 .. Len(n.kids) - 1 : n.kids[i].kind \in S
         /\ Len(n.kids) = 4 => \A S : All(SubSeq(Kinds(n), 2, 3), S)
                                 <=> n.kids[2].kind \in S /\ n.kids[3].kind \in S
  <1>. DEFINE k == Kinds(n)
              E == {n.kids[i].kind : i \in 1 .. Len(n.kids)}
  <1>1. Len(n.kids) \in Nat /\ DOMAIN n.kids = 1 .. Len(n.kids)
    <2>. PICK S : n.kids \in Seq(S)  BY DEF IsSequence
    <2>. QED  OBVIOUS
  <1>2. k = [i \in 1 .. Len(n.kids) |-> n.kids[i].kind]  BY <1>1 DEF Kinds
  <1>3. k \in Seq(E) /\ Len(k) = Len(n.kids)  BY <1>1, <1>2
  <1>4. DOMAIN k = 1 .. Len(n.kids) /\ \A i \in 1 .. Len(n.kids) : k[i] = n.kids[i].kind
    BY <1>2
  <1>. HIDE DEF k
  <1>5. ASSUME NEW S
        PROVE  All(k, S) <=> \A i \in 1 .. Len(n.kids) : n.kids[i].kind \in S
    BY <1>4 DEF All, ToSet
  <1>6. ASSUME NEW S, Len(n.kids) > 0
        PROVE  All(Front(k), S) <=> \A i \in 1 .. Len(n.kids) - 1 : n.kids[i].kind \in S
    <2>1. /\ DOMAIN Front(k) = 1 .. Len(n.kids) - 1
          /\ \A i \in 1 .. Len(n.kids) - 1 : Front(k)[i] = k[i]
      BY <1>1, <1>3, <1>6 DEF Front
    <2>2. All(Front(k), S) <=> \A i \in 1 .. Len(n.kids) - 1 : Front(k)[i] \in S
      BY <2>1 DEF All, ToSet
    <2>3. \A i \in 1 .. Len(n.kids) - 1 : Front(k)[i] = n.kids[i].kind
      <3>. TAKE i \in 1 .. Len(n.kids) - 1
      <3>1. i \in 1 .. Len(n.kids)  BY <1>1
      <3>. QED  BY <1>4, <2>1, <3>1
    <2>. QED  BY <2>2, <2>3
  <1>7. ASSUME NEW S, Len(n.kids) = 4
        PROVE  All(SubSeq(k, 2, 3), S) <=> n.kids[2].kind \in S /\ n.kids[3].kind \in S
    <2>1. /\ DOMAIN SubSeq(k, 2, 3) = 1 .. 2
          /\ SubSeq(k, 2, 3)[1] = k[2] /\ SubSeq(k, 2, 3)[2] = k[3]
      BY <1>3, <1>7
    <2>2. ToSet(SubSeq(k, 2, 3)) = {k[2], k[3]}
      BY <2>1 DEF ToSet
    <2>. QED  BY <1>4, <1>7, <2>2 DEF All
  <1>. QED  BY <1>1, <1>4, <1>5, <1>6, <1>7 DEF k

AllWords(p, m) == \A i \in 1 .. m : p[i].kind = "word"
Only(p, m, S) == \A i \in 1 .. m : p[i].kind \in S
\* The pieces of each kind of node, m of them: see the parse function of that name.
Fits(kind, p, m) ==
  /\ kind = "program" => Only(p, m, Statements \cup {"func"})
  /\ kind = "block" => Only(p, m, Statements)
  /\ kind = "func" => /\ m > 0 /\ p[m].kind = "block"
                      /\ \A i \in 1 .. m - 1 : p[i].kind \in {"word", "decl"}
  /\ kind = "decl" => /\ m > 0 /\ p[m].kind \in {"word"} \cup Expressions
                      /\ \A i \in 1 .. m - 1 : p[i].kind = "word"
  /\ kind = "if" => /\ m \in 3 .. 4 /\ p[1].kind = "word"
                    /\ p[2].kind \in Expressions /\ p[3].kind = "block"
                    /\ m = 4 => p[4].kind \in {"block", "if"}
  /\ kind \in {"while", "range"} => /\ m = 3 /\ p[1].kind = "word"
                                    /\ p[2].kind \in Expressions /\ p[3].kind = "block"
  /\ kind = "for" => /\ m = 5 /\ p[1].kind = "word"
                     /\ p[2].kind \in Expressions \cup {"decl", "null"}
                     /\ p[3].kind \in Expressions \cup {"null"}
                     /\ p[4].kind \in Expressions \cup {"null"} /\ p[5].kind = "block"
  /\ kind \in {"print", "call"} => Only(p, m, {"word"} \cup Expressions)
  /\ kind = "list" => Only(p, m, Expressions)
  /\ kind = "member" => /\ m > 1 /\ p[2].kind = "word"
                        /\ \A i \in 1 .. m : i # 2 => p[i].kind \in Expressions
  /\ kind \in {"return", "unary"} => /\ m = 2 /\ p[1].kind = "word"
                                     /\ p[2].kind \in Expressions
  /\ kind \in {"binary", "assign", "compound"} =>
       /\ m = 3 /\ p[1].kind \in Expressions
       /\ p[2].kind = "word" /\ p[3].kind \in Expressions
  /\ kind = "ternary" => /\ m = 4 /\ p[1].kind \in Expressions /\ p[2].kind = "word"
                         /\ p[3].kind \in Expressions /\ p[4].kind \in Expressions
  /\ kind = "access" => m = 2 /\ p[1].kind \in Expressions /\ p[2].kind \in Expressions
  /\ kind \in {"read", "break", "continue", "directive", "char", "string"} => AllWords(p, m)

Built == {"program", "block", "func", "decl", "if", "while", "for", "print", "call", "list",
          "member", "return", "unary", "binary", "ternary", "read", "break", "continue",
          "directive", "char", "string"}

LEMMA FittingIsPlaced ==
  ASSUME NEW p, IsSequence(p), NEW kind \in Built, Fits(kind, p, Len(p))
  PROVE  Placed(Make(kind, p))
  <1>. DEFINE n == Make(kind, p)
              c == Children(p)
  <1>0. Len(p) \in Nat  BY PushLength
  <1>1. n.kind = kind /\ n.kids = c  BY DEF Make, Node
  <1>2. /\ IsSequence(c) /\ Len(c) \in Nat
        /\ \A j \in 1 .. Len(c) : \E i \in 1 .. Len(p) : ~ IsWord(p[i]) /\ c[j] = p[i]
        /\ AllWords(p, Len(p)) => Len(c) = 0
        /\ Len(p) > 0 /\ ~ IsWord(p[Len(p)]) =>
             /\ Len(c) > 0 /\ c[Len(c)] = p[Len(p)]
             /\ \A j \in 1 .. Len(c) - 1 :
                  \E i \in 1 .. Len(p) - 1 : ~ IsWord(p[i]) /\ c[j] = p[i]
    BY ChildrenOfWords DEF AllWords, IsWord
  <1>3. \A w \in 1 .. Len(p) :
          IsWord(p[w]) /\ (\A i \in 1 .. Len(p) : i # w => ~ IsWord(p[i])) =>
            /\ Len(c) = Len(p) - 1
            /\ \A i \in 1 .. Len(p) - 1 : c[i] = IF i < w THEN p[i] ELSE p[i + 1]
    BY ChildrenBesideWord
  <1>. SUFFICES Placed(n)  OBVIOUS
  <1>. HIDE DEF n, c
  <1>4. /\ \A i \in 1 .. Len(c) : Kinds(n)[i] = c[i].kind
        /\ \A S : All(Kinds(n), S) <=> \A i \in 1 .. Len(c) : c[i].kind \in S
        /\ Len(c) > 0 => \A S : All(Front(Kinds(n)), S)
                                  <=> \A i \in 1 .. Len(c) - 1 : c[i].kind \in S
        /\ Len(c) = 4 => \A S : All(SubSeq(Kinds(n), 2, 3), S)
                                  <=> c[2].kind \in S /\ c[3].kind \in S
    BY <1>1, <1>2, KindsOfChildren
  <1>5. CASE kind = "program"
    <2>1. All(Kinds(n), Statements \cup {"func"})
      BY <1>2, <1>4, <1>5 DEF Fits, Only
    <2>. QED  BY <1>1, <1>5, <2>1 DEF Placed, Inner, Assignments
  <1>6. CASE kind = "block"
    <2>1. All(Kinds(n), Statements)
      BY <1>2, <1>4, <1>6 DEF Fits, Only
    <2>. QED  BY <1>1, <1>6, <2>1 DEF Placed, Inner, Assignments
  <1>7. CASE kind = "func"
    <2>1. Len(c) > 0 /\ c[Len(c)].kind = "block"
      BY <1>2, <1>7 DEF Fits, IsWord
    <2>2. \A j \in 1 .. Len(c) - 1 : c[j].kind \in {"decl"}
      BY <1>2, <1>7 DEF Fits, IsWord
    <2>3. All(Front(Kinds(n)), {"decl"})  BY <1>4, <2>1, <2>2
    <2>4. Kinds(n)[Len(c)] = "block"
      <3>1. Len(c) \in 1 .. Len(c)  BY <1>2, <2>1
      <3>. QED  BY <1>4, <2>1, <3>1
    <2>. QED  BY <1>1, <1>7, <2>1, <2>3, <2>4 DEF Placed, Inner, Assignments
  <1>8. CASE kind = "decl"
    <2>1. Len(c) <= 1
      <3>1. CASE IsWord(p[Len(p)])
        <4>1. AllWords(p, Len(p))  BY <1>0, <1>8, <3>1 DEF Fits, AllWords, IsWord
        <4>. QED  BY <1>2, <4>1
      <3>2. CASE ~ IsWord(p[Len(p)])
        <4>1. Len(c) > 1 => \E i \in 1 .. Len(p) - 1 : ~ IsWord(p[i]) /\ c[1] = p[i]
          BY <1>2, <1>8, <3>2 DEF Fits
        <4>. QED  BY <1>2, <1>8, <4>1 DEF Fits, IsWord
      <3>. QED  BY <3>1, <3>2
    <2>2. \A j \in 1 .. Len(c) : c[j].kind \in Expressions
      <3>. TAKE j \in 1 .. Len(c)
      <3>1. PICK i \in 1 .. Len(p) : ~ IsWord(p[i]) /\ c[j] = p[i]  BY <1>2
      <3>2. i = Len(p)  BY <1>0, <1>8, <3>1 DEF Fits, IsWord
      <3>. QED  BY <1>8, <3>1, <3>2 DEF Fits, IsWord
    <2>3. All(Kinds(n), Expressions)  BY <1>4, <2>2
    <2>. QED  BY <1>1, <1>8, <2>1, <2>3 DEF Placed, Inner, Assignments
  <1>9. CASE kind \in {"if", "while", "for", "return", "unary"}
    <2>0. 1 \in 1 .. Len(p) /\ IsWord(p[1]) /\ (\A i \in 1 .. Len(p) : i # 1 => ~ IsWord(p[i]))
      BY <1>0, <1>9, KindFacts DEF Fits, IsWord
    <2>1. Len(c) = Len(p) - 1 /\ \A i \in 1 .. Len(p) - 1 : c[i] = p[i + 1]
      BY <1>0, <1>3, <2>0
    <2>2. CASE kind = "if"
      <3>1. /\ Len(c) \in 2 .. 3 /\ c[1].kind \in Expressions /\ c[2].kind = "block"
            /\ Len(c) = 3 => c[3].kind \in {"block", "if"}
        BY <2>1, <2>2 DEF Fits
      <3>. QED  BY <1>1, <1>4, <2>2, <3>1 DEF Placed, Inner, Assignments
    <2>3. CASE kind = "while"
      <3>1. Len(c) = 2 /\ c[1].kind \in Expressions /\ c[2].kind = "block"
        BY <2>1, <2>3 DEF Fits
      <3>. QED  BY <1>1, <1>4, <2>3, <3>1 DEF Placed, Inner, Assignments
    <2>4. CASE kind = "for"
      <3>1. /\ Len(c) = 4 /\ c[1].kind \in Expressions \cup {"decl", "null"}
            /\ c[2].kind \in Expressions \cup {"null"}
            /\ c[3].kind \in Expressions \cup {"null"} /\ c[4].kind = "block"
        BY <2>1, <2>4 DEF Fits
      <3>. QED  BY <1>1, <1>4, <2>4, <3>1 DEF Placed, Inner, Assignments
    <2>5. CASE kind \in {"return", "unary"}
      <3>1. Len(c) = 1 /\ c[1].kind \in Expressions
        BY <2>1, <2>5 DEF Fits
      <3>2. All(Kinds(n), Expressions)  BY <1>4, <3>1
      <3>. QED  BY <1>1, <2>5, <3>1, <3>2 DEF Placed, Inner, Assignments
    <2>. QED  BY <1>9, <2>2, <2>3, <2>4, <2>5
  <1>10. CASE kind \in {"member", "binary", "ternary"}
    <2>0. /\ 2 \in 1 .. Len(p) /\ IsWord(p[2])
          /\ \A i \in 1 .. Len(p) : i # 2 => p[i].kind \in Expressions
      BY <1>0, <1>10 DEF Fits, IsWord
    <2>1. /\ Len(c) = Len(p) - 1
          /\ \A i \in 1 .. Len(p) - 1 : c[i] = IF i < 2 THEN p[i] ELSE p[i + 1]
      BY <1>0, <1>3, <2>0, KindFacts DEF IsWord
    <2>2. \A i \in 1 .. Len(c) : c[i].kind \in Expressions
      BY <1>0, <2>0, <2>1
    <2>3. All(Kinds(n), Expressions)  BY <1>4, <2>2
    <2>4. /\ kind = "member" => Len(c) >= 1
          /\ kind = "binary" => Len(c) = 2
          /\ kind = "ternary" => Len(c) = 3
      BY <1>0, <2>1, <1>10 DEF Fits
    <2>. QED  BY <1>1, <1>10, <2>3, <2>4 DEF Placed, Inner, Assignments
  <1>11. CASE kind \in {"print", "call", "list"}
    <2>1. All(Kinds(n), Expressions)
      BY <1>2, <1>4, <1>11 DEF Fits, Only, IsWord
    <2>. QED  BY <1>1, <1>11, <2>1 DEF Placed, Inner, Assignments
  <1>12. CASE kind \in {"read", "break", "continue", "directive", "char", "string"}
    <2>1. Len(c) = 0  BY <1>2, <1>12 DEF Fits
    <2>. QED  BY <1>1, <1>12, <2>1 DEF Placed, Inner, Assignments
  <1>. QED
    BY <1>5, <1>6, <1>7, <1>8, <1>9, <1>10, <1>11, <1>12 DEF Built

LEMMA MakeWalks ==
  ASSUME NEW p, IsSequence(p), \A i \in 1 .. Len(p) : Walks(p[i]),
         NEW kind \in Built, Fits(kind, p, Len(p))
  PROVE  Walks(Make(kind, p)) /\ Make(kind, p).kind = kind
  <1>1. \A j \in 1 .. Len(Children(p)) : Walks(Children(p)[j])  BY ChildrenOfWords
  <1>2. Placed(Make(kind, p))  BY FittingIsPlaced
  <1>. QED  BY <1>1, <1>2, ChildrenOfWords, NodeWalks DEF Make, Node

\* Words, literals, names and the NULL of an empty loop header.
LEMMA LeafWalks ==
  ASSUME NEW kind, kind \notin Inner, NEW words, NEW keeps
  PROVE  Walks(Node(kind, words, keeps, <<>>))
  <1>1. Placed(Node(kind, words, keeps, <<>>))
    BY Tuples DEF Placed, Node, Inner, Assignments
  <1>. QED  BY <1>1, Tuples, NodeWalks

-----------------------------------------------------------------------------
\* The cursor.
CursorInv ==
  /\ input \in Inputs
  /\ IsSequence(tokens) /\ Len(tokens) > 0
  /\ current \in 1 .. Len(tokens) + 1
  /\ current = Len(tokens) + 1 => Last(tokens) = "eof"

LEMMA PeekTells ==
  ASSUME CursorInv
  PROVE  current > Len(tokens) => Peek = "eof"
  <1>1. Len(tokens) \in Nat  BY PushLength DEF CursorInv
  <1>. QED  BY <1>1 DEF CursorInv, Peek, Last

LEMMA CursorMoves ==
  ASSUME CursorInv, Advance, UNCHANGED input
  PROVE  CursorInv' /\ current' >= current /\ (Peek # "eof" => current' = current + 1)
  <1>. /\ IsSequence(tokens) /\ Len(tokens) \in Nat /\ Len(tokens) > 0
       /\ current \in 1 .. Len(tokens) + 1
       /\ current = Len(tokens) + 1 => Last(tokens) = "eof"
    BY PushLength DEF CursorInv
  <1>0. current' = IF current > Len(tokens) THEN current ELSE current + 1
    BY DEF Advance
  <1>1. current' >= current /\ (Peek # "eof" => current' = current + 1)
    BY <1>0, PeekTells
  <1>2. CASE UNCHANGED tokens /\ (current < Len(tokens) \/ Last(tokens) = "eof")
    <2>1. /\ current' \in 1 .. Len(tokens) + 1
          /\ current' = Len(tokens) + 1 => Last(tokens) = "eof"
      BY <1>0, <1>2
    <2>2. tokens' = tokens /\ input' \in Inputs
      BY <1>2 DEF CursorInv
    <2>3. CursorInv'
      BY <2>1, <2>2 DEF CursorInv, Last
    <2>. QED  BY <1>1, <2>3
  <1>3. CASE ~ (current < Len(tokens) \/ Last(tokens) = "eof")
    <2>1. PICK t \in {"eof"} \cup input.kinds : tokens' = Append(tokens, t)
      BY <1>3 DEF Advance, Reveal
    <2>3. IsSequence(tokens') /\ Len(tokens') = Len(tokens) + 1
      BY <2>1, PushLength
    <2>4. current = Len(tokens) /\ current' = Len(tokens')
      BY <1>0, <1>3, <2>3
    <2>. QED  BY <1>1, <2>3, <2>4 DEF CursorInv
  <1>. QED  BY <1>2, <1>3 DEF Advance, Reveal
-----------------------------------------------------------------------------
\* What the functions see of the parser: how many pieces there are, their
\* kinds, how far the cursor is ahead of the counter, and the next token.
now == [len |-> Len(done), kind |-> [i \in 1 .. Len(done) |-> done[i].kind],
        room |-> current - rng_counter, next |-> Peek]
State(s) == s.len \in Nat /\ s.room \in Int

\* The counter steps when the node of a range is built, a token after ( was taken.
Slack(x) ==
  IF x.do \in {"for_init", "range?"} \/ (x.do = "build" /\ x.arg = "range") THEN 1 ELSE 0

\* From s to t the pieces up to n stayed, those above are of kinds K.
Adds(n, K, s, t) ==
  /\ n <= t.len
  /\ \A i \in 1 .. n : t.kind[i] = s.kind[i]
  /\ \A i \in n + 1 .. t.len : t.kind[i] \in K

Closers == {"assignment", "question", "operators", "postfix", "quoted", "for_init", "range?",
            "build"}
Giving(kind) == CASE kind = "range" -> {"for"} [] kind = "assign" -> Assignments
                  [] kind = "compound" -> {"assign"} [] OTHER -> {kind}

\* What the function of item x does to the pieces when it returns.
Does(x, s, t) ==
  /\ t.room + Slack(x) >= s.room
  /\ x.do \in {"consume", "end"} => Adds(s.len, {}, s, t)
  /\ x.do \in {"name", "element_type"} => Adds(s.len, {"word"}, s, t) /\ t.len = s.len + 1
  /\ x.do \in {"type", "return_type", "directive"} =>
       Adds(s.len, {"word"}, s, t) /\ t.len > s.len
  /\ x.do = "directive_value" => Adds(s.len, {"word"}, s, t)
  /\ x.do = "initializer" => Adds(s.len, Expressions, s, t) /\ t.len <= s.len + 1
  /\ x.do \in {"expr", "ternary", "operand", "call", "unary", "primary"} =>
       Adds(s.len, Expressions, s, t) /\ t.len = s.len + 1
  /\ x.do = "method" => Adds(s.len, Expressions, s, t)
  /\ x.do \in {"list", "more"} =>
       Adds(s.len, IF x.arg = "param" THEN {"decl"} ELSE Expressions, s, t)
  /\ x.do = "optional" => Adds(s.len, Expressions \cup {"null"}, s, t) /\ t.len = s.len + 1
  /\ x.do = "stmt" => Adds(s.len, Statements, s, t) /\ t.len = s.len + 1
  /\ x.do = "stmts" => Adds(s.len, Statements, s, t)
  /\ x.do = "block" => Adds(s.len, {"block"}, s, t) /\ t.len = s.len + 1
  /\ x.do = "else" => Adds(s.len, {"block", "if"}, s, t) /\ t.len <= s.len + 1
  /\ x.do = "branch" => Adds(s.len, {"block", "if"}, s, t) /\ t.len = s.len + 1
  /\ x.do = "program" => Adds(s.len, Statements \cup {"func"}, s, t) /\ t.next = "eof"
  /\ x.do \in {"assignment", "question", "operators", "postfix", "quoted"} =>
       Adds(x.base, Expressions, s, t) /\ t.len = x.base + 1
  /\ x.do \in {"for_init", "range?"} => Adds(x.base, {"for"}, s, t) /\ t.len = x.base + 1
  /\ x.do = "build" =>
       Adds(x.base, Giving(x.arg), s, t) /\ t.len = x.base + 1 /\ t.next = s.next

Above(s, n) == [i \in 1 .. s.len - n |-> [kind |-> s.kind[n + i]]]

\* What the function of item x finds when it is called.
Ready(x, s) ==
  /\ s.room >= 1 + Slack(x)
  /\ x.do \in Closers => x.base \in Nat /\ x.base <= s.len
  /\ x.do \in {"assignment", "question", "operators", "postfix"} =>
       s.len = x.base + 1 /\ s.kind[x.base + 1] \in Expressions
  /\ x.do = "quoted" => \A i \in x.base + 1 .. s.len : s.kind[i] = "word"
  /\ x.do = "for_init" => s.len = x.base + 1 /\ s.kind[x.base + 1] = "word"
  /\ x.do = "range?" => /\ s.len = x.base + 2 /\ s.kind[x.base + 1] = "word"
                        /\ s.kind[x.base + 2] \in Expressions
  /\ x.do = "build" => /\ x.arg \in Built \cup {"range", "access", "assign", "compound"}
                       /\ Fits(x.arg, Above(s, x.base), s.len - x.base)

\* The whole input has become one tree.
Whole(s) == s.len = 1 /\ s.kind[1] = "program" /\ s.next = "eof" /\ s.room >= 1

-----------------------------------------------------------------------------
\* The items q are carried out one after the other from s on: whatever states
\* P they lead through, each is ready when its turn comes.
Goes(x, s, t) == State(t) /\ Does(x, s, t)
Safe(q, s) ==
  \A P : P[1] = s =>
    /\ \A k \in 1 .. Len(q) : (\A i \in 1 .. k - 1 : Goes(q[i], P[i], P[i + 1])) => Ready(q[k], P[k])
    /\ (\A i \in 1 .. Len(q) : Goes(q[i], P[i], P[i + 1])) => Whole(P[Len(q) + 1])

LEMMA ConsIs ==
  ASSUME NEW x, NEW q, IsSequence(q)
  PROVE  /\ IsSequence(Cons(x, q)) /\ Len(Cons(x, q)) = Len(q) + 1 /\ Len(q) \in Nat
         /\ Cons(x, q)[1] = x
         /\ \A i \in 1 .. Len(q) : Cons(x, q)[i + 1] = q[i]
  BY ConcatLength, Tuples DEF Cons

LEMMA SafeNil == \A s : Safe(<<>>, s) <=> Whole(s)
  <1>1. ASSUME NEW s, Safe(<<>>, s) PROVE Whole(s)
    <2>. DEFINE P == <<s>>
    <2>1. P[1] = s  OBVIOUS
    <2>. HIDE DEF P
    <2>2. Whole(P[Len(<<>>) + 1])
      <3>1. \A i \in 1 .. Len(<<>>) : Goes(<<>>[i], P[i], P[i + 1])  BY Tuples
      <3>. QED  BY <1>1, <2>1, <3>1 DEF Safe
    <2>. QED  BY <2>1, <2>2, Tuples
  <1>2. ASSUME NEW s, Whole(s) PROVE Safe(<<>>, s)
    BY <1>2, Tuples DEF Safe
  <1>. QED  BY <1>1, <1>2

LEMMA SafeCons ==
  ASSUME NEW x, NEW q, IsSequence(q), NEW s
  PROVE  Safe(Cons(x, q), s) <=> Ready(x, s) /\ \A t : Goes(x, s, t) => Safe(q, t)
  <1>. DEFINE c == Cons(x, q)
  <1>0. /\ Len(c) = Len(q) + 1 /\ Len(q) \in Nat /\ c[1] = x
        /\ \A i \in 1 .. Len(q) : c[i + 1] = q[i]
    BY ConsIs
  <1>. HIDE DEF c
  <1>1. ASSUME Safe(c, s) PROVE Ready(x, s)
    <2>. DEFINE P == <<s>>
    <2>1. P[1] = s  OBVIOUS
    <2>. HIDE DEF P
    <2>2. 1 \in 1 .. Len(c) /\ \A i \in 1 .. 1 - 1 : Goes(c[i], P[i], P[i + 1])  BY <1>0
    <2>. QED  BY <1>0, <1>1, <2>1, <2>2 DEF Safe
  <1>2. ASSUME Safe(c, s), NEW t, Goes(x, s, t) PROVE Safe(q, t)
    <2>. SUFFICES ASSUME NEW P, P[1] = t
                  PROVE  /\ \A k \in 1 .. Len(q) :
                              (\A i \in 1 .. k - 1 : Goes(q[i], P[i], P[i + 1])) => Ready(q[k], P[k])
                         /\ (\A i \in 1 .. Len(q) : Goes(q[i], P[i], P[i + 1]))
                              => Whole(P[Len(q) + 1])
      BY DEF Safe
    <2>. DEFINE R == [i \in 1 .. Len(q) + 2 |-> IF i = 1 THEN s ELSE P[i - 1]]
    <2>1. R[1] = s /\ \A i \in 1 .. Len(q) + 1 : R[i + 1] = P[i]  BY <1>0
    <2>. HIDE DEF R
    <2>2. /\ \A k \in 1 .. Len(c) : (\A i \in 1 .. k - 1 : Goes(c[i], R[i], R[i + 1])) => Ready(c[k], R[k])
          /\ (\A i \in 1 .. Len(c) : Goes(c[i], R[i], R[i + 1])) => Whole(R[Len(c) + 1])
      BY <1>2, <2>1 DEF Safe
    <2>3. ASSUME NEW n \in 0 .. Len(q), \A i \in 1 .. n : Goes(q[i], P[i], P[i + 1])
          PROVE  \A i \in 1 .. n + 1 : Goes(c[i], R[i], R[i + 1])
      <3>. TAKE i \in 1 .. n + 1
      <3>1. CASE i = 1  BY <1>0, <1>2, <2>1, <3>1
      <3>2. CASE i # 1
        <4>1. i - 1 \in 1 .. n /\ i - 1 \in 1 .. Len(q) /\ (i - 1) + 1 = i
              /\ i \in 1 .. Len(q) + 1
          BY <1>0, <3>2
        <4>2. c[i] = q[i - 1] /\ R[i] = P[i - 1] /\ R[i + 1] = P[i]  BY <1>0, <2>1, <4>1
        <4>3. Goes(q[i - 1], P[i - 1], P[(i - 1) + 1])  BY <2>3, <4>1
        <4>. QED  BY <4>1, <4>2, <4>3
      <3>. QED  BY <3>1, <3>2
    <2>4. ASSUME NEW k \in 1 .. Len(q), \A i \in 1 .. k - 1 : Goes(q[i], P[i], P[i + 1])
          PROVE  Ready(q[k], P[k])
      <3>1. k - 1 \in 0 .. Len(q) /\ (k - 1) + 1 = k /\ (k + 1) - 1 = k /\ k + 1 \in 1 .. Len(c)
            /\ k \in 1 .. Len(q) + 1
        BY <1>0
      <3>2. \A i \in 1 .. (k + 1) - 1 : Goes(c[i], R[i], R[i + 1])  BY <2>3, <2>4, <3>1
      <3>3. Ready(c[k + 1], R[k + 1])  BY <2>2, <3>1, <3>2
      <3>. QED  BY <1>0, <2>1, <3>1, <3>3
    <2>5. ASSUME \A i \in 1 .. Len(q) : Goes(q[i], P[i], P[i + 1])
          PROVE  Whole(P[Len(q) + 1])
      <3>1. \A i \in 1 .. Len(c) : Goes(c[i], R[i], R[i + 1])  BY <1>0, <2>3, <2>5
      <3>. QED  BY <1>0, <2>1, <2>2, <3>1
    <2>. QED  BY <2>4, <2>5
  <1>3. ASSUME Ready(x, s), \A t : Goes(x, s, t) => Safe(q, t)
        PROVE  Safe(c, s)
    <2>. SUFFICES ASSUME NEW P, P[1] = s
                  PROVE  /\ \A k \in 1 .. Len(c) :
                              (\A i \in 1 .. k - 1 : Goes(c[i], P[i], P[i + 1])) => Ready(c[k], P[k])
                         /\ (\A i \in 1 .. Len(c) : Goes(c[i], P[i], P[i + 1]))
                              => Whole(P[Len(c) + 1])
      BY DEF Safe
    <2>. DEFINE R == [i \in 1 .. Len(q) + 1 |-> P[i + 1]]
    <2>1. \A i \in 1 .. Len(q) + 1 : R[i] = P[i + 1]  OBVIOUS
    <2>. HIDE DEF R
    <2>2. ASSUME NEW n \in 1 .. Len(c), \A i \in 1 .. n : Goes(c[i], P[i], P[i + 1])
          PROVE  Safe(q, P[2]) /\ \A i \in 1 .. n - 1 : Goes(q[i], R[i], R[i + 1])
      <3>1. 1 \in 1 .. n  OBVIOUS
      <3>2. Goes(x, s, P[2])  BY <1>0, <2>2, <3>1
      <3>3. ASSUME NEW i \in 1 .. n - 1 PROVE Goes(q[i], R[i], R[i + 1])
        <4>1. i + 1 \in 1 .. n /\ i \in 1 .. Len(q) /\ i \in 1 .. Len(q) + 1 /\ i + 1 \in 1 .. Len(q) + 1
          BY <1>0
        <4>2. Goes(c[i + 1], P[i + 1], P[(i + 1) + 1])  BY <2>2, <4>1
        <4>. QED  BY <1>0, <2>1, <4>1, <4>2
      <3>. QED  BY <1>3, <3>2, <3>3
    <2>3. R[1] = P[2]  BY <1>0, <2>1
    <2>4. ASSUME NEW k \in 1 .. Len(c), \A i \in 1 .. k - 1 : Goes(c[i], P[i], P[i + 1])
          PROVE  Ready(c[k], P[k])
      <3>1. CASE k = 1  BY <1>0, <1>3, <3>1
      <3>2. CASE k # 1
        <4>1. /\ k - 1 \in 1 .. Len(c) /\ k - 1 \in 1 .. Len(q) /\ (k - 1) + 1 = k
              /\ k - 1 \in 1 .. Len(q) + 1
          BY <1>0, <3>2
        <4>2. Safe(q, R[1]) /\ \A i \in 1 .. (k - 1) - 1 : Goes(q[i], R[i], R[i + 1])
          BY <2>2, <2>3, <2>4, <4>1
        <4>3. Ready(q[k - 1], R[k - 1])  BY <4>1, <4>2 DEF Safe
        <4>. QED  BY <1>0, <2>1, <4>1, <4>3
      <3>. QED  BY <3>1, <3>2
    <2>5. ASSUME \A i \in 1 .. Len(c) : Goes(c[i], P[i], P[i + 1])
          PROVE  Whole(P[Len(c) + 1])
      <3>1. Len(c) \in 1 .. Len(c) /\ Len(c) - 1 = Len(q) /\ Len(q) + 1 \in 1 .. Len(q) + 1
        BY <1>0
      <3>2. Safe(q, R[1]) /\ \A i \in 1 .. Len(q) : Goes(q[i], R[i], R[i + 1])
        BY <2>2, <2>3, <2>5, <3>1
      <3>3. Whole(R[Len(q) + 1])  BY <3>2 DEF Safe
      <3>. QED  BY <1>0, <2>1, <3>1, <3>3
    <2>. QED  BY <2>4, <2>5
  <1>. QED  BY <1>1, <1>2, <1>3 DEF c

LEMMA SequencesEqual ==
  ASSUME NEW s, IsSequence(s), NEW t, IsSequence(t), Len(s) = Len(t),
         \A i \in 1 .. Len(s) : s[i] = t[i]
  PROVE  s = t
  <1>1. PICK S : s \in Seq(S)  BY DEF IsSequence
  <1>2. PICK T : t \in Seq(T)  BY DEF IsSequence
  <1>3. /\ s = [i \in 1 .. Len(s) |-> s[i]]
        /\ t = [i \in 1 .. Len(t) |-> t[i]]
    BY <1>1, <1>2
  <1>. QED  BY <1>3

LEMMA ConcatAssociates ==
  ASSUME NEW r, IsSequence(r), NEW s, IsSequence(s), NEW t, IsSequence(t)
  PROVE  (r \o s) \o t = r \o (s \o t)
  <1>0. \A i \in 1 .. Len(t) : (s \o t)[Len(s) + i] = t[i]  BY ConcatLength
  <1>. DEFINE u == (r \o s) \o t  v == r \o (s \o t)
  <1>1. /\ IsSequence(u) /\ Len(u) = Len(r) + Len(s) + Len(t)
        /\ IsSequence(v) /\ Len(v) = Len(r) + Len(s) + Len(t)
        /\ Len(r) \in Nat /\ Len(s) \in Nat /\ Len(t) \in Nat
        /\ IsSequence(r \o s) /\ Len(r \o s) = Len(r) + Len(s)
        /\ IsSequence(s \o t) /\ Len(s \o t) = Len(s) + Len(t)
    BY ConcatLength
  <1>2. \A i \in 1 .. Len(r) : u[i] = v[i]
    BY <1>1, ConcatLength
  <1>3. \A i \in 1 .. Len(s) : u[Len(r) + i] = v[Len(r) + i]
    <2>. TAKE i \in 1 .. Len(s)
    <2>1. Len(r) + i \in 1 .. Len(r \o s)  BY <1>1
    <2>2. u[Len(r) + i] = (r \o s)[Len(r) + i] /\ (r \o s)[Len(r) + i] = s[i]
      BY <1>1, <2>1, ConcatLength
    <2>3. i \in 1 .. Len(s \o t)  BY <1>1
    <2>4. v[Len(r) + i] = (s \o t)[i] /\ (s \o t)[i] = s[i]  BY <1>1, <2>3, ConcatLength
    <2>. QED  BY <2>2, <2>4
  <1>4. \A i \in 1 .. Len(t) : u[Len(r) + Len(s) + i] = v[Len(r) + Len(s) + i]
    <2>. TAKE i \in 1 .. Len(t)
    <2>1. u[Len(r \o s) + i] = t[i]  BY <1>1, ConcatLength
    <2>2. Len(s) + i \in 1 .. Len(s \o t)  BY <1>1
    <2>3. v[Len(r) + (Len(s) + i)] = (s \o t)[Len(s) + i] /\ (s \o t)[Len(s) + i] = t[i]
      <3>1. \A j \in 1 .. Len(s \o t) : v[Len(r) + j] = (s \o t)[j]
        <4>. DEFINE w == s \o t
        <4>1. IsSequence(w)  BY <1>1
        <4>. HIDE DEF w
        <4>2. \A j \in 1 .. Len(w) : (r \o w)[Len(r) + j] = w[j]  BY <4>1, ConcatLength
        <4>. QED  BY <4>2 DEF w
      <3>2. (s \o t)[Len(s) + i] = t[i]  BY <1>0
      <3>. QED  BY <2>2, <3>1, <3>2
    <2>4. Len(r) + (Len(s) + i) = Len(r) + Len(s) + i /\ Len(r \o s) + i = Len(r) + Len(s) + i
      BY <1>1
    <2>. QED  BY <2>1, <2>3, <2>4
  <1>. HIDE DEF u, v
  <1>5. \A i \in 1 .. Len(u) : u[i] = v[i]
    <2>. TAKE i \in 1 .. Len(u)
    <2>1. CASE i \in 1 .. Len(r)  BY <1>2, <2>1
    <2>2. CASE i \in Len(r) + 1 .. Len(r) + Len(s)
      <3>1. i - Len(r) \in 1 .. Len(s) /\ Len(r) + (i - Len(r)) = i  BY <1>1, <2>2
      <3>. QED  BY <1>3, <3>1
    <2>3. CASE i \in Len(r) + Len(s) + 1 .. Len(u)
      <3>1. i - (Len(r) + Len(s)) \in 1 .. Len(t)
            /\ Len(r) + Len(s) + (i - (Len(r) + Len(s))) = i
        BY <1>1, <2>3
      <3>. QED  BY <1>4, <3>1
    <2>. QED  BY <1>1, <2>1, <2>2, <2>3
  <1>6. u = v  BY <1>1, <1>5, SequencesEqual
  <1>. QED  BY <1>6 DEF u, v

LEMMA ConsConcat ==
  ASSUME NEW x, NEW r, IsSequence(r), NEW q, IsSequence(q)
  PROVE  Cons(x, r) \o q = Cons(x, r \o q)
  BY Tuples, ConcatAssociates DEF Cons

LEMMA IsCons ==
  ASSUME NEW a, NEW r, IsSequence(r), NEW u, IsSequence(u), Len(u) = Len(r) + 1, u[1] = a,
         \A i \in 1 .. Len(r) : u[i + 1] = r[i]
  PROVE  u = Cons(a, r)
  <1>0. /\ IsSequence(Cons(a, r)) /\ Len(Cons(a, r)) = Len(r) + 1 /\ Len(r) \in Nat
        /\ Cons(a, r)[1] = a
        /\ \A i \in 1 .. Len(r) : Cons(a, r)[i + 1] = r[i]
    BY ConsIs
  <1>1. ASSUME NEW i \in 1 .. Len(u) PROVE u[i] = Cons(a, r)[i]
    <2>1. CASE i = 1  BY <1>0, <2>1
    <2>2. CASE i # 1
      <3>1. i - 1 \in 1 .. Len(r) /\ (i - 1) + 1 = i  BY <1>0, <2>2
      <3>. QED  BY <1>0, <3>1
    <2>. QED  BY <2>1, <2>2
  <1>. QED  BY <1>0, <1>1, SequencesEqual

\* Tuples, one item at a time.
LEMMA TupleCons ==
  /\ \A a : <<a>> = Cons(a, <<>>)
  /\ \A a, b : <<a, b>> = Cons(a, <<b>>)
  /\ \A a, b, c : <<a, b, c>> = Cons(a, <<b, c>>)
  /\ \A a, b, c, d : <<a, b, c, d>> = Cons(a, <<b, c, d>>)
  /\ \A a, b, c, d, e : <<a, b, c, d, e>> = Cons(a, <<b, c, d, e>>)
  /\ \A a, b, c, d, e, f : <<a, b, c, d, e, f>> = Cons(a, <<b, c, d, e, f>>)
  <1>1. ASSUME NEW a PROVE <<a>> = Cons(a, <<>>)
    <2>. DEFINE u == <<a>>  r == <<>>
    <2>1. /\ u \in Seq({a}) /\ Len(u) = 1 /\ u[1] = a
          /\ r \in Seq({}) /\ Len(r) = 0
      OBVIOUS
    <2>. HIDE DEF u, r
    <2>. SUFFICES u = Cons(a, r)  BY DEF u, r
    <2>2. Len(u) = Len(r) + 1 /\ u[1] = a /\ \A i \in 1 .. Len(r) : u[i + 1] = r[i]  BY <2>1
    <2>3. IsSequence(u) /\ IsSequence(r)  BY <2>1 DEF IsSequence
    <2>. QED  BY <2>1, <2>2, <2>3, IsCons
  <1>2. ASSUME NEW a, NEW b PROVE <<a, b>> = Cons(a, <<b>>)
    <2>. DEFINE u == <<a, b>>  r == <<b>>
    <2>1. /\ u \in Seq({a, b}) /\ Len(u) = 2 /\ u[1] = a /\ u[2] = b
          /\ r \in Seq({b}) /\ Len(r) = 1 /\ r[1] = b
      OBVIOUS
    <2>. HIDE DEF u, r
    <2>. SUFFICES u = Cons(a, r)  BY DEF u, r
    <2>2. Len(u) = Len(r) + 1 /\ u[1] = a /\ \A i \in 1 .. Len(r) : u[i + 1] = r[i]  BY <2>1
    <2>3. IsSequence(u) /\ IsSequence(r)  BY <2>1 DEF IsSequence
    <2>. QED  BY <2>1, <2>2, <2>3, IsCons
  <1>3. ASSUME NEW a, NEW b, NEW c PROVE <<a, b, c>> = Cons(a, <<b, c>>)
    <2>. DEFINE u == <<a, b, c>>  r == <<b, c>>
    <2>1. /\ u \in Seq({a, b, c}) /\ Len(u) = 3 /\ u[1] = a /\ u[2] = b /\ u[3] = c
          /\ r \in Seq({b, c}) /\ Len(r) = 2 /\ r[1] = b /\ r[2] = c
      OBVIOUS
    <2>. HIDE DEF u, r
    <2>. SUFFICES u = Cons(a, r)  BY DEF u, r
    <2>2. Len(u) = Len(r) + 1 /\ u[1] = a /\ \A i \in 1 .. Len(r) : u[i + 1] = r[i]  BY <2>1
    <2>3. IsSequence(u) /\ IsSequence(r)  BY <2>1 DEF IsSequence
    <2>. QED  BY <2>1, <2>2, <2>3, IsCons
  <1>4. ASSUME NEW a, NEW b, NEW c, NEW d PROVE <<a, b, c, d>> = Cons(a, <<b, c, d>>)
    <2>. DEFINE u == <<a, b, c, d>>  r == <<b, c, d>>
    <2>1. /\ u \in Seq({a, b, c, d}) /\ Len(u) = 4
          /\ u[1] = a /\ u[2] = b /\ u[3] = c /\ u[4] = d
          /\ r \in Seq({b, c, d}) /\ Len(r) = 3 /\ r[1] = b /\ r[2] = c /\ r[3] = d
      OBVIOUS
    <2>. HIDE DEF u, r
    <2>. SUFFICES u = Cons(a, r)  BY DEF u, r
    <2>2. Len(u) = Len(r) + 1 /\ u[1] = a /\ \A i \in 1 .. Len(r) : u[i + 1] = r[i]  BY <2>1
    <2>3. IsSequence(u) /\ IsSequence(r)  BY <2>1 DEF IsSequence
    <2>. QED  BY <2>1, <2>2, <2>3, IsCons
  <1>5. ASSUME NEW a, NEW b, NEW c, NEW d, NEW e
        PROVE  <<a, b, c, d, e>> = Cons(a, <<b, c, d, e>>)
    <2>. DEFINE u == <<a, b, c, d, e>>  r == <<b, c, d, e>>
    <2>1. /\ u \in Seq({a, b, c, d, e}) /\ Len(u) = 5
          /\ u[1] = a /\ u[2] = b /\ u[3] = c /\ u[4] = d /\ u[5] = e
          /\ r \in Seq({b, c, d, e}) /\ Len(r) = 4
          /\ r[1] = b /\ r[2] = c /\ r[3] = d /\ r[4] = e
      OBVIOUS
    <2>. HIDE DEF u, r
    <2>. SUFFICES u = Cons(a, r)  BY DEF u, r
    <2>2. Len(u) = Len(r) + 1 /\ u[1] = a /\ \A i \in 1 .. Len(r) : u[i + 1] = r[i]  BY <2>1
    <2>3. IsSequence(u) /\ IsSequence(r)  BY <2>1 DEF IsSequence
    <2>. QED  BY <2>1, <2>2, <2>3, IsCons
  <1>6. ASSUME NEW a, NEW b, NEW c, NEW d, NEW e, NEW f
        PROVE  <<a, b, c, d, e, f>> = Cons(a, <<b, c, d, e, f>>)
    <2>. DEFINE u == <<a, b, c, d, e, f>>  r == <<b, c, d, e, f>>
    <2>1. /\ u \in Seq({a, b, c, d, e, f}) /\ Len(u) = 6
          /\ u[1] = a /\ u[2] = b /\ u[3] = c /\ u[4] = d /\ u[5] = e /\ u[6] = f
          /\ r \in Seq({b, c, d, e, f}) /\ Len(r) = 5
          /\ r[1] = b /\ r[2] = c /\ r[3] = d /\ r[4] = e /\ r[5] = f
      OBVIOUS
    <2>. HIDE DEF u, r
    <2>. SUFFICES u = Cons(a, r)  BY DEF u, r
    <2>2. Len(u) = Len(r) + 1 /\ u[1] = a /\ \A i \in 1 .. Len(r) : u[i + 1] = r[i]  BY <2>1
    <2>3. IsSequence(u) /\ IsSequence(r)  BY <2>1 DEF IsSequence
    <2>. QED  BY <2>1, <2>2, <2>3, IsCons
  <1>. QED  BY <1>1, <1>2, <1>3, <1>4, <1>5, <1>6

\* Items put before others, one at a time.
LEMMA Unrolled ==
  ASSUME NEW q, IsSequence(q)
  PROVE  /\ <<>> \o q = q
         /\ \A a : <<a>> \o q = Cons(a, q) /\ IsSequence(<<a>>)
         /\ \A a, b : <<a, b>> \o q = Cons(a, Cons(b, q)) /\ IsSequence(<<a, b>>)
         /\ \A a, b, c : /\ <<a, b, c>> \o q = Cons(a, Cons(b, Cons(c, q)))
                         /\ IsSequence(<<a, b, c>>)
         /\ \A a, b, c, d : /\ <<a, b, c, d>> \o q = Cons(a, Cons(b, Cons(c, Cons(d, q))))
                            /\ IsSequence(<<a, b, c, d>>)
         /\ \A a, b, c, d, e : /\ <<a, b, c, d, e>> \o q
                                    = Cons(a, Cons(b, Cons(c, Cons(d, Cons(e, q)))))
                               /\ IsSequence(<<a, b, c, d, e>>)
         /\ \A a, b, c, d, e, f : /\ <<a, b, c, d, e, f>> \o q
                                       = Cons(a, Cons(b, Cons(c, Cons(d, Cons(e, Cons(f, q))))))
                                  /\ IsSequence(<<a, b, c, d, e, f>>)
  <1>0. <<>> \o q = q
    <2>1. Len(<<>> \o q) = Len(q) /\ IsSequence(<<>> \o q)
      BY ConcatLength, Tuples
    <2>2. \A i \in 1 .. Len(q) : (<<>> \o q)[i] = q[i]
      <3>1. \A i \in 1 .. Len(q) : (<<>> \o q)[Len(<<>>) + i] = q[i]
        BY ConcatLength, Tuples
      <3>. QED  BY <3>1, Tuples
    <2>. QED  BY <2>1, <2>2, SequencesEqual
  <1>1. \A a : <<a>> \o q = Cons(a, q) /\ IsSequence(<<a>>)
    BY Tuples DEF Cons
  <1>2. \A a, b : <<a, b>> \o q = Cons(a, Cons(b, q)) /\ IsSequence(<<a, b>>)
    <2>. TAKE a, b
    <2>. DEFINE u == <<a, b>>  r == <<b>>
    <2>1. u = Cons(a, r)  BY TupleCons
    <2>2. IsSequence(r)  BY <1>1
    <2>6. r \o q = Cons(b, q)  BY <1>1
    <2>. HIDE DEF u, r
    <2>3. Cons(a, r) \o q = Cons(a, r \o q)  BY <2>2, ConsConcat
    <2>4. IsSequence(Cons(a, r))  BY <2>2, ConsIs
    <2>5. u \o q = Cons(a, r \o q) /\ IsSequence(u)  BY <2>1, <2>3, <2>4, Zenon
    <2>. QED  BY <2>5, <2>6, Zenon DEF u
  <1>3. \A a, b, c : /\ <<a, b, c>> \o q = Cons(a, Cons(b, Cons(c, q)))
                    /\ IsSequence(<<a, b, c>>)
    <2>. TAKE a, b, c
    <2>. DEFINE u == <<a, b, c>>  r == <<b, c>>
    <2>1. u = Cons(a, r)  BY TupleCons
    <2>2. IsSequence(r)  BY <1>2
    <2>6. r \o q = Cons(b, Cons(c, q))  BY <1>2
    <2>. HIDE DEF u, r
    <2>3. Cons(a, r) \o q = Cons(a, r \o q)  BY <2>2, ConsConcat
    <2>4. IsSequence(Cons(a, r))  BY <2>2, ConsIs
    <2>5. u \o q = Cons(a, r \o q) /\ IsSequence(u)  BY <2>1, <2>3, <2>4, Zenon
    <2>. QED  BY <2>5, <2>6, Zenon DEF u
  <1>4. \A a, b, c, d : /\ <<a, b, c, d>> \o q = Cons(a, Cons(b, Cons(c, Cons(d, q))))
                       /\ IsSequence(<<a, b, c, d>>)
    <2>. TAKE a, b, c, d
    <2>. DEFINE u == <<a, b, c, d>>  r == <<b, c, d>>
    <2>1. u = Cons(a, r)  BY TupleCons
    <2>2. IsSequence(r)  BY <1>3
    <2>6. r \o q = Cons(b, Cons(c, Cons(d, q)))  BY <1>3
    <2>. HIDE DEF u, r
    <2>3. Cons(a, r) \o q = Cons(a, r \o q)  BY <2>2, ConsConcat
    <2>4. IsSequence(Cons(a, r))  BY <2>2, ConsIs
    <2>5. u \o q = Cons(a, r \o q) /\ IsSequence(u)  BY <2>1, <2>3, <2>4, Zenon
    <2>. QED  BY <2>5, <2>6, Zenon DEF u
  <1>5. \A a, b, c, d, e : /\ <<a, b, c, d, e>> \o q
                                = Cons(a, Cons(b, Cons(c, Cons(d, Cons(e, q)))))
                          /\ IsSequence(<<a, b, c, d, e>>)
    <2>. TAKE a, b, c, d, e
    <2>. DEFINE u == <<a, b, c, d, e>>  r == <<b, c, d, e>>
    <2>1. u = Cons(a, r)  BY TupleCons
    <2>2. IsSequence(r)  BY <1>4
    <2>6. r \o q = Cons(b, Cons(c, Cons(d, Cons(e, q))))  BY <1>4
    <2>. HIDE DEF u, r
    <2>3. Cons(a, r) \o q = Cons(a, r \o q)  BY <2>2, ConsConcat
    <2>4. IsSequence(Cons(a, r))  BY <2>2, ConsIs
    <2>5. u \o q = Cons(a, r \o q) /\ IsSequence(u)  BY <2>1, <2>3, <2>4, Zenon
    <2>. QED  BY <2>5, <2>6, Zenon DEF u
  <1>6. \A a, b, c, d, e, f : /\ <<a, b, c, d, e, f>> \o q
                                   = Cons(a, Cons(b, Cons(c, Cons(d, Cons(e, Cons(f, q))))))
                             /\ IsSequence(<<a, b, c, d, e, f>>)
    <2>. TAKE a, b, c, d, e, f
    <2>. DEFINE u == <<a, b, c, d, e, f>>  r == <<b, c, d, e, f>>
    <2>1. u = Cons(a, r)  BY TupleCons
    <2>2. IsSequence(r)  BY <1>5
    <2>6. r \o q = Cons(b, Cons(c, Cons(d, Cons(e, Cons(f, q)))))  BY <1>5
    <2>. HIDE DEF u, r
    <2>3. Cons(a, r) \o q = Cons(a, r \o q)  BY <2>2, ConsConcat
    <2>4. IsSequence(Cons(a, r))  BY <2>2, ConsIs
    <2>5. u \o q = Cons(a, r \o q) /\ IsSequence(u)  BY <2>1, <2>3, <2>4, Zenon
    <2>. QED  BY <2>5, <2>6, Zenon DEF u
  <1>. QED  BY <1>0, <1>1, <1>2, <1>3, <1>4, <1>5, <1>6

LEMMA ReadyToBuild ==
  ASSUME NEW s, State(s), NEW b \in Nat, b <= s.len,
         NEW kind \in Built \cup {"range", "access", "assign", "compound"},
         s.room >= 1, kind = "range" => s.room >= 2,
         \A p : (\A i \in 1 .. s.len - b : p[i].kind = s.kind[b + i]) => Fits(kind, p, s.len - b)
  PROVE  Ready(Item("build", kind, b), s)
  <1>. DEFINE x == Item("build", kind, b)
  <1>1. x.do = "build" /\ x.arg = kind /\ x.base = b  BY DEF Item
  <1>. HIDE DEF x
  <1>2. Fits(kind, Above(s, b), s.len - b)
    <2>. DEFINE p == Above(s, b)
    <2>1. \A i \in 1 .. s.len - b : p[i].kind = s.kind[b + i]  BY DEF Above
    <2>. HIDE DEF p
    <2>2. Fits(kind, p, s.len - b)  BY <2>1
    <2>. QED  BY <2>2 DEF p
  <1>3. s.room >= 1 + Slack(x)  BY <1>1 DEF Slack, State
  <1>. HIDE DEF x
  <1>4. Ready(x, s)
    BY <1>1, <1>2, <1>3 DEF Ready, Closers
  <1>. QED  BY <1>4 DEF x

\* Functions that can be called anywhere, as long as the counter is behind.
Plain(x) == x.do \notin Closers

LEMMA PlainGoes ==
  ASSUME NEW x, Plain(x), NEW s, State(s), s.room >= 1
  PROVE  /\ Ready(x, s)
         /\ \A t : Goes(x, s, t) => State(t) /\ t.room >= s.room /\ t.room >= 1
  <1>1. Slack(x) = 0  BY DEF Plain, Closers, Slack
  <1>0. /\ x.do \notin {"assignment", "question", "operators", "postfix"}
        /\ x.do # "quoted" /\ x.do # "for_init" /\ x.do # "range?" /\ x.do # "build"
        /\ x.do \notin Closers
    BY DEF Plain, Closers
  <1>4. s.room >= 1 + Slack(x)  BY <1>1 DEF State
  <1>2. Ready(x, s)  BY <1>0, <1>4 DEF Ready
  <1>3. ASSUME NEW t, Goes(x, s, t) PROVE State(t) /\ t.room >= s.room /\ t.room >= 1
    <2>1. State(t) /\ t.room + Slack(x) >= s.room  BY <1>3 DEF Goes, Does
    <2>. QED  BY <1>1, <2>1 DEF State
  <1>. QED  BY <1>2, <1>3

LEMMA Plain1 ==
  ASSUME NEW r, IsSequence(r), NEW s, State(s), s.room >= 1,
         NEW a, Plain(a),
         \A t1 : Goes(a, s, t1) => Safe(r, t1)
  PROVE  Safe(Cons(a, r), s)
  BY PlainGoes, SafeCons

LEMMA Plain2 ==
  ASSUME NEW r, IsSequence(r), NEW s, State(s), s.room >= 1,
         NEW a, Plain(a), NEW b, Plain(b),
         \A t1, t2 : Goes(a, s, t1) /\ Goes(b, t1, t2) => Safe(r, t2)
  PROVE  Safe(Cons(a, Cons(b, r)), s)
  <1>. DEFINE u == Cons(b, r)
  <1>1. IsSequence(u)  BY ConsIs
  <1>2. ASSUME NEW t1, Goes(a, s, t1) PROVE Safe(u, t1)
    <2>1. State(t1) /\ t1.room >= 1  BY <1>2, PlainGoes
    <2>. QED  BY <1>2, <2>1, Plain1
  <1>. HIDE DEF u
  <1>3. Safe(Cons(a, u), s)  BY <1>1, <1>2, Plain1
  <1>. QED  BY <1>3 DEF u

LEMMA Plain3 ==
  ASSUME NEW r, IsSequence(r), NEW s, State(s), s.room >= 1,
         NEW a, Plain(a), NEW b, Plain(b), NEW c, Plain(c),
         \A t1, t2, t3 : Goes(a, s, t1) /\ Goes(b, t1, t2) /\ Goes(c, t2, t3) => Safe(r, t3)
  PROVE  Safe(Cons(a, Cons(b, Cons(c, r))), s)
  <1>. DEFINE u == Cons(b, Cons(c, r))
  <1>1. IsSequence(u)  BY ConsIs
  <1>2. ASSUME NEW t1, Goes(a, s, t1) PROVE Safe(u, t1)
    <2>1. State(t1) /\ t1.room >= 1  BY <1>2, PlainGoes
    <2>. QED  BY <1>2, <2>1, Plain2
  <1>. HIDE DEF u
  <1>3. Safe(Cons(a, u), s)  BY <1>1, <1>2, Plain1
  <1>. QED  BY <1>3 DEF u

LEMMA Plain4 ==
  ASSUME NEW r, IsSequence(r), NEW s, State(s), s.room >= 1,
         NEW a, Plain(a), NEW b, Plain(b), NEW c, Plain(c), NEW d, Plain(d),
         \A t1, t2, t3, t4 :
           Goes(a, s, t1) /\ Goes(b, t1, t2) /\ Goes(c, t2, t3) /\
           Goes(d, t3, t4)
             => Safe(r, t4)
  PROVE  Safe(Cons(a, Cons(b, Cons(c, Cons(d, r)))), s)
  <1>. DEFINE u == Cons(b, Cons(c, Cons(d, r)))
  <1>1. IsSequence(u)  BY ConsIs
  <1>2. ASSUME NEW t1, Goes(a, s, t1) PROVE Safe(u, t1)
    <2>1. State(t1) /\ t1.room >= 1  BY <1>2, PlainGoes
    <2>. QED  BY <1>2, <2>1, Plain3
  <1>. HIDE DEF u
  <1>3. Safe(Cons(a, u), s)  BY <1>1, <1>2, Plain1
  <1>. QED  BY <1>3 DEF u

LEMMA Plain5 ==
  ASSUME NEW r, IsSequence(r), NEW s, State(s), s.room >= 1,
         NEW a, Plain(a), NEW b, Plain(b), NEW c, Plain(c), NEW d, Plain(d), NEW e, Plain(e),
         \A t1, t2, t3, t4, t5 :
           Goes(a, s, t1) /\ Goes(b, t1, t2) /\ Goes(c, t2, t3) /\
           Goes(d, t3, t4) /\ Goes(e, t4, t5)
             => Safe(r, t5)
  PROVE  Safe(Cons(a, Cons(b, Cons(c, Cons(d, Cons(e, r))))), s)
  <1>. DEFINE u == Cons(b, Cons(c, Cons(d, Cons(e, r))))
  <1>1. IsSequence(u)  BY ConsIs
  <1>2. ASSUME NEW t1, Goes(a, s, t1) PROVE Safe(u, t1)
    <2>1. State(t1) /\ t1.room >= 1  BY <1>2, PlainGoes
    <2>. QED  BY <1>2, <2>1, Plain4
  <1>. HIDE DEF u
  <1>3. Safe(Cons(a, u), s)  BY <1>1, <1>2, Plain1
  <1>. QED  BY <1>3 DEF u

LEMMA Plain6 ==
  ASSUME NEW r, IsSequence(r), NEW s, State(s), s.room >= 1,
         NEW a, Plain(a), NEW b, Plain(b), NEW c, Plain(c), NEW d, Plain(d),
         NEW e, Plain(e), NEW f, Plain(f),
         \A t1, t2, t3, t4, t5, t6 :
           Goes(a, s, t1) /\ Goes(b, t1, t2) /\ Goes(c, t2, t3) /\
           Goes(d, t3, t4) /\ Goes(e, t4, t5) /\ Goes(f, t5, t6)
             => Safe(r, t6)
  PROVE  Safe(Cons(a, Cons(b, Cons(c, Cons(d, Cons(e, Cons(f, r)))))), s)
  <1>. DEFINE u == Cons(b, Cons(c, Cons(d, Cons(e, Cons(f, r)))))
  <1>1. IsSequence(u)  BY ConsIs
  <1>2. ASSUME NEW t1, Goes(a, s, t1) PROVE Safe(u, t1)
    <2>1. State(t1) /\ t1.room >= 1  BY <1>2, PlainGoes
    <2>. QED  BY <1>2, <2>1, Plain5
  <1>. HIDE DEF u
  <1>3. Safe(Cons(a, u), s)  BY <1>1, <1>2, Plain1
  <1>. QED  BY <1>3 DEF u

LEMMA Builds ==
  ASSUME NEW q, IsSequence(q), NEW s, State(s), NEW b \in Nat, b <= s.len,
         NEW kind \in Built \cup {"range", "access", "assign", "compound"},
         s.room >= 1, kind = "range" => s.room >= 2,
         \A p : (\A i \in 1 .. s.len - b : p[i].kind = s.kind[b + i]) => Fits(kind, p, s.len - b),
         \A t : /\ State(t) /\ (kind # "range" => t.room >= s.room) /\ t.room + 1 >= s.room
                /\ Adds(b, Giving(kind), s, t) /\ t.len = b + 1 /\ t.next = s.next
                => Safe(q, t)
  PROVE  Safe(Cons(Item("build", kind, b), q), s)
  <1>1. Ready(Item("build", kind, b), s)  BY ReadyToBuild
  <1>2. ASSUME NEW t, Goes(Item("build", kind, b), s, t)
        PROVE  /\ State(t) /\ (kind # "range" => t.room >= s.room) /\ t.room + 1 >= s.room
               /\ Adds(b, Giving(kind), s, t) /\ t.len = b + 1 /\ t.next = s.next
    BY <1>2 DEF Goes, Does, State, Item, Slack
  <1>. QED  BY <1>1, <1>2, SafeCons

\* What q finds when the pieces above b have become one of a kind in K.
Ends(b, K, s, q) ==
  \A t : State(t) /\ t.room >= s.room /\ Adds(b, K, s, t) /\ t.len = b + 1 => Safe(q, t)

\* A declaration.
LEMMA DeclRuns ==
  ASSUME NEW q, IsSequence(q), NEW s, State(s), s.room >= 1,
         Ends(s.len, {"decl"}, s, q),
         NEW b1, NEW b2, NEW b3, NEW b4
  PROVE  Safe(Cons(Item("type", "none", b1), Cons(Item("name", "none", b2),
              Cons(Item("initializer", "none", b3), Cons(Item("end", "none", b4),
              Cons(Item("build", "decl", s.len), q))))), s)
  <1>. DEFINE A == Item("type", "none", b1)  B == Item("name", "none", b2)
              C == Item("initializer", "none", b3)  D == Item("end", "none", b4)
              r == Cons(Item("build", "decl", s.len), q)
  <1>1. ASSUME NEW t1, Goes(A, s, t1), NEW t2, Goes(B, t1, t2),
               NEW t3, Goes(C, t2, t3), NEW t4, Goes(D, t3, t4)
        PROVE  Safe(r, t4)
    <2>1. /\ State(t4) /\ t4.room >= s.room /\ t4.room >= 1
          /\ \A i \in 1 .. s.len : t4.kind[i] = s.kind[i]
          /\ t4.len >= s.len + 2
          /\ \A i \in s.len + 1 .. t4.len - 1 : t4.kind[i] = "word"
          /\ t4.kind[t4.len] \in {"word"} \cup Expressions
      BY <1>1 DEF Goes, Does, State, Adds, Item, Slack
    <2>2. s.len \in Nat /\ s.len <= t4.len  BY <2>1 DEF State
    <2>3. ASSUME NEW p, \A i \in 1 .. t4.len - s.len : p[i].kind = t4.kind[s.len + i]
          PROVE  Fits("decl", p, t4.len - s.len)
      BY <2>1, <2>3 DEF State, Fits, Only, AllWords
    <2>4. ASSUME NEW t, State(t), t.room >= t4.room, Adds(s.len, {"decl"}, t4, t), t.len = s.len + 1
          PROVE  Safe(q, t)
      BY <2>1, <2>4 DEF Ends, Adds, State
    <2>. QED  BY <2>1, <2>2, <2>3, <2>4, Builds DEF Built, Giving
  <1>2. IsSequence(r)  BY ConsIs
  <1>3. Plain(A) /\ Plain(B) /\ Plain(C) /\ Plain(D)  BY DEF Plain, Item, Closers
  <1>. HIDE DEF A, B, C, D, r
  <1>4. Safe(Cons(A, Cons(B, Cons(C, Cons(D, r)))), s)  BY <1>1, <1>2, <1>3, Plain4
  <1>. QED  BY <1>4 DEF A, B, C, D, r

\* A parameter.
LEMMA ParamRuns ==
  ASSUME NEW q, IsSequence(q), NEW s, State(s), s.room >= 1,
         Ends(s.len, {"decl"}, s, q),
         NEW b1, NEW b2
  PROVE  Safe(Cons(Item("type", "none", b1), Cons(Item("name", "none", b2),
              Cons(Item("build", "decl", s.len), q))), s)
  <1>. DEFINE A == Item("type", "none", b1)  B == Item("name", "none", b2)
              r == Cons(Item("build", "decl", s.len), q)
  <1>1. ASSUME NEW t1, Goes(A, s, t1), NEW t2, Goes(B, t1, t2)
        PROVE  Safe(r, t2)
    <2>1. /\ State(t2) /\ t2.room >= s.room /\ t2.room >= 1
          /\ \A i \in 1 .. s.len : t2.kind[i] = s.kind[i]
          /\ t2.len >= s.len + 2
          /\ \A i \in s.len + 1 .. t2.len : t2.kind[i] = "word"
      BY <1>1 DEF Goes, Does, State, Adds, Item, Slack
    <2>2. s.len \in Nat /\ s.len <= t2.len  BY <2>1 DEF State
    <2>3. ASSUME NEW p, \A i \in 1 .. t2.len - s.len : p[i].kind = t2.kind[s.len + i]
          PROVE  Fits("decl", p, t2.len - s.len)
      BY <2>1, <2>3 DEF State, Fits, Only, AllWords
    <2>4. ASSUME NEW t, State(t), t.room >= t2.room, Adds(s.len, {"decl"}, t2, t), t.len = s.len + 1
          PROVE  Safe(q, t)
      BY <2>1, <2>4 DEF Ends, Adds, State
    <2>. QED  BY <2>1, <2>2, <2>3, <2>4, Builds DEF Built, Giving
  <1>2. IsSequence(r)  BY ConsIs
  <1>3. Plain(A) /\ Plain(B)  BY DEF Plain, Item, Closers
  <1>. HIDE DEF A, B, r
  <1>4. Safe(Cons(A, Cons(B, r)), s)  BY <1>1, <1>2, <1>3, Plain2
  <1>. QED  BY <1>4 DEF A, B, r

\* A function, from its name on.
LEMMA FuncRuns ==
  ASSUME NEW q, IsSequence(q), NEW s, State(s), s.room >= 1,
         NEW b \in Nat, s.len = b + 1, s.kind[b + 1] = "word",
         Ends(b, {"func"}, s, q),
         NEW b1, NEW b2, NEW b3, NEW b4, NEW b5, NEW b6, NEW c2, NEW c4
  PROVE  Safe(Cons(Item("name", "none", b1), Cons(Item("consume", c2, b2),
              Cons(Item("list", "param", b3), Cons(Item("consume", c4, b4),
              Cons(Item("return_type", "none", b5), Cons(Item("block", "none", b6),
              Cons(Item("build", "func", b), q))))))), s)
  <1>. DEFINE A == Item("name", "none", b1)  B == Item("consume", c2, b2)
              C == Item("list", "param", b3)  D == Item("consume", c4, b4)
              E == Item("return_type", "none", b5)  F == Item("block", "none", b6)
              r == Cons(Item("build", "func", b), q)
  <1>1. ASSUME NEW t1, Goes(A, s, t1), NEW t2, Goes(B, t1, t2),
               NEW t3, Goes(C, t2, t3), NEW t4, Goes(D, t3, t4),
               NEW t5, Goes(E, t4, t5), NEW t6, Goes(F, t5, t6)
        PROVE  Safe(r, t6)
    <2>1. /\ State(t6) /\ t6.room >= s.room /\ t6.room >= 1
          /\ \A i \in 1 .. b : t6.kind[i] = s.kind[i]
          /\ t6.len >= b + 3
          /\ \A i \in b + 1 .. t6.len - 1 : t6.kind[i] \in {"word", "decl"}
          /\ t6.kind[t6.len] = "block"
      <3>1. /\ State(t3) /\ t3.room >= s.room /\ t3.len >= b + 2
            /\ \A i \in 1 .. b : t3.kind[i] = s.kind[i]
            /\ \A i \in b + 1 .. t3.len : t3.kind[i] \in {"word", "decl"}
        BY <1>1 DEF Goes, Does, State, Adds, Item, Slack
      <3>2. /\ State(t5) /\ t5.room >= s.room /\ t5.len >= b + 2
            /\ \A i \in 1 .. b : t5.kind[i] = s.kind[i]
            /\ \A i \in b + 1 .. t5.len : t5.kind[i] \in {"word", "decl"}
        BY <1>1, <3>1 DEF Goes, Does, State, Adds, Item, Slack
      <3>. QED  BY <1>1, <3>2 DEF Goes, Does, State, Adds, Item, Slack
    <2>2. b \in Nat /\ b <= t6.len  BY <2>1 DEF State
    <2>3. ASSUME NEW p, \A i \in 1 .. t6.len - b : p[i].kind = t6.kind[b + i]
          PROVE  Fits("func", p, t6.len - b)
      BY <2>1, <2>3 DEF State, Fits, Only, AllWords
    <2>4. ASSUME NEW t, State(t), t.room >= t6.room, Adds(b, {"func"}, t6, t), t.len = b + 1
          PROVE  Safe(q, t)
      BY <2>1, <2>4 DEF Ends, Adds, State
    <2>. QED  BY <2>1, <2>2, <2>3, <2>4, Builds DEF Built, Giving
  <1>2. IsSequence(r)  BY ConsIs
  <1>3. Plain(A) /\ Plain(B) /\ Plain(C) /\ Plain(D) /\ Plain(E) /\ Plain(F)  BY DEF Plain, Item, Closers
  <1>. HIDE DEF A, B, C, D, E, F, r
  <1>4. Safe(Cons(A, Cons(B, Cons(C, Cons(D, Cons(E, Cons(F, r)))))), s)  BY <1>1, <1>2, <1>3, Plain6
  <1>. QED  BY <1>4 DEF A, B, C, D, E, F, r

\* A block.
LEMMA BlockRuns ==
  ASSUME NEW q, IsSequence(q), NEW s, State(s), s.room >= 1,
         Ends(s.len, {"block"}, s, q),
         NEW b1, NEW b2, NEW b3, NEW c1, NEW c3
  PROVE  Safe(Cons(Item("consume", c1, b1), Cons(Item("stmts", "none", b2),
              Cons(Item("consume", c3, b3), Cons(Item("build", "block", s.len), q)))), s)
  <1>. DEFINE A == Item("consume", c1, b1)  B == Item("stmts", "none", b2)
              C == Item("consume", c3, b3)  r == Cons(Item("build", "block", s.len), q)
  <1>1. ASSUME NEW t1, Goes(A, s, t1), NEW t2, Goes(B, t1, t2),
               NEW t3, Goes(C, t2, t3)
        PROVE  Safe(r, t3)
    <2>1. /\ State(t3) /\ t3.room >= s.room /\ t3.room >= 1
          /\ \A i \in 1 .. s.len : t3.kind[i] = s.kind[i]
          /\ t3.len >= s.len
          /\ \A i \in s.len + 1 .. t3.len : t3.kind[i] \in Statements
      BY <1>1 DEF Goes, Does, State, Adds, Item, Slack
    <2>2. s.len \in Nat /\ s.len <= t3.len  BY <2>1 DEF State
    <2>3. ASSUME NEW p, \A i \in 1 .. t3.len - s.len : p[i].kind = t3.kind[s.len + i]
          PROVE  Fits("block", p, t3.len - s.len)
      BY <2>1, <2>3 DEF State, Fits, Only, AllWords
    <2>4. ASSUME NEW t, State(t), t.room >= t3.room, Adds(s.len, {"block"}, t3, t), t.len = s.len + 1
          PROVE  Safe(q, t)
      BY <2>1, <2>4 DEF Ends, Adds, State
    <2>. QED  BY <2>1, <2>2, <2>3, <2>4, Builds DEF Built, Giving
  <1>2. IsSequence(r)  BY ConsIs
  <1>3. Plain(A) /\ Plain(B) /\ Plain(C)  BY DEF Plain, Item, Closers
  <1>. HIDE DEF A, B, C, r
  <1>4. Safe(Cons(A, Cons(B, Cons(C, r))), s)  BY <1>1, <1>2, <1>3, Plain3
  <1>. QED  BY <1>4 DEF A, B, C, r

\* The statements, from behind their first word on.
LEMMA PrintRuns ==
  ASSUME NEW q, IsSequence(q), NEW s, State(s), s.room >= 1,
         NEW b \in Nat, s.len = b + 1, s.kind[b + 1] = "word",
         Ends(b, {"print"}, s, q),
         NEW b1, NEW b2, NEW b3, NEW b4, NEW c1, NEW c3
  PROVE  Safe(Cons(Item("consume", c1, b1), Cons(Item("list", "expr", b2),
              Cons(Item("consume", c3, b3), Cons(Item("end", "none", b4),
              Cons(Item("build", "print", b), q))))), s)
  <1>. DEFINE A == Item("consume", c1, b1)  B == Item("list", "expr", b2)
              C == Item("consume", c3, b3)  D == Item("end", "none", b4)
              r == Cons(Item("build", "print", b), q)
  <1>1. ASSUME NEW t1, Goes(A, s, t1), NEW t2, Goes(B, t1, t2),
               NEW t3, Goes(C, t2, t3), NEW t4, Goes(D, t3, t4)
        PROVE  Safe(r, t4)
    <2>1. /\ State(t4) /\ t4.room >= s.room /\ t4.room >= 1
          /\ \A i \in 1 .. b : t4.kind[i] = s.kind[i]
          /\ t4.len >= b + 1
          /\ \A i \in b + 1 .. t4.len : t4.kind[i] \in {"word"} \cup Expressions
      BY <1>1 DEF Goes, Does, State, Adds, Item, Slack
    <2>2. b \in Nat /\ b <= t4.len  BY <2>1 DEF State
    <2>3. ASSUME NEW p, \A i \in 1 .. t4.len - b : p[i].kind = t4.kind[b + i]
          PROVE  Fits("print", p, t4.len - b)
      BY <2>1, <2>3 DEF State, Fits, Only, AllWords
    <2>4. ASSUME NEW t, State(t), t.room >= t4.room, Adds(b, {"print"}, t4, t), t.len = b + 1
          PROVE  Safe(q, t)
      BY <2>1, <2>4 DEF Ends, Adds, State
    <2>. QED  BY <2>1, <2>2, <2>3, <2>4, Builds DEF Built, Giving
  <1>2. IsSequence(r)  BY ConsIs
  <1>3. Plain(A) /\ Plain(B) /\ Plain(C) /\ Plain(D)  BY DEF Plain, Item, Closers
  <1>. HIDE DEF A, B, C, D, r
  <1>4. Safe(Cons(A, Cons(B, Cons(C, Cons(D, r)))), s)  BY <1>1, <1>2, <1>3, Plain4
  <1>. QED  BY <1>4 DEF A, B, C, D, r

LEMMA ReadRuns ==
  ASSUME NEW q, IsSequence(q), NEW s, State(s), s.room >= 1,
         NEW b \in Nat, s.len = b + 1, s.kind[b + 1] = "word",
         Ends(b, {"read"}, s, q),
         NEW b1, NEW b2, NEW b3, NEW b4, NEW c1, NEW c3
  PROVE  Safe(Cons(Item("consume", c1, b1), Cons(Item("name", "none", b2),
              Cons(Item("consume", c3, b3), Cons(Item("end", "none", b4),
              Cons(Item("build", "read", b), q))))), s)
  <1>. DEFINE A == Item("consume", c1, b1)  B == Item("name", "none", b2)
              C == Item("consume", c3, b3)  D == Item("end", "none", b4)
              r == Cons(Item("build", "read", b), q)
  <1>1. ASSUME NEW t1, Goes(A, s, t1), NEW t2, Goes(B, t1, t2),
               NEW t3, Goes(C, t2, t3), NEW t4, Goes(D, t3, t4)
        PROVE  Safe(r, t4)
    <2>1. /\ State(t4) /\ t4.room >= s.room /\ t4.room >= 1
          /\ \A i \in 1 .. b : t4.kind[i] = s.kind[i]
          /\ t4.len >= b + 1
          /\ \A i \in b + 1 .. t4.len : t4.kind[i] = "word"
      BY <1>1 DEF Goes, Does, State, Adds, Item, Slack
    <2>2. b \in Nat /\ b <= t4.len  BY <2>1 DEF State
    <2>3. ASSUME NEW p, \A i \in 1 .. t4.len - b : p[i].kind = t4.kind[b + i]
          PROVE  Fits("read", p, t4.len - b)
      BY <2>1, <2>3 DEF State, Fits, Only, AllWords
    <2>4. ASSUME NEW t, State(t), t.room >= t4.room, Adds(b, {"read"}, t4, t), t.len = b + 1
          PROVE  Safe(q, t)
      BY <2>1, <2>4 DEF Ends, Adds, State
    <2>. QED  BY <2>1, <2>2, <2>3, <2>4, Builds DEF Built, Giving
  <1>2. IsSequence(r)  BY ConsIs
  <1>3. Plain(A) /\ Plain(B) /\ Plain(C) /\ Plain(D)  BY DEF Plain, Item, Closers
  <1>. HIDE DEF A, B, C, D, r
  <1>4. Safe(Cons(A, Cons(B, Cons(C, Cons(D, r)))), s)  BY <1>1, <1>2, <1>3, Plain4
  <1>. QED  BY <1>4 DEF A, B, C, D, r

LEMMA IfRuns ==
  ASSUME NEW q, IsSequence(q), NEW s, State(s), s.room >= 1,
         NEW b \in Nat, s.len = b + 1, s.kind[b + 1] = "word",
         Ends(b, {"if"}, s, q),
         NEW b1, NEW b2, NEW b3, NEW b4, NEW b5, NEW c1, NEW c3
  PROVE  Safe(Cons(Item("consume", c1, b1), Cons(Item("expr", "none", b2),
              Cons(Item("consume", c3, b3), Cons(Item("block", "none", b4),
              Cons(Item("else", "none", b5), Cons(Item("build", "if", b), q)))))), s)
  <1>. DEFINE A == Item("consume", c1, b1)  B == Item("expr", "none", b2)
              C == Item("consume", c3, b3)  D == Item("block", "none", b4)
              E == Item("else", "none", b5)  r == Cons(Item("build", "if", b), q)
  <1>1. ASSUME NEW t1, Goes(A, s, t1), NEW t2, Goes(B, t1, t2),
               NEW t3, Goes(C, t2, t3), NEW t4, Goes(D, t3, t4),
               NEW t5, Goes(E, t4, t5)
        PROVE  Safe(r, t5)
    <2>1. /\ State(t5) /\ t5.room >= s.room /\ t5.room >= 1
          /\ \A i \in 1 .. b : t5.kind[i] = s.kind[i]
          /\ t5.len \in b + 3 .. b + 4
          /\ t5.kind[b + 1] = "word" /\ t5.kind[b + 2] \in Expressions
          /\ t5.kind[b + 3] = "block"
          /\ t5.len = b + 4 => t5.kind[b + 4] \in {"block", "if"}
      BY <1>1 DEF Goes, Does, State, Adds, Item, Slack
    <2>2. b \in Nat /\ b <= t5.len  BY <2>1 DEF State
    <2>3. ASSUME NEW p, \A i \in 1 .. t5.len - b : p[i].kind = t5.kind[b + i]
          PROVE  Fits("if", p, t5.len - b)
      BY <2>1, <2>3 DEF State, Fits, Only, AllWords
    <2>4. ASSUME NEW t, State(t), t.room >= t5.room, Adds(b, {"if"}, t5, t), t.len = b + 1
          PROVE  Safe(q, t)
      BY <2>1, <2>4 DEF Ends, Adds, State
    <2>. QED  BY <2>1, <2>2, <2>3, <2>4, Builds DEF Built, Giving
  <1>2. IsSequence(r)  BY ConsIs
  <1>3. Plain(A) /\ Plain(B) /\ Plain(C) /\ Plain(D) /\ Plain(E)  BY DEF Plain, Item, Closers
  <1>. HIDE DEF A, B, C, D, E, r
  <1>4. Safe(Cons(A, Cons(B, Cons(C, Cons(D, Cons(E, r))))), s)  BY <1>1, <1>2, <1>3, Plain5
  <1>. QED  BY <1>4 DEF A, B, C, D, E, r

LEMMA WhileRuns ==
  ASSUME NEW q, IsSequence(q), NEW s, State(s), s.room >= 1,
         NEW b \in Nat, s.len = b + 1, s.kind[b + 1] = "word",
         Ends(b, {"while"}, s, q),
         NEW b1, NEW b2, NEW b3, NEW b4, NEW c1, NEW c3
  PROVE  Safe(Cons(Item("consume", c1, b1), Cons(Item("expr", "none", b2),
              Cons(Item("consume", c3, b3), Cons(Item("block", "none", b4),
              Cons(Item("build", "while", b), q))))), s)
  <1>. DEFINE A == Item("consume", c1, b1)  B == Item("expr", "none", b2)
              C == Item("consume", c3, b3)  D == Item("block", "none", b4)
              r == Cons(Item("build", "while", b), q)
  <1>1. ASSUME NEW t1, Goes(A, s, t1), NEW t2, Goes(B, t1, t2),
               NEW t3, Goes(C, t2, t3), NEW t4, Goes(D, t3, t4)
        PROVE  Safe(r, t4)
    <2>1. /\ State(t4) /\ t4.room >= s.room /\ t4.room >= 1
          /\ \A i \in 1 .. b : t4.kind[i] = s.kind[i]
          /\ t4.len = b + 3
          /\ t4.kind[b + 1] = "word" /\ t4.kind[b + 2] \in Expressions
          /\ t4.kind[b + 3] = "block"
      BY <1>1 DEF Goes, Does, State, Adds, Item, Slack
    <2>2. b \in Nat /\ b <= t4.len  BY <2>1 DEF State
    <2>3. ASSUME NEW p, \A i \in 1 .. t4.len - b : p[i].kind = t4.kind[b + i]
          PROVE  Fits("while", p, t4.len - b)
      BY <2>1, <2>3 DEF State, Fits, Only, AllWords
    <2>4. ASSUME NEW t, State(t), t.room >= t4.room, Adds(b, {"while"}, t4, t), t.len = b + 1
          PROVE  Safe(q, t)
      BY <2>1, <2>4 DEF Ends, Adds, State
    <2>. QED  BY <2>1, <2>2, <2>3, <2>4, Builds DEF Built, Giving
  <1>2. IsSequence(r)  BY ConsIs
  <1>3. Plain(A) /\ Plain(B) /\ Plain(C) /\ Plain(D)  BY DEF Plain, Item, Closers
  <1>. HIDE DEF A, B, C, D, r
  <1>4. Safe(Cons(A, Cons(B, Cons(C, Cons(D, r)))), s)  BY <1>1, <1>2, <1>3, Plain4
  <1>. QED  BY <1>4 DEF A, B, C, D, r

LEMMA ReturnRuns ==
  ASSUME NEW q, IsSequence(q), NEW s, State(s), s.room >= 1,
         NEW b \in Nat, s.len = b + 1, s.kind[b + 1] = "word",
         Ends(b, {"return"}, s, q),
         NEW b1, NEW b2
  PROVE  Safe(Cons(Item("expr", "none", b1), Cons(Item("end", "none", b2),
              Cons(Item("build", "return", b), q))), s)
  <1>. DEFINE A == Item("expr", "none", b1)  B == Item("end", "none", b2)
              r == Cons(Item("build", "return", b), q)
  <1>1. ASSUME NEW t1, Goes(A, s, t1), NEW t2, Goes(B, t1, t2)
        PROVE  Safe(r, t2)
    <2>1. /\ State(t2) /\ t2.room >= s.room /\ t2.room >= 1
          /\ \A i \in 1 .. b : t2.kind[i] = s.kind[i]
          /\ t2.len = b + 2
          /\ t2.kind[b + 1] = "word" /\ t2.kind[b + 2] \in Expressions
      BY <1>1 DEF Goes, Does, State, Adds, Item, Slack
    <2>2. b \in Nat /\ b <= t2.len  BY <2>1 DEF State
    <2>3. ASSUME NEW p, \A i \in 1 .. t2.len - b : p[i].kind = t2.kind[b + i]
          PROVE  Fits("return", p, t2.len - b)
      BY <2>1, <2>3 DEF State, Fits, Only, AllWords
    <2>4. ASSUME NEW t, State(t), t.room >= t2.room, Adds(b, {"return"}, t2, t), t.len = b + 1
          PROVE  Safe(q, t)
      BY <2>1, <2>4 DEF Ends, Adds, State
    <2>. QED  BY <2>1, <2>2, <2>3, <2>4, Builds DEF Built, Giving
  <1>2. IsSequence(r)  BY ConsIs
  <1>3. Plain(A) /\ Plain(B)  BY DEF Plain, Item, Closers
  <1>. HIDE DEF A, B, r
  <1>4. Safe(Cons(A, Cons(B, r)), s)  BY <1>1, <1>2, <1>3, Plain2
  <1>. QED  BY <1>4 DEF A, B, r

LEMMA JumpRuns ==
  ASSUME NEW q, IsSequence(q), NEW s, State(s), s.room >= 1,
         NEW b \in Nat, s.len = b + 1, s.kind[b + 1] = "word",
         NEW kind \in {"break", "continue"},
         Ends(b, {kind}, s, q),
         NEW b1
  PROVE  Safe(Cons(Item("end", "none", b1), Cons(Item("build", kind, b), q)), s)
  <1>. DEFINE A == Item("end", "none", b1)  r == Cons(Item("build", kind, b), q)
  <1>1. ASSUME NEW t1, Goes(A, s, t1)
        PROVE  Safe(r, t1)
    <2>1. /\ State(t1) /\ t1.room >= s.room /\ t1.room >= 1
          /\ \A i \in 1 .. b : t1.kind[i] = s.kind[i]
          /\ t1.len = b + 1
          /\ t1.kind[b + 1] = "word"
      BY <1>1 DEF Goes, Does, State, Adds, Item, Slack
    <2>2. b \in Nat /\ b <= t1.len  BY <2>1 DEF State
    <2>3. ASSUME NEW p, \A i \in 1 .. t1.len - b : p[i].kind = t1.kind[b + i]
          PROVE  Fits(kind, p, t1.len - b)
      BY <2>1, <2>3 DEF State, Fits, Only, AllWords
    <2>4. ASSUME NEW t, State(t), t.room >= t1.room, Adds(b, {kind}, t1, t), t.len = b + 1
          PROVE  Safe(q, t)
      BY <2>1, <2>4 DEF Ends, Adds, State
    <2>. QED  BY <2>1, <2>2, <2>3, <2>4, Builds DEF Built, Giving
  <1>2. IsSequence(r)  BY ConsIs
  <1>3. Plain(A)  BY DEF Plain, Item, Closers
  <1>. HIDE DEF A, r
  <1>4. Safe(Cons(A, r), s)  BY <1>1, <1>2, <1>3, Plain1
  <1>. QED  BY <1>4 DEF A, r

LEMMA DirectiveRuns ==
  ASSUME NEW q, IsSequence(q), NEW s, State(s), s.room >= 1,
         NEW b \in Nat, s.len = b + 1, s.kind[b + 1] = "word",
         Ends(b, {"directive"}, s, q),
         NEW b1
  PROVE  Safe(Cons(Item("directive", "none", b1), Cons(Item("build", "directive", b), q)), s)
  <1>. DEFINE A == Item("directive", "none", b1)
              r == Cons(Item("build", "directive", b), q)
  <1>1. ASSUME NEW t1, Goes(A, s, t1)
        PROVE  Safe(r, t1)
    <2>1. /\ State(t1) /\ t1.room >= s.room /\ t1.room >= 1
          /\ \A i \in 1 .. b : t1.kind[i] = s.kind[i]
          /\ t1.len >= b + 1
          /\ \A i \in b + 1 .. t1.len : t1.kind[i] = "word"
      BY <1>1 DEF Goes, Does, State, Adds, Item, Slack
    <2>2. b \in Nat /\ b <= t1.len  BY <2>1 DEF State
    <2>3. ASSUME NEW p, \A i \in 1 .. t1.len - b : p[i].kind = t1.kind[b + i]
          PROVE  Fits("directive", p, t1.len - b)
      BY <2>1, <2>3 DEF State, Fits, Only, AllWords
    <2>4. ASSUME NEW t, State(t), t.room >= t1.room, Adds(b, {"directive"}, t1, t), t.len = b + 1
          PROVE  Safe(q, t)
      BY <2>1, <2>4 DEF Ends, Adds, State
    <2>. QED  BY <2>1, <2>2, <2>3, <2>4, Builds DEF Built, Giving
  <1>2. IsSequence(r)  BY ConsIs
  <1>3. Plain(A)  BY DEF Plain, Item, Closers
  <1>. HIDE DEF A, r
  <1>4. Safe(Cons(A, r), s)  BY <1>1, <1>2, <1>3, Plain1
  <1>. QED  BY <1>4 DEF A, r

\* The rest of a for loop, behind its first part.
LEMMA ForRuns ==
  ASSUME NEW q, IsSequence(q), NEW s, State(s), s.room >= 1,
         NEW b \in Nat, s.len = b + 2, s.kind[b + 1] = "word",
         s.kind[b + 2] \in Expressions \cup {"decl", "null"},
         Ends(b, {"for"}, s, q),
         NEW b1, NEW b2, NEW b3, NEW b4, NEW b5, NEW c1, NEW c2, NEW c3, NEW c4
  PROVE  Safe(Cons(Item("optional", c1, b1), Cons(Item("consume", c2, b2),
              Cons(Item("optional", c3, b3), Cons(Item("consume", c4, b4),
              Cons(Item("block", "none", b5), Cons(Item("build", "for", b), q)))))), s)
  <1>. DEFINE A == Item("optional", c1, b1)  B == Item("consume", c2, b2)
              C == Item("optional", c3, b3)  D == Item("consume", c4, b4)
              E == Item("block", "none", b5)  r == Cons(Item("build", "for", b), q)
  <1>1. ASSUME NEW t1, Goes(A, s, t1), NEW t2, Goes(B, t1, t2),
               NEW t3, Goes(C, t2, t3), NEW t4, Goes(D, t3, t4),
               NEW t5, Goes(E, t4, t5)
        PROVE  Safe(r, t5)
    <2>1. /\ State(t5) /\ t5.room >= s.room /\ t5.room >= 1
          /\ \A i \in 1 .. b : t5.kind[i] = s.kind[i]
          /\ t5.len = b + 5 /\ t5.kind[b + 1] = "word"
          /\ t5.kind[b + 2] \in Expressions \cup {"decl", "null"}
          /\ t5.kind[b + 3] \in Expressions \cup {"null"}
          /\ t5.kind[b + 4] \in Expressions \cup {"null"} /\ t5.kind[b + 5] = "block"
      BY <1>1 DEF Goes, Does, State, Adds, Item, Slack
    <2>2. b \in Nat /\ b <= t5.len  BY <2>1 DEF State
    <2>3. ASSUME NEW p, \A i \in 1 .. t5.len - b : p[i].kind = t5.kind[b + i]
          PROVE  Fits("for", p, t5.len - b)
      BY <2>1, <2>3 DEF State, Fits, Only, AllWords
    <2>4. ASSUME NEW t, State(t), t.room >= t5.room, Adds(b, {"for"}, t5, t), t.len = b + 1
          PROVE  Safe(q, t)
      BY <2>1, <2>4 DEF Ends, Adds, State
    <2>. QED  BY <2>1, <2>2, <2>3, <2>4, Builds DEF Built, Giving
  <1>2. IsSequence(r)  BY ConsIs
  <1>3. Plain(A) /\ Plain(B) /\ Plain(C) /\ Plain(D) /\ Plain(E)  BY DEF Plain, Item, Closers
  <1>. HIDE DEF A, B, C, D, E, r
  <1>4. Safe(Cons(A, Cons(B, Cons(C, Cons(D, Cons(E, r))))), s)  BY <1>1, <1>2, <1>3, Plain5
  <1>. QED  BY <1>4 DEF A, B, C, D, E, r

\* The operators, from behind their sign on.
LEMMA AssignRuns ==
  ASSUME NEW q, IsSequence(q), NEW s, State(s), s.room >= 1,
         NEW b \in Nat, s.len = b + 2, s.kind[b + 1] \in Expressions, s.kind[b + 2] = "word",
         NEW kind \in {"assign", "compound"},
         Ends(b, Assignments, s, q),
         NEW b1
  PROVE  Safe(Cons(Item("expr", "none", b1), Cons(Item("build", kind, b), q)), s)
  <1>. DEFINE A == Item("expr", "none", b1)  r == Cons(Item("build", kind, b), q)
  <1>1. ASSUME NEW t1, Goes(A, s, t1)
        PROVE  Safe(r, t1)
    <2>1. /\ State(t1) /\ t1.room >= s.room /\ t1.room >= 1
          /\ \A i \in 1 .. b : t1.kind[i] = s.kind[i]
          /\ t1.len = b + 3 /\ t1.kind[b + 1] \in Expressions
          /\ t1.kind[b + 2] = "word" /\ t1.kind[b + 3] \in Expressions
      BY <1>1 DEF Goes, Does, State, Adds, Item, Slack
    <2>2. b \in Nat /\ b <= t1.len  BY <2>1 DEF State
    <2>3. ASSUME NEW p, \A i \in 1 .. t1.len - b : p[i].kind = t1.kind[b + i]
          PROVE  Fits(kind, p, t1.len - b)
      BY <2>1, <2>3 DEF State, Fits, Only, AllWords
    <2>4. ASSUME NEW t, State(t), t.room >= t1.room, Adds(b, Assignments, t1, t), t.len = b + 1
          PROVE  Safe(q, t)
      BY <2>1, <2>4 DEF Ends, Adds, State
    <2>5. Giving(kind) \subseteq Assignments  BY DEF Giving, Assignments
    <2>6. \A t : Adds(b, Giving(kind), t1, t) => Adds(b, Assignments, t1, t)  BY <2>5 DEF Adds
    <2>. QED  BY <2>1, <2>2, <2>3, <2>4, <2>6, Builds DEF Built
  <1>2. IsSequence(r)  BY ConsIs
  <1>3. Plain(A)  BY DEF Plain, Item, Closers
  <1>. HIDE DEF A, r
  <1>4. Safe(Cons(A, r), s)  BY <1>1, <1>2, <1>3, Plain1
  <1>. QED  BY <1>4 DEF A, r

LEMMA TernaryRuns ==
  ASSUME NEW q, IsSequence(q), NEW s, State(s), s.room >= 1,
         NEW b \in Nat, s.len = b + 2, s.kind[b + 1] \in Expressions, s.kind[b + 2] = "word",
         Ends(b, {"ternary"}, s, q),
         NEW b1, NEW b2, NEW b3, NEW c2
  PROVE  Safe(Cons(Item("ternary", "none", b1), Cons(Item("consume", c2, b2),
              Cons(Item("ternary", "none", b3), Cons(Item("build", "ternary", b), q)))), s)
  <1>. DEFINE A == Item("ternary", "none", b1)  B == Item("consume", c2, b2)
              C == Item("ternary", "none", b3)
              r == Cons(Item("build", "ternary", b), q)
  <1>1. ASSUME NEW t1, Goes(A, s, t1), NEW t2, Goes(B, t1, t2),
               NEW t3, Goes(C, t2, t3)
        PROVE  Safe(r, t3)
    <2>1. /\ State(t3) /\ t3.room >= s.room /\ t3.room >= 1
          /\ \A i \in 1 .. b : t3.kind[i] = s.kind[i]
          /\ t3.len = b + 4 /\ t3.kind[b + 1] \in Expressions /\ t3.kind[b + 2] = "word"
          /\ t3.kind[b + 3] \in Expressions /\ t3.kind[b + 4] \in Expressions
      BY <1>1 DEF Goes, Does, State, Adds, Item, Slack
    <2>2. b \in Nat /\ b <= t3.len  BY <2>1 DEF State
    <2>3. ASSUME NEW p, \A i \in 1 .. t3.len - b : p[i].kind = t3.kind[b + i]
          PROVE  Fits("ternary", p, t3.len - b)
      BY <2>1, <2>3 DEF State, Fits, Only, AllWords
    <2>4. ASSUME NEW t, State(t), t.room >= t3.room, Adds(b, {"ternary"}, t3, t), t.len = b + 1
          PROVE  Safe(q, t)
      BY <2>1, <2>4 DEF Ends, Adds, State
    <2>. QED  BY <2>1, <2>2, <2>3, <2>4, Builds DEF Built, Giving
  <1>2. IsSequence(r)  BY ConsIs
  <1>3. Plain(A) /\ Plain(B) /\ Plain(C)  BY DEF Plain, Item, Closers
  <1>. HIDE DEF A, B, C, r
  <1>4. Safe(Cons(A, Cons(B, Cons(C, r))), s)  BY <1>1, <1>2, <1>3, Plain3
  <1>. QED  BY <1>4 DEF A, B, C, r

LEMMA FactorRuns ==
  ASSUME NEW q, IsSequence(q), NEW s, State(s), s.room >= 1,
         NEW b \in Nat, s.len = b + 2, s.kind[b + 1] \in Expressions, s.kind[b + 2] = "word",
         Ends(b, {"binary"}, s, q),
         NEW b1, NEW a
  PROVE  Safe(Cons(Item("call", a, b1), Cons(Item("build", "binary", b), q)), s)
  <1>. DEFINE A == Item("call", a, b1)  r == Cons(Item("build", "binary", b), q)
  <1>1. ASSUME NEW t1, Goes(A, s, t1)
        PROVE  Safe(r, t1)
    <2>1. /\ State(t1) /\ t1.room >= s.room /\ t1.room >= 1
          /\ \A i \in 1 .. b : t1.kind[i] = s.kind[i]
          /\ t1.len = b + 3 /\ t1.kind[b + 1] \in Expressions
          /\ t1.kind[b + 2] = "word" /\ t1.kind[b + 3] \in Expressions
      BY <1>1 DEF Goes, Does, State, Adds, Item, Slack
    <2>2. b \in Nat /\ b <= t1.len  BY <2>1 DEF State
    <2>3. ASSUME NEW p, \A i \in 1 .. t1.len - b : p[i].kind = t1.kind[b + i]
          PROVE  Fits("binary", p, t1.len - b)
      BY <2>1, <2>3 DEF State, Fits, Only, AllWords
    <2>4. ASSUME NEW t, State(t), t.room >= t1.room, Adds(b, {"binary"}, t1, t), t.len = b + 1
          PROVE  Safe(q, t)
      BY <2>1, <2>4 DEF Ends, Adds, State
    <2>. QED  BY <2>1, <2>2, <2>3, <2>4, Builds DEF Built, Giving
  <1>2. IsSequence(r)  BY ConsIs
  <1>3. Plain(A)  BY DEF Plain, Item, Closers
  <1>. HIDE DEF A, r
  <1>4. Safe(Cons(A, r), s)  BY <1>1, <1>2, <1>3, Plain1
  <1>. QED  BY <1>4 DEF A, r

LEMMA TermRuns ==
  ASSUME NEW q, IsSequence(q), NEW s, State(s), s.room >= 1,
         NEW b \in Nat, s.len = b + 2, s.kind[b + 1] \in Expressions, s.kind[b + 2] = "word",
         Ends(b, {"binary"}, s, q),
         NEW b1, NEW a
  PROVE  Safe(Cons(Item("operand", a, b1), Cons(Item("build", "binary", b), q)), s)
  <1>. DEFINE A == Item("operand", a, b1)  r == Cons(Item("build", "binary", b), q)
  <1>1. ASSUME NEW t1, Goes(A, s, t1)
        PROVE  Safe(r, t1)
    <2>1. /\ State(t1) /\ t1.room >= s.room /\ t1.room >= 1
          /\ \A i \in 1 .. b : t1.kind[i] = s.kind[i]
          /\ t1.len = b + 3 /\ t1.kind[b + 1] \in Expressions
          /\ t1.kind[b + 2] = "word" /\ t1.kind[b + 3] \in Expressions
      BY <1>1 DEF Goes, Does, State, Adds, Item, Slack
    <2>2. b \in Nat /\ b <= t1.len  BY <2>1 DEF State
    <2>3. ASSUME NEW p, \A i \in 1 .. t1.len - b : p[i].kind = t1.kind[b + i]
          PROVE  Fits("binary", p, t1.len - b)
      BY <2>1, <2>3 DEF State, Fits, Only, AllWords
    <2>4. ASSUME NEW t, State(t), t.room >= t1.room, Adds(b, {"binary"}, t1, t), t.len = b + 1
          PROVE  Safe(q, t)
      BY <2>1, <2>4 DEF Ends, Adds, State
    <2>. QED  BY <2>1, <2>2, <2>3, <2>4, Builds DEF Built, Giving
  <1>2. IsSequence(r)  BY ConsIs
  <1>3. Plain(A)  BY DEF Plain, Item, Closers
  <1>. HIDE DEF A, r
  <1>4. Safe(Cons(A, r), s)  BY <1>1, <1>2, <1>3, Plain1
  <1>. QED  BY <1>4 DEF A, r

LEMMA UnaryRuns ==
  ASSUME NEW q, IsSequence(q), NEW s, State(s), s.room >= 1,
         NEW b \in Nat, s.len = b + 1, s.kind[b + 1] = "word",
         Ends(b, {"unary"}, s, q),
         NEW b1
  PROVE  Safe(Cons(Item("unary", "none", b1), Cons(Item("build", "unary", b), q)), s)
  <1>. DEFINE A == Item("unary", "none", b1)  r == Cons(Item("build", "unary", b), q)
  <1>1. ASSUME NEW t1, Goes(A, s, t1)
        PROVE  Safe(r, t1)
    <2>1. /\ State(t1) /\ t1.room >= s.room /\ t1.room >= 1
          /\ \A i \in 1 .. b : t1.kind[i] = s.kind[i]
          /\ t1.len = b + 2
          /\ t1.kind[b + 1] = "word" /\ t1.kind[b + 2] \in Expressions
      BY <1>1 DEF Goes, Does, State, Adds, Item, Slack
    <2>2. b \in Nat /\ b <= t1.len  BY <2>1 DEF State
    <2>3. ASSUME NEW p, \A i \in 1 .. t1.len - b : p[i].kind = t1.kind[b + i]
          PROVE  Fits("unary", p, t1.len - b)
      BY <2>1, <2>3 DEF State, Fits, Only, AllWords
    <2>4. ASSUME NEW t, State(t), t.room >= t1.room, Adds(b, {"unary"}, t1, t), t.len = b + 1
          PROVE  Safe(q, t)
      BY <2>1, <2>4 DEF Ends, Adds, State
    <2>. QED  BY <2>1, <2>2, <2>3, <2>4, Builds DEF Built, Giving
  <1>2. IsSequence(r)  BY ConsIs
  <1>3. Plain(A)  BY DEF Plain, Item, Closers
  <1>. HIDE DEF A, r
  <1>4. Safe(Cons(A, r), s)  BY <1>1, <1>2, <1>3, Plain1
  <1>. QED  BY <1>4 DEF A, r

\* What may follow a primary expression.
LEMMA CallRuns ==
  ASSUME NEW q, IsSequence(q), NEW s, State(s), s.room >= 1,
         NEW b \in Nat, s.len = b + 1, s.kind[b + 1] = "word",
         Ends(b, {"call"}, s, q),
         NEW b1, NEW b2, NEW c2
  PROVE  Safe(Cons(Item("list", "arg", b1), Cons(Item("consume", c2, b2),
              Cons(Item("build", "call", b), q))), s)
  <1>. DEFINE A == Item("list", "arg", b1)  B == Item("consume", c2, b2)
              r == Cons(Item("build", "call", b), q)
  <1>1. ASSUME NEW t1, Goes(A, s, t1), NEW t2, Goes(B, t1, t2)
        PROVE  Safe(r, t2)
    <2>1. /\ State(t2) /\ t2.room >= s.room /\ t2.room >= 1
          /\ \A i \in 1 .. b : t2.kind[i] = s.kind[i]
          /\ t2.len >= b + 1
          /\ \A i \in b + 1 .. t2.len : t2.kind[i] \in {"word"} \cup Expressions
      BY <1>1 DEF Goes, Does, State, Adds, Item, Slack
    <2>2. b \in Nat /\ b <= t2.len  BY <2>1 DEF State
    <2>3. ASSUME NEW p, \A i \in 1 .. t2.len - b : p[i].kind = t2.kind[b + i]
          PROVE  Fits("call", p, t2.len - b)
      BY <2>1, <2>3 DEF State, Fits, Only, AllWords
    <2>4. ASSUME NEW t, State(t), t.room >= t2.room, Adds(b, {"call"}, t2, t), t.len = b + 1
          PROVE  Safe(q, t)
      BY <2>1, <2>4 DEF Ends, Adds, State
    <2>. QED  BY <2>1, <2>2, <2>3, <2>4, Builds DEF Built, Giving
  <1>2. IsSequence(r)  BY ConsIs
  <1>3. Plain(A) /\ Plain(B)  BY DEF Plain, Item, Closers
  <1>. HIDE DEF A, B, r
  <1>4. Safe(Cons(A, Cons(B, r)), s)  BY <1>1, <1>2, <1>3, Plain2
  <1>. QED  BY <1>4 DEF A, B, r

LEMMA AccessRuns ==
  ASSUME NEW q, IsSequence(q), NEW s, State(s), s.room >= 1,
         NEW b \in Nat, s.len = b + 1, s.kind[b + 1] \in Expressions,
         Ends(b, {"access"}, s, q),
         NEW b1, NEW b2, NEW c2
  PROVE  Safe(Cons(Item("expr", "none", b1), Cons(Item("consume", c2, b2),
              Cons(Item("build", "access", b), q))), s)
  <1>. DEFINE A == Item("expr", "none", b1)  B == Item("consume", c2, b2)
              r == Cons(Item("build", "access", b), q)
  <1>1. ASSUME NEW t1, Goes(A, s, t1), NEW t2, Goes(B, t1, t2)
        PROVE  Safe(r, t2)
    <2>1. /\ State(t2) /\ t2.room >= s.room /\ t2.room >= 1
          /\ \A i \in 1 .. b : t2.kind[i] = s.kind[i]
          /\ t2.len = b + 2
          /\ t2.kind[b + 1] \in Expressions /\ t2.kind[b + 2] \in Expressions
      BY <1>1 DEF Goes, Does, State, Adds, Item, Slack
    <2>2. b \in Nat /\ b <= t2.len  BY <2>1 DEF State
    <2>3. ASSUME NEW p, \A i \in 1 .. t2.len - b : p[i].kind = t2.kind[b + i]
          PROVE  Fits("access", p, t2.len - b)
      BY <2>1, <2>3 DEF State, Fits, Only, AllWords
    <2>4. ASSUME NEW t, State(t), t.room >= t2.room, Adds(b, {"access"}, t2, t), t.len = b + 1
          PROVE  Safe(q, t)
      BY <2>1, <2>4 DEF Ends, Adds, State
    <2>. QED  BY <2>1, <2>2, <2>3, <2>4, Builds DEF Built, Giving
  <1>2. IsSequence(r)  BY ConsIs
  <1>3. Plain(A) /\ Plain(B)  BY DEF Plain, Item, Closers
  <1>. HIDE DEF A, B, r
  <1>4. Safe(Cons(A, Cons(B, r)), s)  BY <1>1, <1>2, <1>3, Plain2
  <1>. QED  BY <1>4 DEF A, B, r

LEMMA MemberRuns ==
  ASSUME NEW q, IsSequence(q), NEW s, State(s), s.room >= 1,
         NEW b \in Nat, s.len = b + 1, s.kind[b + 1] \in Expressions,
         Ends(b, {"member"}, s, q),
         NEW b1, NEW b2
  PROVE  Safe(Cons(Item("name", "none", b1), Cons(Item("method", "none", b2),
              Cons(Item("build", "member", b), q))), s)
  <1>. DEFINE A == Item("name", "none", b1)  B == Item("method", "none", b2)
              r == Cons(Item("build", "member", b), q)
  <1>1. ASSUME NEW t1, Goes(A, s, t1), NEW t2, Goes(B, t1, t2)
        PROVE  Safe(r, t2)
    <2>1. /\ State(t2) /\ t2.room >= s.room /\ t2.room >= 1
          /\ \A i \in 1 .. b : t2.kind[i] = s.kind[i]
          /\ t2.len >= b + 2
          /\ t2.kind[b + 1] \in Expressions /\ t2.kind[b + 2] = "word"
          /\ \A i \in b + 3 .. t2.len : t2.kind[i] \in Expressions
      BY <1>1 DEF Goes, Does, State, Adds, Item, Slack
    <2>2. b \in Nat /\ b <= t2.len  BY <2>1 DEF State
    <2>3. ASSUME NEW p, \A i \in 1 .. t2.len - b : p[i].kind = t2.kind[b + i]
          PROVE  Fits("member", p, t2.len - b)
      BY <2>1, <2>3 DEF State, Fits, Only, AllWords
    <2>4. ASSUME NEW t, State(t), t.room >= t2.room, Adds(b, {"member"}, t2, t), t.len = b + 1
          PROVE  Safe(q, t)
      BY <2>1, <2>4 DEF Ends, Adds, State
    <2>. QED  BY <2>1, <2>2, <2>3, <2>4, Builds DEF Built, Giving
  <1>2. IsSequence(r)  BY ConsIs
  <1>3. Plain(A) /\ Plain(B)  BY DEF Plain, Item, Closers
  <1>. HIDE DEF A, B, r
  <1>4. Safe(Cons(A, Cons(B, r)), s)  BY <1>1, <1>2, <1>3, Plain2
  <1>. QED  BY <1>4 DEF A, B, r

LEMMA ElementsRuns ==
  ASSUME NEW q, IsSequence(q), NEW s, State(s), s.room >= 1,
         Ends(s.len, {"list"}, s, q),
         NEW b1, NEW b2, NEW c2
  PROVE  Safe(Cons(Item("list", "element", b1), Cons(Item("consume", c2, b2),
              Cons(Item("build", "list", s.len), q))), s)
  <1>. DEFINE A == Item("list", "element", b1)  B == Item("consume", c2, b2)
              r == Cons(Item("build", "list", s.len), q)
  <1>1. ASSUME NEW t1, Goes(A, s, t1), NEW t2, Goes(B, t1, t2)
        PROVE  Safe(r, t2)
    <2>1. /\ State(t2) /\ t2.room >= s.room /\ t2.room >= 1
          /\ \A i \in 1 .. s.len : t2.kind[i] = s.kind[i]
          /\ t2.len >= s.len
          /\ \A i \in s.len + 1 .. t2.len : t2.kind[i] \in Expressions
      BY <1>1 DEF Goes, Does, State, Adds, Item, Slack
    <2>2. s.len \in Nat /\ s.len <= t2.len  BY <2>1 DEF State
    <2>3. ASSUME NEW p, \A i \in 1 .. t2.len - s.len : p[i].kind = t2.kind[s.len + i]
          PROVE  Fits("list", p, t2.len - s.len)
      BY <2>1, <2>3 DEF State, Fits, Only, AllWords
    <2>4. ASSUME NEW t, State(t), t.room >= t2.room, Adds(s.len, {"list"}, t2, t), t.len = s.len + 1
          PROVE  Safe(q, t)
      BY <2>1, <2>4 DEF Ends, Adds, State
    <2>. QED  BY <2>1, <2>2, <2>3, <2>4, Builds DEF Built, Giving
  <1>2. IsSequence(r)  BY ConsIs
  <1>3. Plain(A) /\ Plain(B)  BY DEF Plain, Item, Closers
  <1>. HIDE DEF A, B, r
  <1>4. Safe(Cons(A, Cons(B, r)), s)  BY <1>1, <1>2, <1>3, Plain2
  <1>. QED  BY <1>4 DEF A, B, r

\* The loop over a range: its counter is numbered when the body is done.
LEMMA RangeRuns ==
  ASSUME NEW q, IsSequence(q), NEW s, State(s), s.room >= 2,
         NEW b \in Nat, s.len = b + 2, s.kind[b + 1] = "word", s.kind[b + 2] \in Expressions,
         \A t : State(t) /\ t.room + 1 >= s.room /\ Adds(b, {"for"}, s, t) /\ t.len = b + 1
                => Safe(q, t),
         NEW b1
  PROVE  Safe(Cons(Item("block", "none", b1), Cons(Item("build", "range", b), q)), s)
  <1>. DEFINE A == Item("block", "none", b1)  r == Cons(Item("build", "range", b), q)
  <1>1. ASSUME NEW t1, Goes(A, s, t1) PROVE Safe(r, t1)
    <2>1. /\ State(t1) /\ t1.room >= s.room /\ t1.room >= 2 /\ t1.len = b + 3
          /\ \A i \in 1 .. b : t1.kind[i] = s.kind[i]
          /\ t1.kind[b + 1] = "word" /\ t1.kind[b + 2] \in Expressions
          /\ t1.kind[b + 3] = "block"
      BY <1>1 DEF Goes, Does, State, Adds, Item, Slack
    <2>2. b \in Nat /\ b <= t1.len /\ t1.room >= 1  BY <2>1 DEF State
    <2>3. ASSUME NEW p, \A i \in 1 .. t1.len - b : p[i].kind = t1.kind[b + i]
          PROVE  Fits("range", p, t1.len - b)
      BY <2>1, <2>3 DEF State, Fits
    <2>4. ASSUME NEW t, State(t), t.room + 1 >= t1.room, Adds(b, {"for"}, t1, t), t.len = b + 1
          PROVE  Safe(q, t)
      BY <2>1, <2>4 DEF Adds, State
    <2>. QED  BY <2>1, <2>2, <2>3, <2>4, Builds DEF Giving
  <1>2. IsSequence(r)  BY ConsIs
  <1>3. Plain(A)  BY DEF Plain, Item, Closers
  <1>4. s.room >= 1  BY DEF State
  <1>. HIDE DEF A, r
  <1>5. Safe(Cons(A, r), s)  BY <1>1, <1>2, <1>3, <1>4, Plain1
  <1>. QED  BY <1>5 DEF A, r

-----------------------------------------------------------------------------
\* q goes on when the function of item x, called in s, has returned.
Awaits(q, x, s) == \A t : Goes(x, s, t) => Safe(q, t)

\* The cursor went on and the first n pieces are the same.
Keeps(s, u, n) ==
  State(u) /\ u.room >= s.room /\ u.room >= 1 /\ \A i \in 1 .. n : u.kind[i] = s.kind[i]

\* The functions that leave one expression.
Operands == {"expr", "ternary", "operand", "call", "unary", "primary"}

LEMMA RoomStays ==
  ASSUME NEW x, NEW s, State(s), NEW t, State(t), t.room >= s.room
  PROVE  t.room + Slack(x) >= s.room
  <1>1. Slack(x) \in Nat  BY DEF Slack
  <1>. QED  BY <1>1 DEF State

LEMMA StillKept ==
  ASSUME NEW s, State(s), NEW u, NEW n, Keeps(s, u, n), NEW t, State(t), t.room >= u.room
  PROVE  t.room >= s.room /\ t.room >= 1
  BY DEF Keeps, State

LEMMA EndsHere ==
  ASSUME NEW q, NEW x, NEW s, State(s), Awaits(q, x, s), NEW u, Keeps(s, u, s.len), NEW K,
         \/ x.do = "stmt" /\ K \subseteq Statements
         \/ x.do = "branch" /\ K \subseteq {"block", "if"}
         \/ x.do = "block" /\ K \subseteq {"block"}
         \/ x.do \in Operands /\ K \subseteq Expressions
  PROVE  Ends(s.len, K, u, q)
  <1>. SUFFICES ASSUME NEW t, State(t), t.room >= u.room, Adds(s.len, K, u, t), t.len = s.len + 1
                PROVE  Goes(x, s, t)
    BY DEF Ends, Awaits
  <1>1. t.room >= s.room /\ Adds(s.len, K, s, t)  BY DEF Keeps, State, Adds
  <1>2. \A S : K \subseteq S => Adds(s.len, S, s, t)  BY <1>1 DEF Adds
  <1>3. t.room + Slack(x) >= s.room  BY <1>1, RoomStays
  <1>4. CASE x.do = "stmt" /\ K \subseteq Statements
    BY <1>2, <1>3, <1>4 DEF Goes, Does
  <1>5. CASE x.do = "branch" /\ K \subseteq {"block", "if"}
    BY <1>2, <1>3, <1>5 DEF Goes, Does
  <1>6. CASE x.do = "block" /\ K \subseteq {"block"}
    BY <1>2, <1>3, <1>6 DEF Goes, Does
  <1>7. CASE x.do \in Operands /\ K \subseteq Expressions
    BY <1>2, <1>3, <1>7 DEF Goes, Does, Operands
  <1>. QED  BY <1>4, <1>5, <1>6, <1>7

\* The same for functions that take over pieces.
LEMMA EndsAbove ==
  ASSUME NEW q, NEW x, NEW s, State(s), Awaits(q, x, s), x.base \in Nat, x.base <= s.len,
         NEW u, Keeps(s, u, x.base), NEW K,
         \/ x.do \in {"assignment", "question"} /\ K \subseteq Expressions
         \/ x.do \in {"for_init", "range?"} /\ K \subseteq {"for"}
  PROVE  Ends(x.base, K, u, q)
  <1>. SUFFICES ASSUME NEW t, State(t), t.room >= u.room, Adds(x.base, K, u, t),
                       t.len = x.base + 1
                PROVE  Goes(x, s, t)
    BY DEF Ends, Awaits
  <1>0. t.room >= s.room  BY StillKept
  <1>1. t.room >= s.room /\ Adds(x.base, K, s, t)
    <2>3. t.room >= s.room  BY <1>0
    <2>4. ASSUME NEW i \in 1 .. x.base PROVE t.kind[i] = s.kind[i]
      BY DEF Keeps, Adds
    <2>5. Adds(x.base, K, s, t)  BY <2>4 DEF Adds
    <2>. QED  BY <2>3, <2>5
  <1>2. \A S : K \subseteq S => Adds(x.base, S, s, t)  BY <1>1 DEF Adds
  <1>3. t.room + Slack(x) >= s.room  BY <1>1, RoomStays
  <1>4. CASE x.do \in {"assignment", "question"} /\ K \subseteq Expressions
    BY <1>2, <1>3, <1>4 DEF Goes, Does
  <1>5. CASE x.do \in {"for_init", "range?"} /\ K \subseteq {"for"}
    BY <1>2, <1>3, <1>5 DEF Goes, Does
  <1>. QED  BY <1>4, <1>5

\* A loop that goes on with pieces it may add.
LEMMA LoopsOn ==
  ASSUME NEW q, IsSequence(q), NEW x, NEW s, State(s), Awaits(q, x, s),
         NEW u, Keeps(s, u, s.len), u.len >= s.len,
         NEW y, y.arg = x.arg,
         \/ /\ x.do = "program" /\ y.do = "program"
            /\ \A i \in s.len + 1 .. u.len : u.kind[i] \in Statements \cup {"func"}
         \/ /\ x.do = "stmts" /\ y.do = "stmts"
            /\ \A i \in s.len + 1 .. u.len : u.kind[i] \in Statements
         \/ /\ x.do \in {"list", "more"} /\ y.do = "more"
            /\ \A i \in s.len + 1 .. u.len :
                 u.kind[i] \in IF x.arg = "param" THEN {"decl"} ELSE Expressions
  PROVE  Safe(Cons(y, q), u)
  <1>1. Plain(y)  BY DEF Plain, Closers
  <1>0. s.len \in Nat /\ u.len \in Nat  BY DEF Keeps, State
  <1>2. ASSUME NEW t, Goes(y, u, t) PROVE Goes(x, s, t)
    <2>1. State(t) /\ t.room >= u.room  BY <1>1, <1>2, PlainGoes DEF Keeps
    <2>2. t.room >= s.room  BY <2>1, StillKept
    <2>3. t.room + Slack(x) >= s.room  BY <2>1, <2>2, RoomStays
    <2>4. \A K : Adds(u.len, K, u, t) /\ (\A i \in s.len + 1 .. u.len : u.kind[i] \in K)
                  => Adds(s.len, K, s, t)
      BY <1>0, <2>1 DEF Keeps, State, Adds
    <2>5. CASE x.do = "program"
      <3>1. Adds(u.len, Statements \cup {"func"}, u, t) /\ t.next = "eof"
        BY <1>2, <2>5 DEF Goes, Does
      <3>2. Adds(s.len, Statements \cup {"func"}, s, t)  BY <2>4, <2>5, <3>1
      <3>. QED  BY <2>1, <2>3, <2>5, <3>1, <3>2 DEF Goes, Does
    <2>6. CASE x.do = "stmts"
      <3>1. Adds(u.len, Statements, u, t)  BY <1>2, <2>6 DEF Goes, Does
      <3>2. Adds(s.len, Statements, s, t)  BY <2>4, <2>6, <3>1
      <3>. QED  BY <2>1, <2>3, <2>6, <3>2 DEF Goes, Does
    <2>7. CASE x.do \in {"list", "more"}
      <3>. DEFINE K == IF x.arg = "param" THEN {"decl"} ELSE Expressions
      <3>1. Adds(u.len, K, u, t)  BY <1>2, <2>7 DEF Goes, Does
      <3>2. \A i \in s.len + 1 .. u.len : u.kind[i] \in K  BY <2>7
      <3>. HIDE DEF K
      <3>3. Adds(s.len, K, s, t)  BY <2>4, <3>1, <3>2
      <3>. QED  BY <2>1, <2>3, <2>7, <3>3 DEF Goes, Does, K
    <2>. QED  BY <2>5, <2>6, <2>7
  <1>3. Ready(y, u)  BY <1>1, PlainGoes DEF Keeps
  <1>. QED  BY <1>2, <1>3, SafeCons DEF Awaits

\* A loop over an expression that stands in its place.
LEMMA LoopsAbove ==
  ASSUME NEW q, IsSequence(q), NEW x, NEW s, State(s), Awaits(q, x, s),
         x.do \in {"operators", "postfix"}, x.base \in Nat, x.base <= s.len,
         NEW u, Keeps(s, u, x.base), u.len = x.base + 1, u.kind[x.base + 1] \in Expressions
  PROVE  Safe(Cons(x, q), u)
  <1>1. Slack(x) = 0  BY DEF Slack
  <1>2. ASSUME NEW t, Goes(x, u, t) PROVE Goes(x, s, t)
    <2>0. State(t) /\ Adds(x.base, Expressions, u, t) /\ t.len = x.base + 1 /\ t.room + Slack(x) >= u.room
      BY <1>2 DEF Goes, Does
    <2>1. t.room >= u.room  BY <1>1, <2>0 DEF Keeps, State
    <2>2. t.room + Slack(x) >= s.room  BY <1>1, <2>0, <2>1 DEF Keeps, State
    <2>3. Adds(x.base, Expressions, s, t)  BY <2>0 DEF Keeps, Adds
    <2>. QED  BY <2>0, <2>2, <2>3 DEF Goes, Does
  <1>3. Ready(x, u)
    <2>1. u.room >= 1 + Slack(x) /\ x.base <= u.len  BY <1>1 DEF Keeps, State
    <2>2. x.do # "quoted" /\ x.do # "for_init" /\ x.do # "range?" /\ x.do # "build"  OBVIOUS
    <2>. QED  BY <2>1, <2>2 DEF Ready
  <1>. QED  BY <1>2, <1>3, SafeCons DEF Awaits

LEMMA EndsLoop ==
  ASSUME NEW q, IsSequence(q), NEW x, NEW s, State(s), Awaits(q, x, s),
         x.do \in {"operators", "postfix"}, x.base \in Nat, x.base <= s.len,
         NEW u, Keeps(s, u, x.base), NEW K, K \subseteq Expressions
  PROVE  Ends(x.base, K, u, Cons(x, q))
  <1>. SUFFICES ASSUME NEW t, State(t), t.room >= u.room, Adds(x.base, K, u, t),
                       t.len = x.base + 1
                PROVE  Safe(Cons(x, q), t)
    BY DEF Ends
  <1>1. Keeps(s, t, x.base)  BY DEF Keeps, State, Adds
  <1>2. t.kind[x.base + 1] \in Expressions  BY DEF Adds, State
  <1>. QED  BY <1>1, <1>2, LoopsAbove

-----------------------------------------------------------------------------
\* One function after another: the items that leave expressions.
LEMMA Opens ==
  ASSUME NEW r, IsSequence(r), NEW s, State(s), s.room >= 1,
         NEW a, a.do \in Operands, Ends(s.len, Expressions, s, r)
  PROVE  Safe(Cons(a, r), s)
  <1>1. Plain(a)  BY DEF Plain, Closers, Operands
  <1>2. ASSUME NEW t, Goes(a, s, t) PROVE Safe(r, t)
    <2>1. State(t) /\ t.room >= s.room  BY <1>1, <1>2, PlainGoes
    <2>2. Adds(s.len, Expressions, s, t) /\ t.len = s.len + 1
      BY <1>2 DEF Goes, Does, Operands
    <2>. QED  BY <2>1, <2>2 DEF Ends
  <1>. QED  BY <1>1, <1>2, Plain1

LEMMA Closes ==
  ASSUME NEW q, IsSequence(q), NEW s, State(s), s.room >= 1,
         NEW z, z.do \in {"assignment", "question", "operators", "postfix"},
         z.base \in Nat, z.base <= s.len, Ends(z.base, Expressions, s, q)
  PROVE  Ends(z.base, Expressions, s, Cons(z, q))
  <1>. SUFFICES ASSUME NEW t, State(t), t.room >= s.room, Adds(z.base, Expressions, s, t),
                       t.len = z.base + 1
                PROVE  Safe(Cons(z, q), t)
    BY DEF Ends
  <1>0. Slack(z) = 0  BY DEF Slack
  <1>1. t.kind[z.base + 1] \in Expressions  BY DEF Adds, State
  <1>2. Ready(z, t)
    <2>1. t.room >= 1 + Slack(z) /\ z.base <= t.len  BY <1>0 DEF State
    <2>2. z.do # "quoted" /\ z.do # "for_init" /\ z.do # "range?" /\ z.do # "build"  OBVIOUS
    <2>. QED  BY <1>1, <2>1, <2>2 DEF Ready
  <1>3. ASSUME NEW v, Goes(z, t, v) PROVE Safe(q, v)
    <2>1. State(v) /\ v.room + Slack(z) >= t.room /\ Adds(z.base, Expressions, t, v)
          /\ v.len = z.base + 1
      BY <1>3 DEF Goes, Does
    <2>2. v.room >= s.room  BY <1>0, <2>1 DEF State
    <2>3. Adds(z.base, Expressions, s, v)
      <3>1. ASSUME NEW i \in 1 .. z.base PROVE v.kind[i] = s.kind[i]
        BY <2>1 DEF Adds
      <3>. QED  BY <2>1, <3>1 DEF Adds
    <2>. QED  BY <2>1, <2>2, <2>3 DEF Ends
  <1>. QED  BY <1>2, <1>3, SafeCons

\* An operand, then what may follow it.
LEMMA OperandGoesOn ==
  ASSUME NEW q, IsSequence(q), NEW x, x.do \in Operands, NEW s, State(s), s.room >= 1,
         Awaits(q, x, s), NEW a, a.do \in Operands,
         NEW z, z.do \in {"assignment", "question", "operators", "postfix"}, z.base = s.len
  PROVE  Safe(Cons(a, Cons(z, q)), s)
  <1>1. Keeps(s, s, s.len) /\ s.len \in Nat  BY DEF Keeps, State
  <1>2. Ends(s.len, Expressions, s, q)  BY <1>1, EndsHere
  <1>3. Ends(s.len, Expressions, s, Cons(z, q))  BY <1>1, <1>2, Closes
  <1>4. IsSequence(Cons(z, q))  BY ConsIs
  <1>. QED  BY <1>3, <1>4, Opens

LEMMA TernaryGoesOn ==
  ASSUME NEW q, IsSequence(q), NEW x, x.do = "ternary", NEW s, State(s), s.room >= 1,
         Awaits(q, x, s), NEW a, a.do = "unary",
         NEW z, z.do = "operators", z.base = s.len,
         NEW w, w.do = "question", w.base = s.len
  PROVE  Safe(Cons(a, Cons(z, Cons(w, q))), s)
  <1>1. Keeps(s, s, s.len) /\ s.len \in Nat  BY DEF Keeps, State
  <1>2. Ends(s.len, Expressions, s, q)  BY <1>1, EndsHere DEF Operands
  <1>3. Ends(s.len, Expressions, s, Cons(w, q)) /\ IsSequence(Cons(w, q))
    BY <1>1, <1>2, Closes, ConsIs
  <1>. DEFINE r == Cons(w, q)
  <1>. HIDE DEF r
  <1>4. Ends(s.len, Expressions, s, Cons(z, r)) /\ IsSequence(Cons(z, r))
    BY <1>1, <1>3, Closes, ConsIs DEF r
  <1>5. Safe(Cons(a, Cons(z, r)), s)  BY <1>4, Opens DEF Operands
  <1>. QED  BY <1>5 DEF r

\* ( expression )
LEMMA ParensGoOn ==
  ASSUME NEW q, IsSequence(q), NEW x, x.do = "primary", NEW s, State(s), s.room >= 1,
         Awaits(q, x, s), NEW b1, NEW b2, NEW b3
  PROVE  Safe(Cons(Item("consume", "(", b1), Cons(Item("expr", "none", b2),
              Cons(Item("consume", ")", b3), q))), s)
  <1>. DEFINE A == Item("consume", "(", b1)  B == Item("expr", "none", b2)
              C == Item("consume", ")", b3)
  <1>1. ASSUME NEW t1, Goes(A, s, t1), NEW t2, Goes(B, t1, t2), NEW t3, Goes(C, t2, t3)
        PROVE  Safe(q, t3)
    <2>1. /\ State(t3) /\ t3.room >= s.room /\ t3.len = s.len + 1
          /\ Adds(s.len, Expressions, s, t3)
      BY <1>1 DEF Goes, Does, State, Adds, Item, Slack
    <2>2. t3.room + Slack(x) >= s.room  BY <2>1, RoomStays
    <2>. QED  BY <2>1, <2>2 DEF Awaits, Goes, Does
  <1>3. Plain(A) /\ Plain(B) /\ Plain(C)  BY DEF Plain, Item, Closers
  <1>. HIDE DEF A, B, C
  <1>4. Safe(Cons(A, Cons(B, Cons(C, q))), s)  BY <1>1, <1>3, Plain3
  <1>. QED  BY <1>4 DEF A, B, C

\* The arguments of a method.
LEMMA MethodGoesOn ==
  ASSUME NEW q, IsSequence(q), NEW x, x.do = "method", NEW s, State(s), s.room >= 1,
         Awaits(q, x, s), NEW b1, NEW b2, NEW b3
  PROVE  Safe(Cons(Item("consume", "(", b1), Cons(Item("list", "arg", b2),
              Cons(Item("consume", ")", b3), q))), s)
  <1>. DEFINE A == Item("consume", "(", b1)  B == Item("list", "arg", b2)
              C == Item("consume", ")", b3)
  <1>1. ASSUME NEW t1, Goes(A, s, t1), NEW t2, Goes(B, t1, t2), NEW t3, Goes(C, t2, t3)
        PROVE  Safe(q, t3)
    <2>1. /\ State(t3) /\ t3.room >= s.room
          /\ Adds(s.len, Expressions, s, t3)
      BY <1>1 DEF Goes, Does, State, Adds, Item, Slack
    <2>2. t3.room + Slack(x) >= s.room  BY <2>1, RoomStays
    <2>. QED  BY <2>1, <2>2 DEF Awaits, Goes, Does
  <1>3. Plain(A) /\ Plain(B) /\ Plain(C)  BY DEF Plain, Item, Closers
  <1>. HIDE DEF A, B, C
  <1>4. Safe(Cons(A, Cons(B, Cons(C, q))), s)  BY <1>1, <1>3, Plain3
  <1>. QED  BY <1>4 DEF A, B, C

\* vec < type >
LEMMA VectorTypeGoesOn ==
  ASSUME NEW q, IsSequence(q), NEW x, x.do = "type", NEW s, State(s),
         Awaits(q, x, s), NEW u, Keeps(s, u, s.len), u.len = s.len + 1,
         u.kind[s.len + 1] = "word", NEW b1, NEW b2, NEW b3
  PROVE  Safe(Cons(Item("consume", "<", b1), Cons(Item("element_type", "none", b2),
              Cons(Item("consume", ">", b3), q))), u)
  <1>. DEFINE A == Item("consume", "<", b1)  B == Item("element_type", "none", b2)
              C == Item("consume", ">", b3)
  <1>0. State(u) /\ u.room >= 1  BY DEF Keeps
  <1>1. ASSUME NEW t1, Goes(A, u, t1), NEW t2, Goes(B, t1, t2), NEW t3, Goes(C, t2, t3)
        PROVE  Safe(q, t3)
    <2>1. /\ State(t3) /\ t3.room >= u.room /\ t3.len > s.len
          /\ Adds(s.len, {"word"}, s, t3)
      BY <1>1 DEF Goes, Does, State, Adds, Item, Slack, Keeps
    <2>2. t3.room >= s.room  BY <2>1, StillKept
    <2>3. t3.room + Slack(x) >= s.room  BY <2>1, <2>2, RoomStays
    <2>. QED  BY <2>1, <2>3 DEF Awaits, Goes, Does
  <1>3. Plain(A) /\ Plain(B) /\ Plain(C)  BY DEF Plain, Item, Closers
  <1>. HIDE DEF A, B, C
  <1>4. Safe(Cons(A, Cons(B, Cons(C, q))), u)  BY <1>0, <1>1, <1>3, Plain3
  <1>. QED  BY <1>4 DEF A, B, C

\* One more item of the same contract.
LEMMA PassesOn ==
  ASSUME NEW q, IsSequence(q), NEW x, NEW s, State(s), Awaits(q, x, s),
         NEW u, Keeps(s, u, s.len), u.len >= s.len, NEW y,
         \/ x.do = "initializer" /\ y.do = "expr" /\ u.len = s.len
         \/ x.do = "return_type" /\ y.do = "type" /\ u.len = s.len
         \/ x.do = "optional" /\ y.do = "expr" /\ u.len = s.len
         \/ x.do = "else" /\ y.do = "branch" /\ u.len = s.len
         \/ x.do = "branch" /\ y.do = "block" /\ u.len = s.len
         \/ /\ x.do = "directive" /\ y.do = "directive_value"
            /\ u.len = s.len + 1 /\ u.kind[s.len + 1] = "word"
  PROVE  Safe(Cons(y, q), u)
  <1>0. State(u) /\ u.room >= 1 /\ s.len \in Nat /\ u.len \in Nat  BY DEF Keeps, State
  <1>1. Plain(y)  BY DEF Plain, Closers
  <1>2. ASSUME NEW t, Goes(y, u, t) PROVE Safe(q, t)
    <2>1. State(t) /\ t.room >= u.room  BY <1>0, <1>1, <1>2, PlainGoes
    <2>2. t.room >= s.room  BY <2>1, StillKept
    <2>3. t.room + Slack(x) >= s.room  BY <2>1, <2>2, RoomStays
    <2>0. t.len \in Nat  BY <2>1 DEF State
    <2>4. \A K, L : K \subseteq L /\ u.len = s.len /\ Adds(u.len, K, u, t) => Adds(s.len, L, s, t)
      BY <1>0, <2>0 DEF Keeps, Adds
    <2>5. CASE x.do = "initializer" /\ y.do = "expr" /\ u.len = s.len
      <3>1. Adds(u.len, Expressions, u, t) /\ t.len = u.len + 1  BY <1>2, <2>5 DEF Goes, Does
      <3>2. Adds(s.len, Expressions, s, t) /\ t.len <= s.len + 1  BY <1>0, <2>4, <2>5, <3>1
      <3>. QED  BY <2>1, <2>3, <2>5, <3>2 DEF Awaits, Goes, Does
    <2>6. CASE x.do = "return_type" /\ y.do = "type" /\ u.len = s.len
      <3>1. Adds(u.len, {"word"}, u, t) /\ t.len > u.len  BY <1>2, <2>6 DEF Goes, Does
      <3>2. Adds(s.len, {"word"}, s, t) /\ t.len > s.len  BY <2>4, <2>6, <3>1
      <3>. QED  BY <2>1, <2>3, <2>6, <3>2 DEF Awaits, Goes, Does
    <2>7. CASE x.do = "optional" /\ y.do = "expr" /\ u.len = s.len
      <3>1. Adds(u.len, Expressions, u, t) /\ t.len = u.len + 1  BY <1>2, <2>7 DEF Goes, Does
      <3>2. Adds(s.len, Expressions \cup {"null"}, s, t) /\ t.len = s.len + 1
        BY <2>4, <2>7, <3>1
      <3>. QED  BY <2>1, <2>3, <2>7, <3>2 DEF Awaits, Goes, Does
    <2>8. CASE x.do = "else" /\ y.do = "branch" /\ u.len = s.len
      <3>1. Adds(u.len, {"block", "if"}, u, t) /\ t.len = u.len + 1  BY <1>2, <2>8 DEF Goes, Does
      <3>2. Adds(s.len, {"block", "if"}, s, t) /\ t.len <= s.len + 1  BY <1>0, <2>4, <2>8, <3>1
      <3>. QED  BY <2>1, <2>3, <2>8, <3>2 DEF Awaits, Goes, Does
    <2>9. CASE x.do = "branch" /\ y.do = "block" /\ u.len = s.len
      <3>1. Adds(u.len, {"block"}, u, t) /\ t.len = u.len + 1  BY <1>2, <2>9 DEF Goes, Does
      <3>2. Adds(s.len, {"block", "if"}, s, t) /\ t.len = s.len + 1  BY <2>4, <2>9, <3>1
      <3>. QED  BY <2>1, <2>3, <2>9, <3>2 DEF Awaits, Goes, Does
    <2>10. CASE /\ x.do = "directive" /\ y.do = "directive_value"
                /\ u.len = s.len + 1 /\ u.kind[s.len + 1] = "word"
      <3>1. Adds(u.len, {"word"}, u, t)  BY <1>2, <2>10 DEF Goes, Does
      <3>2. Adds(s.len, {"word"}, s, t) /\ t.len > s.len
        <4>1. u.len <= t.len /\ t.len > s.len /\ s.len <= t.len
          BY <1>0, <2>0, <2>10, <3>1 DEF Adds
        <4>2. ASSUME NEW i \in 1 .. s.len PROVE t.kind[i] = s.kind[i]
          BY <1>0, <2>10, <3>1 DEF Keeps, Adds
        <4>3. ASSUME NEW i \in s.len + 1 .. t.len PROVE t.kind[i] \in {"word"}
          <5>1. CASE i = s.len + 1  BY <1>0, <2>10, <3>1, <5>1 DEF Adds
          <5>2. CASE i # s.len + 1
            <6>1. i \in u.len + 1 .. t.len  BY <1>0, <2>0, <2>10, <5>2
            <6>. QED  BY <3>1, <6>1 DEF Adds
          <5>. QED  BY <5>1, <5>2
        <4>. QED  BY <4>1, <4>2, <4>3 DEF Adds
      <3>. QED  BY <2>1, <2>3, <2>10, <3>2 DEF Awaits, Goes, Does
    <2>. QED  BY <2>5, <2>6, <2>7, <2>8, <2>9, <2>10
  <1>. QED  BY <1>0, <1>1, <1>2, Plain1

\* A comma list: an element, and the rest of the list.
LEMMA ElementGoesOn ==
  ASSUME NEW q, IsSequence(q), NEW x, x.do \in {"list", "more"}, x.arg # "param",
         NEW s, State(s), Awaits(q, x, s),
         NEW u, Keeps(s, u, s.len), u.len = s.len,
         NEW y, y.do = "more", y.arg = x.arg, NEW b1
  PROVE  Safe(Cons(Item("expr", "none", b1), Cons(y, q)), u)
  <1>. DEFINE A == Item("expr", "none", b1)  r == Cons(y, q)
  <1>0. State(u) /\ u.room >= 1 /\ s.len \in Nat /\ IsSequence(r)
    BY ConsIs DEF Keeps, State
  <1>1. A.do = "expr" /\ A.do \in Operands /\ Plain(A)
    BY DEF Item, Operands, Plain, Closers
  <1>. HIDE DEF A, r
  <1>2. ASSUME NEW t, State(t), t.room >= u.room, Adds(u.len, Expressions, u, t),
               t.len = u.len + 1
        PROVE  Safe(r, t)
    <2>1. t.room >= s.room /\ t.room >= 1  BY <1>2, StillKept
    <2>2. /\ Keeps(s, t, s.len) /\ t.len >= s.len
          /\ \A i \in s.len + 1 .. t.len : t.kind[i] \in Expressions
      BY <1>0, <1>2, <2>1 DEF Keeps, Adds
    <2>. QED  BY <2>2, LoopsOn DEF r
  <1>3. Ends(u.len, Expressions, u, r)  BY <1>2 DEF Ends
  <1>4. Safe(Cons(A, r), u)  BY <1>0, <1>1, <1>3, Opens
  <1>. QED  BY <1>4 DEF A, r

LEMMA ParameterGoesOn ==
  ASSUME NEW q, IsSequence(q), NEW x, x.do \in {"list", "more"}, x.arg = "param",
         NEW s, State(s), Awaits(q, x, s),
         NEW u, Keeps(s, u, s.len), u.len = s.len,
         NEW y, y.do = "more", y.arg = x.arg, NEW b1, NEW b2
  PROVE  Safe(Cons(Item("type", "none", b1), Cons(Item("name", "none", b2),
              Cons(Item("build", "decl", u.len), Cons(y, q)))), u)
  <1>. DEFINE r == Cons(y, q)
  <1>0. State(u) /\ u.room >= 1 /\ s.len \in Nat /\ IsSequence(r)
    BY ConsIs DEF Keeps, State
  <1>. HIDE DEF r
  <1>2. ASSUME NEW t, State(t), t.room >= u.room, Adds(u.len, {"decl"}, u, t),
               t.len = u.len + 1
        PROVE  Safe(r, t)
    <2>1. t.room >= s.room /\ t.room >= 1  BY <1>2, StillKept
    <2>2. /\ Keeps(s, t, s.len) /\ t.len >= s.len
          /\ \A i \in s.len + 1 .. t.len : t.kind[i] \in {"decl"}
      BY <1>0, <1>2, <2>1 DEF Keeps, Adds
    <2>. QED  BY <2>2, LoopsOn DEF r
  <1>3. Ends(u.len, {"decl"}, u, r)  BY <1>2 DEF Ends
  <1>4. Safe(Cons(Item("type", "none", b1), Cons(Item("name", "none", b2),
                  Cons(Item("build", "decl", u.len), r))), u)
    BY <1>0, <1>3, ParamRuns
  <1>. QED  BY <1>4 DEF r

\* Statement after statement.
LEMMA StatementGoesOn ==
  ASSUME NEW q, IsSequence(q), NEW x, x.do \in {"program", "stmts"},
         NEW s, State(s), s.room >= 1, Awaits(q, x, s), NEW b1
  PROVE  Safe(Cons(Item("stmt", "none", b1), Cons(x, q)), s)
  <1>. DEFINE A == Item("stmt", "none", b1)  r == Cons(x, q)
  <1>0. s.len \in Nat /\ IsSequence(r)  BY ConsIs DEF State
  <1>1. A.do = "stmt" /\ Plain(A)  BY DEF Item, Plain, Closers
  <1>. HIDE DEF A, r
  <1>2. ASSUME NEW t, Goes(A, s, t) PROVE Safe(r, t)
    <2>1. State(t) /\ t.room >= s.room /\ t.room >= 1  BY <1>1, <1>2, PlainGoes
    <2>2. Adds(s.len, Statements, s, t) /\ t.len = s.len + 1  BY <1>1, <1>2 DEF Goes, Does
    <2>3. /\ Keeps(s, t, s.len) /\ t.len >= s.len
          /\ \A i \in s.len + 1 .. t.len : t.kind[i] \in Statements
      BY <1>0, <2>1, <2>2 DEF Keeps, Adds
    <2>. QED  BY <2>3, LoopsOn DEF r
  <1>3. Safe(Cons(A, r), s)  BY <1>0, <1>1, <1>2, Plain1
  <1>. QED  BY <1>3 DEF A, r

\* A function definition, and the next one.
LEMMA FunctionEnds ==
  ASSUME NEW q, IsSequence(q), NEW x, x.do = "program", NEW s, State(s), Awaits(q, x, s),
         NEW u, Keeps(s, u, s.len)
  PROVE  Ends(s.len, {"func"}, u, Cons(x, q))
  <1>. SUFFICES ASSUME NEW t, State(t), t.room >= u.room, Adds(s.len, {"func"}, u, t),
                       t.len = s.len + 1
                PROVE  Safe(Cons(x, q), t)
    BY DEF Ends
  <1>1. t.room >= s.room /\ t.room >= 1 /\ s.len \in Nat  BY StillKept DEF State
  <1>2. /\ Keeps(s, t, s.len) /\ t.len >= s.len
        /\ \A i \in s.len + 1 .. t.len : t.kind[i] \in Statements \cup {"func"}
    BY <1>1 DEF Keeps, Adds
  <1>. QED  BY <1>2, LoopsOn

\* for ( : the counter is a token behind what follows.
LEMMA ForGoesOn ==
  ASSUME NEW q, IsSequence(q), NEW x, x.do = "stmt", NEW s, State(s), s.room >= 1,
         Awaits(q, x, s),
         NEW u, Keeps(s, u, s.len), u.len = s.len + 1, u.kind[s.len + 1] = "word",
         u.room >= s.room + 1, NEW b1
  PROVE  Safe(Cons(Item("consume", "(", b1), Cons(Item("for_init", "none", s.len), q)), u)
  <1>. DEFINE A == Item("consume", "(", b1)  B == Item("for_init", "none", s.len)
  <1>0. State(u) /\ u.room >= 2 /\ u.room >= 1 /\ s.len \in Nat /\ IsSequence(Cons(B, q))
    BY ConsIs DEF Keeps, State
  <1>1. Plain(A) /\ A.do = "consume"  BY DEF Plain, Item, Closers
  <1>2. B.do = "for_init" /\ B.base = s.len /\ Slack(B) = 1  BY DEF Item, Slack
  <1>. HIDE DEF A, B
  <1>3. ASSUME NEW t, Goes(A, u, t) PROVE Safe(Cons(B, q), t)
    <2>1. State(t) /\ t.room >= u.room /\ Adds(u.len, {}, u, t)
      BY <1>0, <1>1, <1>3, PlainGoes DEF Goes, Does
    <2>2. t.len = u.len /\ t.kind[s.len + 1] = "word" /\ t.room >= 2 /\ t.room >= s.room + 1
      BY <1>0, <2>1 DEF Adds, State
    <2>3. \A i \in 1 .. s.len : t.kind[i] = s.kind[i]
      BY <1>0, <2>1 DEF Adds, Keeps
    <2>4. Ready(B, t)
      <3>1. t.room >= 1 + Slack(B) /\ B.base <= t.len  BY <1>0, <1>2, <2>1, <2>2 DEF State
      <3>. QED  BY <1>0, <1>2, <2>2, <3>1 DEF Ready
    <2>5. ASSUME NEW v, Goes(B, t, v) PROVE Safe(q, v)
      <3>1. State(v) /\ v.room + 1 >= t.room /\ Adds(s.len, {"for"}, t, v) /\ v.len = s.len + 1
        BY <1>2, <2>5 DEF Goes, Does
      <3>2. v.room >= s.room  BY <2>1, <2>2, <3>1 DEF State
      <3>3. v.room + Slack(x) >= s.room  BY <3>1, <3>2, RoomStays
      <3>4. Adds(s.len, Statements, s, v)
        <4>1. "for" \in Statements  BY DEF Statements
        <4>. QED  BY <2>3, <3>1, <4>1 DEF Adds
      <3>. QED  BY <3>1, <3>3, <3>4 DEF Awaits, Goes, Does
    <2>. QED  BY <2>4, <2>5, SafeCons
  <1>4. Safe(Cons(A, Cons(B, q)), u)  BY <1>0, <1>1, <1>3, Plain1
  <1>. QED  BY <1>4 DEF A, B

\* The end of a for whose header is not a range, and of one that is.
LEMMA ForEnds ==
  \A q, x, s, u : x.do \in {"for_init", "range?"} /\ State(s) /\ Awaits(q, x, s) /\
                  x.base \in Nat /\ x.base <= s.len /\ Keeps(s, u, x.base)
                    => Ends(x.base, {"for"}, u, q)
  BY EndsAbove

\* An expression as the first part of the header.
LEMMA HeaderGoesOn ==
  ASSUME NEW q, IsSequence(q), NEW x, x.do = "for_init", NEW s, State(s), Ready(x, s),
         Awaits(q, x, s), NEW b1
  PROVE  Safe(Cons(Item("expr", "none", b1), Cons(Item("range?", "none", x.base), q)), s)
  <1>. DEFINE A == Item("expr", "none", b1)  B == Item("range?", "none", x.base)
  <1>0. /\ s.len \in Nat /\ x.base \in Nat /\ s.len = x.base + 1 /\ s.kind[x.base + 1] = "word"
        /\ s.room \in Int /\ IsSequence(Cons(B, q))
    BY ConsIs DEF State, Ready, Closers
  <1>1. A.do = "expr" /\ Plain(A)  BY DEF Item, Plain, Closers
  <1>2. B.do = "range?" /\ B.base = x.base /\ Slack(B) = 1  BY DEF Item, Slack
  <1>5. Slack(x) = 1  BY DEF Slack
  <1>6. s.room >= 2 /\ s.room >= 1
    <2>1. s.room >= 1 + Slack(x)  BY DEF Ready
    <2>. QED  BY <1>0, <1>5, <2>1
  <1>. HIDE DEF A, B
  <1>3. ASSUME NEW t, Goes(A, s, t) PROVE Safe(Cons(B, q), t)
    <2>1. State(t) /\ t.room >= s.room /\ Adds(s.len, Expressions, s, t) /\ t.len = s.len + 1
      BY <1>1, <1>3, <1>6, PlainGoes DEF Goes, Does
    <2>2. /\ t.len = x.base + 2 /\ t.kind[x.base + 1] = "word"
          /\ t.kind[x.base + 2] \in Expressions /\ t.room >= 2
      BY <1>0, <1>6, <2>1 DEF Adds, State
    <2>3. \A i \in 1 .. x.base : t.kind[i] = s.kind[i]
      BY <1>0, <2>1 DEF Adds
    <2>4. Ready(B, t)
      <3>1. t.room >= 1 + Slack(B) /\ B.base <= t.len  BY <1>0, <1>2, <2>1, <2>2 DEF State
      <3>. QED  BY <1>0, <1>2, <2>2, <3>1 DEF Ready
    <2>5. ASSUME NEW v, Goes(B, t, v) PROVE Safe(q, v)
      <3>1. State(v) /\ v.room + 1 >= t.room /\ Adds(x.base, {"for"}, t, v) /\ v.len = x.base + 1
        BY <1>2, <2>5 DEF Goes, Does
      <3>2. v.room + Slack(x) >= s.room  BY <1>0, <1>5, <2>1, <3>1 DEF State
      <3>3. Adds(x.base, {"for"}, s, v)  BY <2>3, <3>1 DEF Adds
      <3>. QED  BY <3>1, <3>2, <3>3 DEF Awaits, Goes, Does
    <2>. QED  BY <2>4, <2>5, SafeCons
  <1>4. Safe(Cons(A, Cons(B, q)), s)  BY <1>0, <1>1, <1>3, <1>6, Plain1
  <1>. QED  BY <1>4 DEF A, B

\* The tokens of a quoted literal, one after the other.
LEMMA QuotedGoesOn ==
  ASSUME NEW q, IsSequence(q), NEW x, x.do = "quoted", NEW s, State(s), Ready(x, s),
         Awaits(q, x, s), NEW u, Keeps(s, u, s.len), u.len = s.len + 1,
         u.kind[s.len + 1] = "word"
  PROVE  Safe(Cons(x, q), u)
  <1>0. /\ State(u) /\ u.room >= 1 /\ s.len \in Nat /\ x.base \in Nat /\ x.base <= s.len
        /\ \A i \in x.base + 1 .. s.len : s.kind[i] = "word"
    BY DEF Keeps, State, Ready, Closers
  <1>1. Slack(x) = 0  BY DEF Slack
  <1>2. Ready(x, u)
    <2>1. u.room >= 1 + Slack(x) /\ x.base <= u.len  BY <1>0, <1>1 DEF State
    <2>2. \A i \in x.base + 1 .. u.len : u.kind[i] = "word"  BY <1>0 DEF Keeps
    <2>. QED  BY <1>0, <2>1, <2>2 DEF Ready
  <1>3. ASSUME NEW t, Goes(x, u, t) PROVE Safe(q, t)
    <2>1. State(t) /\ t.room + Slack(x) >= u.room /\ Adds(x.base, Expressions, u, t) /\ t.len = x.base + 1
      BY <1>3 DEF Goes, Does
    <2>2. t.room >= u.room  BY <1>0, <1>1, <2>1 DEF State
    <2>3. t.room >= s.room  BY <2>1, <2>2, StillKept
    <2>4. t.room + Slack(x) >= s.room  BY <2>1, <2>3, RoomStays
    <2>5. \A i \in 1 .. x.base : u.kind[i] = s.kind[i]  BY <1>0 DEF Keeps
    <2>6. Adds(x.base, Expressions, s, t)  BY <2>1, <2>5 DEF Adds
    <2>. QED  BY <2>1, <2>4, <2>6 DEF Awaits, Goes, Does
  <1>. QED  BY <1>2, <1>3, SafeCons

\* What a literal in quotes starts with.
LEMMA QuoteOpens ==
  ASSUME NEW q, IsSequence(q), NEW x, x.do = "primary", NEW s, State(s),
         Awaits(q, x, s), NEW u, Keeps(s, u, s.len), u.len = s.len,
         NEW y, y.do = "quoted", y.base = s.len
  PROVE  Safe(Cons(y, q), u)
  <1>0. State(u) /\ u.room >= 1 /\ s.len \in Nat  BY DEF Keeps, State
  <1>1. Slack(y) = 0  BY DEF Slack
  <1>2. Ready(y, u)
    <2>1. u.room >= 1 + Slack(y) /\ y.base <= u.len  BY <1>0, <1>1 DEF State
    <2>2. \A i \in y.base + 1 .. u.len : u.kind[i] = "word"  BY <1>0
    <2>. QED  BY <1>0, <2>1, <2>2 DEF Ready
  <1>3. ASSUME NEW t, Goes(y, u, t) PROVE Safe(q, t)
    <2>1. State(t) /\ t.room + Slack(y) >= u.room /\ Adds(s.len, Expressions, u, t) /\ t.len = s.len + 1
      BY <1>3 DEF Goes, Does
    <2>2. t.room >= u.room  BY <1>0, <1>1, <2>1 DEF State
    <2>3. Ends(s.len, Expressions, u, q)  BY EndsHere DEF Operands
    <2>. QED  BY <2>1, <2>2, <2>3 DEF Ends
  <1>. QED  BY <1>2, <1>3, SafeCons

-----------------------------------------------------------------------------
\* The call stack: what each call has begun lies below what is begun later.
Stacked(q, n) ==
  /\ \A i \in 1 .. Len(q) : q[i].base \in Nat /\ q[i].base <= n
  /\ \A i, j \in 1 .. Len(q) : i <= j => q[j].base <= q[i].base

LEMMA StackedCons ==
  ASSUME NEW x, NEW q, IsSequence(q), NEW n \in Nat
  PROVE  Stacked(Cons(x, q), n) <=> x.base \in Nat /\ x.base <= n /\ Stacked(q, x.base)
  <1>. DEFINE c == Cons(x, q)
  <1>0. /\ Len(c) = Len(q) + 1 /\ Len(q) \in Nat /\ c[1] = x
        /\ \A i \in 1 .. Len(q) : c[i + 1] = q[i]
    BY ConsIs
  <1>. HIDE DEF c
  <1>1. ASSUME Stacked(c, n)
        PROVE  x.base \in Nat /\ x.base <= n /\ Stacked(q, x.base)
    <2>1. 1 \in 1 .. Len(c)  BY <1>0
    <2>2. x.base \in Nat /\ x.base <= n  BY <1>0, <1>1, <2>1 DEF Stacked
    <2>3. ASSUME NEW i \in 1 .. Len(q) PROVE q[i].base \in Nat /\ q[i].base <= x.base
      <3>1. i + 1 \in 1 .. Len(c) /\ 1 <= i + 1  BY <1>0
      <3>. QED  BY <1>0, <1>1, <2>1, <3>1 DEF Stacked
    <2>4. ASSUME NEW i \in 1 .. Len(q), NEW j \in 1 .. Len(q), i <= j
          PROVE  q[j].base <= q[i].base
      <3>1. i + 1 \in 1 .. Len(c) /\ j + 1 \in 1 .. Len(c) /\ i + 1 <= j + 1  BY <1>0, <2>4
      <3>2. c[j + 1].base <= c[i + 1].base  BY <1>1, <3>1 DEF Stacked
      <3>. QED  BY <1>0, <3>2
    <2>. QED  BY <2>2, <2>3, <2>4 DEF Stacked
  <1>2. ASSUME x.base \in Nat, x.base <= n, Stacked(q, x.base)
        PROVE  Stacked(c, n)
    <2>1. ASSUME NEW i \in 1 .. Len(c)
          PROVE  c[i].base \in Nat /\ c[i].base <= x.base
      <3>1. CASE i = 1  BY <1>0, <1>2, <3>1
      <3>2. CASE i # 1
        <4>1. i - 1 \in 1 .. Len(q) /\ (i - 1) + 1 = i  BY <1>0, <3>2
        <4>2. c[i] = q[i - 1]  BY <1>0, <4>1
        <4>. QED  BY <1>2, <4>1, <4>2 DEF Stacked
      <3>. QED  BY <3>1, <3>2
    <2>2. ASSUME NEW i \in 1 .. Len(c), NEW j \in 1 .. Len(c), i <= j
          PROVE  c[j].base <= c[i].base
      <3>1. CASE i = 1  BY <1>0, <2>1, <3>1
      <3>2. CASE i # 1
        <4>1. /\ i - 1 \in 1 .. Len(q) /\ (i - 1) + 1 = i /\ j - 1 \in 1 .. Len(q)
              /\ (j - 1) + 1 = j /\ i - 1 <= j - 1
          BY <1>0, <2>2, <3>2
        <4>2. c[i] = q[i - 1] /\ c[j] = q[j - 1]  BY <1>0, <4>1
        <4>. QED  BY <1>2, <4>1, <4>2 DEF Stacked
      <3>. QED  BY <3>1, <3>2
    <2>3. ASSUME NEW i \in 1 .. Len(c) PROVE c[i].base \in Nat /\ c[i].base <= n
      <3>1. c[i].base \in Nat /\ c[i].base <= x.base /\ x.base \in Nat  BY <1>2, <2>1
      <3>. QED  BY <1>2, <3>1
    <2>. QED  BY <2>2, <2>3 DEF Stacked
  <1>. QED  BY <1>1, <1>2 DEF c

LEMMA StackedLower ==
  ASSUME NEW q, NEW m \in Nat, NEW n \in Nat, m <= n, Stacked(q, m)
  PROVE  Stacked(q, n)
  BY DEF Stacked

\* Items called one after the other on the same pieces.
LEMMA Piles ==
  ASSUME NEW n \in Nat
  PROVE  \A q : IsSequence(q) /\ Stacked(q, n) =>
           \A f, a : IsSequence(Cons(Item(f, a, n), q)) /\ Stacked(Cons(Item(f, a, n), q), n)
  <1>. SUFFICES ASSUME NEW q, IsSequence(q), Stacked(q, n), NEW f, NEW a
                PROVE  IsSequence(Cons(Item(f, a, n), q)) /\ Stacked(Cons(Item(f, a, n), q), n)
    OBVIOUS
  <1>. DEFINE x == Item(f, a, n)
  <1>1. x.base = n  BY DEF Item
  <1>. HIDE DEF x
  <1>2. IsSequence(Cons(x, q)) /\ Stacked(Cons(x, q), n)  BY <1>1, ConsIs, StackedCons
  <1>. QED  BY <1>2 DEF x

-----------------------------------------------------------------------------
\* The invariant.
ParseInv ==
  /\ CursorInv
  /\ rng_counter \in Nat /\ rng_counter < current
  /\ IsSequence(todo) /\ Stacked(todo, Len(done))
  /\ IsSequence(done) /\ \A i \in 1 .. Len(done) : Walks(done[i])
  /\ status \in {"parsing", "parsed"} \cup Errors
  /\ status = "parsing" => Safe(todo, now)
  /\ status = "parsed" => todo = <<>> /\ Whole(now)

LEMMA NowIs ==
  ASSUME ParseInv
  PROVE  /\ State(now) /\ now.len = Len(done) /\ Len(done) \in Nat /\ now.room >= 1
         /\ now.room = current - rng_counter /\ now.next = Peek
         /\ \A i \in 1 .. Len(done) : now.kind[i] = done[i].kind
         /\ Keeps(now, now, now.len)
         /\ current \in Nat /\ rng_counter \in Nat
  <1>1. Len(done) \in Nat /\ Len(tokens) \in Nat  BY PushLength DEF ParseInv, CursorInv
  <1>2. /\ now.len = Len(done) /\ now.room = current - rng_counter /\ now.next = Peek
        /\ \A i \in 1 .. Len(done) : now.kind[i] = done[i].kind
    BY DEF now
  <1>3. /\ current \in Nat /\ rng_counter \in Nat /\ rng_counter < current
    BY <1>1 DEF ParseInv, CursorInv
  <1>4. State(now) /\ now.room >= 1  BY <1>1, <1>2, <1>3 DEF State
  <1>5. Keeps(now, now, now.len)
    <2>. DEFINE s == now
    <2>1. State(s) /\ s.room >= 1  BY <1>4
    <2>. HIDE DEF s
    <2>2. Keeps(s, s, s.len)  BY <2>1 DEF Keeps, State
    <2>. QED  BY <2>2 DEF s
  <1>. QED  BY <1>1, <1>2, <1>3, <1>4, <1>5

\* What a running function finds.
Called(x, q, s) ==
  /\ IsSequence(q) /\ todo = Cons(x, q)
  /\ State(s) /\ s.room >= 1 /\ s.len = Len(done) /\ s.len \in Nat
  /\ Ready(x, s) /\ Awaits(q, x, s)
  /\ x.base \in Nat /\ x.base <= s.len /\ Stacked(q, x.base) /\ Stacked(q, s.len)
  /\ Keeps(s, s, s.len)

LEMMA Calls ==
  ASSUME ParseInv, status = "parsing", todo # <<>>
  PROVE  Called(Head(todo), Tail(todo), now)
  <1>. DEFINE x == Head(todo)  q == Tail(todo)
  <1>1. /\ IsSequence(q) /\ Len(q) = Len(todo) - 1 /\ Len(todo) \in Nat
        /\ \A i \in 1 .. Len(q) : q[i] = todo[i + 1]
        /\ x = todo[1]
    BY TailLength DEF ParseInv
  <1>. HIDE DEF x, q
  <1>2. todo = Cons(x, q)
    <2>1. IsSequence(todo) /\ Len(todo) = Len(q) + 1 /\ todo[1] = x
      BY <1>1 DEF ParseInv
    <2>2. \A i \in 1 .. Len(q) : todo[i + 1] = q[i]  BY <1>1
    <2>. QED  BY <1>1, <2>1, <2>2, IsCons
  <1>3. Safe(Cons(x, q), now) /\ Stacked(Cons(x, q), Len(done))  BY <1>2 DEF ParseInv
  <1>4. Ready(x, now) /\ Awaits(q, x, now)  BY <1>1, <1>3, SafeCons DEF Awaits
  <1>5. x.base \in Nat /\ x.base <= Len(done) /\ Stacked(q, x.base)
    BY <1>1, <1>3, NowIs, StackedCons
  <1>6. Stacked(q, Len(done))  BY <1>5, NowIs, StackedLower
  <1>7. Called(x, q, now)
    BY <1>1, <1>2, <1>4, <1>5, <1>6, NowIs DEF Called
  <1>. QED  BY <1>7 DEF x, q

LEMMA StepKeepsInv ==
  ASSUME ParseInv, status = "parsing", UNCHANGED status, CursorInv',
         rng_counter' \in Nat, rng_counter' < current',
         IsSequence(todo'), Stacked(todo', Len(done')),
         IsSequence(done'), \A i \in 1 .. Len(done') : Walks(done'[i]),
         Safe(todo', now')
  PROVE  ParseInv'
  BY DEF ParseInv

LEMMA FailKeepsInv ==
  ASSUME ParseInv, NEW code \in Errors, Fail(code)
  PROVE  ParseInv'
  <1>1. status' \in Errors /\ status' # "parsing" /\ status' # "parsed"
    BY DEF Fail, Errors
  <1>2. UNCHANGED <<tokens, current, input, todo, done, rng_counter>>  BY DEF Fail
  <1>3. CursorInv'  BY <1>2 DEF ParseInv, CursorInv, Last
  <1>. QED  BY <1>1, <1>2, <1>3 DEF ParseInv

\* The cursor stays or moves.
LEMMA Moved ==
  ASSUME ParseInv, UNCHANGED input, Stay \/ Advance
  PROVE  /\ CursorInv' /\ current' \in Nat /\ current' >= current
         /\ Stay => current' = current /\ Peek' = Peek
         /\ Advance /\ Peek # "eof" => current' = current + 1
  <1>1. CASE Stay
    <2>1. UNCHANGED <<tokens, current, input>>  BY <1>1 DEF Stay
    <2>2. CursorInv'  BY <2>1 DEF ParseInv, CursorInv, Last
    <2>3. Peek' = Peek  BY <2>1 DEF Peek
    <2>4. current' >= current /\ current' \in Nat  BY <2>1, NowIs
    <2>5. Advance /\ Peek # "eof" => current' = current + 1
      BY CursorMoves DEF ParseInv
    <2>. QED  BY <2>1, <2>2, <2>3, <2>4, <2>5
  <1>2. CASE Advance
    <2>1. CursorInv' /\ current' >= current /\ (Peek # "eof" => current' = current + 1)
      BY <1>2, CursorMoves DEF ParseInv
    <2>2. Len(tokens)' \in Nat  BY <2>1, PushLength DEF CursorInv
    <2>3. current' \in Nat  BY <2>1, <2>2 DEF CursorInv
    <2>4. Stay => current' = current /\ Peek' = Peek  BY DEF Stay, Peek
    <2>. QED  BY <2>1, <2>3, <2>4
  <1>. QED  BY <1>1, <1>2

LEMMA GoKeepsInv ==
  ASSUME ParseInv, status = "parsing", NEW items, Go(items),
         IsSequence(todo'), Stacked(todo', Len(done)), Safe(todo', now)
  PROVE  ParseInv'
  <1>1. UNCHANGED <<tokens, current, input, done, rng_counter, status>>
    BY DEF Go, Then, Stay, NoNode
  <1>2. CursorInv' /\ Peek' = Peek  BY <1>1, Moved DEF Stay
  <1>3. now' = now  BY <1>1, <1>2 DEF now
  <1>4. IsSequence(done') /\ \A i \in 1 .. Len(done') : Walks(done'[i])
    BY <1>1 DEF ParseInv
  <1>5. rng_counter' \in Nat /\ rng_counter' < current'  BY <1>1 DEF ParseInv
  <1>. QED  BY <1>1, <1>2, <1>3, <1>4, <1>5, StepKeepsInv

LEMMA SkipKeepsInv ==
  ASSUME ParseInv, status = "parsing", NEW items, Skip(items),
         IsSequence(todo'), Stacked(todo', Len(done)),
         \A u : /\ Keeps(now, u, now.len) /\ u.len = now.len
                /\ Peek # "eof" => u.room >= now.room + 1
                => Safe(todo', u)
  PROVE  ParseInv'
  <1>1. UNCHANGED <<input, done, rng_counter, status>> /\ Advance
    BY DEF Skip, Then, NoNode
  <1>2. /\ CursorInv' /\ current' \in Nat /\ current' >= current
        /\ Peek # "eof" => current' = current + 1
    BY <1>1, Moved
  <1>3. rng_counter' \in Nat /\ rng_counter' < current'
    BY <1>1, <1>2, NowIs DEF ParseInv
  <1>4. IsSequence(done') /\ \A i \in 1 .. Len(done') : Walks(done'[i])
    BY <1>1 DEF ParseInv
  <1>. DEFINE s == now  u == now'
  <1>5. u.len = Len(done) /\ u.kind = s.kind /\ u.room = current' - rng_counter
    BY <1>1 DEF now
  <1>6. /\ State(s) /\ s.len = Len(done) /\ s.room = current - rng_counter
        /\ current \in Nat /\ rng_counter \in Nat
    BY NowIs
  <1>. HIDE DEF s, u
  <1>7. Keeps(s, u, s.len) /\ u.len = s.len
    BY <1>1, <1>2, <1>3, <1>5, <1>6 DEF Keeps, State
  <1>8. Peek # "eof" => u.room >= s.room + 1
    BY <1>2, <1>5, <1>6
  <1>9. Safe(todo', now')  BY <1>7, <1>8 DEF s, u
  <1>. QED  BY <1>1, <1>2, <1>3, <1>4, <1>9, StepKeepsInv

\* The counter never catches up with the cursor.
LEMMA RoomLeft ==
  ASSUME NEW c \in Nat, NEW r \in Nat, NEW c1 \in Nat, NEW r1 \in Nat, NEW d \in {0, 1},
         r1 < c1, c1 >= c, r1 = r + d
  PROVE  c1 - r1 \in Int /\ c1 - r1 >= 1 /\ c1 - r1 + d >= c - r
  OBVIOUS

LEMMA PushKeepsInv ==
  ASSUME ParseInv, status = "parsing", NEW items, Then(items), Stay \/ Advance,
         NEW n, Push(n), Walks(n),
         IsSequence(todo'), Stacked(todo', Len(done) + 1),
         \A u : /\ Keeps(now, u, now.len) /\ u.len = now.len + 1 /\ u.kind[now.len + 1] = n.kind
                /\ Advance /\ Peek # "eof" => u.room >= now.room + 1
                => Safe(todo', u)
  PROVE  ParseInv'
  <1>1. UNCHANGED <<input, rng_counter, status>> /\ done' = Append(done, n)
    BY DEF Then, Push
  <1>2. /\ CursorInv' /\ current' \in Nat /\ current' >= current
        /\ Advance /\ Peek # "eof" => current' = current + 1
    BY <1>1, Moved
  <1>3. rng_counter' \in Nat /\ rng_counter' < current'
    BY <1>1, <1>2, NowIs DEF ParseInv
  <1>4. /\ IsSequence(done') /\ Len(done') = Len(done) + 1 /\ Len(done) \in Nat
        /\ \A i \in 1 .. Len(done) : done'[i] = done[i]
        /\ done'[Len(done) + 1] = n
    BY <1>1, PushLength DEF ParseInv
  <1>5. \A i \in 1 .. Len(done') : Walks(done'[i])
    BY <1>4 DEF ParseInv
  <1>. DEFINE s == now  u == now'
  <1>6. /\ u.len = Len(done) + 1 /\ u.room = current' - rng_counter
        /\ \A i \in 1 .. Len(done) : u.kind[i] = done[i].kind
        /\ u.kind[Len(done) + 1] = n.kind
    <2>1. \A i \in 1 .. Len(done') : u.kind[i] = done'[i].kind  BY DEF now
    <2>2. u.len = Len(done') /\ u.room = current' - rng_counter'  BY DEF now
    <2>. HIDE DEF u
    <2>. QED  BY <1>1, <1>4, <2>1, <2>2
  <1>7. /\ State(s) /\ s.len = Len(done) /\ s.room = current - rng_counter
        /\ current \in Nat /\ rng_counter \in Nat
        /\ \A i \in 1 .. Len(done) : s.kind[i] = done[i].kind
    BY NowIs
  <1>. HIDE DEF s, u
  <1>8. Keeps(s, u, s.len) /\ u.len = s.len + 1 /\ u.kind[s.len + 1] = n.kind
    <2>0. /\ u.room = current' - rng_counter /\ s.room = current - rng_counter
          /\ current' \in Nat /\ current \in Nat /\ rng_counter \in Nat
          /\ rng_counter < current' /\ current' >= current
      BY <1>1, <1>2, <1>3, <1>6, <1>7
    <2>1. u.room \in Int /\ u.room >= 1 /\ u.len \in Nat /\ u.room >= s.room
      <3>1. Len(done) + 1 \in Nat  BY <1>4
      <3>2. rng_counter = rng_counter + 0  BY <2>0
      <3>3. u.room \in Int /\ u.room >= 1 /\ u.room + 0 >= s.room  BY <2>0, <3>2, RoomLeft
      <3>4. u.room + 0 = u.room  BY <3>3
      <3>. QED  BY <1>6, <3>1, <3>3, <3>4
    <2>2. \A i \in 1 .. s.len : u.kind[i] = s.kind[i]  BY <1>6, <1>7
    <2>3. u.len = s.len + 1 /\ u.kind[s.len + 1] = n.kind  BY <1>6, <1>7
    <2>. QED  BY <2>1, <2>2, <2>3 DEF Keeps, State
  <1>9. Advance /\ Peek # "eof" => u.room >= s.room + 1
    BY <1>2, <1>6, <1>7
  <1>10. Safe(todo', now')  BY <1>8, <1>9 DEF s, u
  <1>11. Stacked(todo', Len(done'))  BY <1>4
  <1>. QED  BY <1>1, <1>2, <1>3, <1>4, <1>5, <1>10, <1>11, StepKeepsInv

LEMMA ReducedPieces ==
  ASSUME NEW s, IsSequence(s), NEW b \in Nat, b <= Len(s), NEW n
  PROVE  LET t == Append(SubSeq(s, 1, b), n) IN
         /\ IsSequence(t) /\ Len(t) = b + 1 /\ t[b + 1] = n
         /\ \A i \in 1 .. b : t[i] = s[i]
  <1>. PICK S : s \in Seq(S)  BY DEF IsSequence
  <1>1. /\ SubSeq(s, 1, b) \in Seq(S) /\ Len(SubSeq(s, 1, b)) = b
        /\ \A i \in 1 .. b : SubSeq(s, 1, b)[i] = s[i]
    OBVIOUS
  <1>2. IsSequence(SubSeq(s, 1, b))  BY <1>1 DEF IsSequence
  <1>. QED  BY <1>1, <1>2, PushLength

LEMMA ReduceKeepsInv ==
  ASSUME ParseInv, status = "parsing", NEW items, Then(items), Stay \/ Advance,
         NEW n, Walks(n), IsSequence(todo')
  PROVE  \A b, d :
           /\ b \in Nat /\ b <= Len(done) /\ done' = Append(SubSeq(done, 1, b), n)
           /\ d \in {0, 1} /\ rng_counter' = rng_counter + d /\ now.room >= 1 + d
           /\ Stacked(todo', b + 1)
           /\ \A u : /\ State(u) /\ u.room >= 1 /\ u.room + d >= now.room
                     /\ u.len = b + 1 /\ u.kind[b + 1] = n.kind
                     /\ \A i \in 1 .. b : u.kind[i] = now.kind[i]
                     /\ Stay => u.next = now.next
                     => Safe(todo', u)
           => ParseInv'
  <1>. SUFFICES ASSUME NEW b \in Nat, b <= Len(done), done' = Append(SubSeq(done, 1, b), n),
                NEW d \in {0, 1}, rng_counter' = rng_counter + d, now.room >= 1 + d,
                Stacked(todo', b + 1),
                \A u : /\ State(u) /\ u.room >= 1 /\ u.room + d >= now.room
                       /\ u.len = b + 1 /\ u.kind[b + 1] = n.kind
                       /\ \A i \in 1 .. b : u.kind[i] = now.kind[i]
                       /\ Stay => u.next = now.next
                       => Safe(todo', u)
                PROVE  ParseInv'
    OBVIOUS
  <1>1. UNCHANGED <<input, status>>  BY DEF Then
  <1>2. /\ CursorInv' /\ current' \in Nat /\ current' >= current
        /\ Stay => Peek' = Peek
    BY <1>1, Moved
  <1>3. /\ State(now) /\ now.len = Len(done) /\ now.room = current - rng_counter
        /\ current \in Nat /\ rng_counter \in Nat /\ now.next = Peek
        /\ Len(done) \in Nat
        /\ \A i \in 1 .. Len(done) : now.kind[i] = done[i].kind
    BY NowIs
  <1>4. rng_counter' \in Nat /\ rng_counter' < current'
    BY <1>1, <1>2, <1>3
  <1>5. /\ IsSequence(done') /\ Len(done') = b + 1 /\ done'[b + 1] = n
        /\ \A i \in 1 .. b : done'[i] = done[i]
    BY ReducedPieces DEF ParseInv
  <1>6. \A i \in 1 .. Len(done') : Walks(done'[i])
    BY <1>3, <1>5 DEF ParseInv
  <1>. DEFINE s == now  u == now'
  <1>7. /\ u.len = b + 1 /\ u.room = current' - rng_counter' /\ u.next = Peek'
        /\ \A i \in 1 .. b : u.kind[i] = done[i].kind
        /\ u.kind[b + 1] = n.kind
    <2>1. \A i \in 1 .. Len(done') : u.kind[i] = done'[i].kind  BY DEF now
    <2>2. u.len = Len(done') /\ u.room = current' - rng_counter' /\ u.next = Peek'  BY DEF now
    <2>. HIDE DEF u
    <2>. QED  BY <1>5, <2>1, <2>2
  <1>8. s.room = current - rng_counter /\ s.next = Peek /\ s.room >= 1 + d
        /\ \A i \in 1 .. b : s.kind[i] = done[i].kind
    BY <1>3
  <1>. HIDE DEF s, u
  <1>9. State(u) /\ u.room >= 1 /\ u.room + d >= s.room
    <2>1. u.room \in Int /\ u.len \in Nat  BY <1>2, <1>4, <1>7
    <2>2. /\ u.room = current' - rng_counter' /\ s.room = current - rng_counter
          /\ current' \in Nat /\ rng_counter' \in Nat /\ current \in Nat /\ rng_counter \in Nat
          /\ rng_counter' < current' /\ current' >= current /\ rng_counter' = rng_counter + d
      BY <1>2, <1>3, <1>4, <1>7, <1>8
    <2>3. u.room >= 1 /\ u.room + d >= s.room  BY <2>2, RoomLeft
    <2>. QED  BY <2>1, <2>3 DEF State
  <1>10. (\A i \in 1 .. b : u.kind[i] = s.kind[i]) /\ (Stay => u.next = s.next)
    BY <1>2, <1>7, <1>8
  <1>11. Safe(todo', now')  BY <1>7, <1>9, <1>10 DEF s, u
  <1>12. Stacked(todo', Len(done'))  BY <1>5
  <1>. QED  BY <1>1, <1>2, <1>4, <1>5, <1>6, <1>11, <1>12, StepKeepsInv

-----------------------------------------------------------------------------
\* A function that returns.
LEMMA Returns ==
  ASSUME NEW q, NEW x, NEW s, State(s), Awaits(q, x, s), NEW u, Keeps(s, u, s.len),
         \/ /\ u.len = s.len
            /\ \/ x.do \in {"consume", "end", "stmts", "list", "more", "initializer", "method",
                            "directive_value", "else"}
               \/ x.do = "program" /\ u.next = "eof"
         \/ /\ u.len = s.len + 1
            /\ \/ /\ u.kind[s.len + 1] = "word"
                  /\ x.do \in {"name", "element_type", "type", "return_type", "directive_value"}
               \/ u.kind[s.len + 1] = "null" /\ x.do = "optional"
               \/ u.kind[s.len + 1] \in Expressions /\ x.do = "primary"
  PROVE  Safe(q, u)
  <1>1. State(u) /\ u.room >= s.room /\ s.len \in Nat  BY DEF Keeps, State
  <1>2. u.room + Slack(x) >= s.room  BY <1>1, RoomStays
  <1>3. CASE u.len = s.len
    <2>1. \A K : Adds(s.len, K, s, u)  BY <1>1, <1>3 DEF Adds, Keeps
    <2>2. u.len <= s.len + 1  BY <1>1, <1>3
    <2>. QED  BY <1>1, <1>2, <1>3, <2>1, <2>2 DEF Awaits, Goes, Does
  <1>4. CASE u.len = s.len + 1
    <2>1. \A K : u.kind[s.len + 1] \in K => Adds(s.len, K, s, u)
      BY <1>1, <1>4 DEF Adds, Keeps
    <2>2. u.len # s.len /\ u.len > s.len  BY <1>1, <1>4
    <2>3. CASE /\ u.kind[s.len + 1] = "word"
               /\ x.do \in {"name", "element_type", "type", "return_type", "directive_value"}
      <3>1. Adds(s.len, {"word"}, s, u)  BY <2>1, <2>3
      <3>. QED  BY <1>1, <1>2, <1>4, <2>2, <2>3, <3>1 DEF Awaits, Goes, Does
    <2>4. CASE u.kind[s.len + 1] = "null" /\ x.do = "optional"
      <3>1. Adds(s.len, Expressions \cup {"null"}, s, u)  BY <2>1, <2>4
      <3>. QED  BY <1>1, <1>2, <1>4, <2>4, <3>1 DEF Awaits, Goes, Does
    <2>5. CASE u.kind[s.len + 1] \in Expressions /\ x.do = "primary"
      <3>1. Adds(s.len, Expressions, s, u)  BY <2>1, <2>5
      <3>. QED  BY <1>1, <1>2, <1>4, <2>5, <3>1 DEF Awaits, Goes, Does
    <2>. QED  BY <1>4, <2>2, <2>3, <2>4, <2>5
  <1>. QED  BY <1>3, <1>4

LEMMA LoopReturns ==
  ASSUME NEW q, NEW x, NEW s, State(s), Awaits(q, x, s), Ready(x, s), Keeps(s, s, s.len),
         x.do \in {"assignment", "question", "operators", "postfix"}
  PROVE  Safe(q, s)
  <1>1. /\ x.base \in Nat /\ s.len = x.base + 1 /\ s.kind[x.base + 1] \in Expressions
        /\ s.len \in Nat
    BY DEF Ready, Closers, State
  <1>2. Adds(x.base, Expressions, s, s)  BY <1>1 DEF Adds
  <1>3. s.room >= s.room  BY DEF State
  <1>4. s.room + Slack(x) >= s.room  BY <1>3, RoomStays
  <1>. QED  BY <1>1, <1>2, <1>4 DEF Awaits, Goes, Does

LEMMA ClosedReturns ==
  ASSUME NEW q, NEW x, NEW s, State(s), Awaits(q, x, s), x.base \in Nat,
         NEW u, State(u), u.room + Slack(x) >= s.room, u.len = x.base + 1,
         \A i \in 1 .. x.base : u.kind[i] = s.kind[i],
         \/ x.do = "quoted" /\ u.kind[x.base + 1] \in Expressions
         \/ x.do = "build" /\ u.kind[x.base + 1] \in Giving(x.arg) /\ u.next = s.next
  PROVE  Safe(q, u)
  <1>1. \A K : u.kind[x.base + 1] \in K => Adds(x.base, K, s, u)
    BY DEF Adds
  <1>2. CASE x.do = "quoted" /\ u.kind[x.base + 1] \in Expressions
    BY <1>1, <1>2 DEF Awaits, Goes, Does
  <1>3. CASE x.do = "build" /\ u.kind[x.base + 1] \in Giving(x.arg) /\ u.next = s.next
    BY <1>1, <1>3 DEF Awaits, Goes, Does
  <1>. QED  BY <1>2, <1>3

-----------------------------------------------------------------------------
\* The items each step puts before the rest, one at a time.

LEMMA ItemHas ==
  \A f, a, b : Item(f, a, b).do = f /\ Item(f, a, b).arg = a /\ Item(f, a, b).base = b
  BY DEF Item
LEMMA Pile1 ==
  ASSUME NEW n \in Nat, NEW q, IsSequence(q), Stacked(q, n),
         NEW f1, NEW a1
  PROVE  /\ IsSequence(Cons(Item(f1, a1, n), q))
         /\ Stacked(Cons(Item(f1, a1, n), q), n)
  BY Piles

LEMMA Pile2 ==
  ASSUME NEW n \in Nat, NEW q, IsSequence(q), Stacked(q, n),
         NEW f1, NEW a1, NEW f2, NEW a2
  PROVE  /\ IsSequence(Cons(Item(f1, a1, n), Cons(Item(f2, a2, n), q)))
         /\ Stacked(Cons(Item(f1, a1, n), Cons(Item(f2, a2, n), q)), n)
  <1>. DEFINE r == Cons(Item(f2, a2, n), q)
  <1>1. IsSequence(r) /\ Stacked(r, n)  BY Pile1
  <1>. HIDE DEF r
  <1>2. IsSequence(Cons(Item(f1, a1, n), r)) /\ Stacked(Cons(Item(f1, a1, n), r), n)
    BY <1>1, Piles
  <1>. QED  BY <1>2 DEF r

LEMMA Pile3 ==
  ASSUME NEW n \in Nat, NEW q, IsSequence(q), Stacked(q, n),
         NEW f1, NEW a1, NEW f2, NEW a2, NEW f3, NEW a3
  PROVE  /\ IsSequence(Cons(Item(f1, a1, n), Cons(Item(f2, a2, n),
                       Cons(Item(f3, a3, n), q))))
         /\ Stacked(Cons(Item(f1, a1, n), Cons(Item(f2, a2, n), Cons(Item(f3, a3, n), q))), n)
  <1>. DEFINE r == Cons(Item(f2, a2, n), Cons(Item(f3, a3, n), q))
  <1>1. IsSequence(r) /\ Stacked(r, n)  BY Pile2
  <1>. HIDE DEF r
  <1>2. IsSequence(Cons(Item(f1, a1, n), r)) /\ Stacked(Cons(Item(f1, a1, n), r), n)
    BY <1>1, Piles
  <1>. QED  BY <1>2 DEF r

LEMMA Pile4 ==
  ASSUME NEW n \in Nat, NEW q, IsSequence(q), Stacked(q, n),
         NEW f1, NEW a1, NEW f2, NEW a2, NEW f3, NEW a3, NEW f4, NEW a4
  PROVE  /\ IsSequence(Cons(Item(f1, a1, n), Cons(Item(f2, a2, n),
                       Cons(Item(f3, a3, n), Cons(Item(f4, a4, n), q)))))
         /\ Stacked(Cons(Item(f1, a1, n), Cons(Item(f2, a2, n), Cons(Item(f3, a3, n),
                    Cons(Item(f4, a4, n), q)))), n)
  <1>. DEFINE r == Cons(Item(f2, a2, n), Cons(Item(f3, a3, n), Cons(Item(f4, a4, n), q)))
  <1>1. IsSequence(r) /\ Stacked(r, n)  BY Pile3
  <1>. HIDE DEF r
  <1>2. IsSequence(Cons(Item(f1, a1, n), r)) /\ Stacked(Cons(Item(f1, a1, n), r), n)
    BY <1>1, Piles
  <1>. QED  BY <1>2 DEF r

LEMMA Pile5 ==
  ASSUME NEW n \in Nat, NEW q, IsSequence(q), Stacked(q, n),
         NEW f1, NEW a1, NEW f2, NEW a2, NEW f3, NEW a3, NEW f4, NEW a4, NEW f5, NEW a5
  PROVE  /\ IsSequence(Cons(Item(f1, a1, n), Cons(Item(f2, a2, n),
                       Cons(Item(f3, a3, n), Cons(Item(f4, a4, n),
                       Cons(Item(f5, a5, n), q))))))
         /\ Stacked(Cons(Item(f1, a1, n), Cons(Item(f2, a2, n), Cons(Item(f3, a3, n),
                    Cons(Item(f4, a4, n), Cons(Item(f5, a5, n), q))))), n)
  <1>. DEFINE r == Cons(Item(f2, a2, n), Cons(Item(f3, a3, n), Cons(Item(f4, a4, n),
              Cons(Item(f5, a5, n), q))))
  <1>1. IsSequence(r) /\ Stacked(r, n)  BY Pile4
  <1>. HIDE DEF r
  <1>2. IsSequence(Cons(Item(f1, a1, n), r)) /\ Stacked(Cons(Item(f1, a1, n), r), n)
    BY <1>1, Piles
  <1>. QED  BY <1>2 DEF r

LEMMA Pile6 ==
  ASSUME NEW n \in Nat, NEW q, IsSequence(q), Stacked(q, n),
         NEW f1, NEW a1, NEW f2, NEW a2, NEW f3, NEW a3, NEW f4, NEW a4, NEW f5, NEW a5, NEW f6, NEW a6
  PROVE  /\ IsSequence(Cons(Item(f1, a1, n), Cons(Item(f2, a2, n),
                       Cons(Item(f3, a3, n), Cons(Item(f4, a4, n),
                       Cons(Item(f5, a5, n), Cons(Item(f6, a6, n), q)))))))
         /\ Stacked(Cons(Item(f1, a1, n), Cons(Item(f2, a2, n), Cons(Item(f3, a3, n),
                    Cons(Item(f4, a4, n), Cons(Item(f5, a5, n), Cons(Item(f6, a6, n), q)))))), n)
  <1>. DEFINE r == Cons(Item(f2, a2, n), Cons(Item(f3, a3, n), Cons(Item(f4, a4, n),
              Cons(Item(f5, a5, n), Cons(Item(f6, a6, n), q)))))
  <1>1. IsSequence(r) /\ Stacked(r, n)  BY Pile5
  <1>. HIDE DEF r
  <1>2. IsSequence(Cons(Item(f1, a1, n), r)) /\ Stacked(Cons(Item(f1, a1, n), r), n)
    BY <1>1, Piles
  <1>. QED  BY <1>2 DEF r

LEMMA Pile7 ==
  ASSUME NEW n \in Nat, NEW q, IsSequence(q), Stacked(q, n),
         NEW f1, NEW a1, NEW f2, NEW a2, NEW f3, NEW a3, NEW f4, NEW a4,
         NEW f5, NEW a5, NEW f6, NEW a6, NEW f7, NEW a7
  PROVE  /\ IsSequence(Cons(Item(f1, a1, n), Cons(Item(f2, a2, n),
                       Cons(Item(f3, a3, n), Cons(Item(f4, a4, n),
                       Cons(Item(f5, a5, n), Cons(Item(f6, a6, n),
                       Cons(Item(f7, a7, n), q))))))))
         /\ Stacked(Cons(Item(f1, a1, n), Cons(Item(f2, a2, n), Cons(Item(f3, a3, n),
                    Cons(Item(f4, a4, n), Cons(Item(f5, a5, n), Cons(Item(f6, a6, n),
                    Cons(Item(f7, a7, n), q))))))), n)
  <1>. DEFINE r == Cons(Item(f2, a2, n), Cons(Item(f3, a3, n), Cons(Item(f4, a4, n),
              Cons(Item(f5, a5, n), Cons(Item(f6, a6, n), Cons(Item(f7, a7, n), q))))))
  <1>1. IsSequence(r) /\ Stacked(r, n)  BY Pile6
  <1>. HIDE DEF r
  <1>2. IsSequence(Cons(Item(f1, a1, n), r)) /\ Stacked(Cons(Item(f1, a1, n), r), n)
    BY <1>1, Piles
  <1>. QED  BY <1>2 DEF r

LEMMA ParensCons ==
  ASSUME NEW a, NEW q, IsSequence(q)
  PROVE  /\ IsSequence(Parens(<<a>>))
         /\ Parens(<<a>>) \o q = Cons(Eat("("), Cons(a, Cons(Eat(")"), q)))
  <1>. DEFINE o == Eat("(")  c == Eat(")")  t == <<a>>  e == <<c>>
  <1>1. IsSequence(t) /\ IsSequence(e) /\ IsSequence(<<o>>)  BY Tuples
  <1>2. \A r : IsSequence(r) => <<o>> \o r = Cons(o, r) /\ t \o r = Cons(a, r) /\ e \o r = Cons(c, r)
    BY Unrolled
  <1>3. Parens(<<a>>) = (<<o>> \o t) \o e  BY DEF Parens
  <1>. HIDE DEF o, c, t, e
  <1>0. IsSequence(<<o>> \o t)  BY <1>1, ConcatLength
  <1>4. IsSequence(Parens(<<a>>))  BY <1>0, <1>1, <1>3, ConcatLength
  <1>5. IsSequence(e \o q) /\ IsSequence(t \o (e \o q))  BY <1>1, ConcatLength
  <1>6. Parens(<<a>>) \o q = (<<o>> \o t) \o (e \o q)
    <2>. DEFINE ot == <<o>> \o t
    <2>1. IsSequence(ot)  BY <1>0
    <2>2. IsSequence(e)  BY <1>1
    <2>. HIDE DEF ot
    <2>3. (ot \o e) \o q = ot \o (e \o q)  BY <2>1, <2>2, ConcatAssociates
    <2>. QED  BY <1>3, <2>3, Zenon DEF ot
  <1>7. (<<o>> \o t) \o (e \o q) = <<o>> \o (t \o (e \o q))
    BY <1>1, <1>5, ConcatAssociates
  <1>8. <<o>> \o (t \o (e \o q)) = Cons(o, Cons(a, Cons(c, q)))
    BY <1>2, <1>5
  <1>9. Parens(<<a>>) \o q = Cons(o, Cons(a, Cons(c, q)))  BY <1>6, <1>7, <1>8
  <1>. QED  BY <1>4, <1>9 DEF o, c

\* Items in parentheses, then others.
Joined(r, q) == r \o q

LEMMA ParensThen ==
  ASSUME NEW a, NEW t, IsSequence(t), NEW q, IsSequence(q)
  PROVE  Joined(Joined(Parens(<<a>>), t), q)
           = Cons(Eat("("), Cons(a, Cons(Eat(")"), Joined(t, q))))
  <1>. DEFINE r == Parens(<<a>>)
  <1>0. IsSequence(r)  BY ParensCons
  <1>1. IsSequence(t \o q)  BY ConcatLength
  <1>2. r \o (t \o q) = Cons(Eat("("), Cons(a, Cons(Eat(")"), t \o q)))
    BY <1>1, ParensCons
  <1>. HIDE DEF r
  <1>4. (r \o t) \o q = r \o (t \o q)  BY <1>0, ConcatAssociates
  <1>. QED  BY <1>2, <1>4, Zenon DEF r, Joined

LEMMA FuncDefCons ==
  ASSUME NEW q, IsSequence(q), NEW n, n = Len(done)
  PROVE  /\ IsSequence(FuncDef)
         /\ FuncDef \o q = Cons(Item("name", "none", n), Cons(Item("consume", "(", n),
              Cons(Item("list", "param", n), Cons(Item("consume", ")", n),
              Cons(Item("return_type", "none", n), Cons(Item("block", "none", n),
              Cons(Item("build", "func", n), q)))))))
  <1>. DEFINE a == Do("name")  l == With("list", "param")  r == Parens(<<l>>)
              t == <<Do("return_type"), Do("block"), Build("func")>>
  <1>0. IsSequence(t)  BY Unrolled
  <1>1. t \o q = Cons(Do("return_type"), Cons(Do("block"), Cons(Build("func"), q)))
    BY Unrolled
  <1>2. IsSequence(r) /\ IsSequence(<<a>>)  BY ParensCons, Tuples
  <1>3. IsSequence(t \o q)  BY <1>0, ConcatLength
  <1>4. r \o (t \o q) = Cons(Eat("("), Cons(l, Cons(Eat(")"), t \o q)))
    BY <1>3, ParensCons
  <1>5. FuncDef = (<<a>> \o r) \o t  BY DEF FuncDef
  <1>6. \A v : IsSequence(v) => <<a>> \o v = Cons(a, v)  BY Unrolled
  <1>. HIDE DEF a, l, r, t
  <1>7. IsSequence(<<a>> \o r)  BY <1>2, ConcatLength
  <1>11. IsSequence(FuncDef)  BY <1>0, <1>5, <1>7, ConcatLength
  <1>12. IsSequence(r \o (t \o q))  BY <1>2, <1>3, ConcatLength
  <1>8. FuncDef \o q = (<<a>> \o r) \o (t \o q)  BY <1>0, <1>5, <1>7, ConcatAssociates
  <1>9. (<<a>> \o r) \o (t \o q) = <<a>> \o (r \o (t \o q))
    BY <1>2, <1>3, ConcatAssociates
  <1>10. FuncDef \o q = Cons(a, r \o (t \o q))  BY <1>6, <1>8, <1>9, <1>12
  <1>. QED  BY <1>1, <1>4, <1>10, <1>11 DEF a, l, Do, With, Eat, Build

LEMMA DeclCons ==
  ASSUME NEW q, IsSequence(q), NEW n, n = Len(done)
  PROVE  /\ IsSequence(Decl)
         /\ Decl \o q = Cons(Item("type", "none", n), Cons(Item("name", "none", n),
              Cons(Item("initializer", "none", n), Cons(Item("end", "none", n),
              Cons(Item("build", "decl", n), q)))))
  BY Unrolled DEF Decl, Do, Build

LEMMA ParamCons ==
  ASSUME NEW q, IsSequence(q), NEW n, n = Len(done)
  PROVE  /\ IsSequence(Param)
         /\ Param \o q = Cons(Item("type", "none", n), Cons(Item("name", "none", n),
              Cons(Item("build", "decl", n), q)))
  BY Unrolled DEF Param, Do, Build

\* The rest of the header of a for loop, and the loop.
HeaderRest(n, b, q) ==
  Cons(Item("optional", ";", n), Cons(Item("consume", ";", n), Cons(Item("optional", ")", n),
  Cons(Item("consume", ")", n), Cons(Item("block", "none", n), Cons(Item("build", "for", b), q))))))

LEMMA ForRestCons ==
  ASSUME NEW q, IsSequence(q), NEW n, n = Len(done), NEW b, b = Head(todo).base
  PROVE  /\ IsSequence(ForRest)
         /\ ForRest \o q = HeaderRest(n, b, q)
  <1>. DEFINE A == Item("optional", ";", n)  B == Item("consume", ";", n)
              C == Item("optional", ")", n)  D == Item("consume", ")", n)
              E == Item("block", "none", n)  F == Item("build", "for", b)
  <1>1. ForRest = <<A, B, C, D, E, F>>  BY Zenon DEF ForRest, Do, With, Eat, Finish
  <1>. HIDE DEF A, B, C, D, E, F
  <1>2. <<A, B, C, D, E, F>> \o q = Cons(A, Cons(B, Cons(C, Cons(D, Cons(E, Cons(F, q))))))
    BY Unrolled
  <1>3. IsSequence(<<A, B, C, D, E, F>>)  BY Unrolled
  <1>. QED  BY <1>1, <1>2, <1>3, Zenon DEF HeaderRest, A, B, C, D, E, F

\* The rest of a statement that begins with parentheses.
LEMMA RestCons ==
  ASSUME NEW q, IsSequence(q), NEW n, n = Len(done)
  PROVE  /\ Joined(PrintRest, q) = Cons(Item("consume", "(", n), Cons(Item("list", "expr", n),
              Cons(Item("consume", ")", n), Cons(Item("end", "none", n),
              Cons(Item("build", "print", n), q)))))
         /\ Joined(ReadRest, q) = Cons(Item("consume", "(", n), Cons(Item("name", "none", n),
              Cons(Item("consume", ")", n), Cons(Item("end", "none", n),
              Cons(Item("build", "read", n), q)))))
         /\ Joined(IfRest, q) = Cons(Item("consume", "(", n), Cons(Item("expr", "none", n),
              Cons(Item("consume", ")", n), Cons(Item("block", "none", n),
              Cons(Item("else", "none", n), Cons(Item("build", "if", n), q))))))
         /\ Joined(WhileRest, q) = Cons(Item("consume", "(", n), Cons(Item("expr", "none", n),
              Cons(Item("consume", ")", n), Cons(Item("block", "none", n),
              Cons(Item("build", "while", n), q)))))
  <1>1. Joined(PrintRest, q) = Cons(Eat("("), Cons(With("list", "expr"), Cons(Eat(")"), Cons(Do("end"),
          Cons(Build("print"), q)))))
    <2>. DEFINE a == With("list", "expr")  t == <<Do("end"), Build("print")>>
    <2>0. IsSequence(t)  BY Unrolled
    <2>1. Joined(t, q) = Cons(Do("end"), Cons(Build("print"), q))  BY Unrolled DEF Joined
    <2>2. PrintRest = Joined(Parens(<<a>>), t)  BY DEF PrintRest, Joined
    <2>. HIDE DEF a, t
    <2>3. Joined(Joined(Parens(<<a>>), t), q) = Cons(Eat("("), Cons(a, Cons(Eat(")"), Joined(t, q))))
      BY <2>0, ParensThen
    <2>. QED  BY <2>1, <2>2, <2>3 DEF a
  <1>2. Joined(ReadRest, q) = Cons(Eat("("), Cons(Do("name"), Cons(Eat(")"), Cons(Do("end"),
          Cons(Build("read"), q)))))
    <2>. DEFINE a == Do("name")  t == <<Do("end"), Build("read")>>
    <2>0. IsSequence(t)  BY Unrolled
    <2>1. Joined(t, q) = Cons(Do("end"), Cons(Build("read"), q))  BY Unrolled DEF Joined
    <2>2. ReadRest = Joined(Parens(<<a>>), t)  BY DEF ReadRest, Joined
    <2>. HIDE DEF a, t
    <2>3. Joined(Joined(Parens(<<a>>), t), q) = Cons(Eat("("), Cons(a, Cons(Eat(")"), Joined(t, q))))
      BY <2>0, ParensThen
    <2>. QED  BY <2>1, <2>2, <2>3 DEF a
  <1>3. Joined(IfRest, q) = Cons(Eat("("), Cons(Do("expr"), Cons(Eat(")"), Cons(Do("block"), Cons(Do("else"),
          Cons(Build("if"), q))))))
    <2>. DEFINE a == Do("expr")  t == <<Do("block"), Do("else"), Build("if")>>
    <2>0. IsSequence(t)  BY Unrolled
    <2>1. Joined(t, q) = Cons(Do("block"), Cons(Do("else"), Cons(Build("if"), q)))  BY Unrolled DEF Joined
    <2>2. IfRest = Joined(Parens(<<a>>), t)  BY DEF IfRest, Joined
    <2>. HIDE DEF a, t
    <2>3. Joined(Joined(Parens(<<a>>), t), q) = Cons(Eat("("), Cons(a, Cons(Eat(")"), Joined(t, q))))
      BY <2>0, ParensThen
    <2>. QED  BY <2>1, <2>2, <2>3 DEF a
  <1>4. Joined(WhileRest, q) = Cons(Eat("("), Cons(Do("expr"), Cons(Eat(")"), Cons(Do("block"),
          Cons(Build("while"), q)))))
    <2>. DEFINE a == Do("expr")  t == <<Do("block"), Build("while")>>
    <2>0. IsSequence(t)  BY Unrolled
    <2>1. Joined(t, q) = Cons(Do("block"), Cons(Build("while"), q))  BY Unrolled DEF Joined
    <2>2. WhileRest = Joined(Parens(<<a>>), t)  BY DEF WhileRest, Joined
    <2>. HIDE DEF a, t
    <2>3. Joined(Joined(Parens(<<a>>), t), q) = Cons(Eat("("), Cons(a, Cons(Eat(")"), Joined(t, q))))
      BY <2>0, ParensThen
    <2>. QED  BY <2>1, <2>2, <2>3 DEF a
  <1>. QED  BY <1>1, <1>2, <1>3, <1>4 DEF Do, With, Eat, Build

-----------------------------------------------------------------------------
LEMMA KindsOfStatements ==
  /\ \A k \in {"decl", "print", "read", "if", "while", "for", "return", "break", "continue",
               "directive"} : {k} \subseteq Statements
  /\ Expressions \subseteq Statements /\ Assignments \subseteq Expressions
  /\ \A k \in {"assign", "identifier", "list", "access", "binary", "unary", "ternary", "call",
               "member", "int", "float", "bool", "char", "string"} :
       {k} \subseteq Expressions /\ k \in Expressions
  BY DEF Statements, Expressions, Assignments, Literal

LEMMA Bases ==
  ASSUME NEW x, NEW q, NEW s, Called(x, q, s)
  PROVE  /\ IsSequence(q) /\ Stacked(q, Len(done))
         /\ IsSequence(todo) /\ Stacked(todo, Len(done))
         /\ \A k, a : /\ IsSequence(Cons(Item(k, a, x.base), q))
                      /\ Stacked(Cons(Item(k, a, x.base), q), Len(done))
         /\ \A k, a : /\ IsSequence(Cons(Item(k, a, x.base), todo))
                      /\ Stacked(Cons(Item(k, a, x.base), todo), Len(done))
  <1>1. /\ IsSequence(q) /\ todo = Cons(x, q) /\ Len(done) \in Nat
        /\ x.base \in Nat /\ x.base <= Len(done) /\ Stacked(q, x.base) /\ Stacked(q, Len(done))
    BY DEF Called
  <1>2. IsSequence(Cons(x, q))  BY <1>1, ConsIs
  <1>3. Stacked(Cons(x, q), Len(done)) /\ Stacked(Cons(x, q), x.base)
    BY <1>1, StackedCons
  <1>4. IsSequence(todo) /\ Stacked(todo, Len(done)) /\ Stacked(todo, x.base)
    BY <1>1, <1>2, <1>3
  <1>5. ASSUME NEW r, IsSequence(r), Stacked(r, x.base), NEW k, NEW a
        PROVE  /\ IsSequence(Cons(Item(k, a, x.base), r))
               /\ Stacked(Cons(Item(k, a, x.base), r), Len(done))
    <2>. DEFINE c == Cons(Item(k, a, x.base), r)
    <2>1. IsSequence(c) /\ Stacked(c, x.base)  BY <1>1, <1>5, Piles
    <2>. HIDE DEF c
    <2>2. Stacked(c, Len(done))  BY <1>1, <2>1, StackedLower
    <2>. QED  BY <2>1, <2>2 DEF c
  <1>. QED  BY <1>1, <1>4, <1>5

LEMMA TakeKeepsInv ==
  ASSUME ParseInv, status = "parsing", NEW items, Take(items),
         IsSequence(todo'), Stacked(todo', Len(done)),
         \A u : /\ Keeps(now, u, now.len) /\ u.len = now.len + 1 /\ u.kind[now.len + 1] = "word"
                /\ Peek # "eof" => u.room >= now.room + 1
                => Safe(todo', u)
  PROVE  ParseInv'
  <1>. DEFINE w == Word(Peek, {current})
  <1>1. Then(items) /\ Advance /\ Push(w)  BY DEF Take
  <1>2. Walks(w) /\ w.kind = "word"
    <2>1. "word" \notin Inner  BY DEF Inner, Assignments
    <2>2. w = Node("word", <<Peek>>, {current}, <<>>)  BY DEF Word
    <2>3. w.kind = "word"  BY <2>2 DEF Node
    <2>. HIDE DEF w
    <2>. QED  BY <2>1, <2>2, <2>3, LeafWalks
  <1>3. Stacked(todo', Len(done) + 1)
    <2>1. Len(done) \in Nat /\ Len(done) + 1 \in Nat /\ Len(done) <= Len(done) + 1  BY NowIs
    <2>. QED  BY <2>1, StackedLower
  <1>. HIDE DEF w
  <1>. QED  BY <1>1, <1>2, <1>3, PushKeepsInv

\* Functions that return without calling another.
LEMMA GoesBack ==
  ASSUME ParseInv, status = "parsing", todo # <<>>, Go(<<>>),
         \/ Head(todo).do \in {"end", "stmts", "list", "more", "initializer", "method",
                               "directive_value", "else", "assignment", "question", "operators",
                               "postfix"}
         \/ Head(todo).do = "program" /\ Peek = "eof"
  PROVE  ParseInv'
  <1>. DEFINE x == Head(todo)  q == Tail(todo)
  <1>1. Called(x, q, now)  BY Calls
  <1>2. todo' = q  BY <1>1, Unrolled DEF Go, Then, Called
  <1>3. now.next = Peek  BY NowIs
  <1>4. \/ x.do \in {"end", "stmts", "list", "more", "initializer", "method",
                     "directive_value", "else"}
        \/ x.do \in {"assignment", "question", "operators", "postfix"}
        \/ x.do = "program" /\ Peek = "eof"
    OBVIOUS
  <1>. HIDE DEF x, q
  <1>5. State(now) /\ Awaits(q, x, now) /\ Keeps(now, now, now.len) /\ Ready(x, now)
    BY <1>1 DEF Called
  <1>6. Safe(q, now)  BY <1>3, <1>4, <1>5, Returns, LoopReturns
  <1>7. IsSequence(todo') /\ Stacked(todo', Len(done))  BY <1>1, <1>2, Bases
  <1>. QED  BY <1>2, <1>6, <1>7, GoKeepsInv

LEMMA SkipsBack ==
  ASSUME ParseInv, status = "parsing", todo # <<>>, Skip(<<>>),
         Head(todo).do \in {"consume", "end"}
  PROVE  ParseInv'
  <1>. DEFINE x == Head(todo)  q == Tail(todo)
  <1>1. Called(x, q, now)  BY Calls
  <1>2. todo' = q  BY <1>1, Unrolled DEF Skip, Then, Called
  <1>3. x.do \in {"consume", "end"}  OBVIOUS
  <1>. HIDE DEF x, q
  <1>4. State(now) /\ Awaits(q, x, now)  BY <1>1 DEF Called
  <1>5. \A u : Keeps(now, u, now.len) /\ u.len = now.len => Safe(q, u)
    BY <1>3, <1>4, Returns
  <1>6. IsSequence(todo') /\ Stacked(todo', Len(done))  BY <1>1, <1>2, Bases
  <1>. QED  BY <1>2, <1>5, <1>6, SkipKeepsInv

LEMMA TakesBack ==
  ASSUME ParseInv, status = "parsing", todo # <<>>, Take(<<>>),
         Head(todo).do \in {"name", "element_type", "type", "directive_value"}
  PROVE  ParseInv'
  <1>. DEFINE x == Head(todo)  q == Tail(todo)
  <1>1. Called(x, q, now)  BY Calls
  <1>2. todo' = q  BY <1>1, Unrolled DEF Take, Then, Called
  <1>3. x.do \in {"name", "element_type", "type", "directive_value"}  OBVIOUS
  <1>. HIDE DEF x, q
  <1>4. State(now) /\ Awaits(q, x, now)  BY <1>1 DEF Called
  <1>5. \A u : Keeps(now, u, now.len) /\ u.len = now.len + 1 /\ u.kind[now.len + 1] = "word"
               => Safe(q, u)
    BY <1>3, <1>4, Returns
  <1>6. IsSequence(todo') /\ Stacked(todo', Len(done))  BY <1>1, <1>2, Bases
  <1>. QED  BY <1>2, <1>5, <1>6, TakeKeepsInv

\* An expression as a statement.
LEMMA ExpressionStatement ==
  ASSUME NEW q, IsSequence(q), NEW x, x.do = "stmt", NEW s, State(s), s.room >= 1,
         Awaits(q, x, s), NEW b1, NEW b2
  PROVE  Safe(Cons(Item("expr", "none", b1), Cons(Item("end", "none", b2), q)), s)
  <1>. DEFINE A == Item("expr", "none", b1)  B == Item("end", "none", b2)
  <1>1. ASSUME NEW t1, Goes(A, s, t1), NEW t2, Goes(B, t1, t2) PROVE Safe(q, t2)
    <2>1. /\ State(t2) /\ t2.room >= s.room /\ t2.len = s.len + 1
          /\ Adds(s.len, Expressions, s, t2)
      BY <1>1 DEF Goes, Does, State, Adds, Item, Slack
    <2>2. t2.room + Slack(x) >= s.room  BY <2>1, RoomStays
    <2>3. Adds(s.len, Statements, s, t2)  BY <2>1, KindsOfStatements DEF Adds
    <2>. QED  BY <2>1, <2>2, <2>3 DEF Awaits, Goes, Does
  <1>2. Plain(A) /\ Plain(B)  BY DEF Plain, Item, Closers
  <1>. HIDE DEF A, B
  <1>3. Safe(Cons(A, Cons(B, q)), s)  BY <1>1, <1>2, Plain2
  <1>. QED  BY <1>3 DEF A, B

-----------------------------------------------------------------------------
\* Every step keeps the invariant.
LEMMA ConsumeKeepsInv ==
  ASSUME ParseInv, Consume
  PROVE  ParseInv'
  <1>1. status = "parsing" /\ todo # <<>> /\ Head(todo).do = "consume"
    BY DEF Consume, Doing
  <1>2. Skip(<<>>) \/ Fail("ERR_EXPECTED")  BY DEF Consume
  <1>. QED  BY <1>1, <1>2, SkipsBack, FailKeepsInv DEF Errors

LEMMA ConsumeNameKeepsInv ==
  ASSUME ParseInv, ConsumeName
  PROVE  ParseInv'
  <1>1. status = "parsing" /\ todo # <<>> /\ Head(todo).do = "name"
    BY DEF ConsumeName, Doing
  <1>2. Take(<<>>) \/ Fail("ERR_EXPECTED")  BY DEF ConsumeName
  <1>. QED  BY <1>1, <1>2, TakesBack, FailKeepsInv DEF Errors

LEMMA ConsumeEndOfStatementKeepsInv ==
  ASSUME ParseInv, ConsumeEndOfStatement
  PROVE  ParseInv'
  <1>1. status = "parsing" /\ todo # <<>> /\ Head(todo).do = "end"
    BY Zenon DEF ConsumeEndOfStatement, Doing
  <1>2. Skip(<<>>) \/ Go(<<>>) \/ Fail("ERR_EXPECTED")  BY Zenon DEF ConsumeEndOfStatement
  <1>. QED  BY <1>1, <1>2, SkipsBack, GoesBack, FailKeepsInv DEF Errors

\* What a running function knows.
Frame(x, q, n) ==
  /\ x = Head(todo) /\ q = Tail(todo) /\ n = Len(done) /\ n \in Nat
  /\ Called(x, q, now) /\ IsSequence(q) /\ Stacked(q, n)
  /\ State(now) /\ now.room >= 1 /\ now.len = n /\ now.next = Peek
  /\ Awaits(q, x, now) /\ Ready(x, now) /\ Keeps(now, now, now.len)
  /\ x.base \in Nat /\ x.base <= n /\ Stacked(q, x.base)

LEMMA Framed ==
  ASSUME ParseInv, NEW f, Doing(f)
  PROVE  status = "parsing" /\ todo # <<>> /\ \E x, q, n : x.do = f /\ Frame(x, q, n)
  <1>1. status = "parsing" /\ todo # <<>> /\ Head(todo).do = f  BY DEF Doing
  <1>2. Called(Head(todo), Tail(todo), now)  BY <1>1, Calls
  <1>3. \E x, q : x = Head(todo) /\ q = Tail(todo) /\ Called(x, q, now)  BY <1>2
  <1>4. PICK x, q : x = Head(todo) /\ q = Tail(todo) /\ Called(x, q, now)  BY <1>3
  <1>5. Frame(x, q, Len(done))  BY <1>4, NowIs DEF Frame, Called
  <1>. QED  BY <1>1, <1>4, <1>5

\* The calls that are left when the current one goes on or round its loop.
LEMMA Anew ==
  ASSUME NEW x, NEW q, NEW n, Frame(x, q, n)
  PROVE  /\ Again = x /\ Head(todo) = x /\ Tail(todo) = q /\ todo = Cons(x, q)
         /\ IsSequence(q) /\ Stacked(q, n)
         /\ IsSequence(Cons(x, q)) /\ Stacked(Cons(x, q), n)
         /\ \A k, a : /\ IsSequence(Cons(Item(k, a, x.base), q))
                      /\ Stacked(Cons(Item(k, a, x.base), q), n)
                      /\ IsSequence(Cons(Item(k, a, x.base), Cons(x, q)))
                      /\ Stacked(Cons(Item(k, a, x.base), Cons(x, q)), n)
  BY Bases DEF Frame, Called, Again

\* Items put before others, one at a time.
LEMMA Put1 ==
  \A q, a, r : IsSequence(q) /\ r = <<a>> \o q => r = Cons(a, q)
  <1>. TAKE q, a, r
  <1>. HAVE IsSequence(q) /\ r = <<a>> \o q
  <1>1. <<a>> \o q = Cons(a, q) /\ IsSequence(<<a>>)
    BY Unrolled
  <1>. QED  BY <1>1, Zenon
LEMMA Put2 ==
  \A q, a, b, r : IsSequence(q) /\ r = <<a, b>> \o q => r = Cons(a, Cons(b, q))
  <1>. TAKE q, a, b, r
  <1>. HAVE IsSequence(q) /\ r = <<a, b>> \o q
  <1>1. <<a, b>> \o q = Cons(a, Cons(b, q)) /\ IsSequence(<<a, b>>)
    BY Unrolled
  <1>. QED  BY <1>1, Zenon
LEMMA Put3 ==
  \A q, a, b, c, r : IsSequence(q) /\ r = <<a, b, c>> \o q => r = Cons(a, Cons(b, Cons(c, q)))
  <1>. TAKE q, a, b, c, r
  <1>. HAVE IsSequence(q) /\ r = <<a, b, c>> \o q
  <1>1. <<a, b, c>> \o q = Cons(a, Cons(b, Cons(c, q))) /\ IsSequence(<<a, b, c>>)
    BY Unrolled
  <1>. QED  BY <1>1, Zenon
LEMMA Put4 ==
  \A q, a, b, c, d, r : IsSequence(q) /\ r = <<a, b, c, d>> \o q
    => r = Cons(a, Cons(b, Cons(c, Cons(d, q))))
  <1>. TAKE q, a, b, c, d, r
  <1>. HAVE IsSequence(q) /\ r = <<a, b, c, d>> \o q
  <1>1. <<a, b, c, d>> \o q = Cons(a, Cons(b, Cons(c, Cons(d, q)))) /\ IsSequence(<<a, b, c, d>>)
    BY Unrolled
  <1>. QED  BY <1>1, Zenon
LEMMA Put5 ==
  \A q, a, b, c, d, e, r : IsSequence(q) /\ r = <<a, b, c, d, e>> \o q
    => r = Cons(a, Cons(b, Cons(c, Cons(d, Cons(e, q)))))
  <1>. TAKE q, a, b, c, d, e, r
  <1>. HAVE IsSequence(q) /\ r = <<a, b, c, d, e>> \o q
  <1>1. /\ <<a, b, c, d, e>> \o q = Cons(a, Cons(b, Cons(c, Cons(d, Cons(e, q)))))
        /\ IsSequence(<<a, b, c, d, e>>)
    BY Unrolled
  <1>. QED  BY <1>1, Zenon
LEMMA Put6 ==
  \A q, a, b, c, d, e, f, r : IsSequence(q) /\ r = <<a, b, c, d, e, f>> \o q
    => r = Cons(a, Cons(b, Cons(c, Cons(d, Cons(e, Cons(f, q))))))
  <1>. TAKE q, a, b, c, d, e, f, r
  <1>. HAVE IsSequence(q) /\ r = <<a, b, c, d, e, f>> \o q
  <1>1. /\ <<a, b, c, d, e, f>> \o q = Cons(a, Cons(b, Cons(c, Cons(d, Cons(e, Cons(f, q))))))
        /\ IsSequence(<<a, b, c, d, e, f>>)
    BY Unrolled
  <1>. QED  BY <1>1, Zenon
LEMMA Pair == \A a, b : <<a>> \o <<b>> = <<a, b>>
  BY TupleCons, Zenon DEF Cons

\* The loops over statements.
LEMMA NewlineSkipped ==
  ASSUME ParseInv, NEW f \in {"program", "stmts"}, Doing(f), Skip(<<Again>>)
  PROVE  ParseInv'
  <1>1. PICK x, q, n : x.do = f /\ Frame(x, q, n)  BY Framed
  <1>2. status = "parsing"  BY DEF Doing
  <1>0. IsSequence(q)  BY <1>1 DEF Frame
  <1>3. n \in Nat /\ Len(done) = n /\ now.len = n  BY <1>1 DEF Frame
  <1>. DEFINE r == Cons(x, q)
  <1>4. todo' = <<x>> \o q
    BY <1>1, Anew, Zenon DEF Skip, Then, Frame
  <1>5. todo' = r  BY <1>0, <1>4, Put1, Zenon
  <1>6. IsSequence(r) /\ Stacked(r, n)
    BY <1>1, Anew
  <1>. HIDE DEF r
  <1>7. ASSUME NEW u, Keeps(now, u, now.len), u.len = now.len
        PROVE  Safe(r, u)
    <2>1. (\A i \in now.len + 1 .. u.len : FALSE) /\ u.len >= now.len  BY <1>3, <1>7
    <2>. QED  BY <1>1, <1>7, <2>1, LoopsOn DEF Frame, r
  <1>. QED  BY <1>2, <1>3, <1>5, <1>6, <1>7, SkipKeepsInv

LEMMA StatementCalled ==
  ASSUME ParseInv, NEW f \in {"program", "stmts"}, Doing(f), Go(<<Do("stmt"), Again>>)
  PROVE  ParseInv'
  <1>1. PICK x, q, n : x.do = f /\ Frame(x, q, n)  BY Framed
  <1>2. status = "parsing"  BY DEF Doing
  <1>0. IsSequence(q)  BY <1>1 DEF Frame
  <1>3. n \in Nat /\ Len(done) = n /\ now.len = n  BY <1>1 DEF Frame
  <1>. DEFINE r == Cons(Item("stmt", "none", n), Cons(x, q))
  <1>4. todo' = <<Item("stmt", "none", n), x>> \o q
    BY <1>1, Anew, Zenon DEF Go, Then, Frame, Do
  <1>5. todo' = r  BY <1>0, <1>4, Put2, Zenon
  <1>6. IsSequence(r) /\ Stacked(r, n)
    <2>1. IsSequence(Cons(x, q)) /\ Stacked(Cons(x, q), n)  BY <1>1, Anew
    <2>. QED  BY <1>3, <2>1, Pile1, Zenon
  <1>. HIDE DEF r
  <1>7. Safe(r, now)
    BY <1>1, StatementGoesOn DEF Frame, r
  <1>. QED  BY <1>2, <1>3, <1>5, <1>6, <1>7, GoKeepsInv

LEMMA BlockCalled ==
  ASSUME ParseInv, Doing("block"), Go(<<Eat("{"), Do("stmts"), Eat("}"), Build("block")>>)
  PROVE  ParseInv'
  <1>1. PICK x, q, n : x.do = "block" /\ Frame(x, q, n)  BY Framed
  <1>2. status = "parsing"  BY DEF Doing
  <1>0. IsSequence(q)  BY <1>1 DEF Frame
  <1>3. n \in Nat /\ Len(done) = n /\ now.len = n  BY <1>1 DEF Frame
  <1>. DEFINE r == Cons(Item("consume", "{", n), Cons(Item("stmts", "none", n),
                    Cons(Item("consume", "}", n), Cons(Item("build", "block", n), q))))
  <1>4. todo' = <<Item("consume", "{", n), Item("stmts", "none", n), Item("consume", "}",
                 n), Item("build", "block", n)>> \o q
    BY <1>1, Anew, Zenon DEF Go, Then, Frame, Do, Eat, With, Build
  <1>5. todo' = r  BY <1>0, <1>4, Put4, Zenon
  <1>6. IsSequence(r) /\ Stacked(r, n)
    <2>1. IsSequence(q) /\ Stacked(q, n)  BY <1>1, Anew
    <2>. QED  BY <1>3, <2>1, Pile4, Zenon
  <1>. HIDE DEF r
  <1>7. Safe(r, now)
    <2>1. Ends(now.len, {"block"}, now, q)  BY <1>1, EndsHere DEF Frame
    <2>. QED  BY <1>0, <1>1, <1>3, <2>1, BlockRuns DEF Frame, r
  <1>. QED  BY <1>2, <1>3, <1>5, <1>6, <1>7, GoKeepsInv

\* Types and declarations.
LEMMA VectorTypeCalled ==
  ASSUME ParseInv, Doing("type"), Take(<<Eat("<"), Do("element_type"), Eat(">")>>)
  PROVE  ParseInv'
  <1>1. PICK x, q, n : x.do = "type" /\ Frame(x, q, n)  BY Framed
  <1>2. status = "parsing"  BY DEF Doing
  <1>0. IsSequence(q)  BY <1>1 DEF Frame
  <1>3. n \in Nat /\ Len(done) = n /\ now.len = n  BY <1>1 DEF Frame
  <1>. DEFINE r == Cons(Item("consume", "<", n), Cons(Item("element_type", "none", n),
                    Cons(Item("consume", ">", n), q)))
  <1>4. todo' = <<Item("consume", "<", n), Item("element_type", "none", n), Item("consume",
                 ">", n)>> \o q
    BY <1>1, Anew, Zenon DEF Take, Then, Frame, Do, Eat, With
  <1>5. todo' = r  BY <1>0, <1>4, Put3, Zenon
  <1>6. IsSequence(r) /\ Stacked(r, n)
    <2>1. IsSequence(q) /\ Stacked(q, n)  BY <1>1, Anew
    <2>. QED  BY <1>3, <2>1, Pile3, Zenon
  <1>. HIDE DEF r
  <1>7. ASSUME NEW u, Keeps(now, u, now.len), u.len = now.len + 1,
               u.kind[now.len + 1] = "word"
        PROVE  Safe(r, u)
    BY <1>1, <1>7, VectorTypeGoesOn DEF Frame, r
  <1>. QED  BY <1>2, <1>3, <1>5, <1>6, <1>7, TakeKeepsInv

LEMMA InitializerCalled ==
  ASSUME ParseInv, Doing("initializer"), Skip(<<Do("expr")>>)
  PROVE  ParseInv'
  <1>1. PICK x, q, n : x.do = "initializer" /\ Frame(x, q, n)  BY Framed
  <1>2. status = "parsing"  BY DEF Doing
  <1>0. IsSequence(q)  BY <1>1 DEF Frame
  <1>3. n \in Nat /\ Len(done) = n /\ now.len = n  BY <1>1 DEF Frame
  <1>. DEFINE r == Cons(Item("expr", "none", n), q)
  <1>4. todo' = <<Item("expr", "none", n)>> \o q
    BY <1>1, Anew, Zenon DEF Skip, Then, Frame, Do
  <1>5. todo' = r  BY <1>0, <1>4, Put1, Zenon
  <1>6. IsSequence(r) /\ Stacked(r, n)
    <2>1. IsSequence(q) /\ Stacked(q, n)  BY <1>1, Anew
    <2>. QED  BY <1>3, <2>1, Pile1, Zenon
  <1>. HIDE DEF r
  <1>7. ASSUME NEW u, Keeps(now, u, now.len), u.len = now.len
        PROVE  Safe(r, u)
    <2>1. u.len >= now.len  BY <1>3, <1>7
    <2>2. Item("expr", "none", n).do = "expr"  BY ItemHas
    <2>. QED  BY <1>1, <1>7, <2>1, <2>2, PassesOn DEF Frame, r
  <1>. QED  BY <1>2, <1>3, <1>5, <1>6, <1>7, SkipKeepsInv

LEMMA ReturnTypeCalled ==
  ASSUME ParseInv, Doing("return_type"), Skip(<<Do("type")>>)
  PROVE  ParseInv'
  <1>1. PICK x, q, n : x.do = "return_type" /\ Frame(x, q, n)  BY Framed
  <1>2. status = "parsing"  BY DEF Doing
  <1>0. IsSequence(q)  BY <1>1 DEF Frame
  <1>3. n \in Nat /\ Len(done) = n /\ now.len = n  BY <1>1 DEF Frame
  <1>. DEFINE r == Cons(Item("type", "none", n), q)
  <1>4. todo' = <<Item("type", "none", n)>> \o q
    BY <1>1, Anew, Zenon DEF Skip, Then, Frame, Do
  <1>5. todo' = r  BY <1>0, <1>4, Put1, Zenon
  <1>6. IsSequence(r) /\ Stacked(r, n)
    <2>1. IsSequence(q) /\ Stacked(q, n)  BY <1>1, Anew
    <2>. QED  BY <1>3, <2>1, Pile1, Zenon
  <1>. HIDE DEF r
  <1>7. ASSUME NEW u, Keeps(now, u, now.len), u.len = now.len
        PROVE  Safe(r, u)
    <2>1. u.len >= now.len  BY <1>3, <1>7
    <2>2. Item("type", "none", n).do = "type"  BY ItemHas
    <2>. QED  BY <1>1, <1>7, <2>1, <2>2, PassesOn DEF Frame, r
  <1>. QED  BY <1>2, <1>3, <1>5, <1>6, <1>7, SkipKeepsInv

LEMMA ElseCalled ==
  ASSUME ParseInv, Doing("else"), Skip(<<Do("branch")>>)
  PROVE  ParseInv'
  <1>1. PICK x, q, n : x.do = "else" /\ Frame(x, q, n)  BY Framed
  <1>2. status = "parsing"  BY DEF Doing
  <1>0. IsSequence(q)  BY <1>1 DEF Frame
  <1>3. n \in Nat /\ Len(done) = n /\ now.len = n  BY <1>1 DEF Frame
  <1>. DEFINE r == Cons(Item("branch", "none", n), q)
  <1>4. todo' = <<Item("branch", "none", n)>> \o q
    BY <1>1, Anew, Zenon DEF Skip, Then, Frame, Do
  <1>5. todo' = r  BY <1>0, <1>4, Put1, Zenon
  <1>6. IsSequence(r) /\ Stacked(r, n)
    <2>1. IsSequence(q) /\ Stacked(q, n)  BY <1>1, Anew
    <2>. QED  BY <1>3, <2>1, Pile1, Zenon
  <1>. HIDE DEF r
  <1>7. ASSUME NEW u, Keeps(now, u, now.len), u.len = now.len
        PROVE  Safe(r, u)
    <2>1. u.len >= now.len  BY <1>3, <1>7
    <2>2. Item("branch", "none", n).do = "branch"  BY ItemHas
    <2>. QED  BY <1>1, <1>7, <2>1, <2>2, PassesOn DEF Frame, r
  <1>. QED  BY <1>2, <1>3, <1>5, <1>6, <1>7, SkipKeepsInv

LEMMA OptionalCalled ==
  ASSUME ParseInv, Doing("optional"), Go(<<Do("expr")>>)
  PROVE  ParseInv'
  <1>1. PICK x, q, n : x.do = "optional" /\ Frame(x, q, n)  BY Framed
  <1>2. status = "parsing"  BY DEF Doing
  <1>0. IsSequence(q)  BY <1>1 DEF Frame
  <1>3. n \in Nat /\ Len(done) = n /\ now.len = n  BY <1>1 DEF Frame
  <1>. DEFINE r == Cons(Item("expr", "none", n), q)
  <1>4. todo' = <<Item("expr", "none", n)>> \o q
    BY <1>1, Anew, Zenon DEF Go, Then, Frame, Do
  <1>5. todo' = r  BY <1>0, <1>4, Put1, Zenon
  <1>6. IsSequence(r) /\ Stacked(r, n)
    <2>1. IsSequence(q) /\ Stacked(q, n)  BY <1>1, Anew
    <2>. QED  BY <1>3, <2>1, Pile1, Zenon
  <1>. HIDE DEF r
  <1>7. Safe(r, now)
    <2>1. now.len >= now.len  BY <1>3
    <2>2. Item("expr", "none", n).do = "expr"  BY ItemHas
    <2>. QED  BY <1>1, <2>1, <2>2, PassesOn DEF Frame, r
  <1>. QED  BY <1>2, <1>3, <1>5, <1>6, <1>7, GoKeepsInv

LEMMA BranchCalled ==
  ASSUME ParseInv, Doing("branch"), Go(<<Do("block")>>)
  PROVE  ParseInv'
  <1>1. PICK x, q, n : x.do = "branch" /\ Frame(x, q, n)  BY Framed
  <1>2. status = "parsing"  BY DEF Doing
  <1>0. IsSequence(q)  BY <1>1 DEF Frame
  <1>3. n \in Nat /\ Len(done) = n /\ now.len = n  BY <1>1 DEF Frame
  <1>. DEFINE r == Cons(Item("block", "none", n), q)
  <1>4. todo' = <<Item("block", "none", n)>> \o q
    BY <1>1, Anew, Zenon DEF Go, Then, Frame, Do
  <1>5. todo' = r  BY <1>0, <1>4, Put1, Zenon
  <1>6. IsSequence(r) /\ Stacked(r, n)
    <2>1. IsSequence(q) /\ Stacked(q, n)  BY <1>1, Anew
    <2>. QED  BY <1>3, <2>1, Pile1, Zenon
  <1>. HIDE DEF r
  <1>7. Safe(r, now)
    <2>1. now.len >= now.len  BY <1>3
    <2>2. Item("block", "none", n).do = "block"  BY ItemHas
    <2>. QED  BY <1>1, <2>1, <2>2, PassesOn DEF Frame, r
  <1>. QED  BY <1>2, <1>3, <1>5, <1>6, <1>7, GoKeepsInv

LEMMA DirectiveCalled ==
  ASSUME ParseInv, Doing("directive"), Take(<<Do("directive_value")>>)
  PROVE  ParseInv'
  <1>1. PICK x, q, n : x.do = "directive" /\ Frame(x, q, n)  BY Framed
  <1>2. status = "parsing"  BY DEF Doing
  <1>0. IsSequence(q)  BY <1>1 DEF Frame
  <1>3. n \in Nat /\ Len(done) = n /\ now.len = n  BY <1>1 DEF Frame
  <1>. DEFINE r == Cons(Item("directive_value", "none", n), q)
  <1>4. todo' = <<Item("directive_value", "none", n)>> \o q
    BY <1>1, Anew, Zenon DEF Take, Then, Frame, Do
  <1>5. todo' = r  BY <1>0, <1>4, Put1, Zenon
  <1>6. IsSequence(r) /\ Stacked(r, n)
    <2>1. IsSequence(q) /\ Stacked(q, n)  BY <1>1, Anew
    <2>. QED  BY <1>3, <2>1, Pile1, Zenon
  <1>. HIDE DEF r
  <1>7. ASSUME NEW u, Keeps(now, u, now.len), u.len = now.len + 1,
               u.kind[now.len + 1] = "word"
        PROVE  Safe(r, u)
    <2>1. u.len >= now.len  BY <1>3, <1>7
    <2>2. Item("directive_value", "none", n).do = "directive_value"  BY ItemHas
    <2>. QED  BY <1>1, <1>7, <2>1, <2>2, PassesOn DEF Frame, r
  <1>. QED  BY <1>2, <1>3, <1>5, <1>6, <1>7, TakeKeepsInv

\* Statements.
LEMMA DeclarationCalled ==
  ASSUME ParseInv, Doing("stmt"), Go(Decl)
  PROVE  ParseInv'
  <1>1. PICK x, q, n : x.do = "stmt" /\ Frame(x, q, n)  BY Framed
  <1>2. status = "parsing"  BY DEF Doing
  <1>0. IsSequence(q)  BY <1>1 DEF Frame
  <1>3. n \in Nat /\ Len(done) = n /\ now.len = n  BY <1>1 DEF Frame
  <1>. DEFINE r == Cons(Item("type", "none", n), Cons(Item("name", "none", n),
                    Cons(Item("initializer", "none", n), Cons(Item("end", "none", n),
                    Cons(Item("build", "decl", n), q)))))
  <1>4. todo' = Decl \o q  BY <1>1, Anew, Zenon DEF Go, Then, Frame
  <1>5. todo' = r  BY <1>0, <1>3, <1>4, DeclCons
  <1>6. IsSequence(r) /\ Stacked(r, n)
    <2>1. IsSequence(q) /\ Stacked(q, n)  BY <1>1, Anew
    <2>. QED  BY <1>3, <2>1, Pile5, Zenon
  <1>. HIDE DEF r
  <1>7. Safe(r, now)
    <2>1. Ends(now.len, {"decl"}, now, q)  BY <1>1, EndsHere, KindsOfStatements DEF Frame
    <2>. QED  BY <1>0, <1>1, <1>3, <2>1, DeclRuns DEF Frame, r
  <1>. QED  BY <1>2, <1>3, <1>5, <1>6, <1>7, GoKeepsInv

LEMMA PrintCalled ==
  ASSUME ParseInv, Doing("stmt"), Take(PrintRest)
  PROVE  ParseInv'
  <1>1. PICK x, q, n : x.do = "stmt" /\ Frame(x, q, n)  BY Framed
  <1>2. status = "parsing"  BY DEF Doing
  <1>0. IsSequence(q)  BY <1>1 DEF Frame
  <1>3. n \in Nat /\ Len(done) = n /\ now.len = n  BY <1>1 DEF Frame
  <1>. DEFINE r == Cons(Item("consume", "(", n), Cons(Item("list", "expr", n),
                    Cons(Item("consume", ")", n), Cons(Item("end", "none", n),
                    Cons(Item("build", "print", n), q)))))
  <1>4. todo' = Joined(PrintRest, q)  BY <1>1, Anew, Zenon DEF Take, Then, Joined, Frame
  <1>5. todo' = r  BY <1>0, <1>3, <1>4, RestCons
  <1>6. IsSequence(r) /\ Stacked(r, n)
    <2>1. IsSequence(q) /\ Stacked(q, n)  BY <1>1, Anew
    <2>. QED  BY <1>3, <2>1, Pile5, Zenon
  <1>. HIDE DEF r
  <1>7. ASSUME NEW u, Keeps(now, u, now.len), u.len = now.len + 1,
               u.kind[now.len + 1] = "word"
        PROVE  Safe(r, u)
    <2>1. State(u) /\ u.room >= 1 /\ u.len = n + 1 /\ u.kind[n + 1] = "word"
      BY <1>3, <1>7 DEF Keeps
    <2>2. Ends(n, {"print"}, u, q)  BY <1>1, <1>3, <1>7, EndsHere, KindsOfStatements DEF Frame
    <2>. QED  BY <1>0, <1>3, <2>1, <2>2, PrintRuns DEF r
  <1>. QED  BY <1>2, <1>3, <1>5, <1>6, <1>7, TakeKeepsInv

LEMMA ReadCalled ==
  ASSUME ParseInv, Doing("stmt"), Take(ReadRest)
  PROVE  ParseInv'
  <1>1. PICK x, q, n : x.do = "stmt" /\ Frame(x, q, n)  BY Framed
  <1>2. status = "parsing"  BY DEF Doing
  <1>0. IsSequence(q)  BY <1>1 DEF Frame
  <1>3. n \in Nat /\ Len(done) = n /\ now.len = n  BY <1>1 DEF Frame
  <1>. DEFINE r == Cons(Item("consume", "(", n), Cons(Item("name", "none", n),
                    Cons(Item("consume", ")", n), Cons(Item("end", "none", n),
                    Cons(Item("build", "read", n), q)))))
  <1>4. todo' = Joined(ReadRest, q)  BY <1>1, Anew, Zenon DEF Take, Then, Joined, Frame
  <1>5. todo' = r  BY <1>0, <1>3, <1>4, RestCons
  <1>6. IsSequence(r) /\ Stacked(r, n)
    <2>1. IsSequence(q) /\ Stacked(q, n)  BY <1>1, Anew
    <2>. QED  BY <1>3, <2>1, Pile5, Zenon
  <1>. HIDE DEF r
  <1>7. ASSUME NEW u, Keeps(now, u, now.len), u.len = now.len + 1,
               u.kind[now.len + 1] = "word"
        PROVE  Safe(r, u)
    <2>1. State(u) /\ u.room >= 1 /\ u.len = n + 1 /\ u.kind[n + 1] = "word"
      BY <1>3, <1>7 DEF Keeps
    <2>2. Ends(n, {"read"}, u, q)  BY <1>1, <1>3, <1>7, EndsHere, KindsOfStatements DEF Frame
    <2>. QED  BY <1>0, <1>3, <2>1, <2>2, ReadRuns DEF r
  <1>. QED  BY <1>2, <1>3, <1>5, <1>6, <1>7, TakeKeepsInv

LEMMA IfCalled ==
  ASSUME ParseInv, NEW f \in {"stmt", "branch"}, Doing(f), Take(IfRest)
  PROVE  ParseInv'
  <1>1. PICK x, q, n : x.do = f /\ Frame(x, q, n)  BY Framed
  <1>2. status = "parsing"  BY DEF Doing
  <1>0. IsSequence(q)  BY <1>1 DEF Frame
  <1>3. n \in Nat /\ Len(done) = n /\ now.len = n  BY <1>1 DEF Frame
  <1>. DEFINE r == Cons(Item("consume", "(", n), Cons(Item("expr", "none", n),
                    Cons(Item("consume", ")", n), Cons(Item("block", "none", n),
                    Cons(Item("else", "none", n), Cons(Item("build", "if", n), q))))))
  <1>4. todo' = Joined(IfRest, q)  BY <1>1, Anew, Zenon DEF Take, Then, Joined, Frame
  <1>5. todo' = r  BY <1>0, <1>3, <1>4, RestCons
  <1>6. IsSequence(r) /\ Stacked(r, n)
    <2>1. IsSequence(q) /\ Stacked(q, n)  BY <1>1, Anew
    <2>. QED  BY <1>3, <2>1, Pile6, Zenon
  <1>. HIDE DEF r
  <1>7. ASSUME NEW u, Keeps(now, u, now.len), u.len = now.len + 1,
               u.kind[now.len + 1] = "word"
        PROVE  Safe(r, u)
    <2>1. State(u) /\ u.room >= 1 /\ u.len = n + 1 /\ u.kind[n + 1] = "word"
      BY <1>3, <1>7 DEF Keeps
    <2>2. Ends(n, {"if"}, u, q)  BY <1>1, <1>3, <1>7, EndsHere, KindsOfStatements DEF Frame
    <2>. QED  BY <1>0, <1>3, <2>1, <2>2, IfRuns DEF r
  <1>. QED  BY <1>2, <1>3, <1>5, <1>6, <1>7, TakeKeepsInv

LEMMA WhileCalled ==
  ASSUME ParseInv, Doing("stmt"), Take(WhileRest)
  PROVE  ParseInv'
  <1>1. PICK x, q, n : x.do = "stmt" /\ Frame(x, q, n)  BY Framed
  <1>2. status = "parsing"  BY DEF Doing
  <1>0. IsSequence(q)  BY <1>1 DEF Frame
  <1>3. n \in Nat /\ Len(done) = n /\ now.len = n  BY <1>1 DEF Frame
  <1>. DEFINE r == Cons(Item("consume", "(", n), Cons(Item("expr", "none", n),
                    Cons(Item("consume", ")", n), Cons(Item("block", "none", n),
                    Cons(Item("build", "while", n), q)))))
  <1>4. todo' = Joined(WhileRest, q)  BY <1>1, Anew, Zenon DEF Take, Then, Joined, Frame
  <1>5. todo' = r  BY <1>0, <1>3, <1>4, RestCons
  <1>6. IsSequence(r) /\ Stacked(r, n)
    <2>1. IsSequence(q) /\ Stacked(q, n)  BY <1>1, Anew
    <2>. QED  BY <1>3, <2>1, Pile5, Zenon
  <1>. HIDE DEF r
  <1>7. ASSUME NEW u, Keeps(now, u, now.len), u.len = now.len + 1,
               u.kind[now.len + 1] = "word"
        PROVE  Safe(r, u)
    <2>1. State(u) /\ u.room >= 1 /\ u.len = n + 1 /\ u.kind[n + 1] = "word"
      BY <1>3, <1>7 DEF Keeps
    <2>2. Ends(n, {"while"}, u, q)  BY <1>1, <1>3, <1>7, EndsHere, KindsOfStatements DEF Frame
    <2>. QED  BY <1>0, <1>3, <2>1, <2>2, WhileRuns DEF r
  <1>. QED  BY <1>2, <1>3, <1>5, <1>6, <1>7, TakeKeepsInv

LEMMA ReturnCalled ==
  ASSUME ParseInv, Doing("stmt"), Take(ReturnRest)
  PROVE  ParseInv'
  <1>1. PICK x, q, n : x.do = "stmt" /\ Frame(x, q, n)  BY Framed
  <1>2. status = "parsing"  BY DEF Doing
  <1>0. IsSequence(q)  BY <1>1 DEF Frame
  <1>3. n \in Nat /\ Len(done) = n /\ now.len = n  BY <1>1 DEF Frame
  <1>. DEFINE r == Cons(Item("expr", "none", n), Cons(Item("end", "none", n),
                    Cons(Item("build", "return", n), q)))
  <1>4. todo' = <<Item("expr", "none", n), Item("end", "none", n), Item("build", "return",
                 n)>> \o q
    BY <1>1, Anew, Zenon DEF Take, Then, Frame, ReturnRest, Do, Build
  <1>5. todo' = r  BY <1>0, <1>4, Put3, Zenon
  <1>6. IsSequence(r) /\ Stacked(r, n)
    <2>1. IsSequence(q) /\ Stacked(q, n)  BY <1>1, Anew
    <2>. QED  BY <1>3, <2>1, Pile3, Zenon
  <1>. HIDE DEF r
  <1>7. ASSUME NEW u, Keeps(now, u, now.len), u.len = now.len + 1,
               u.kind[now.len + 1] = "word"
        PROVE  Safe(r, u)
    <2>1. State(u) /\ u.room >= 1 /\ u.len = n + 1 /\ u.kind[n + 1] = "word"
      BY <1>3, <1>7 DEF Keeps
    <2>2. Ends(n, {"return"}, u, q)  BY <1>1, <1>3, <1>7, EndsHere, KindsOfStatements DEF Frame
    <2>. QED  BY <1>0, <1>3, <2>1, <2>2, ReturnRuns DEF r
  <1>. QED  BY <1>2, <1>3, <1>5, <1>6, <1>7, TakeKeepsInv

LEMMA JumpCalled ==
  ASSUME ParseInv, Doing("stmt"), NEW kind \in {"break", "continue"}, Take(<<Do("end"),
         Build(kind)>>)
  PROVE  ParseInv'
  <1>1. PICK x, q, n : x.do = "stmt" /\ Frame(x, q, n)  BY Framed
  <1>2. status = "parsing"  BY DEF Doing
  <1>0. IsSequence(q)  BY <1>1 DEF Frame
  <1>3. n \in Nat /\ Len(done) = n /\ now.len = n  BY <1>1 DEF Frame
  <1>. DEFINE r == Cons(Item("end", "none", n), Cons(Item("build", kind, n), q))
  <1>4. todo' = <<Item("end", "none", n), Item("build", kind, n)>> \o q
    BY <1>1, Anew, Zenon DEF Take, Then, Frame, Do, Build
  <1>5. todo' = r  BY <1>0, <1>4, Put2, Zenon
  <1>6. IsSequence(r) /\ Stacked(r, n)
    <2>1. IsSequence(q) /\ Stacked(q, n)  BY <1>1, Anew
    <2>. QED  BY <1>3, <2>1, Pile2, Zenon
  <1>. HIDE DEF r
  <1>7. ASSUME NEW u, Keeps(now, u, now.len), u.len = now.len + 1,
               u.kind[now.len + 1] = "word"
        PROVE  Safe(r, u)
    <2>1. State(u) /\ u.room >= 1 /\ u.len = n + 1 /\ u.kind[n + 1] = "word"
      BY <1>3, <1>7 DEF Keeps
    <2>2. Ends(n, {kind}, u, q)  BY <1>1, <1>3, <1>7, EndsHere, KindsOfStatements DEF Frame
    <2>. QED  BY <1>0, <1>3, <2>1, <2>2, JumpRuns DEF r
  <1>. QED  BY <1>2, <1>3, <1>5, <1>6, <1>7, TakeKeepsInv

LEMMA DirectiveStatementCalled ==
  ASSUME ParseInv, Doing("stmt"), Take(<<Do("directive"), Build("directive")>>)
  PROVE  ParseInv'
  <1>1. PICK x, q, n : x.do = "stmt" /\ Frame(x, q, n)  BY Framed
  <1>2. status = "parsing"  BY DEF Doing
  <1>0. IsSequence(q)  BY <1>1 DEF Frame
  <1>3. n \in Nat /\ Len(done) = n /\ now.len = n  BY <1>1 DEF Frame
  <1>. DEFINE r == Cons(Item("directive", "none", n),
                    Cons(Item("build", "directive", n), q))
  <1>4. todo' = <<Item("directive", "none", n), Item("build", "directive", n)>> \o q
    BY <1>1, Anew, Zenon DEF Take, Then, Frame, Do, Build
  <1>5. todo' = r  BY <1>0, <1>4, Put2, Zenon
  <1>6. IsSequence(r) /\ Stacked(r, n)
    <2>1. IsSequence(q) /\ Stacked(q, n)  BY <1>1, Anew
    <2>. QED  BY <1>3, <2>1, Pile2, Zenon
  <1>. HIDE DEF r
  <1>7. ASSUME NEW u, Keeps(now, u, now.len), u.len = now.len + 1,
               u.kind[now.len + 1] = "word"
        PROVE  Safe(r, u)
    <2>1. State(u) /\ u.room >= 1 /\ u.len = n + 1 /\ u.kind[n + 1] = "word"
      BY <1>3, <1>7 DEF Keeps
    <2>2. Ends(n, {"directive"}, u, q)  BY <1>1, <1>3, <1>7, EndsHere, KindsOfStatements DEF Frame
    <2>. QED  BY <1>0, <1>3, <2>1, <2>2, DirectiveRuns DEF r
  <1>. QED  BY <1>2, <1>3, <1>5, <1>6, <1>7, TakeKeepsInv

LEMMA ExpressionCalled ==
  ASSUME ParseInv, Doing("stmt"), Go(<<Do("expr"), Do("end")>>)
  PROVE  ParseInv'
  <1>1. PICK x, q, n : x.do = "stmt" /\ Frame(x, q, n)  BY Framed
  <1>2. status = "parsing"  BY DEF Doing
  <1>0. IsSequence(q)  BY <1>1 DEF Frame
  <1>3. n \in Nat /\ Len(done) = n /\ now.len = n  BY <1>1 DEF Frame
  <1>. DEFINE r == Cons(Item("expr", "none", n), Cons(Item("end", "none", n), q))
  <1>4. todo' = <<Item("expr", "none", n), Item("end", "none", n)>> \o q
    BY <1>1, Anew, Zenon DEF Go, Then, Frame, Do
  <1>5. todo' = r  BY <1>0, <1>4, Put2, Zenon
  <1>6. IsSequence(r) /\ Stacked(r, n)
    <2>1. IsSequence(q) /\ Stacked(q, n)  BY <1>1, Anew
    <2>. QED  BY <1>3, <2>1, Pile2, Zenon
  <1>. HIDE DEF r
  <1>7. Safe(r, now)
    BY <1>0, <1>1, ExpressionStatement DEF Frame, r
  <1>. QED  BY <1>2, <1>3, <1>5, <1>6, <1>7, GoKeepsInv

LEMMA ForCalled ==
  ASSUME ParseInv, Doing("stmt"), Peek # "eof", Take(<<Eat("("), Do("for_init")>>)
  PROVE  ParseInv'
  <1>1. PICK x, q, n : x.do = "stmt" /\ Frame(x, q, n)  BY Framed
  <1>2. status = "parsing"  BY DEF Doing
  <1>0. IsSequence(q)  BY <1>1 DEF Frame
  <1>3. n \in Nat /\ Len(done) = n /\ now.len = n  BY <1>1 DEF Frame
  <1>. DEFINE r == Cons(Item("consume", "(", n), Cons(Item("for_init", "none", n), q))
  <1>4. todo' = <<Item("consume", "(", n), Item("for_init", "none", n)>> \o q
    BY <1>1, Anew, Zenon DEF Take, Then, Frame, Do, Eat, With
  <1>5. todo' = r  BY <1>0, <1>4, Put2, Zenon
  <1>6. IsSequence(r) /\ Stacked(r, n)
    <2>1. IsSequence(q) /\ Stacked(q, n)  BY <1>1, Anew
    <2>. QED  BY <1>3, <2>1, Pile2, Zenon
  <1>. HIDE DEF r
  <1>7. ASSUME NEW u, Keeps(now, u, now.len), u.len = now.len + 1,
               u.kind[now.len + 1] = "word",
               u.room >= now.room + 1
        PROVE  Safe(r, u)
    BY <1>0, <1>1, <1>3, <1>7, ForGoesOn DEF Frame, r
  <1>. QED  BY <1>2, <1>3, <1>5, <1>6, <1>7, TakeKeepsInv

\* Comma lists.
LEMMA ElementCalled ==
  ASSUME ParseInv, Doing("list"), NEW kind, kind = Head(todo).arg, kind # "param",
         Go(<<Do("expr")>> \o <<With("more", kind)>>)
  PROVE  ParseInv'
  <1>1. PICK x, q, n : x.do = "list" /\ Frame(x, q, n)  BY Framed
  <1>2. status = "parsing"  BY DEF Doing
  <1>0. IsSequence(q)  BY <1>1 DEF Frame
  <1>3. n \in Nat /\ Len(done) = n /\ now.len = n  BY <1>1 DEF Frame
  <1>. DEFINE r == Cons(Item("expr", "none", n), Cons(Item("more", kind, n), q))
  <1>4. <<Item("expr", "none", n)>> \o <<Item("more", kind, n)>>
          = <<Item("expr", "none", n), Item("more", kind, n)>>
    BY Pair, Zenon
  <1>5. todo' = r
    <2>1. todo' = <<Item("expr", "none", n), Item("more", kind, n)>> \o q
      BY <1>1, <1>4, Anew, Zenon DEF Go, Then, Do, With, Frame
    <2>. QED  BY <1>0, <2>1, Put2, Zenon
  <1>6. IsSequence(r) /\ Stacked(r, n)
    <2>1. IsSequence(q) /\ Stacked(q, n)  BY <1>1, Anew
    <2>. QED  BY <1>3, <2>1, Pile2, Zenon
  <1>. HIDE DEF r
  <1>7. Safe(r, now)
    <2>1. Item("more", kind, n).do = "more" /\ Item("more", kind, n).arg = x.arg
      BY <1>1, Anew, ItemHas
    <2>. QED  BY <1>0, <1>1, <1>3, <2>1, Anew, ElementGoesOn DEF Frame, r
  <1>. QED  BY <1>2, <1>3, <1>5, <1>6, <1>7, GoKeepsInv

LEMMA NextElementCalled ==
  ASSUME ParseInv, Doing("more"), Head(todo).arg # "param", Skip(<<Do("expr")>> \o
         <<Again>>)
  PROVE  ParseInv'
  <1>1. PICK x, q, n : x.do = "more" /\ Frame(x, q, n)  BY Framed
  <1>2. status = "parsing"  BY DEF Doing
  <1>0. IsSequence(q)  BY <1>1 DEF Frame
  <1>3. n \in Nat /\ Len(done) = n /\ now.len = n  BY <1>1 DEF Frame
  <1>. DEFINE r == Cons(Item("expr", "none", n), Cons(x, q))
  <1>4. <<Item("expr", "none", n)>> \o <<x>> = <<Item("expr", "none", n), x>>
    BY Pair, Zenon
  <1>5. todo' = r
    <2>1. todo' = <<Item("expr", "none", n), x>> \o q
      BY <1>1, <1>4, Anew, Zenon DEF Skip, Then, Do, Frame
    <2>. QED  BY <1>0, <2>1, Put2, Zenon
  <1>6. IsSequence(r) /\ Stacked(r, n)
    <2>1. IsSequence(Cons(x, q)) /\ Stacked(Cons(x, q), n)  BY <1>1, Anew
    <2>. QED  BY <1>3, <2>1, Pile1, Zenon
  <1>. HIDE DEF r
  <1>7. ASSUME NEW u, Keeps(now, u, now.len), u.len = now.len
        PROVE  Safe(r, u)
    BY <1>0, <1>1, <1>3, <1>7, Anew, ElementGoesOn DEF Frame, r
  <1>. QED  BY <1>2, <1>3, <1>5, <1>6, <1>7, SkipKeepsInv

LEMMA ParameterCalled ==
  ASSUME ParseInv, Doing("list"), NEW kind, kind = Head(todo).arg, kind = "param", Go(Param
         \o <<With("more", kind)>>)
  PROVE  ParseInv'
  <1>1. PICK x, q, n : x.do = "list" /\ Frame(x, q, n)  BY Framed
  <1>2. status = "parsing"  BY DEF Doing
  <1>0. IsSequence(q)  BY <1>1 DEF Frame
  <1>3. n \in Nat /\ Len(done) = n /\ now.len = n  BY <1>1 DEF Frame
  <1>. DEFINE r == Cons(Item("type", "none", n), Cons(Item("name", "none", n),
                    Cons(Item("build", "decl", n), Cons(Item("more", kind, n), q))))
  <1>4. todo' = (Param \o <<Item("more", kind, n)>>) \o q
    BY <1>1, Anew, Zenon DEF Go, Then, With, Frame
  <1>5. todo' = r
    <2>. DEFINE m == <<Item("more", kind, n)>>
    <2>1. IsSequence(Param) /\ IsSequence(m)  BY <1>0, <1>3, ParamCons, Tuples
    <2>2. m \o q = Cons(Item("more", kind, n), q)  BY <1>0, Unrolled
    <2>. HIDE DEF m
    <2>3. (Param \o m) \o q = Param \o (m \o q)  BY <1>0, <2>1, ConcatAssociates
    <2>7. IsSequence(m \o q)  BY <1>0, <2>1, ConcatLength
    <2>. DEFINE v == m \o q
    <2>4. v = Cons(Item("more", kind, n), q) /\ IsSequence(v)  BY <2>2, <2>7
    <2>5. todo' = Param \o v  BY <1>4, <2>3, Zenon DEF m
    <2>. HIDE DEF v
    <2>6. todo' = Cons(Item("type", "none", n), Cons(Item("name", "none", n),
                  Cons(Item("build", "decl", n), v)))
      BY <1>3, <2>4, <2>5, ParamCons
    <2>. QED  BY <2>4, <2>6, Zenon
  <1>6. IsSequence(r) /\ Stacked(r, n)
    <2>1. IsSequence(q) /\ Stacked(q, n)  BY <1>1, Anew
    <2>. QED  BY <1>3, <2>1, Pile4, Zenon
  <1>. HIDE DEF r
  <1>7. Safe(r, now)
    <2>1. Item("more", kind, n).do = "more" /\ Item("more", kind, n).arg = x.arg
      BY <1>1, Anew, ItemHas
    <2>2. x.arg = "param"  BY <1>1, Anew
    <2>. QED  BY <1>0, <1>1, <1>3, <2>1, <2>2, ParameterGoesOn DEF Frame, r
  <1>. QED  BY <1>2, <1>3, <1>5, <1>6, <1>7, GoKeepsInv

LEMMA NextParameterCalled ==
  ASSUME ParseInv, Doing("more"), Head(todo).arg = "param", Skip(Param \o <<Again>>)
  PROVE  ParseInv'
  <1>1. PICK x, q, n : x.do = "more" /\ Frame(x, q, n)  BY Framed
  <1>2. status = "parsing"  BY DEF Doing
  <1>0. IsSequence(q)  BY <1>1 DEF Frame
  <1>3. n \in Nat /\ Len(done) = n /\ now.len = n  BY <1>1 DEF Frame
  <1>. DEFINE r == Cons(Item("type", "none", n), Cons(Item("name", "none", n),
                    Cons(Item("build", "decl", n), Cons(x, q))))
  <1>4. todo' = (Param \o <<x>>) \o q
    BY <1>1, Anew, Zenon DEF Skip, Then, Frame
  <1>5. todo' = r
    <2>1. IsSequence(Param) /\ IsSequence(<<x>>)  BY <1>0, <1>3, ParamCons, Tuples
    <2>2. <<x>> \o q = Cons(x, q)  BY <1>0, Unrolled
    <2>3. (Param \o <<x>>) \o q = Param \o (<<x>> \o q)  BY <1>0, <2>1, ConcatAssociates
    <2>. DEFINE v == Cons(x, q)
    <2>4. IsSequence(v)  BY <1>1, Anew
    <2>5. todo' = Param \o v  BY <1>4, <2>2, <2>3, Zenon
    <2>. HIDE DEF v
    <2>6. todo' = Cons(Item("type", "none", n), Cons(Item("name", "none", n),
                  Cons(Item("build", "decl", n), v)))
      BY <1>3, <2>4, <2>5, ParamCons
    <2>. QED  BY <2>6, Zenon DEF v
  <1>6. IsSequence(r) /\ Stacked(r, n)
    <2>1. IsSequence(Cons(x, q)) /\ Stacked(Cons(x, q), n)  BY <1>1, Anew
    <2>. QED  BY <1>3, <2>1, Pile3, Zenon
  <1>. HIDE DEF r
  <1>7. ASSUME NEW u, Keeps(now, u, now.len), u.len = now.len
        PROVE  Safe(r, u)
    <2>1. x.arg = "param"  BY <1>1, Anew
    <2>. QED  BY <1>0, <1>1, <1>3, <1>7, <2>1, ParameterGoesOn DEF Frame, r
  <1>. QED  BY <1>2, <1>3, <1>5, <1>6, <1>7, SkipKeepsInv

\* Functions.
LEMMA FunctionCalled ==
  ASSUME ParseInv, Doing("program"), Take(FuncDef \o <<Again>>)
  PROVE  ParseInv'
  <1>1. PICK x, q, n : x.do = "program" /\ Frame(x, q, n)  BY Framed
  <1>2. status = "parsing"  BY DEF Doing
  <1>0. IsSequence(q)  BY <1>1 DEF Frame
  <1>3. n \in Nat /\ Len(done) = n /\ now.len = n  BY <1>1 DEF Frame
  <1>. DEFINE r == Cons(Item("name", "none", n), Cons(Item("consume", "(", n),
                    Cons(Item("list", "param", n), Cons(Item("consume", ")", n),
                    Cons(Item("return_type", "none", n), Cons(Item("block", "none", n),
                    Cons(Item("build", "func", n), Cons(x, q))))))))
  <1>4. todo' = (FuncDef \o <<x>>) \o q
    BY <1>1, Anew, Zenon DEF Take, Then, Frame
  <1>5. todo' = r
    <2>1. IsSequence(FuncDef) /\ IsSequence(<<x>>)
      <3>1. IsSequence(FuncDef)  BY <1>0, <1>3, FuncDefCons
      <3>. QED  BY <3>1, Tuples
    <2>2. <<x>> \o q = Cons(x, q)  BY <1>0, Unrolled
    <2>3. (FuncDef \o <<x>>) \o q = FuncDef \o (<<x>> \o q)  BY <1>0, <2>1, ConcatAssociates
    <2>. DEFINE v == Cons(x, q)
    <2>4. IsSequence(v)  BY <1>1, Anew
    <2>5. todo' = FuncDef \o v  BY <1>4, <2>2, <2>3, Zenon
    <2>. HIDE DEF v
    <2>6. todo' = Cons(Item("name", "none", n), Cons(Item("consume", "(", n),
                  Cons(Item("list", "param", n), Cons(Item("consume", ")", n),
                  Cons(Item("return_type", "none", n), Cons(Item("block", "none", n),
                  Cons(Item("build", "func", n), v)))))))
      BY <1>3, <2>4, <2>5, FuncDefCons
    <2>. QED  BY <2>6, Zenon DEF v
  <1>6. IsSequence(r) /\ Stacked(r, n)
    <2>1. IsSequence(Cons(x, q)) /\ Stacked(Cons(x, q), n)  BY <1>1, Anew
    <2>. QED  BY <1>3, <2>1, Pile7, Zenon
  <1>. HIDE DEF r
  <1>7. ASSUME NEW u, Keeps(now, u, now.len), u.len = now.len + 1,
               u.kind[now.len + 1] = "word"
        PROVE  Safe(r, u)
    <2>1. Ends(n, {"func"}, u, Cons(x, q))  BY <1>1, <1>7, FunctionEnds DEF Frame
    <2>2. State(u) /\ u.room >= 1  BY <1>7 DEF Keeps
    <2>3. u.len = n + 1 /\ u.kind[n + 1] = "word"  BY <1>3, <1>7
    <2>4. IsSequence(Cons(x, q))  BY <1>1, Anew
    <2>. QED  BY <1>3, <2>1, <2>2, <2>3, <2>4, FuncRuns DEF r
  <1>. QED  BY <1>2, <1>3, <1>5, <1>6, <1>7, TakeKeepsInv

LEMMA HeaderRestIs ==
  ASSUME NEW x, NEW q, NEW n, Frame(x, q, n)
  PROVE  /\ IsSequence(ForRest) /\ ForRest \o q = HeaderRest(n, x.base, q)
         /\ IsSequence(HeaderRest(n, x.base, q)) /\ Stacked(HeaderRest(n, x.base, q), n)
  <1>. DEFINE F == Item("build", "for", x.base)
  <1>1. IsSequence(q) /\ n \in Nat /\ n = Len(done) /\ x.base = Head(todo).base
    BY DEF Frame
  <1>2. IsSequence(ForRest) /\ ForRest \o q = HeaderRest(n, x.base, q)
    BY <1>1, ForRestCons
  <1>3. IsSequence(Cons(F, q)) /\ Stacked(Cons(F, q), n)  BY Anew
  <1>. HIDE DEF F
  <1>. DEFINE v == Cons(F, q)
  <1>4. IsSequence(v) /\ Stacked(v, n)  BY <1>3
  <1>. HIDE DEF v
  <1>5. \A a1, a2, a3, a4, a5, f1, f2, f3, f4, f5 :
          /\ IsSequence(Cons(Item(f1, a1, n), Cons(Item(f2, a2, n), Cons(Item(f3, a3, n),
                        Cons(Item(f4, a4, n), Cons(Item(f5, a5, n), v))))))
          /\ Stacked(Cons(Item(f1, a1, n), Cons(Item(f2, a2, n), Cons(Item(f3, a3, n),
                     Cons(Item(f4, a4, n), Cons(Item(f5, a5, n), v))))), n)
    BY <1>1, <1>4, Pile5
  <1>6. IsSequence(HeaderRest(n, x.base, q)) /\ Stacked(HeaderRest(n, x.base, q), n)
    BY <1>5, Zenon DEF HeaderRest, F, v
  <1>. QED  BY <1>2, <1>6

LEMMA HeaderRestRuns ==
  ASSUME NEW x, x.do \in {"for_init", "range?"}, NEW q, NEW n, Frame(x, q, n), NEW u,
         Keeps(now, u, x.base), u.len = x.base + 2, u.kind[x.base + 1] = "word",
         u.kind[x.base + 2] \in Expressions \cup {"decl", "null"}
  PROVE  Safe(HeaderRest(n, x.base, q), u)
  <1>0. State(now) /\ Awaits(q, x, now) /\ x.base \in Nat /\ x.base <= now.len /\ IsSequence(q)
    BY DEF Frame
  <1>1. Ends(x.base, {"for"}, u, q)  BY <1>0, ForEnds, Zenon
  <1>2. State(u) /\ u.room >= 1 /\ IsSequence(q) /\ x.base \in Nat  BY <1>0 DEF Keeps
  <1>3. \A b1, b2, b3, b4, b5, c1, c2, c3, c4 :
          Safe(Cons(Item("optional", c1, b1), Cons(Item("consume", c2, b2),
               Cons(Item("optional", c3, b3), Cons(Item("consume", c4, b4),
               Cons(Item("block", "none", b5), Cons(Item("build", "for", x.base), q)))))), u)
    BY <1>1, <1>2, ForRuns
  <1>. QED  BY <1>3, Zenon DEF HeaderRest

LEMMA HeaderDeclares ==
  ASSUME ParseInv, Doing("for_init"), Go(Decl \o ForRest)
  PROVE  ParseInv'
  <1>1. PICK x, q, n : x.do = "for_init" /\ Frame(x, q, n)  BY Framed
  <1>2. status = "parsing"  BY DEF Doing
  <1>0. IsSequence(q)  BY <1>1 DEF Frame
  <1>3. n \in Nat /\ Len(done) = n /\ now.len = n  BY <1>1 DEF Frame
  <1>. DEFINE r == Cons(Item("type", "none", n), Cons(Item("name", "none", n),
                    Cons(Item("initializer", "none", n), Cons(Item("end", "none", n),
                    Cons(Item("build", "decl", n), HeaderRest(n, x.base, q))))))
  <1>4. todo' = (Decl \o ForRest) \o q  BY <1>1, Anew, Zenon DEF Go, Then, Frame
  <1>5. todo' = r
    <2>1. IsSequence(Decl)  BY <1>0, <1>3, DeclCons
    <2>2. IsSequence(ForRest) /\ ForRest \o q = HeaderRest(n, x.base, q)  BY <1>1, HeaderRestIs
    <2>0. IsSequence(ForRest)  BY <2>2
    <2>3. (Decl \o ForRest) \o q = Decl \o (ForRest \o q)
      BY <1>0, <2>0, <2>1, ConcatAssociates
    <2>. DEFINE v == HeaderRest(n, x.base, q)
    <2>4. IsSequence(v)  BY <1>1, HeaderRestIs
    <2>5. todo' = Decl \o v  BY <1>4, <2>2, <2>3, Zenon
    <2>. HIDE DEF v
    <2>6. todo' = Cons(Item("type", "none", n), Cons(Item("name", "none", n),
                  Cons(Item("initializer", "none", n), Cons(Item("end", "none", n),
                  Cons(Item("build", "decl", n), v)))))
      BY <1>3, <2>4, <2>5, DeclCons
    <2>. QED  BY <2>6, Zenon DEF v
  <1>6. IsSequence(r) /\ Stacked(r, n)
    <2>1. /\ IsSequence(HeaderRest(n, x.base, q))
          /\ Stacked(HeaderRest(n, x.base, q), n)
      BY <1>1, HeaderRestIs
    <2>. QED  BY <1>3, <2>1, Pile5, Zenon
  <1>. HIDE DEF r
  <1>7. Safe(r, now)
    <2>1. x.base + 1 = n /\ now.kind[n] = "word" /\ x.base \in Nat
      BY <1>1, <1>3 DEF Frame, Ready
    <2>. DEFINE v == HeaderRest(n, x.base, q)
    <2>2. ASSUME NEW t, State(t), t.room >= now.room, Adds(now.len, {"decl"}, now, t),
                 t.len = now.len + 1
          PROVE  Safe(v, t)
      <3>1. /\ t.room >= 1 /\ t.len = x.base + 2 /\ \A i \in 1 .. x.base : t.kind[i] = now.kind[i]
            /\ t.kind[x.base + 1] = "word" /\ t.kind[x.base + 2] = "decl"
        BY <1>1, <1>3, <2>1, <2>2 DEF Adds, Frame, State
      <3>2. Keeps(now, t, x.base)  BY <2>2, <3>1 DEF Keeps
      <3>. QED  BY <1>1, <3>1, <3>2, HeaderRestRuns
    <2>3. IsSequence(v)  BY <1>1, HeaderRestIs
    <2>. HIDE DEF v
    <2>4. Ends(now.len, {"decl"}, now, v)  BY <2>2 DEF Ends
    <2>5. Safe(Cons(Item("type", "none", n), Cons(Item("name", "none", n),
               Cons(Item("initializer", "none", n), Cons(Item("end", "none", n),
               Cons(Item("build", "decl", n), v))))), now)
      BY <1>1, <1>3, <2>3, <2>4, DeclRuns DEF Frame
    <2>. QED  BY <2>5, Zenon DEF r, v
  <1>. QED  BY <1>2, <1>3, <1>5, <1>6, <1>7, GoKeepsInv

LEMMA HeaderEmpty ==
  ASSUME ParseInv, Doing("for_init"), Then(ForRest), Advance, Push(Null)
  PROVE  ParseInv'
  <1>1. PICK x, q, n : x.do = "for_init" /\ Frame(x, q, n)  BY Framed
  <1>2. status = "parsing"  BY DEF Doing
  <1>3. n \in Nat /\ Len(done) = n /\ now.len = n  BY <1>1 DEF Frame
  <1>. DEFINE r == HeaderRest(n, x.base, q)
  <1>4. IsSequence(r) /\ Stacked(r, n) /\ ForRest \o q = r  BY <1>1, HeaderRestIs
  <1>5. todo' = r  BY <1>1, <1>4, Anew, Zenon DEF Then
  <1>. HIDE DEF r
  <1>6. Stacked(r, Len(done) + 1)
    <2>1. n + 1 \in Nat /\ n <= n + 1  BY <1>3
    <2>. QED  BY <1>3, <1>4, <2>1, StackedLower
  <1>7. Walks(Null) /\ Null.kind = "null"
    BY LeafWalks DEF Null, Inner, Assignments, Node
  <1>8. ASSUME NEW u, Keeps(now, u, now.len), u.len = now.len + 1, u.kind[now.len + 1] = "null"
        PROVE  Safe(r, u)
    <2>1. x.base + 1 = n /\ now.kind[n] = "word" /\ x.base \in Nat
      BY <1>1, <1>3 DEF Frame, Ready
    <2>2. Keeps(now, u, x.base)  BY <1>3, <1>8, <2>1 DEF Keeps
    <2>3. u.kind[x.base + 1] = "word" /\ u.len = x.base + 2 /\ u.kind[x.base + 2] = "null"
      BY <1>3, <1>8, <2>1 DEF Keeps
    <2>. QED  BY <1>1, <2>2, <2>3, HeaderRestRuns DEF r
  <1>. QED  BY <1>2, <1>4, <1>5, <1>6, <1>7, <1>8, PushKeepsInv

LEMMA HeaderExpression ==
  ASSUME ParseInv, Doing("for_init"), Go(<<Do("expr"), Finish("range?", "none")>>)
  PROVE  ParseInv'
  <1>1. PICK x, q, n : x.do = "for_init" /\ Frame(x, q, n)  BY Framed
  <1>2. status = "parsing"  BY DEF Doing
  <1>0. IsSequence(q)  BY <1>1 DEF Frame
  <1>3. n \in Nat /\ Len(done) = n /\ now.len = n  BY <1>1 DEF Frame
  <1>. DEFINE r == Cons(Item("expr", "none", n), Cons(Item("range?", "none", x.base), q))
  <1>4. todo' = <<Item("expr", "none", n), Item("range?", "none", x.base)>> \o q
    BY <1>1, Anew, Zenon DEF Go, Then, Frame, Do, Finish
  <1>5. todo' = r  BY <1>0, <1>4, Put2, Zenon
  <1>6. IsSequence(r) /\ Stacked(r, n)
    <2>1. /\ IsSequence(Cons(Item("range?", "none", x.base), q))
          /\ Stacked(Cons(Item("range?", "none", x.base), q), n)
      BY <1>1, Anew
    <2>. QED  BY <1>3, <2>1, Pile1, Zenon
  <1>. HIDE DEF r
  <1>7. Safe(r, now)
    BY <1>0, <1>1, <1>3, HeaderGoesOn DEF Frame, r
  <1>. QED  BY <1>2, <1>3, <1>5, <1>6, <1>7, GoKeepsInv

LEMMA RangeCalled ==
  ASSUME ParseInv, Doing("range?"), Skip(<<Do("block"), Finish("build", "range")>>)
  PROVE  ParseInv'
  <1>1. PICK x, q, n : x.do = "range?" /\ Frame(x, q, n)  BY Framed
  <1>2. status = "parsing"  BY DEF Doing
  <1>0. IsSequence(q)  BY <1>1 DEF Frame
  <1>3. n \in Nat /\ Len(done) = n /\ now.len = n  BY <1>1 DEF Frame
  <1>. DEFINE r == Cons(Item("block", "none", n), Cons(Item("build", "range", x.base), q))
  <1>4. todo' = <<Item("block", "none", n), Item("build", "range", x.base)>> \o q
    BY <1>1, Anew, Zenon DEF Skip, Then, Frame, Do, Finish
  <1>5. todo' = r  BY <1>0, <1>4, Put2, Zenon
  <1>6. IsSequence(r) /\ Stacked(r, n)
    <2>1. /\ IsSequence(Cons(Item("build", "range", x.base), q))
          /\ Stacked(Cons(Item("build", "range", x.base), q), n)
      BY <1>1, Anew
    <2>. QED  BY <1>3, <2>1, Pile1, Zenon
  <1>. HIDE DEF r
  <1>7. ASSUME NEW u, Keeps(now, u, now.len), u.len = now.len
        PROVE  Safe(r, u)
    <2>1. /\ x.base \in Nat /\ x.base + 2 = n /\ now.kind[x.base + 1] = "word"
          /\ now.kind[x.base + 2] \in Expressions /\ Slack(x) = 1 /\ now.room >= 2
      BY <1>1, <1>3 DEF Frame, Ready, Slack
    <2>2. /\ u.room >= 2 /\ u.len = x.base + 2 /\ u.kind[x.base + 1] = "word"
          /\ u.kind[x.base + 2] \in Expressions /\ State(u) /\ u.room >= now.room
      BY <1>1, <1>3, <1>7, <2>1 DEF Keeps, Frame, State
    <2>3. ASSUME NEW t, State(t), t.room + 1 >= u.room, Adds(x.base, {"for"}, u, t),
                 t.len = x.base + 1
          PROVE  Safe(q, t)
      <3>1. t.room + 1 >= now.room  BY <1>1, <2>2, <2>3 DEF State, Frame
      <3>2. t.room + Slack(x) >= now.room  BY <2>1, <3>1
      <3>3. Adds(x.base, {"for"}, now, t)
        BY <1>3, <1>7, <2>1, <2>3 DEF Adds, Keeps
      <3>. QED  BY <1>1, <2>3, <3>2, <3>3 DEF Frame, Awaits, Goes, Does
    <2>. QED  BY <1>0, <2>1, <2>2, <2>3, RangeRuns DEF r
  <1>. QED  BY <1>2, <1>3, <1>5, <1>6, <1>7, SkipKeepsInv

LEMMA PutBefore ==
  \A q, a, s, t, r : IsSequence(q) /\ IsSequence(s) /\ s \o q = t /\ r = (<<a>> \o s) \o q
    => r = Cons(a, t)
  <1>. TAKE q, a, s, t, r
  <1>1. ASSUME IsSequence(q), IsSequence(s)
        PROVE  Cons(a, s) \o q = Cons(a, s \o q)
    BY <1>1, ConsConcat
  <1>. QED  BY <1>1, Zenon DEF Cons

LEMMA HeaderConsumes ==
  ASSUME NEW x, x.do = "range?", NEW q, NEW n, Frame(x, q, n), NEW a, a.do = "consume"
  PROVE  Safe(Cons(a, HeaderRest(n, x.base, q)), now)
  <1>. DEFINE v == HeaderRest(n, x.base, q)
  <1>1. IsSequence(v)  BY HeaderRestIs
  <1>2. /\ x.base \in Nat /\ x.base + 2 = n /\ now.kind[x.base + 1] = "word" /\ n = now.len
        /\ now.kind[x.base + 2] \in Expressions /\ now.room >= 1 /\ State(now) /\ now.room \in Int
    BY DEF Frame, Ready, State
  <1>3. ASSUME NEW t, Goes(a, now, t)
        PROVE  Safe(v, t)
    <2>0. Slack(a) = 0  BY DEF Slack
    <2>1. State(t) /\ t.room >= now.room /\ t.room >= 1 /\ Adds(now.len, {}, now, t)
      BY <1>2, <1>3, <2>0 DEF Goes, Does, State
    <2>2. t.len = x.base + 2 /\ \A i \in 1 .. n : t.kind[i] = now.kind[i]
      <3>1. t.len \in Nat /\ now.len \in Nat /\ now.len <= t.len  BY <1>2, <2>1 DEF Adds, State
      <3>2. t.len = now.len
        <4>1. \A i \in now.len + 1 .. t.len : FALSE  BY <2>1 DEF Adds
        <4>. QED  BY <3>1, <4>1
      <3>3. \A i \in 1 .. now.len : t.kind[i] = now.kind[i]  BY <2>1 DEF Adds
      <3>. QED  BY <1>2, <3>2, <3>3
    <2>3. Keeps(now, t, x.base)
      <3>1. \A i \in 1 .. x.base : i \in 1 .. n  BY <1>2
      <3>. QED  BY <2>1, <2>2, <3>1 DEF Keeps
    <2>4. t.kind[x.base + 1] = "word" /\ t.kind[x.base + 2] \in Expressions
      BY <1>2, <2>2
    <2>. QED  BY <2>2, <2>3, <2>4, HeaderRestRuns
  <1>4. Plain(a)  BY DEF Plain, Closers
  <1>. HIDE DEF v
  <1>5. Safe(Cons(a, v), now)  BY <1>1, <1>2, <1>3, <1>4, Plain1
  <1>. QED  BY <1>5 DEF v

LEMMA HeaderGoesThrough ==
  ASSUME ParseInv, Doing("range?"), Go(<<Eat(";")>> \o ForRest)
  PROVE  ParseInv'
  <1>1. PICK x, q, n : x.do = "range?" /\ Frame(x, q, n)  BY Framed
  <1>2. status = "parsing"  BY DEF Doing
  <1>0. IsSequence(q)  BY <1>1 DEF Frame
  <1>3. n \in Nat /\ Len(done) = n /\ now.len = n  BY <1>1 DEF Frame
  <1>. DEFINE r == Cons(Item("consume", ";", n), HeaderRest(n, x.base, q))
  <1>4. todo' = (<<Item("consume", ";", n)>> \o ForRest) \o q
    BY <1>1, Anew, Zenon DEF Go, Then, Eat, With, Frame
  <1>5. todo' = r
    <2>1. IsSequence(ForRest) /\ ForRest \o q = HeaderRest(n, x.base, q)  BY <1>1, HeaderRestIs
    <2>. QED  BY <1>0, <1>4, <2>1, PutBefore, Zenon
  <1>6. IsSequence(r) /\ Stacked(r, n)
    <2>1. /\ IsSequence(HeaderRest(n, x.base, q))
          /\ Stacked(HeaderRest(n, x.base, q), n)
      BY <1>1, HeaderRestIs
    <2>. QED  BY <1>3, <2>1, Pile1, Zenon
  <1>. HIDE DEF r
  <1>7. Safe(r, now)
    <2>1. \A a : a.do = "consume" => Safe(Cons(a, HeaderRest(n, x.base, q)), now)
      BY <1>1, HeaderConsumes
    <2>2. \A c : Item("consume", c, n).do = "consume"  BY ItemHas
    <2>. QED  BY <2>1, <2>2, Zenon DEF r
  <1>. QED  BY <1>2, <1>3, <1>5, <1>6, <1>7, GoKeepsInv

\* Expressions.
LEMMA ExpressionKinds ==
  /\ Assignments \subseteq Expressions /\ Literal \subseteq Expressions
  /\ \A k \in {"ternary", "binary", "unary", "call", "access", "member", "list", "assign",
               "identifier", "char", "string"} :
       k \in Expressions /\ {k} \subseteq Expressions
  BY DEF Expressions, Assignments, Literal

LEMMA Triple == \A a, b, c : <<a, b>> \o <<c>> = <<a, b, c>>
  <1>. TAKE a, b, c
  <1>1. IsSequence(<<c>>)  BY Tuples
  <1>2. \A r : r = <<a, b>> \o <<c>> => r = Cons(a, Cons(b, <<c>>))  BY <1>1, Put2, Zenon
  <1>3. Cons(a, Cons(b, <<c>>)) = <<a, b, c>>
    <2>1. <<a, b, c>> = Cons(a, <<b, c>>)  BY TupleCons, Zenon
    <2>2. <<b, c>> = Cons(b, <<c>>)  BY TupleCons, Zenon
    <2>. QED  BY <2>1, <2>2, Zenon
  <1>. QED  BY <1>2, <1>3, Zenon

LEMMA AssignmentCalled ==
  ASSUME ParseInv, Doing("expr"), Go(<<Do("ternary"), Do("assignment")>>)
  PROVE  ParseInv'
  <1>1. PICK x, q, n : x.do = "expr" /\ Frame(x, q, n)  BY Framed
  <1>2. status = "parsing"  BY DEF Doing
  <1>0. IsSequence(q)  BY <1>1 DEF Frame
  <1>3. n \in Nat /\ Len(done) = n /\ now.len = n  BY <1>1 DEF Frame
  <1>. DEFINE r == Cons(Item("ternary", "none", n), Cons(Item("assignment", "none", n), q))
  <1>4. todo' = <<Item("ternary", "none", n), Item("assignment", "none", n)>> \o q
    BY <1>1, Anew, Zenon DEF Go, Then, Frame, Do
  <1>5. todo' = r  BY <1>0, <1>4, Put2, Zenon
  <1>6. IsSequence(r) /\ Stacked(r, n)
    <2>1. IsSequence(q) /\ Stacked(q, n)  BY <1>1, Anew
    <2>. QED  BY <1>3, <2>1, Pile2, Zenon
  <1>. HIDE DEF r
  <1>7. Safe(r, now)
    <2>1. /\ Item("ternary", "none", n).do = "ternary" /\ Item("assignment", "none", n).do = "assignment"
          /\ Item("assignment", "none", n).base = now.len
      BY <1>3, ItemHas
    <2>2. x.do \in Operands /\ "ternary" \in Operands  BY <1>1 DEF Operands
    <2>. QED  BY <1>0, <1>1, <2>1, <2>2, OperandGoesOn DEF Frame, r
  <1>. QED  BY <1>2, <1>3, <1>5, <1>6, <1>7, GoKeepsInv

LEMMA PostfixCalled ==
  ASSUME ParseInv, NEW f \in {"call", "unary"}, Doing(f), Go(<<Do("primary"),
         Do("postfix")>>)
  PROVE  ParseInv'
  <1>1. PICK x, q, n : x.do = f /\ Frame(x, q, n)  BY Framed
  <1>2. status = "parsing"  BY DEF Doing
  <1>0. IsSequence(q)  BY <1>1 DEF Frame
  <1>3. n \in Nat /\ Len(done) = n /\ now.len = n  BY <1>1 DEF Frame
  <1>. DEFINE r == Cons(Item("primary", "none", n), Cons(Item("postfix", "none", n), q))
  <1>4. todo' = <<Item("primary", "none", n), Item("postfix", "none", n)>> \o q
    BY <1>1, Anew, Zenon DEF Go, Then, Frame, Do
  <1>5. todo' = r  BY <1>0, <1>4, Put2, Zenon
  <1>6. IsSequence(r) /\ Stacked(r, n)
    <2>1. IsSequence(q) /\ Stacked(q, n)  BY <1>1, Anew
    <2>. QED  BY <1>3, <2>1, Pile2, Zenon
  <1>. HIDE DEF r
  <1>7. Safe(r, now)
    <2>1. /\ Item("primary", "none", n).do = "primary" /\ Item("postfix", "none", n).do = "postfix"
          /\ Item("postfix", "none", n).base = now.len
      BY <1>3, ItemHas
    <2>2. x.do \in Operands /\ "primary" \in Operands  BY <1>1 DEF Operands
    <2>. QED  BY <1>0, <1>1, <2>1, <2>2, OperandGoesOn DEF Frame, r
  <1>. QED  BY <1>2, <1>3, <1>5, <1>6, <1>7, GoKeepsInv

LEMMA ChainCalled ==
  ASSUME ParseInv, Doing("operand"), Go(Chain(Head(todo).arg))
  PROVE  ParseInv'
  <1>1. PICK x, q, n : x.do = "operand" /\ Frame(x, q, n)  BY Framed
  <1>2. status = "parsing"  BY DEF Doing
  <1>0. IsSequence(q)  BY <1>1 DEF Frame
  <1>3. n \in Nat /\ Len(done) = n /\ now.len = n  BY <1>1 DEF Frame
  <1>. DEFINE r == Cons(Item("unary", "none", n), Cons(Item("operators", x.arg, n), q))
  <1>4. todo' = <<Item("unary", "none", n), Item("operators", x.arg, n)>> \o q
    BY <1>1, Anew, Zenon DEF Go, Then, Frame, Chain, Do, With
  <1>5. todo' = r  BY <1>0, <1>4, Put2, Zenon
  <1>6. IsSequence(r) /\ Stacked(r, n)
    <2>1. IsSequence(q) /\ Stacked(q, n)  BY <1>1, Anew
    <2>. QED  BY <1>3, <2>1, Pile2, Zenon
  <1>. HIDE DEF r
  <1>7. Safe(r, now)
    <2>1. /\ Item("unary", "none", n).do = "unary"
          /\ Item("operators", x.arg, n).do = "operators" /\ Item("operators", x.arg, n).base = now.len
      BY <1>3, ItemHas
    <2>2. x.do \in Operands /\ "unary" \in Operands  BY <1>1 DEF Operands
    <2>. QED  BY <1>0, <1>1, <2>1, <2>2, OperandGoesOn DEF Frame, r
  <1>. QED  BY <1>2, <1>3, <1>5, <1>6, <1>7, GoKeepsInv

LEMMA TernaryCalled ==
  ASSUME ParseInv, Doing("ternary"), Go(Chain(1) \o <<Do("question")>>)
  PROVE  ParseInv'
  <1>1. PICK x, q, n : x.do = "ternary" /\ Frame(x, q, n)  BY Framed
  <1>2. status = "parsing"  BY DEF Doing
  <1>0. IsSequence(q)  BY <1>1 DEF Frame
  <1>3. n \in Nat /\ Len(done) = n /\ now.len = n  BY <1>1 DEF Frame
  <1>. DEFINE r == Cons(Item("unary", "none", n), Cons(Item("operators", 1, n),
                    Cons(Item("question", "none", n), q)))
  <1>4. <<Item("unary", "none", n), Item("operators", 1, n)>> \o <<Item("question", "none", n)>>
          = <<Item("unary", "none", n), Item("operators", 1, n), Item("question", "none", n)>>
    BY Triple, Zenon
  <1>5. todo' = r
    <2>1. todo' = <<Item("unary", "none", n), Item("operators", 1, n), Item("question", "none", n)>> \o q
      BY <1>1, <1>4, Anew, Zenon DEF Go, Then, Chain, Do, With, Frame
    <2>. QED  BY <1>0, <2>1, Put3, Zenon
  <1>6. IsSequence(r) /\ Stacked(r, n)
    <2>1. IsSequence(q) /\ Stacked(q, n)  BY <1>1, Anew
    <2>. QED  BY <1>3, <2>1, Pile3, Zenon
  <1>. HIDE DEF r
  <1>7. Safe(r, now)
    <2>1. /\ Item("unary", "none", n).do = "unary"
          /\ Item("operators", 1, n).do = "operators" /\ Item("operators", 1, n).base = now.len
          /\ Item("question", "none", n).do = "question" /\ Item("question", "none", n).base = now.len
      BY <1>3, ItemHas
    <2>. QED  BY <1>0, <1>1, <2>1, TernaryGoesOn DEF Frame, r
  <1>. QED  BY <1>2, <1>3, <1>5, <1>6, <1>7, GoKeepsInv

LEMMA ValueCalled ==
  ASSUME ParseInv, Doing("assignment"), NEW kind \in {"assign", "compound"},
         Take(<<Do("expr"), Finish("build", kind)>>)
  PROVE  ParseInv'
  <1>1. PICK x, q, n : x.do = "assignment" /\ Frame(x, q, n)  BY Framed
  <1>2. status = "parsing"  BY DEF Doing
  <1>0. IsSequence(q)  BY <1>1 DEF Frame
  <1>3. n \in Nat /\ Len(done) = n /\ now.len = n  BY <1>1 DEF Frame
  <1>. DEFINE r == Cons(Item("expr", "none", n), Cons(Item("build", kind, x.base), q))
  <1>4. todo' = <<Item("expr", "none", n), Item("build", kind, x.base)>> \o q
    BY <1>1, Anew, Zenon DEF Take, Then, Frame, Do, Finish
  <1>5. todo' = r  BY <1>0, <1>4, Put2, Zenon
  <1>6. IsSequence(r) /\ Stacked(r, n)
    <2>1. /\ IsSequence(Cons(Item("build", kind, x.base), q))
          /\ Stacked(Cons(Item("build", kind, x.base), q), n)
      BY <1>1, Anew
    <2>. QED  BY <1>3, <2>1, Pile1, Zenon
  <1>. HIDE DEF r
  <1>7. ASSUME NEW u, Keeps(now, u, now.len), u.len = now.len + 1,
               u.kind[now.len + 1] = "word"
        PROVE  Safe(r, u)
    <2>1. /\ x.base \in Nat /\ x.base + 1 = n /\ now.kind[x.base + 1] \in Expressions
          /\ x.base <= now.len
      BY <1>1, <1>3 DEF Frame, Ready
    <2>2. u.len = x.base + 2 /\ u.kind[x.base + 1] \in Expressions /\ u.kind[x.base + 2] = "word"
      BY <1>3, <1>7, <2>1 DEF Keeps
    <2>3. State(u) /\ u.room >= 1 /\ Keeps(now, u, x.base)
      BY <1>3, <1>7, <2>1 DEF Keeps
    <2>4. Ends(x.base, Assignments, u, q)
      BY <1>1, <2>1, <2>3, EndsAbove, ExpressionKinds DEF Frame
    <2>. QED  BY <1>0, <2>1, <2>2, <2>3, <2>4, AssignRuns DEF r
  <1>. QED  BY <1>2, <1>3, <1>5, <1>6, <1>7, TakeKeepsInv

LEMMA ChoiceCalled ==
  ASSUME ParseInv, Doing("question"), Take(<<Do("ternary"), Eat(":"), Do("ternary"),
         Finish("build", "ternary")>>)
  PROVE  ParseInv'
  <1>1. PICK x, q, n : x.do = "question" /\ Frame(x, q, n)  BY Framed
  <1>2. status = "parsing"  BY DEF Doing
  <1>0. IsSequence(q)  BY <1>1 DEF Frame
  <1>3. n \in Nat /\ Len(done) = n /\ now.len = n  BY <1>1 DEF Frame
  <1>. DEFINE r == Cons(Item("ternary", "none", n), Cons(Item("consume", ":", n),
                    Cons(Item("ternary", "none", n),
                    Cons(Item("build", "ternary", x.base), q))))
  <1>4. todo' = <<Item("ternary", "none", n), Item("consume", ":", n), Item("ternary",
                 "none", n), Item("build", "ternary", x.base)>> \o q
    BY <1>1, Anew, Zenon DEF Take, Then, Frame, Do, Eat, With, Finish
  <1>5. todo' = r  BY <1>0, <1>4, Put4, Zenon
  <1>6. IsSequence(r) /\ Stacked(r, n)
    <2>1. /\ IsSequence(Cons(Item("build", "ternary", x.base), q))
          /\ Stacked(Cons(Item("build", "ternary", x.base), q), n)
      BY <1>1, Anew
    <2>. QED  BY <1>3, <2>1, Pile3, Zenon
  <1>. HIDE DEF r
  <1>7. ASSUME NEW u, Keeps(now, u, now.len), u.len = now.len + 1,
               u.kind[now.len + 1] = "word"
        PROVE  Safe(r, u)
    <2>1. /\ x.base \in Nat /\ x.base + 1 = n /\ now.kind[x.base + 1] \in Expressions
          /\ x.base <= now.len
      BY <1>1, <1>3 DEF Frame, Ready
    <2>2. u.len = x.base + 2 /\ u.kind[x.base + 1] \in Expressions /\ u.kind[x.base + 2] = "word"
      BY <1>3, <1>7, <2>1 DEF Keeps
    <2>3. State(u) /\ u.room >= 1 /\ Keeps(now, u, x.base)
      BY <1>3, <1>7, <2>1 DEF Keeps
    <2>4. Ends(x.base, {"ternary"}, u, q)
      BY <1>1, <2>1, <2>3, EndsAbove, ExpressionKinds DEF Frame
    <2>. QED  BY <1>0, <2>1, <2>2, <2>3, <2>4, TernaryRuns DEF r
  <1>. QED  BY <1>2, <1>3, <1>5, <1>6, <1>7, TakeKeepsInv

LEMMA FactorCalled ==
  ASSUME ParseInv, Doing("operators"), NEW level, level = 6, Take(<<RightOperand(level),
         Finish("build", "binary"), Again>>)
  PROVE  ParseInv'
  <1>1. PICK x, q, n : x.do = "operators" /\ Frame(x, q, n)  BY Framed
  <1>2. status = "parsing"  BY DEF Doing
  <1>0. IsSequence(q)  BY <1>1 DEF Frame
  <1>3. n \in Nat /\ Len(done) = n /\ now.len = n  BY <1>1 DEF Frame
  <1>. DEFINE r == Cons(Item("call", "none", n),
                    Cons(Item("build", "binary", x.base), Cons(x, q)))
  <1>4. todo' = <<Item("call", "none", n), Item("build", "binary", x.base), x>> \o q
    BY <1>1, Anew, Zenon DEF Take, Then, Frame, RightOperand, Do, With, Finish
  <1>5. todo' = r  BY <1>0, <1>4, Put3, Zenon
  <1>6. IsSequence(r) /\ Stacked(r, n)
    <2>1. /\ IsSequence(Cons(Item("build", "binary", x.base), Cons(x, q)))
          /\ Stacked(Cons(Item("build", "binary", x.base), Cons(x, q)), n)
      BY <1>1, Anew
    <2>. QED  BY <1>3, <2>1, Pile1, Zenon
  <1>. HIDE DEF r
  <1>7. ASSUME NEW u, Keeps(now, u, now.len), u.len = now.len + 1,
               u.kind[now.len + 1] = "word"
        PROVE  Safe(r, u)
    <2>1. /\ x.base \in Nat /\ x.base + 1 = n /\ now.kind[x.base + 1] \in Expressions
          /\ x.base <= now.len
      BY <1>1, <1>3 DEF Frame, Ready
    <2>2. u.len = x.base + 2 /\ u.kind[x.base + 1] \in Expressions /\ u.kind[x.base + 2] = "word"
      BY <1>3, <1>7, <2>1 DEF Keeps
    <2>3. State(u) /\ u.room >= 1 /\ Keeps(now, u, x.base)
      BY <1>3, <1>7, <2>1 DEF Keeps
    <2>4. Ends(x.base, {"binary"}, u, Cons(x, q))
      BY <1>1, <2>1, <2>3, EndsLoop, ExpressionKinds DEF Frame
    <2>5. IsSequence(Cons(x, q))  BY <1>1, Anew
    <2>. QED  BY <2>1, <2>2, <2>3, <2>4, <2>5, FactorRuns DEF r
  <1>. QED  BY <1>2, <1>3, <1>5, <1>6, <1>7, TakeKeepsInv

LEMMA TermCalled ==
  ASSUME ParseInv, Doing("operators"), NEW level, level # 6, Take(<<RightOperand(level),
         Finish("build", "binary"), Again>>)
  PROVE  ParseInv'
  <1>1. PICK x, q, n : x.do = "operators" /\ Frame(x, q, n)  BY Framed
  <1>2. status = "parsing"  BY DEF Doing
  <1>0. IsSequence(q)  BY <1>1 DEF Frame
  <1>3. n \in Nat /\ Len(done) = n /\ now.len = n  BY <1>1 DEF Frame
  <1>. DEFINE r == Cons(Item("operand", level + 1, n),
                    Cons(Item("build", "binary", x.base), Cons(x, q)))
  <1>4. todo' = <<Item("operand", level + 1, n), Item("build", "binary", x.base), x>> \o q
    BY <1>1, Anew, Zenon DEF Take, Then, Frame, RightOperand, Do, With, Finish
  <1>5. todo' = r  BY <1>0, <1>4, Put3, Zenon
  <1>6. IsSequence(r) /\ Stacked(r, n)
    <2>1. /\ IsSequence(Cons(Item("build", "binary", x.base), Cons(x, q)))
          /\ Stacked(Cons(Item("build", "binary", x.base), Cons(x, q)), n)
      BY <1>1, Anew
    <2>. QED  BY <1>3, <2>1, Pile1, Zenon
  <1>. HIDE DEF r
  <1>7. ASSUME NEW u, Keeps(now, u, now.len), u.len = now.len + 1,
               u.kind[now.len + 1] = "word"
        PROVE  Safe(r, u)
    <2>1. /\ x.base \in Nat /\ x.base + 1 = n /\ now.kind[x.base + 1] \in Expressions
          /\ x.base <= now.len
      BY <1>1, <1>3 DEF Frame, Ready
    <2>2. u.len = x.base + 2 /\ u.kind[x.base + 1] \in Expressions /\ u.kind[x.base + 2] = "word"
      BY <1>3, <1>7, <2>1 DEF Keeps
    <2>3. State(u) /\ u.room >= 1 /\ Keeps(now, u, x.base)
      BY <1>3, <1>7, <2>1 DEF Keeps
    <2>4. Ends(x.base, {"binary"}, u, Cons(x, q))
      BY <1>1, <2>1, <2>3, EndsLoop, ExpressionKinds DEF Frame
    <2>5. IsSequence(Cons(x, q))  BY <1>1, Anew
    <2>. QED  BY <2>1, <2>2, <2>3, <2>4, <2>5, TermRuns DEF r
  <1>. QED  BY <1>2, <1>3, <1>5, <1>6, <1>7, TakeKeepsInv

LEMMA UnaryCalled ==
  ASSUME ParseInv, Doing("unary"), Take(<<Do("unary"), Build("unary")>>)
  PROVE  ParseInv'
  <1>1. PICK x, q, n : x.do = "unary" /\ Frame(x, q, n)  BY Framed
  <1>2. status = "parsing"  BY DEF Doing
  <1>0. IsSequence(q)  BY <1>1 DEF Frame
  <1>3. n \in Nat /\ Len(done) = n /\ now.len = n  BY <1>1 DEF Frame
  <1>. DEFINE r == Cons(Item("unary", "none", n), Cons(Item("build", "unary", n), q))
  <1>4. todo' = <<Item("unary", "none", n), Item("build", "unary", n)>> \o q
    BY <1>1, Anew, Zenon DEF Take, Then, Frame, Do, Build
  <1>5. todo' = r  BY <1>0, <1>4, Put2, Zenon
  <1>6. IsSequence(r) /\ Stacked(r, n)
    <2>1. IsSequence(q) /\ Stacked(q, n)  BY <1>1, Anew
    <2>. QED  BY <1>3, <2>1, Pile2, Zenon
  <1>. HIDE DEF r
  <1>7. ASSUME NEW u, Keeps(now, u, now.len), u.len = now.len + 1,
               u.kind[now.len + 1] = "word"
        PROVE  Safe(r, u)
    <2>1. State(u) /\ u.room >= 1 /\ u.len = n + 1 /\ u.kind[n + 1] = "word"
      BY <1>3, <1>7 DEF Keeps
    <2>2. x.do \in Operands  BY <1>1 DEF Operands
    <2>3. Ends(n, {"unary"}, u, q)
      BY <1>1, <1>3, <1>7, <2>2, EndsHere, ExpressionKinds DEF Frame
    <2>. QED  BY <1>0, <1>3, <2>1, <2>3, UnaryRuns DEF r
  <1>. QED  BY <1>2, <1>3, <1>5, <1>6, <1>7, TakeKeepsInv

LEMMA IndexCalled ==
  ASSUME ParseInv, Doing("postfix"), Skip(<<Do("expr"), Eat("]"), Finish("build", "access"),
         Again>>)
  PROVE  ParseInv'
  <1>1. PICK x, q, n : x.do = "postfix" /\ Frame(x, q, n)  BY Framed
  <1>2. status = "parsing"  BY DEF Doing
  <1>0. IsSequence(q)  BY <1>1 DEF Frame
  <1>3. n \in Nat /\ Len(done) = n /\ now.len = n  BY <1>1 DEF Frame
  <1>. DEFINE r == Cons(Item("expr", "none", n), Cons(Item("consume", "]", n),
                    Cons(Item("build", "access", x.base), Cons(x, q))))
  <1>4. todo' = <<Item("expr", "none", n), Item("consume", "]", n), Item("build", "access",
                 x.base), x>> \o q
    BY <1>1, Anew, Zenon DEF Skip, Then, Frame, Do, Eat, With, Finish
  <1>5. todo' = r  BY <1>0, <1>4, Put4, Zenon
  <1>6. IsSequence(r) /\ Stacked(r, n)
    <2>1. /\ IsSequence(Cons(Item("build", "access", x.base), Cons(x, q)))
          /\ Stacked(Cons(Item("build", "access", x.base), Cons(x, q)), n)
      BY <1>1, Anew
    <2>. QED  BY <1>3, <2>1, Pile2, Zenon
  <1>. HIDE DEF r
  <1>7. ASSUME NEW u, Keeps(now, u, now.len), u.len = now.len
        PROVE  Safe(r, u)
    <2>1. /\ x.base \in Nat /\ x.base + 1 = n /\ now.kind[x.base + 1] \in Expressions
          /\ x.base <= now.len
      BY <1>1, <1>3 DEF Frame, Ready
    <2>2. u.len = x.base + 1 /\ u.kind[x.base + 1] \in Expressions
      BY <1>3, <1>7, <2>1 DEF Keeps
    <2>3. State(u) /\ u.room >= 1 /\ Keeps(now, u, x.base)
      BY <1>3, <1>7, <2>1 DEF Keeps
    <2>4. Ends(x.base, {"access"}, u, Cons(x, q))
      BY <1>1, <2>1, <2>3, EndsLoop, ExpressionKinds DEF Frame
    <2>5. IsSequence(Cons(x, q))  BY <1>1, Anew
    <2>. QED  BY <2>1, <2>2, <2>3, <2>4, <2>5, AccessRuns DEF r
  <1>. QED  BY <1>2, <1>3, <1>5, <1>6, <1>7, SkipKeepsInv

LEMMA MemberCalled ==
  ASSUME ParseInv, Doing("postfix"), Skip(<<Do("name"), Do("method"), Finish("build",
         "member"), Again>>)
  PROVE  ParseInv'
  <1>1. PICK x, q, n : x.do = "postfix" /\ Frame(x, q, n)  BY Framed
  <1>2. status = "parsing"  BY DEF Doing
  <1>0. IsSequence(q)  BY <1>1 DEF Frame
  <1>3. n \in Nat /\ Len(done) = n /\ now.len = n  BY <1>1 DEF Frame
  <1>. DEFINE r == Cons(Item("name", "none", n), Cons(Item("method", "none", n),
                    Cons(Item("build", "member", x.base), Cons(x, q))))
  <1>4. todo' = <<Item("name", "none", n), Item("method", "none", n), Item("build",
                 "member", x.base), x>> \o q
    BY <1>1, Anew, Zenon DEF Skip, Then, Frame, Do, Finish
  <1>5. todo' = r  BY <1>0, <1>4, Put4, Zenon
  <1>6. IsSequence(r) /\ Stacked(r, n)
    <2>1. /\ IsSequence(Cons(Item("build", "member", x.base), Cons(x, q)))
          /\ Stacked(Cons(Item("build", "member", x.base), Cons(x, q)), n)
      BY <1>1, Anew
    <2>. QED  BY <1>3, <2>1, Pile2, Zenon
  <1>. HIDE DEF r
  <1>7. ASSUME NEW u, Keeps(now, u, now.len), u.len = now.len
        PROVE  Safe(r, u)
    <2>1. /\ x.base \in Nat /\ x.base + 1 = n /\ now.kind[x.base + 1] \in Expressions
          /\ x.base <= now.len
      BY <1>1, <1>3 DEF Frame, Ready
    <2>2. u.len = x.base + 1 /\ u.kind[x.base + 1] \in Expressions
      BY <1>3, <1>7, <2>1 DEF Keeps
    <2>3. State(u) /\ u.room >= 1 /\ Keeps(now, u, x.base)
      BY <1>3, <1>7, <2>1 DEF Keeps
    <2>4. Ends(x.base, {"member"}, u, Cons(x, q))
      BY <1>1, <2>1, <2>3, EndsLoop, ExpressionKinds DEF Frame
    <2>5. IsSequence(Cons(x, q))  BY <1>1, Anew
    <2>. QED  BY <2>1, <2>2, <2>3, <2>4, <2>5, MemberRuns DEF r
  <1>. QED  BY <1>2, <1>3, <1>5, <1>6, <1>7, SkipKeepsInv

LEMMA ArgumentsCalled ==
  ASSUME ParseInv, Doing("method"), Go(Parens(<<With("list", "arg")>>))
  PROVE  ParseInv'
  <1>1. PICK x, q, n : x.do = "method" /\ Frame(x, q, n)  BY Framed
  <1>2. status = "parsing"  BY DEF Doing
  <1>0. IsSequence(q)  BY <1>1 DEF Frame
  <1>3. n \in Nat /\ Len(done) = n /\ now.len = n  BY <1>1 DEF Frame
  <1>. DEFINE r == Cons(Item("consume", "(", n), Cons(Item("list", "arg", n),
                    Cons(Item("consume", ")", n), q)))
  <1>4. todo' = Parens(<<With("list", "arg")>>) \o q  BY <1>1, Anew, Zenon DEF Go, Then, Frame
  <1>5. todo' = r
    <2>1. todo' = Cons(Eat("("), Cons(With("list", "arg"), Cons(Eat(")"), q)))
      BY <1>0, <1>4, ParensCons
    <2>. QED  BY <1>3, <2>1, Zenon DEF Eat, With, Do
  <1>6. IsSequence(r) /\ Stacked(r, n)
    <2>1. IsSequence(q) /\ Stacked(q, n)  BY <1>1, Anew
    <2>. QED  BY <1>3, <2>1, Pile3, Zenon
  <1>. HIDE DEF r
  <1>7. Safe(r, now)
    BY <1>0, <1>1, MethodGoesOn DEF Frame, r
  <1>. QED  BY <1>2, <1>3, <1>5, <1>6, <1>7, GoKeepsInv

LEMMA GroupCalled ==
  ASSUME ParseInv, Doing("primary"), Go(Parens(<<Do("expr")>>))
  PROVE  ParseInv'
  <1>1. PICK x, q, n : x.do = "primary" /\ Frame(x, q, n)  BY Framed
  <1>2. status = "parsing"  BY DEF Doing
  <1>0. IsSequence(q)  BY <1>1 DEF Frame
  <1>3. n \in Nat /\ Len(done) = n /\ now.len = n  BY <1>1 DEF Frame
  <1>. DEFINE r == Cons(Item("consume", "(", n), Cons(Item("expr", "none", n),
                    Cons(Item("consume", ")", n), q)))
  <1>4. todo' = Parens(<<Do("expr")>>) \o q  BY <1>1, Anew, Zenon DEF Go, Then, Frame
  <1>5. todo' = r
    <2>1. todo' = Cons(Eat("("), Cons(Do("expr"), Cons(Eat(")"), q)))
      BY <1>0, <1>4, ParensCons
    <2>. QED  BY <1>3, <2>1, Zenon DEF Eat, With, Do
  <1>6. IsSequence(r) /\ Stacked(r, n)
    <2>1. IsSequence(q) /\ Stacked(q, n)  BY <1>1, Anew
    <2>. QED  BY <1>3, <2>1, Pile3, Zenon
  <1>. HIDE DEF r
  <1>7. Safe(r, now)
    BY <1>0, <1>1, ParensGoOn DEF Frame, r
  <1>. QED  BY <1>2, <1>3, <1>5, <1>6, <1>7, GoKeepsInv

LEMMA QuoteCalled ==
  ASSUME ParseInv, Doing("primary"), NEW t, Skip(<<With("quoted", t)>>)
  PROVE  ParseInv'
  <1>1. PICK x, q, n : x.do = "primary" /\ Frame(x, q, n)  BY Framed
  <1>2. status = "parsing"  BY DEF Doing
  <1>0. IsSequence(q)  BY <1>1 DEF Frame
  <1>3. n \in Nat /\ Len(done) = n /\ now.len = n  BY <1>1 DEF Frame
  <1>. DEFINE r == Cons(Item("quoted", t, n), q)
  <1>4. todo' = <<Item("quoted", t, n)>> \o q
    BY <1>1, Anew, Zenon DEF Skip, Then, Frame, With
  <1>5. todo' = r  BY <1>0, <1>4, Put1, Zenon
  <1>6. IsSequence(r) /\ Stacked(r, n)
    <2>1. IsSequence(q) /\ Stacked(q, n)  BY <1>1, Anew
    <2>. QED  BY <1>3, <2>1, Pile1, Zenon
  <1>. HIDE DEF r
  <1>7. ASSUME NEW u, Keeps(now, u, now.len), u.len = now.len
        PROVE  Safe(r, u)
    <2>1. Item("quoted", t, n).do = "quoted" /\ Item("quoted", t, n).base = now.len
      BY <1>3, ItemHas
    <2>. QED  BY <1>0, <1>1, <1>7, <2>1, QuoteOpens DEF Frame, r
  <1>. QED  BY <1>2, <1>3, <1>5, <1>6, <1>7, SkipKeepsInv

LEMMA ElementsCalled ==
  ASSUME ParseInv, Doing("primary"), Skip(<<With("list", "element"), Eat("]"),
         Build("list")>>)
  PROVE  ParseInv'
  <1>1. PICK x, q, n : x.do = "primary" /\ Frame(x, q, n)  BY Framed
  <1>2. status = "parsing"  BY DEF Doing
  <1>0. IsSequence(q)  BY <1>1 DEF Frame
  <1>3. n \in Nat /\ Len(done) = n /\ now.len = n  BY <1>1 DEF Frame
  <1>. DEFINE r == Cons(Item("list", "element", n), Cons(Item("consume", "]", n),
                    Cons(Item("build", "list", n), q)))
  <1>4. todo' = <<Item("list", "element", n), Item("consume", "]", n), Item("build",
                 "list", n)>> \o q
    BY <1>1, Anew, Zenon DEF Skip, Then, Frame, With, Eat, Build
  <1>5. todo' = r  BY <1>0, <1>4, Put3, Zenon
  <1>6. IsSequence(r) /\ Stacked(r, n)
    <2>1. IsSequence(q) /\ Stacked(q, n)  BY <1>1, Anew
    <2>. QED  BY <1>3, <2>1, Pile3, Zenon
  <1>. HIDE DEF r
  <1>7. ASSUME NEW u, Keeps(now, u, now.len), u.len = now.len
        PROVE  Safe(r, u)
    <2>1. State(u) /\ u.room >= 1 /\ u.len = n
      BY <1>3, <1>7 DEF Keeps
    <2>2. x.do \in Operands  BY <1>1 DEF Operands
    <2>3. Ends(n, {"list"}, u, q)
      BY <1>1, <1>3, <1>7, <2>2, EndsHere, ExpressionKinds DEF Frame
    <2>. QED  BY <1>0, <2>1, <2>3, ElementsRuns DEF r
  <1>. QED  BY <1>2, <1>3, <1>5, <1>6, <1>7, SkipKeepsInv

LEMMA QuotedTaken ==
  ASSUME ParseInv, Doing("quoted"), Take(<<Again>>)
  PROVE  ParseInv'
  <1>1. PICK x, q, n : x.do = "quoted" /\ Frame(x, q, n)  BY Framed
  <1>2. status = "parsing"  BY DEF Doing
  <1>0. IsSequence(q)  BY <1>1 DEF Frame
  <1>3. n \in Nat /\ Len(done) = n /\ now.len = n  BY <1>1 DEF Frame
  <1>. DEFINE r == Cons(x, q)
  <1>4. todo' = <<x>> \o q
    BY <1>1, Anew, Zenon DEF Take, Then, Frame
  <1>5. todo' = r  BY <1>0, <1>4, Put1, Zenon
  <1>6. IsSequence(r) /\ Stacked(r, n)
    BY <1>1, Anew
  <1>. HIDE DEF r
  <1>7. ASSUME NEW u, Keeps(now, u, now.len), u.len = now.len + 1,
               u.kind[now.len + 1] = "word"
        PROVE  Safe(r, u)
    BY <1>0, <1>1, <1>7, QuotedGoesOn DEF Frame, r
  <1>. QED  BY <1>2, <1>3, <1>5, <1>6, <1>7, TakeKeepsInv

-----------------------------------------------------------------------------
\* The nodes that are made.
LEMMA OneChild ==
  ASSUME NEW c, Walks(c), c.kind \in Expressions, NEW kind \in {"access", "assign"},
         NEW words, NEW keeps
  PROVE  Walks(Node(kind, words, keeps, <<c>>))
  <1>. DEFINE n == Node(kind, words, keeps, <<c>>)
  <1>1. n.kids = <<c>> /\ n.kind = kind  BY DEF Node
  <1>2. IsSequence(<<c>>) /\ Len(<<c>>) = 1 /\ \A i \in 1 .. Len(<<c>>) : <<c>>[i] = c  BY Tuples
  <1>. HIDE DEF n
  <1>3. Len(n.kids) = 1 /\ All(Kinds(n), Expressions)  BY <1>1, <1>2, KindsOfChildren
  <1>4. Placed(n)  BY <1>1, <1>3 DEF Placed, Inner, Assignments
  <1>5. \A i \in 1 .. Len(<<c>>) : Walks(<<c>>[i])  BY <1>2
  <1>. QED  BY <1>2, <1>4, <1>5, NodeWalks DEF n

LEMMA TwoChildren ==
  ASSUME NEW kids, IsSequence(kids), Len(kids) = 2,
         \A i \in 1 .. 2 : Walks(kids[i]) /\ kids[i].kind \in Expressions,
         NEW kind \in {"binary", "assign_element"}, NEW words, NEW keeps
  PROVE  Walks(Node(kind, words, keeps, kids))
  <1>. DEFINE n == Node(kind, words, keeps, kids)
  <1>1. n.kids = kids /\ n.kind = kind  BY DEF Node
  <1>. HIDE DEF n
  <1>3. Len(n.kids) = 2 /\ All(Kinds(n), Expressions)  BY <1>1, KindsOfChildren
  <1>4. Placed(n)  BY <1>1, <1>3 DEF Placed, Inner, Assignments
  <1>. QED  BY <1>4, NodeWalks DEF n

LEMMA UpdateWalks ==
  ASSUME NEW name, NEW op, NEW value, Walks(value), value.kind \in Expressions
  PROVE  Walks(Update(name, op, value)) /\ Update(name, op, value).kind = "assign"
  <1>. DEFINE i == Node("identifier", name.words, {}, <<>>)
              k == <<i, value>>
              b == Node("binary", <<op>>, {}, k)
  <1>1. Walks(i)  BY LeafWalks DEF Inner, Assignments
  <1>2. i.kind = "identifier" /\ b.kind = "binary"  BY DEF Node
  <1>. HIDE DEF i
  <1>3. IsSequence(k) /\ Len(k) = 2  BY Tuples
  <1>4. \A j \in 1 .. 2 : Walks(k[j]) /\ k[j].kind \in Expressions
    <2>1. k[1] = i /\ k[2] = value  OBVIOUS
    <2>. HIDE DEF k
    <2>. QED  BY <1>1, <1>2, <2>1, ExpressionKinds
  <1>. HIDE DEF k
  <1>5. Walks(b)  BY <1>3, <1>4, TwoChildren
  <1>6. b.kind \in Expressions  BY <1>2, ExpressionKinds
  <1>. HIDE DEF b
  <1>7. Walks(Node("assign", name.words, name.keeps, <<b>>))  BY <1>5, <1>6, OneChild
  <1>8. Update(name, op, value) = Node("assign", name.words, name.keeps, <<b>>)
    BY Zenon DEF Update, b, k, i
  <1>9. Node("assign", name.words, name.keeps, <<b>>).kind = "assign"  BY DEF Node
  <1>. QED  BY <1>7, <1>8, <1>9

LEMMA WordWalks ==
  \A w, keeps : /\ Walks(Word(w, keeps)) /\ Word(w, keeps).kind = "word"
                /\ IsWord(Word(w, keeps))
  BY LeafWalks DEF Word, Node, Inner, Assignments, IsWord

\* name = value, and name[index] = value: the word and the nodes beside it.
LEMMA AssignWalks ==
  ASSUME NEW w, NEW value, Walks(value), value.kind \in Expressions, IsWord(w)
  PROVE  Walks(Make("assign", <<w, value>>)) /\ Make("assign", <<w, value>>).kind = "assign"
  <1>. DEFINE p == <<w, value>>
  <1>1. IsSequence(p) /\ Len(p) = 2 /\ p[1] = w /\ p[2] = value  BY Tuples
  <1>2. ~ IsWord(value)  BY KindFacts DEF IsWord
  <1>. HIDE DEF p
  <1>3. /\ IsSequence(Children(p)) /\ Len(Children(p)) = 1 /\ Children(p)[1] = value
    <2>1. 1 \in 1 .. Len(p) /\ \A i \in 1 .. Len(p) : i # 1 => ~ IsWord(p[i])  BY <1>1, <1>2
    <2>2. IsSequence(p) /\ IsWord(p[1])  BY <1>1
    <2>3. /\ IsSequence(Children(p)) /\ Len(Children(p)) = Len(p) - 1
          /\ \A i \in 1 .. Len(p) - 1 : Children(p)[i] = IF i < 1 THEN p[i] ELSE p[i + 1]
      BY <2>1, <2>2, ChildrenBesideWord
    <2>. QED  BY <1>1, <2>3
  <1>. DEFINE n == Make("assign", p)
  <1>4. n.kids = Children(p) /\ n.kind = "assign"  BY DEF Make, Node
  <1>. HIDE DEF n
  <1>5. Len(n.kids) = 1 /\ All(Kinds(n), Expressions)  BY <1>3, <1>4, KindsOfChildren
  <1>6. Placed(n)  BY <1>4, <1>5 DEF Placed, Inner, Assignments
  <1>7. Walks(n)  BY <1>3, <1>6, NodeWalks DEF n, Make
  <1>. QED  BY <1>4, <1>7 DEF n, p

LEMMA AssignElementWalks ==
  ASSUME NEW w, IsWord(w), NEW target, Walks(target), target.kind = "access",
         NEW value, Walks(value), value.kind \in Expressions
  PROVE  LET n == Make("assign_element", <<w>> \o target.kids \o <<value>>)
         IN  Walks(n) /\ n.kind = "assign_element"
  <1>. DEFINE k == target.kids  v == <<value>>  f == <<w>> \o k  p == f \o v
  <1>1. /\ IsSequence(k) /\ Len(k) = 1 /\ k[1].kind \in Expressions /\ Walks(k[1])
    <2>1. Placed(target) /\ IsSequence(k)  BY WalksDown DEF Shaped
    <2>2. Len(k) = 1 /\ All(Kinds(target), Expressions)  BY <2>1 DEF Placed
    <2>3. k[1].kind \in Expressions  BY <2>1, <2>2, KindsOfChildren
    <2>4. 1 \in DOMAIN k  BY <2>1, <2>2 DEF IsSequence
    <2>. QED  BY <2>1, <2>2, <2>3, <2>4, WalksDown
  <1>2. IsSequence(v) /\ Len(v) = 1 /\ v[1] = value /\ IsSequence(<<w>>) /\ Len(<<w>>) = 1
        /\ <<w>>[1] = w
    BY Tuples
  <1>. HIDE DEF v, k
  <1>3. IsSequence(f) /\ Len(f) = 2 /\ f[1] = w /\ f[2] = k[1]
    <2>0. IsSequence(<<w>>) /\ IsSequence(k)  BY <1>1, <1>2
    <2>1. IsSequence(f) /\ Len(f) = Len(<<w>>) + Len(k)
          /\ (\A i \in 1 .. Len(<<w>>) : f[i] = <<w>>[i])
          /\ (\A i \in 1 .. Len(k) : f[Len(<<w>>) + i] = k[i])
      BY <2>0, ConcatLength
    <2>. QED  BY <1>1, <1>2, <2>1
  <1>. HIDE DEF f
  <1>4. IsSequence(p) /\ Len(p) = 3 /\ p[1] = w /\ p[2] = k[1] /\ p[3] = value
    <2>0. IsSequence(f) /\ IsSequence(v)  BY <1>2, <1>3
    <2>1. IsSequence(p) /\ Len(p) = Len(f) + Len(v)
          /\ (\A i \in 1 .. Len(f) : p[i] = f[i])
          /\ (\A i \in 1 .. Len(v) : p[Len(f) + i] = v[i])
      BY <2>0, ConcatLength
    <2>. QED  BY <1>2, <1>3, <2>1
  <1>. HIDE DEF p
  <1>5. ~ IsWord(value) /\ ~ IsWord(k[1])  BY <1>1, KindFacts DEF IsWord
  <1>6. /\ IsSequence(Children(p)) /\ Len(Children(p)) = 2
        /\ Children(p)[1] = k[1] /\ Children(p)[2] = value
    <2>1. 1 \in 1 .. Len(p) /\ \A i \in 1 .. Len(p) : i # 1 => ~ IsWord(p[i])  BY <1>4, <1>5
    <2>2. IsSequence(p) /\ IsWord(p[1])  BY <1>4
    <2>3. /\ IsSequence(Children(p)) /\ Len(Children(p)) = Len(p) - 1
          /\ \A i \in 1 .. Len(p) - 1 : Children(p)[i] = IF i < 1 THEN p[i] ELSE p[i + 1]
      BY <2>1, <2>2, ChildrenBesideWord
    <2>. QED  BY <1>4, <2>3
  <1>7. \A i \in 1 .. 2 : Walks(Children(p)[i]) /\ Children(p)[i].kind \in Expressions
    BY <1>1, <1>6
  <1>8. Walks(Make("assign_element", p))  BY <1>6, <1>7, TwoChildren DEF Make
  <1>9. Make("assign_element", p).kind = "assign_element"  BY DEF Make, Node
  <1>. QED  BY <1>8, <1>9, Zenon DEF p, f, v, k

\* The loop a range is turned into.
LEMMA RangeLoopWalks ==
  ASSUME NEW d, Walks(d), d.kind = "decl", NEW c, Walks(c), c.kind \in Expressions,
         NEW s, Walks(s), s.kind \in Expressions, NEW b, Walks(b), b.kind = "block",
         NEW words, NEW keeps
  PROVE  Walks(Node("for", words, keeps, <<d, c, s, b>>))
  <1>. DEFINE k == <<d, c, s, b>>  n == Node("for", words, keeps, k)
  <1>1. k \in Seq({d, c, s, b}) /\ Len(k) = 4 /\ k[1] = d /\ k[2] = c /\ k[3] = s /\ k[4] = b
    OBVIOUS
  <1>2. IsSequence(k)  BY <1>1 DEF IsSequence
  <1>3. n.kids = k /\ n.kind = "for"  BY DEF Node
  <1>. HIDE DEF k, n
  <1>4. /\ Len(n.kids) = 4 /\ Kinds(n)[1] = "decl" /\ Kinds(n)[4] = "block"
        /\ All(SubSeq(Kinds(n), 2, 3), Expressions \cup {"null"})
    <2>1. IsSequence(n.kids) /\ Len(n.kids) = 4  BY <1>1, <1>2, <1>3
    <2>2. /\ \A i \in 1 .. Len(n.kids) : Kinds(n)[i] = n.kids[i].kind
          /\ \A S : All(SubSeq(Kinds(n), 2, 3), S)
                      <=> n.kids[2].kind \in S /\ n.kids[3].kind \in S
      BY <2>1, KindsOfChildren
    <2>3. n.kids[2].kind \in Expressions \cup {"null"} /\ n.kids[3].kind \in Expressions \cup {"null"}
      BY <1>1, <1>3
    <2>4. All(SubSeq(Kinds(n), 2, 3), Expressions \cup {"null"})  BY <2>2, <2>3
    <2>5. Kinds(n)[1] = n.kids[1].kind /\ Kinds(n)[4] = n.kids[4].kind  BY <2>1, <2>2
    <2>6. n.kids[1].kind = "decl" /\ n.kids[4].kind = "block"  BY <1>1, <1>3
    <2>. QED  BY <2>1, <2>4, <2>5, <2>6
  <1>5. Placed(n)  BY <1>3, <1>4 DEF Placed, Inner, Assignments
  <1>6. \A i \in 1 .. Len(k) : Walks(k[i])  BY <1>1
  <1>. QED  BY <1>2, <1>5, <1>6, NodeWalks DEF n, k

LEMMA FitsAlike ==
  ASSUME NEW kind, NEW p, NEW r, NEW m \in Nat, \A i \in 1 .. m : p[i].kind = r[i].kind,
         Fits(kind, p, m)
  PROVE  Fits(kind, r, m)
  BY DEF Fits, Only, AllWords

LEMMA PiecesAre ==
  ASSUME ParseInv, NEW x, NEW q, NEW n, Frame(x, q, n)
  PROVE  /\ IsSequence(Pieces) /\ Len(Pieces) = n - x.base
         /\ \A i \in 1 .. Len(Pieces) :
              Walks(Pieces[i]) /\ Pieces[i].kind = now.kind[x.base + i]
  <1>1. /\ IsSequence(done) /\ Len(done) = n /\ n \in Nat /\ x.base \in Nat /\ x.base <= n
        /\ x = Head(todo)
    BY DEF Frame, ParseInv
  <1>2. PICK S : done \in Seq(S)  BY <1>1 DEF IsSequence
  <1>3. Pieces = SubSeq(done, x.base + 1, n)  BY <1>1 DEF Pieces
  <1>4. /\ Pieces \in Seq(S) /\ Len(Pieces) = n - x.base
        /\ \A i \in 1 .. Len(Pieces) : Pieces[i] = done[x.base + i]
    BY <1>1, <1>2, <1>3
  <1>5. \A i \in 1 .. Len(Pieces) : x.base + i \in 1 .. Len(done)  BY <1>1, <1>4
  <1>6. \A i \in 1 .. Len(done) : Walks(done[i]) /\ now.kind[i] = done[i].kind
    BY NowIs DEF ParseInv
  <1>. QED  BY <1>4, <1>5, <1>6 DEF IsSequence

-----------------------------------------------------------------------------
\* Functions that return with a piece of their own, or with a node of theirs.
LEMMA Alone ==
  ASSUME ParseInv, NEW x, NEW q, NEW n, Frame(x, q, n), Then(<<>>)
  PROVE  todo' = q /\ IsSequence(todo') /\ Stacked(todo', n) /\ Stacked(todo', x.base)
  <1>1. IsSequence(q) /\ Stacked(q, n) /\ Stacked(q, x.base)  BY DEF Frame
  <1>2. <<>> \o q = q  BY <1>1, Unrolled
  <1>3. todo' = q  BY <1>2, Anew, Zenon DEF Then
  <1>. QED  BY <1>1, <1>3

LEMMA PushesBack ==
  ASSUME ParseInv, NEW f, Doing(f), Then(<<>>), Stay \/ Advance, NEW m, Push(m), Walks(m),
         \/ m.kind = "word" /\ f = "return_type"
         \/ m.kind = "null" /\ f = "optional"
         \/ m.kind \in Expressions /\ f = "primary"
  PROVE  ParseInv'
  <1>1. PICK x, q, n : x.do = f /\ Frame(x, q, n)  BY Framed
  <1>2. status = "parsing"  BY DEF Doing
  <1>3. n \in Nat /\ Len(done) = n /\ now.len = n /\ State(now) /\ Awaits(q, x, now)
    BY <1>1 DEF Frame
  <1>4. todo' = q /\ IsSequence(todo') /\ Stacked(todo', n)  BY <1>1, Alone
  <1>5. Stacked(todo', n + 1)
    <2>1. n + 1 \in Nat /\ n <= n + 1  BY <1>3
    <2>. QED  BY <1>3, <1>4, <2>1, StackedLower
  <1>6. ASSUME NEW u, Keeps(now, u, now.len), u.len = now.len + 1, u.kind[now.len + 1] = m.kind
        PROVE  Safe(q, u)
    BY <1>1, <1>3, <1>6, Returns
  <1>. QED  BY <1>2, <1>3, <1>4, <1>5, <1>6, PushKeepsInv

LEMMA BuildsBack ==
  ASSUME ParseInv, Doing("build"), Then(<<>>), Stay, NEW m, Reduced(m), Walks(m),
         m.kind \in Giving(Head(todo).arg),
         NEW d \in {0, 1}, rng_counter' = rng_counter + d, d = 1 => Head(todo).arg = "range"
  PROVE  ParseInv'
  <1>1. PICK x, q, n : x.do = "build" /\ Frame(x, q, n)  BY Framed
  <1>2. status = "parsing"  BY DEF Doing
  <1>3. /\ Len(done) = n /\ now.len = n /\ State(now) /\ Awaits(q, x, now) /\ Ready(x, now)
        /\ x.base \in Nat /\ x.base <= Len(done) /\ now.room >= 1 /\ now.room \in Int
    BY <1>1 DEF Frame, State
  <1>4. todo' = q /\ IsSequence(todo') /\ Stacked(todo', x.base)  BY <1>1, Alone
  <1>5. Stacked(todo', x.base + 1)
    <2>1. x.base + 1 \in Nat /\ x.base <= x.base + 1  BY <1>3
    <2>. QED  BY <1>3, <1>4, <2>1, StackedLower
  <1>6. done' = Append(SubSeq(done, 1, x.base), m) /\ x = Head(todo)
    BY <1>1, Anew DEF Reduced
  <1>7. d = 1 => Slack(x) = 1  BY <1>1, <1>6 DEF Slack
  <1>8. now.room >= 1 + d
    <2>1. CASE d = 0  BY <1>3, <2>1
    <2>2. CASE d = 1  BY <1>3, <1>7, <2>2 DEF Ready
    <2>. QED  BY <2>1, <2>2
  <1>9. Slack(x) \in {0, 1} /\ d <= Slack(x)  BY <1>7 DEF Slack
  <1>10. ASSUME NEW u, State(u), u.room >= 1, u.room + d >= now.room, u.len = x.base + 1,
                u.kind[x.base + 1] = m.kind, \A i \in 1 .. x.base : u.kind[i] = now.kind[i],
                Stay => u.next = now.next
         PROVE  Safe(q, u)
    <2>1. u.room + Slack(x) >= now.room  BY <1>3, <1>9, <1>10 DEF State
    <2>2. u.kind[x.base + 1] \in Giving(x.arg)  BY <1>6, <1>10
    <2>. QED  BY <1>1, <1>3, <1>10, <2>1, <2>2, ClosedReturns
  <1>11. x.base \in Nat /\ x.base <= Len(done)  BY <1>3
  <1>12. done' = Append(SubSeq(done, 1, x.base), m)  BY <1>6
  <1>13. \A u : /\ State(u) /\ u.room >= 1 /\ u.room + d >= now.room
                /\ u.len = x.base + 1 /\ u.kind[x.base + 1] = m.kind
                /\ \A i \in 1 .. x.base : u.kind[i] = now.kind[i]
                /\ Stay => u.next = now.next
                => Safe(todo', u)
    BY <1>4, <1>10
  <1>14. IsSequence(todo')  BY <1>4
  <1>15. \A b, e :
           /\ b \in Nat /\ b <= Len(done) /\ done' = Append(SubSeq(done, 1, b), m)
           /\ e \in {0, 1} /\ rng_counter' = rng_counter + e /\ now.room >= 1 + e
           /\ Stacked(todo', b + 1)
           /\ \A u : /\ State(u) /\ u.room >= 1 /\ u.room + e >= now.room
                     /\ u.len = b + 1 /\ u.kind[b + 1] = m.kind
                     /\ \A i \in 1 .. b : u.kind[i] = now.kind[i]
                     /\ Stay => u.next = now.next
                     => Safe(todo', u)
           => ParseInv'
    BY <1>2, <1>14, ReduceKeepsInv
  <1>. QED  BY <1>5, <1>8, <1>11, <1>12, <1>13, <1>15, Zenon

LEMMA PiecesFit ==
  ASSUME ParseInv, Doing("build")
  PROVE  /\ IsSequence(Pieces) /\ \A i \in 1 .. Len(Pieces) : Walks(Pieces[i])
         /\ Fits(Head(todo).arg, Pieces, Len(Pieces))
         /\ Head(todo).arg \in Built \cup {"range", "access", "assign", "compound"}
  <1>1. PICK x, q, n : x.do = "build" /\ Frame(x, q, n)  BY Framed
  <1>2. /\ IsSequence(Pieces) /\ Len(Pieces) = n - x.base
        /\ \A i \in 1 .. Len(Pieces) :
             Walks(Pieces[i]) /\ Pieces[i].kind = now.kind[x.base + i]
    BY <1>1, PiecesAre
  <1>3. /\ x = Head(todo) /\ Ready(x, now) /\ now.len = n /\ n \in Nat
        /\ x.base \in Nat /\ x.base <= n
    BY <1>1 DEF Frame
  <1>4. /\ x.arg \in Built \cup {"range", "access", "assign", "compound"}
        /\ Fits(x.arg, Above(now, x.base), n - x.base)
    BY <1>1, <1>3 DEF Ready
  <1>5. n - x.base \in Nat  BY <1>3
  <1>6. \A i \in 1 .. n - x.base : Above(now, x.base)[i].kind = Pieces[i].kind
    BY <1>2, <1>3 DEF Above
  <1>7. Fits(x.arg, Pieces, n - x.base)  BY <1>4, <1>5, <1>6, FitsAlike
  <1>. QED  BY <1>2, <1>3, <1>4, <1>7

LEMMA BuildNodeKeepsInv ==
  ASSUME ParseInv, BuildNode
  PROVE  ParseInv'
  <1>. DEFINE k == Head(todo).arg  m == Make(k, Pieces)
  <1>1. Doing("build") /\ k \notin {"range", "access", "assign", "compound"} /\ Reduce(m)
    BY DEF BuildNode
  <1>2. /\ IsSequence(Pieces) /\ (\A i \in 1 .. Len(Pieces) : Walks(Pieces[i]))
        /\ Fits(k, Pieces, Len(Pieces)) /\ k \in Built
    BY <1>1, PiecesFit
  <1>3. Walks(m) /\ m.kind = k  BY <1>2, MakeWalks
  <1>4. k \in Giving(k)  BY <1>1 DEF Giving
  <1>5. rng_counter' = rng_counter  BY <1>1 DEF Reduce
  <1>6. rng_counter' = rng_counter + 0
    <2>1. rng_counter \in Nat  BY NowIs
    <2>. QED  BY <1>5, <2>1
  <1>7. Then(<<>>) /\ Stay /\ Reduced(m)  BY <1>1 DEF Reduce
  <1>. HIDE DEF m
  <1>. QED  BY <1>1, <1>3, <1>4, <1>6, <1>7, BuildsBack

LEMMA BuildRangeKeepsInv ==
  ASSUME ParseInv, BuildRange
  PROVE  ParseInv'
  <1>. DEFINE w == "__pinum_i" \o ToString(rng_counter)
              idx == Word(w, {})  use == Node("identifier", idx.words, {}, <<>>)
              low == Node("int", <<"0">>, {}, <<>>)  typ == Word("int", {})
              d == Make("decl", <<typ, idx, low>>)
              pair == <<use, Pieces[2]>>
              c == Node("binary", <<"<">>, {}, pair)
              s == Update(idx, "+", One)
              b == Pieces[3]
              m == Node("for", Pieces[1].words, Pieces[1].keeps, <<d, c, s, b>>)
  <1>1. /\ Doing("build") /\ Head(todo).arg = "range" /\ Reduced(m)
        /\ rng_counter' = rng_counter + 1 /\ Then(<<>>) /\ Stay
    BY Zenon DEF BuildRange
  <1>2. /\ IsSequence(Pieces) /\ Len(Pieces) = 3 /\ (\A i \in 1 .. Len(Pieces) : Walks(Pieces[i]))
        /\ Pieces[2].kind \in Expressions /\ Pieces[3].kind = "block"
    <2>1. Fits("range", Pieces, Len(Pieces))  BY <1>1, PiecesFit
    <2>2. Len(Pieces) = 3 /\ Pieces[2].kind \in Expressions /\ Pieces[3].kind = "block"
      BY <2>1 DEF Fits
    <2>. QED  BY <1>1, <2>2, PiecesFit
  <1>3. Walks(Pieces[2]) /\ Walks(b) /\ b.kind = "block"  BY <1>2
  <1>. HIDE DEF w
  <1>4. Walks(d) /\ d.kind = "decl"
    <2>1. Walks(low) /\ low.kind = "int"  BY LeafWalks DEF Node, Inner, Assignments
    <2>2. Walks(idx) /\ idx.kind = "word" /\ Walks(typ) /\ typ.kind = "word"  BY WordWalks
    <2>3. low.kind \in Expressions  BY <2>1 DEF Expressions, Literal
    <2>. HIDE DEF low, idx, typ
    <2>. DEFINE p == <<typ, idx, low>>
    <2>4. IsSequence(p) /\ Len(p) = 3  BY Tuples
    <2>5. p[1] = typ /\ p[2] = idx /\ p[3] = low  OBVIOUS
    <2>. HIDE DEF p
    <2>6. \A i \in 1 .. Len(p) : Walks(p[i])  BY <2>1, <2>2, <2>4, <2>5
    <2>7. Fits("decl", p, Len(p))  BY <2>2, <2>3, <2>4, <2>5 DEF Fits
    <2>8. Walks(Make("decl", p)) /\ Make("decl", p).kind = "decl"
      BY <2>4, <2>6, <2>7, MakeWalks DEF Built
    <2>. QED  BY <2>8, Zenon DEF p
  <1>5. Walks(c) /\ c.kind \in Expressions
    <2>1. Walks(use) /\ use.kind = "identifier"  BY LeafWalks DEF Node, Inner, Assignments
    <2>2. use.kind \in Expressions  BY <2>1, ExpressionKinds
    <2>3. IsSequence(pair) /\ Len(pair) = 2  BY Tuples
    <2>. HIDE DEF use
    <2>4. pair[1] = use /\ pair[2] = Pieces[2]  OBVIOUS
    <2>. HIDE DEF pair
    <2>5. \A i \in 1 .. 2 : Walks(pair[i]) /\ pair[i].kind \in Expressions
      BY <1>2, <1>3, <2>1, <2>2, <2>4
    <2>6. Walks(c)  BY <2>3, <2>5, TwoChildren
    <2>7. c.kind = "binary"  BY DEF Node
    <2>. QED  BY <2>6, <2>7, ExpressionKinds
  <1>6. Walks(s) /\ s.kind \in Expressions
    <2>1. Walks(One) /\ One.kind = "int"  BY LeafWalks DEF One, Node, Inner, Assignments
    <2>2. One.kind \in Expressions  BY <2>1 DEF Expressions, Literal
    <2>3. Walks(s) /\ s.kind = "assign"  BY <2>1, <2>2, UpdateWalks
    <2>. QED  BY <2>3, ExpressionKinds
  <1>. HIDE DEF d, c, s, b
  <1>7. Walks(m)  BY <1>3, <1>4, <1>5, <1>6, RangeLoopWalks
  <1>8. m.kind = "for"  BY DEF Node
  <1>9. m.kind \in Giving(Head(todo).arg)  BY <1>1, <1>8 DEF Giving
  <1>. HIDE DEF m
  <1>. QED  BY <1>1, <1>7, <1>9, BuildsBack

LEMMA BuildAccessKeepsInv ==
  ASSUME ParseInv, BuildAccess
  PROVE  ParseInv'
  <1>. DEFINE name == NameOf(Pieces[1])  c == Pieces[2]
              m == Node("access", name.words, name.keeps, <<c>>)
  <1>1. /\ Doing("build") /\ Head(todo).arg = "access" /\ Reduced(m) /\ Then(<<>>) /\ Stay
        /\ rng_counter' = rng_counter
    BY Zenon DEF BuildAccess
  <1>2. Walks(c) /\ c.kind \in Expressions
    <2>1. Fits("access", Pieces, Len(Pieces))  BY <1>1, PiecesFit
    <2>2. Len(Pieces) = 2 /\ c.kind \in Expressions  BY <2>1 DEF Fits
    <2>. QED  BY <1>1, <2>2, PiecesFit
  <1>. HIDE DEF name, c
  <1>3. Walks(m)  BY <1>2, OneChild
  <1>4. m.kind \in Giving(Head(todo).arg)  BY <1>1 DEF Giving, Node
  <1>5. rng_counter' = rng_counter + 0
    <2>1. rng_counter \in Nat  BY NowIs
    <2>. QED  BY <1>1, <2>1
  <1>. HIDE DEF m
  <1>. QED  BY <1>1, <1>3, <1>4, <1>5, BuildsBack

LEMMA AssignToKeepsInv ==
  ASSUME ParseInv, AssignTo
  PROVE  ParseInv'
  <1>. DEFINE target == Pieces[1]  op == Pieces[2]  value == Pieces[3]  arg == Head(todo).arg
              name == Word(target.words[1], target.keeps \cup op.keeps)
              e == Make("assign_element", <<name>> \o target.kids \o <<value>>)
              a == Make("assign", <<name, value>>)
              sign == Compound[op.words[1]]
              v == Update(name, sign, value)
  <1>1. Doing("build") /\ \/ arg = "assign" /\ target.kind = "access" /\ Reduce(e)
                          \/ arg = "assign" /\ target.kind = "identifier" /\ Reduce(a)
                          \/ arg = "compound" /\ target.kind = "identifier" /\ Reduce(v)
                          \/ Fail("ERR_INVALID_ASSIGN_TARGET")
    BY Zenon DEF AssignTo
  <1>. HIDE DEF sign
  <1>2. ASSUME NEW kind \in {"assign", "compound"}, arg = kind
        PROVE  Walks(target) /\ Walks(value) /\ value.kind \in Expressions
    <2>1. Fits(kind, Pieces, Len(Pieces))  BY <1>1, <1>2, PiecesFit
    <2>2. Len(Pieces) = 3 /\ value.kind \in Expressions  BY <2>1 DEF Fits
    <2>. QED  BY <1>1, <2>2, PiecesFit
  <1>3. IsWord(name)  BY WordWalks
  <1>4. rng_counter \in Nat  BY NowIs
  <1>5. ASSUME NEW m, Reduce(m), Walks(m), m.kind \in Giving(arg) PROVE ParseInv'
    <2>1. Then(<<>>) /\ Stay /\ Reduced(m) /\ rng_counter' = rng_counter + 0
      BY <1>4, <1>5 DEF Reduce
    <2>. QED  BY <1>1, <1>5, <2>1, BuildsBack
  <1>. HIDE DEF target, op, value, name
  <1>6. CASE arg = "assign" /\ target.kind = "access" /\ Reduce(e)
    <2>1. Walks(e) /\ e.kind = "assign_element"  BY <1>2, <1>3, <1>6, AssignElementWalks
    <2>2. e.kind \in Giving(arg)  BY <1>6, <2>1 DEF Giving, Assignments
    <2>. HIDE DEF e
    <2>. QED  BY <1>5, <1>6, <2>1, <2>2
  <1>7. CASE arg = "assign" /\ target.kind = "identifier" /\ Reduce(a)
    <2>1. Walks(a) /\ a.kind = "assign"  BY <1>2, <1>3, <1>7, AssignWalks
    <2>2. a.kind \in Giving(arg)  BY <1>7, <2>1 DEF Giving, Assignments
    <2>. HIDE DEF a
    <2>. QED  BY <1>5, <1>7, <2>1, <2>2
  <1>8. CASE arg = "compound" /\ target.kind = "identifier" /\ Reduce(v)
    <2>1. Walks(v) /\ v.kind = "assign"  BY <1>2, <1>8, UpdateWalks
    <2>2. v.kind \in Giving(arg)  BY <1>8, <2>1 DEF Giving
    <2>. HIDE DEF v
    <2>. QED  BY <1>5, <1>8, <2>1, <2>2
  <1>9. CASE Fail("ERR_INVALID_ASSIGN_TARGET")  BY <1>9, FailKeepsInv DEF Errors
  <1>. QED  BY <1>1, <1>6, <1>7, <1>8, <1>9, Zenon

LEMMA Reduces ==
  ASSUME ParseInv, status = "parsing", NEW x, NEW q, NEW n, Frame(x, q, n),
         NEW items, Then(items), Advance, NEW m, Reduced(m), Walks(m), UNCHANGED rng_counter,
         IsSequence(todo'), Stacked(todo', x.base + 1),
         \A u : Keeps(now, u, x.base) /\ u.len = x.base + 1 /\ u.kind[x.base + 1] = m.kind
                  => Safe(todo', u)
  PROVE  ParseInv'
  <1>1. x.base \in Nat /\ x.base <= Len(done) /\ now.room >= 1 /\ now.room \in Int
    BY DEF Frame, State
  <1>2. done' = Append(SubSeq(done, 1, x.base), m)  BY Anew DEF Reduced
  <1>3. rng_counter' = rng_counter + 0
    <2>1. rng_counter \in Nat  BY NowIs
    <2>. QED  BY <2>1
  <1>4. now.room >= 1 + 0  BY <1>1
  <1>5. ASSUME NEW u, State(u), u.room >= 1, u.room + 0 >= now.room,
               u.len = x.base + 1, u.kind[x.base + 1] = m.kind,
               \A i \in 1 .. x.base : u.kind[i] = now.kind[i],
               Stay => u.next = now.next
        PROVE  Safe(todo', u)
    <2>1. u.room >= now.room  BY <1>1, <1>5 DEF State
    <2>. QED  BY <1>5, <2>1 DEF Keeps
  <1>6. \A b, e :
          /\ b \in Nat /\ b <= Len(done) /\ done' = Append(SubSeq(done, 1, b), m)
          /\ e \in {0, 1} /\ rng_counter' = rng_counter + e /\ now.room >= 1 + e
          /\ Stacked(todo', b + 1)
          /\ \A u : /\ State(u) /\ u.room >= 1 /\ u.room + e >= now.room
                    /\ u.len = b + 1 /\ u.kind[b + 1] = m.kind
                    /\ \A i \in 1 .. b : u.kind[i] = now.kind[i]
                    /\ Stay => u.next = now.next
                    => Safe(todo', u)
          => ParseInv'
    BY ReduceKeepsInv
  <1>7. 0 \in {0, 1}  OBVIOUS
  <1>8. \A u : /\ State(u) /\ u.room >= 1 /\ u.room + 0 >= now.room
               /\ u.len = x.base + 1 /\ u.kind[x.base + 1] = m.kind
               /\ \A i \in 1 .. x.base : u.kind[i] = now.kind[i]
               /\ Stay => u.next = now.next
               => Safe(todo', u)
    BY <1>5
  <1>. QED  BY <1>1, <1>2, <1>3, <1>4, <1>6, <1>7, <1>8, Zenon

\* A name that is called, and one that is counted up or down.
LEMMA CallCalled ==
  ASSUME ParseInv, Doing("postfix"), NEW m, Walks(m), m.kind = "word", Reduced(m), Advance,
         Then(<<With("list", "arg"), Eat(")"), Finish("build", "call"), Again>>),
         UNCHANGED rng_counter
  PROVE  ParseInv'
  <1>1. PICK x, q, n : x.do = "postfix" /\ Frame(x, q, n)  BY Framed
  <1>2. status = "parsing"  BY DEF Doing
  <1>0. IsSequence(q)  BY <1>1 DEF Frame
  <1>3. n \in Nat /\ Len(done) = n /\ now.len = n  BY <1>1 DEF Frame
  <1>. DEFINE r == Cons(Item("list", "arg", n), Cons(Item("consume", ")", n),
                    Cons(Item("build", "call", x.base), Cons(x, q))))
  <1>4. todo' = <<Item("list", "arg", n), Item("consume", ")", n),
                  Item("build", "call", x.base), x>> \o q
    BY <1>1, Anew, Zenon DEF Then, With, Eat, Finish, Frame
  <1>5. todo' = r  BY <1>0, <1>4, Put4, Zenon
  <1>6. IsSequence(r) /\ Stacked(r, n)
    <2>1. /\ IsSequence(Cons(Item("build", "call", x.base), Cons(x, q)))
          /\ Stacked(Cons(Item("build", "call", x.base), Cons(x, q)), n)
      BY <1>1, Anew
    <2>. QED  BY <1>3, <2>1, Pile2, Zenon
  <1>7. x.base \in Nat /\ x.base + 1 = n /\ x.base <= now.len
    BY <1>1, <1>3 DEF Frame, Ready
  <1>8. ASSUME NEW u, Keeps(now, u, x.base), u.len = x.base + 1, u.kind[x.base + 1] = "word"
        PROVE  Safe(r, u)
    <2>1. Ends(x.base, {"call"}, u, Cons(x, q))
      BY <1>1, <1>7, <1>8, EndsLoop, ExpressionKinds DEF Frame
    <2>2. IsSequence(Cons(x, q))  BY <1>1, Anew
    <2>3. State(u) /\ u.room >= 1  BY <1>8 DEF Keeps
    <2>. QED  BY <1>7, <1>8, <2>1, <2>2, <2>3, CallRuns
  <1>. HIDE DEF r
  <1>9. Stacked(todo', x.base + 1) /\ IsSequence(todo')  BY <1>5, <1>6, <1>7
  <1>10. \A u : Keeps(now, u, x.base) /\ u.len = x.base + 1 /\ u.kind[x.base + 1] = m.kind
                  => Safe(todo', u)
    BY <1>5, <1>8
  <1>. QED  BY <1>1, <1>2, <1>9, <1>10, Reduces

LEMMA StepTaken ==
  ASSUME ParseInv, Doing("postfix"), NEW m, Walks(m), m.kind = "assign", Reduced(m), Advance,
         Then(<<Again>>), UNCHANGED rng_counter
  PROVE  ParseInv'
  <1>1. PICK x, q, n : x.do = "postfix" /\ Frame(x, q, n)  BY Framed
  <1>2. status = "parsing"  BY DEF Doing
  <1>0. IsSequence(q)  BY <1>1 DEF Frame
  <1>3. n \in Nat /\ Len(done) = n /\ now.len = n  BY <1>1 DEF Frame
  <1>. DEFINE r == Cons(x, q)
  <1>4. todo' = <<x>> \o q  BY <1>1, Anew, Zenon DEF Then, Frame
  <1>5. todo' = r  BY <1>0, <1>4, Put1, Zenon
  <1>6. IsSequence(r) /\ Stacked(r, n)  BY <1>1, Anew
  <1>7. x.base \in Nat /\ x.base + 1 = n /\ x.base <= now.len
    BY <1>1, <1>3 DEF Frame, Ready
  <1>8. ASSUME NEW u, Keeps(now, u, x.base), u.len = x.base + 1, u.kind[x.base + 1] = "assign"
        PROVE  Safe(r, u)
    <2>1. u.kind[x.base + 1] \in Expressions  BY <1>8, ExpressionKinds
    <2>2. IsSequence(q) /\ State(now) /\ Awaits(q, x, now)  BY <1>1 DEF Frame
    <2>. QED  BY <1>1, <1>7, <1>8, <2>1, <2>2, LoopsAbove
  <1>. HIDE DEF r
  <1>9. Stacked(todo', x.base + 1) /\ IsSequence(todo')  BY <1>5, <1>6, <1>7
  <1>10. \A u : Keeps(now, u, x.base) /\ u.len = x.base + 1 /\ u.kind[x.base + 1] = m.kind
                  => Safe(todo', u)
    BY <1>5, <1>8
  <1>. QED  BY <1>1, <1>2, <1>9, <1>10, Reduces

LEMMA QuotedEnds ==
  ASSUME ParseInv, Doing("quoted"), NEW k \in {"char", "string"}, Reduced(Make(k, Pieces)),
         Advance, Then(<<>>), UNCHANGED rng_counter
  PROVE  ParseInv'
  <1>1. PICK x, q, n : x.do = "quoted" /\ Frame(x, q, n)  BY Framed
  <1>2. status = "parsing"  BY DEF Doing
  <1>3. /\ n \in Nat /\ now.len = n /\ State(now) /\ Awaits(q, x, now) /\ Ready(x, now)
        /\ x.base \in Nat /\ x.base <= n
    BY <1>1 DEF Frame
  <1>4. /\ IsSequence(Pieces) /\ Len(Pieces) = n - x.base
        /\ \A i \in 1 .. Len(Pieces) :
             Walks(Pieces[i]) /\ Pieces[i].kind = now.kind[x.base + i]
    BY <1>1, PiecesAre
  <1>5. \A i \in x.base + 1 .. n : now.kind[i] = "word"  BY <1>1, <1>3 DEF Ready
  <1>6. \A i \in 1 .. Len(Pieces) : Pieces[i].kind = "word"
    <2>1. \A i \in 1 .. Len(Pieces) : x.base + i \in x.base + 1 .. n  BY <1>3, <1>4
    <2>. QED  BY <1>4, <1>5, <2>1
  <1>7. Fits(k, Pieces, Len(Pieces))  BY <1>6 DEF Fits, AllWords
  <1>. DEFINE m == Make(k, Pieces)
  <1>8. Walks(m) /\ m.kind = k  BY <1>4, <1>7, MakeWalks DEF Built
  <1>9. k \in Expressions  BY ExpressionKinds
  <1>10. Reduced(m)  OBVIOUS
  <1>. HIDE DEF m
  <1>11. todo' = q /\ IsSequence(todo') /\ Stacked(todo', x.base)  BY <1>1, Alone
  <1>12. Stacked(todo', x.base + 1)
    <2>1. x.base + 1 \in Nat /\ x.base <= x.base + 1  BY <1>3
    <2>. QED  BY <1>3, <1>11, <2>1, StackedLower
  <1>13. ASSUME NEW u, Keeps(now, u, x.base), u.len = x.base + 1, u.kind[x.base + 1] = m.kind
         PROVE  Safe(q, u)
    <2>1. u.kind[x.base + 1] \in Expressions  BY <1>8, <1>9, <1>13
    <2>2. State(u) /\ u.room + Slack(x) >= now.room
          /\ \A i \in 1 .. x.base : u.kind[i] = now.kind[i]
      <3>1. State(u) /\ u.room >= now.room /\ \A i \in 1 .. x.base : u.kind[i] = now.kind[i]
        BY <1>13 DEF Keeps
      <3>. QED  BY <1>3, <3>1, RoomStays
    <2>. QED  BY <1>1, <1>3, <1>13, <2>1, <2>2, ClosedReturns
  <1>14. \A u : Keeps(now, u, x.base) /\ u.len = x.base + 1 /\ u.kind[x.base + 1] = m.kind
                  => Safe(todo', u)
    BY <1>11, <1>13
  <1>. QED  BY <1>1, <1>2, <1>8, <1>10, <1>11, <1>12, <1>14, Reduces

-----------------------------------------------------------------------------
\* Each action keeps the invariant.
LEMMA ParseProgramKeepsInv ==
  ASSUME ParseInv, ParseProgram
  PROVE  ParseInv'
  <1>1. /\ Doing("program")
        /\ \/ Peek = "eof" /\ Go(<<>>)
           \/ Skip(<<Again>>)
           \/ Take(FuncDef \o <<Again>>)
           \/ Go(<<Do("stmt"), Again>>)
    BY Zenon DEF ParseProgram
  <1>2. ASSUME Doing("program"), Peek = "eof" /\ Go(<<>>) PROVE ParseInv'
    BY <1>2, GoesBack DEF Doing
  <1>3. ASSUME Doing("program"), Skip(<<Again>>) PROVE ParseInv'
    BY <1>3, NewlineSkipped
  <1>4. ASSUME Doing("program"), Take(FuncDef \o <<Again>>) PROVE ParseInv'
    BY <1>4, FunctionCalled
  <1>5. ASSUME Doing("program"), Go(<<Do("stmt"), Again>>) PROVE ParseInv'
    BY <1>5, StatementCalled
  <1>. QED  BY <1>1, <1>2, <1>3, <1>4, <1>5, Zenon

LEMMA ParseBlockKeepsInv ==
  ASSUME ParseInv, ParseBlock
  PROVE  ParseInv'
  <1>1. \/ /\ Doing("block")
           /\ \/ Go(<<Eat("{"), Do("stmts"), Eat("}"), Build("block")>>)
        \/ /\ Doing("stmts")
           /\ \/ Go(<<>>)
              \/ Skip(<<Again>>)
              \/ Go(<<Do("stmt"), Again>>)
    BY Zenon DEF ParseBlock
  <1>2. ASSUME Doing("block"), Go(<<Eat("{"), Do("stmts"), Eat("}"), Build("block")>>) PROVE ParseInv'
    BY <1>2, BlockCalled, Zenon
  <1>3. ASSUME Doing("stmts"), Go(<<>>) PROVE ParseInv'
    BY <1>3, GoesBack DEF Doing
  <1>4. ASSUME Doing("stmts"), Skip(<<Again>>) PROVE ParseInv'
    BY <1>4, NewlineSkipped
  <1>5. ASSUME Doing("stmts"), Go(<<Do("stmt"), Again>>) PROVE ParseInv'
    BY <1>5, StatementCalled
  <1>. QED  BY <1>1, <1>2, <1>3, <1>4, <1>5, Zenon

LEMMA ParseTypeKeepsInv ==
  ASSUME ParseInv, ParseType
  PROVE  ParseInv'
  <1>1. \/ /\ Doing("type")
           /\ \/ Take(<<>>)
              \/ Take(<<Eat("<"), Do("element_type"), Eat(">")>>)
              \/ Fail("ERR_EXPECTED")
        \/ /\ Doing("element_type")
           /\ \/ Take(<<>>)
              \/ Fail("ERR_EXPECTED")
    BY Zenon DEF ParseType
  <1>2. ASSUME Doing("type"), Take(<<>>) PROVE ParseInv'
    BY <1>2, TakesBack DEF Doing
  <1>3. ASSUME Doing("type"), Take(<<Eat("<"), Do("element_type"), Eat(">")>>) PROVE ParseInv'
    BY <1>3, VectorTypeCalled
  <1>4. ASSUME Doing("type"), Fail("ERR_EXPECTED") PROVE ParseInv'
    BY <1>4, FailKeepsInv DEF Errors
  <1>5. ASSUME Doing("element_type"), Take(<<>>) PROVE ParseInv'
    BY <1>5, TakesBack DEF Doing
  <1>6. ASSUME Doing("element_type"), Fail("ERR_EXPECTED") PROVE ParseInv'
    BY <1>6, FailKeepsInv DEF Errors
  <1>. QED  BY <1>1, <1>2, <1>3, <1>4, <1>5, <1>6, Zenon

LEMMA InitializerKeepsInv ==
  ASSUME ParseInv, Initializer
  PROVE  ParseInv'
  <1>1. /\ Doing("initializer")
        /\ \/ Skip(<<Do("expr")>>)
           \/ Go(<<>>)
    BY Zenon DEF Initializer
  <1>2. ASSUME Doing("initializer"), Skip(<<Do("expr")>>) PROVE ParseInv'
    BY <1>2, InitializerCalled
  <1>3. ASSUME Doing("initializer"), Go(<<>>) PROVE ParseInv'
    BY <1>3, GoesBack DEF Doing
  <1>. QED  BY <1>1, <1>2, <1>3, Zenon

LEMMA ReturnTypeKeepsInv ==
  ASSUME ParseInv, ReturnType
  PROVE  ParseInv'
  <1>1. /\ Doing("return_type")
        /\ \/ Skip(<<Do("type")>>)
           \/ Then(<<>>) /\ Stay /\ Push(Word("void", {}))
    BY Zenon DEF ReturnType
  <1>2. ASSUME Doing("return_type"), Skip(<<Do("type")>>) PROVE ParseInv'
    BY <1>2, ReturnTypeCalled
  <1>3. ASSUME Doing("return_type"), Then(<<>>) /\ Stay /\ Push(Word("void", {})) PROVE ParseInv'
    <2>1. status = "parsing" /\ Walks(Word("void", {})) /\ Word("void", {}).kind = "word"
      BY <1>3, WordWalks DEF Doing
    <2>. QED  BY <1>3, <2>1, PushesBack
  <1>. QED  BY <1>1, <1>2, <1>3, Zenon

LEMMA ListKeepsInv ==
  ASSUME ParseInv, List
  PROVE  ParseInv'
  <1>. DEFINE kind == Head(todo).arg
  <1>1. /\ Doing("list")
        /\ \/ Go(<<>>)
           \/ Go(Element(kind) \o <<With("more", kind)>>)
    BY Zenon DEF List
  <1>2. ASSUME Doing("list"), Go(<<>>) PROVE ParseInv'
    BY <1>2, GoesBack DEF Doing
  <1>3. ASSUME Doing("list"), NEW k, k = kind, Go(Element(k) \o <<With("more", k)>>)
        PROVE  ParseInv'
    <2>1. CASE k = "param"
      <3>1. Go(Param \o <<With("more", k)>>)  BY <1>3, <2>1 DEF Element
      <3>. QED  BY <1>3, <2>1, <3>1, ParameterCalled
    <2>2. CASE k # "param"
      <3>1. Go(<<Do("expr")>> \o <<With("more", k)>>)  BY <1>3, <2>2 DEF Element
      <3>. QED  BY <1>3, <2>2, <3>1, ElementCalled
    <2>. QED  BY <2>1, <2>2
  <1>. QED  BY <1>1, <1>2, <1>3

LEMMA MoreKeepsInv ==
  ASSUME ParseInv, More
  PROVE  ParseInv'
  <1>. DEFINE kind == Head(todo).arg
  <1>1. /\ Doing("more")
        /\ \/ Skip(Element(kind) \o <<Again>>)
           \/ Go(<<>>)
    BY Zenon DEF More
  <1>2. ASSUME Doing("more"), Go(<<>>) PROVE ParseInv'
    BY <1>2, GoesBack DEF Doing
  <1>3. ASSUME Doing("more"), Skip(Element(kind) \o <<Again>>)
        PROVE  ParseInv'
    <2>1. CASE kind = "param"
      <3>1. Skip(Param \o <<Again>>)  BY <1>3, <2>1 DEF Element
      <3>. QED  BY <1>3, <2>1, <3>1, NextParameterCalled
    <2>2. CASE kind # "param"
      <3>1. Skip(<<Do("expr")>> \o <<Again>>)  BY <1>3, <2>2 DEF Element
      <3>. QED  BY <1>3, <2>2, <3>1, NextElementCalled
    <2>. QED  BY <2>1, <2>2
  <1>. QED  BY <1>1, <1>2, <1>3

LEMMA ParseStatementKeepsInv ==
  ASSUME ParseInv, ParseStatement
  PROVE  ParseInv'
  <1>1. /\ Doing("stmt")
        /\ \/ Go(Decl)
           \/ Take(PrintRest)
           \/ Take(ReadRest)
           \/ Take(IfRest)
           \/ Take(WhileRest)
           \/ Peek = "for" /\ Take(<<Eat("("), Do("for_init")>>)
           \/ Take(ReturnRest)
           \/ Peek \in {"break", "continue"} /\ Take(<<Do("end"), Build(Peek)>>)
           \/ Take(<<Do("directive"), Build("directive")>>)
           \/ Go(<<Do("expr"), Do("end")>>)
    BY Zenon DEF ParseStatement
  <1>2. ASSUME Doing("stmt"), Go(Decl) PROVE ParseInv'
    BY <1>2, DeclarationCalled
  <1>3. ASSUME Doing("stmt"), Take(PrintRest) PROVE ParseInv'
    BY <1>3, PrintCalled
  <1>4. ASSUME Doing("stmt"), Take(ReadRest) PROVE ParseInv'
    BY <1>4, ReadCalled
  <1>5. ASSUME Doing("stmt"), Take(IfRest) PROVE ParseInv'
    BY <1>5, IfCalled
  <1>6. ASSUME Doing("stmt"), Take(WhileRest) PROVE ParseInv'
    BY <1>6, WhileCalled
  <1>7. ASSUME Doing("stmt"), Peek = "for" /\ Take(<<Eat("("), Do("for_init")>>) PROVE ParseInv'
    BY <1>7, ForCalled
  <1>8. ASSUME Doing("stmt"), Take(ReturnRest) PROVE ParseInv'
    BY <1>8, ReturnCalled
  <1>9. ASSUME Doing("stmt"), Peek \in {"break", "continue"} /\ Take(<<Do("end"), Build(Peek)>>)
        PROVE  ParseInv'
    BY <1>9, JumpCalled
  <1>10. ASSUME Doing("stmt"), Take(<<Do("directive"), Build("directive")>>) PROVE ParseInv'
    BY <1>10, DirectiveStatementCalled
  <1>11. ASSUME Doing("stmt"), Go(<<Do("expr"), Do("end")>>) PROVE ParseInv'
    BY <1>11, ExpressionCalled
  <1>. QED  BY <1>1, <1>2, <1>3, <1>4, <1>5, <1>6, <1>7, <1>8, <1>9, <1>10, <1>11, Zenon

LEMMA DirectiveKeepsInv ==
  ASSUME ParseInv, Directive
  PROVE  ParseInv'
  <1>1. \/ /\ Doing("directive")
           /\ \/ Take(<<Do("directive_value")>>)
              \/ Fail("crash")
        \/ /\ Doing("directive_value")
           /\ \/ Take(<<>>)
              \/ Go(<<>>)
    BY Zenon DEF Directive
  <1>2. ASSUME Doing("directive"), Take(<<Do("directive_value")>>) PROVE ParseInv'
    BY <1>2, DirectiveCalled
  <1>3. ASSUME Doing("directive_value"), Take(<<>>) PROVE ParseInv'
    BY <1>3, TakesBack DEF Doing
  <1>4. ASSUME Doing("directive_value"), Go(<<>>) PROVE ParseInv'
    BY <1>4, GoesBack DEF Doing
  <1>5. ASSUME Fail("crash") PROVE ParseInv'
    BY <1>5, FailKeepsInv DEF Errors
  <1>. QED  BY <1>1, <1>2, <1>3, <1>4, <1>5, Zenon

LEMMA ElseBranchKeepsInv ==
  ASSUME ParseInv, ElseBranch
  PROVE  ParseInv'
  <1>1. \/ /\ Doing("else")
           /\ \/ Skip(<<Do("branch")>>)
              \/ Go(<<>>)
        \/ /\ Doing("branch")
           /\ \/ Take(IfRest)
              \/ Go(<<Do("block")>>)
    BY Zenon DEF ElseBranch
  <1>2. ASSUME Doing("else"), Skip(<<Do("branch")>>) PROVE ParseInv'
    BY <1>2, ElseCalled
  <1>3. ASSUME Doing("else"), Go(<<>>) PROVE ParseInv'
    BY <1>3, GoesBack DEF Doing
  <1>4. ASSUME Doing("branch"), Take(IfRest) PROVE ParseInv'
    BY <1>4, IfCalled
  <1>5. ASSUME Doing("branch"), Go(<<Do("block")>>) PROVE ParseInv'
    BY <1>5, BranchCalled
  <1>. QED  BY <1>1, <1>2, <1>3, <1>4, <1>5, Zenon

LEMMA ParseForStatementKeepsInv ==
  ASSUME ParseInv, ParseForStatement
  PROVE  ParseInv'
  <1>1. \/ /\ Doing("for_init")
           /\ \/ Go(Decl \o ForRest)
              \/ Then(ForRest) /\ Advance /\ Push(Null)
              \/ Go(<<Do("expr"), Finish("range?", "none")>>)
        \/ /\ Doing("range?")
           /\ \/ Skip(<<Do("block"), Finish("build", "range")>>)
              \/ Go(<<Eat(";")>> \o ForRest)
        \/ /\ Doing("optional")
           /\ \/ Then(<<>>) /\ Stay /\ Push(Null)
              \/ Go(<<Do("expr")>>)
    BY Zenon DEF ParseForStatement
  <1>2. ASSUME Doing("for_init"), Go(Decl \o ForRest) PROVE ParseInv'
    BY <1>2, HeaderDeclares
  <1>3. ASSUME Doing("for_init"), Then(ForRest) /\ Advance /\ Push(Null) PROVE ParseInv'
    BY <1>3, HeaderEmpty
  <1>4. ASSUME Doing("for_init"), Go(<<Do("expr"), Finish("range?", "none")>>) PROVE ParseInv'
    BY <1>4, HeaderExpression
  <1>5. ASSUME Doing("range?"), Skip(<<Do("block"), Finish("build", "range")>>) PROVE ParseInv'
    BY <1>5, RangeCalled
  <1>6. ASSUME Doing("range?"), Go(<<Eat(";")>> \o ForRest) PROVE ParseInv'
    BY <1>6, HeaderGoesThrough, Zenon
  <1>7. ASSUME Doing("optional"), Then(<<>>) /\ Stay /\ Push(Null) PROVE ParseInv'
    <2>1. status = "parsing" /\ Walks(Null) /\ Null.kind = "null"
      BY <1>7, LeafWalks DEF Doing, Null, Inner, Assignments, Node
    <2>. QED  BY <1>7, <2>1, PushesBack
  <1>8. ASSUME Doing("optional"), Go(<<Do("expr")>>) PROVE ParseInv'
    BY <1>8, OptionalCalled
  <1>. QED  BY <1>1, <1>2, <1>3, <1>4, <1>5, <1>6, <1>7, <1>8, Zenon

LEMMA ParseExpressionKeepsInv ==
  ASSUME ParseInv, ParseExpression
  PROVE  ParseInv'
  <1>1. \/ /\ Doing("expr")
           /\ \/ Go(<<Do("ternary"), Do("assignment")>>)
        \/ /\ Doing("ternary")
           /\ \/ Go(Chain(1) \o <<Do("question")>>)
        \/ /\ Doing("operand")
           /\ \/ Go(Chain(Head(todo).arg))
        \/ /\ Doing("call")
           /\ \/ Go(<<Do("primary"), Do("postfix")>>)
    BY Zenon DEF ParseExpression
  <1>2. ASSUME Doing("expr"), Go(<<Do("ternary"), Do("assignment")>>) PROVE ParseInv'
    BY <1>2, AssignmentCalled
  <1>3. ASSUME Doing("ternary"), Go(Chain(1) \o <<Do("question")>>) PROVE ParseInv'
    BY <1>3, TernaryCalled
  <1>4. ASSUME Doing("operand"), Go(Chain(Head(todo).arg)) PROVE ParseInv'
    BY <1>4, ChainCalled
  <1>5. ASSUME Doing("call"), Go(<<Do("primary"), Do("postfix")>>) PROVE ParseInv'
    BY <1>5, PostfixCalled
  <1>. QED  BY <1>1, <1>2, <1>3, <1>4, <1>5, Zenon

LEMMA ParseAssignmentKeepsInv ==
  ASSUME ParseInv, ParseAssignment
  PROVE  ParseInv'
  <1>1. /\ Doing("assignment")
        /\ \/ Take(<<Do("expr"), Finish("build", "assign")>>)
           \/ Take(<<Do("expr"), Finish("build", "compound")>>)
           \/ Go(<<>>)
    BY Zenon DEF ParseAssignment
  <1>2. ASSUME Doing("assignment"), Take(<<Do("expr"), Finish("build", "assign")>>) PROVE ParseInv'
    BY <1>2, ValueCalled
  <1>3. ASSUME Doing("assignment"), Take(<<Do("expr"), Finish("build", "compound")>>) PROVE ParseInv'
    BY <1>3, ValueCalled
  <1>4. ASSUME Doing("assignment"), Go(<<>>) PROVE ParseInv'
    BY <1>4, GoesBack DEF Doing
  <1>. QED  BY <1>1, <1>2, <1>3, <1>4, Zenon

LEMMA ParseTernaryKeepsInv ==
  ASSUME ParseInv, ParseTernary
  PROVE  ParseInv'
  <1>1. /\ Doing("question")
        /\ \/ Take(<<Do("ternary"), Eat(":"), Do("ternary"), Finish("build", "ternary")>>)
           \/ Go(<<>>)
    BY Zenon DEF ParseTernary
  <1>2. ASSUME Doing("question"),
               Take(<<Do("ternary"), Eat(":"), Do("ternary"), Finish("build", "ternary")>>)
        PROVE  ParseInv'
    BY <1>2, ChoiceCalled
  <1>3. ASSUME Doing("question"), Go(<<>>) PROVE ParseInv'
    BY <1>3, GoesBack DEF Doing
  <1>. QED  BY <1>1, <1>2, <1>3, Zenon

LEMMA ParseOperatorKeepsInv ==
  ASSUME ParseInv, ParseOperator
  PROVE  ParseInv'
  <1>1. /\ Doing("operators")
        /\ \/ \E level : Take(<<RightOperand(level), Finish("build", "binary"), Again>>)
           \/ Go(<<>>)
    BY Zenon DEF ParseOperator
  <1>2. ASSUME Doing("operators"), Go(<<>>) PROVE ParseInv'
    BY <1>2, GoesBack DEF Doing
  <1>3. ASSUME Doing("operators"), NEW level,
               Take(<<RightOperand(level), Finish("build", "binary"), Again>>)
        PROVE  ParseInv'
    <2>1. CASE level = 6  BY <1>3, <2>1, FactorCalled
    <2>2. CASE level # 6  BY <1>3, <2>2, TermCalled
    <2>. QED  BY <2>1, <2>2
  <1>. QED  BY <1>1, <1>2, <1>3

LEMMA ParseUnaryKeepsInv ==
  ASSUME ParseInv, ParseUnary
  PROVE  ParseInv'
  <1>1. /\ Doing("unary")
        /\ \/ Take(<<Do("unary"), Build("unary")>>)
           \/ Go(<<Do("primary"), Do("postfix")>>)
    BY Zenon DEF ParseUnary
  <1>2. ASSUME Doing("unary"), Take(<<Do("unary"), Build("unary")>>) PROVE ParseInv'
    BY <1>2, UnaryCalled
  <1>3. ASSUME Doing("unary"), Go(<<Do("primary"), Do("postfix")>>) PROVE ParseInv'
    BY <1>3, PostfixCalled
  <1>. QED  BY <1>1, <1>2, <1>3, Zenon

LEMMA ParseCallKeepsInv ==
  ASSUME ParseInv, ParseCall
  PROVE  ParseInv'
  <1>. DEFINE node == Last(done)
              w == Word(node.words[1], node.keeps)
              v == Update(Word(node.words[1], node.keeps \cup {current}), Step[Peek], One)
  <1>1. /\ Doing("postfix")
        /\ \/ /\ Then(<<With("list", "arg"), Eat(")"), Finish("build", "call"), Again>>)
              /\ Advance /\ Reduced(w) /\ UNCHANGED <<rng_counter, punned>>
           \/ Fail("ERR_INVALID_CALL_TARGET")
           \/ Skip(<<Do("expr"), Eat("]"), Finish("build", "access"), Again>>)
           \/ Skip(<<Do("name"), Do("method"), Finish("build", "member"), Again>>)
           \/ Then(<<Again>>) /\ Advance /\ Reduced(v) /\ UNCHANGED <<rng_counter, punned>>
           \/ Fail("ERR_INVALID_ASSIGN_TARGET")
           \/ Go(<<>>)
    BY Zenon DEF ParseCall
  <1>2. Walks(w) /\ w.kind = "word"  BY WordWalks
  <1>3. Walks(v) /\ v.kind = "assign"
    <2>1. Walks(One) /\ One.kind = "int"  BY LeafWalks DEF One, Node, Inner, Assignments
    <2>2. One.kind \in Expressions  BY <2>1 DEF Expressions, Literal
    <2>. QED  BY <2>1, <2>2, UpdateWalks
  <1>. HIDE DEF w, v
  <1>4. ASSUME Doing("postfix"), Advance, Reduced(w), UNCHANGED <<rng_counter, punned>>,
               Then(<<With("list", "arg"), Eat(")"), Finish("build", "call"), Again>>)
        PROVE  ParseInv'
    BY <1>2, <1>4, CallCalled
  <1>5. ASSUME Doing("postfix"), Then(<<Again>>), Advance, Reduced(v),
               UNCHANGED <<rng_counter, punned>>
        PROVE  ParseInv'
    BY <1>3, <1>5, StepTaken
  <1>6. ASSUME Doing("postfix"), Skip(<<Do("expr"), Eat("]"), Finish("build", "access"), Again>>)
        PROVE  ParseInv'
    BY <1>6, IndexCalled
  <1>7. ASSUME Doing("postfix"),
               Skip(<<Do("name"), Do("method"), Finish("build", "member"), Again>>)
        PROVE  ParseInv'
    BY <1>7, MemberCalled
  <1>8. ASSUME Fail("ERR_INVALID_CALL_TARGET") \/ Fail("ERR_INVALID_ASSIGN_TARGET")
        PROVE  ParseInv'
    BY <1>8, FailKeepsInv DEF Errors
  <1>9. ASSUME Doing("postfix"), Go(<<>>) PROVE ParseInv'
    BY <1>9, GoesBack DEF Doing
  <1>. QED  BY <1>1, <1>4, <1>5, <1>6, <1>7, <1>8, <1>9, Zenon

LEMMA MethodArgsKeepsInv ==
  ASSUME ParseInv, MethodArgs
  PROVE  ParseInv'
  <1>1. /\ Doing("method")
        /\ \/ Go(Parens(<<With("list", "arg")>>))
           \/ Go(<<>>)
    BY Zenon DEF MethodArgs
  <1>2. ASSUME Doing("method"), Go(Parens(<<With("list", "arg")>>)) PROVE ParseInv'
    BY <1>2, ArgumentsCalled
  <1>3. ASSUME Doing("method"), Go(<<>>) PROVE ParseInv'
    BY <1>3, GoesBack DEF Doing
  <1>. QED  BY <1>1, <1>2, <1>3, Zenon

LEMMA ParsePrimaryKeepsInv ==
  ASSUME ParseInv, ParsePrimary
  PROVE  ParseInv'
  <1>. DEFINE literal == Node(Literals[Peek], <<Peek>>, {current}, <<>>)
              name == Node("identifier", <<Peek>>, {current}, <<>>)
  <1>1. /\ Doing("primary")
        /\ \/ Peek \in DOMAIN Literals /\ Then(<<>>) /\ Advance /\ Push(literal)
           \/ Then(<<>>) /\ Advance /\ Push(name)
           \/ Go(Parens(<<Do("expr")>>))
           \/ Skip(<<With("quoted", Peek)>>)
           \/ Skip(<<With("list", "element"), Eat("]"), Build("list")>>)
           \/ Fail("ERR_UNEXPECTED_TOKEN")
    BY Zenon DEF ParsePrimary
  <1>2. ASSUME Doing("primary"), NEW kind, kind \notin Inner, kind \in Expressions, NEW words,
               NEW keeps, Then(<<>>), Advance, Push(Node(kind, words, keeps, <<>>))
        PROVE  ParseInv'
    <2>. DEFINE m == Node(kind, words, keeps, <<>>)
    <2>1. Walks(m)  BY <1>2, LeafWalks
    <2>2. m.kind \in Expressions  BY <1>2 DEF Node
    <2>. HIDE DEF m
    <2>3. Push(m)  BY <1>2, Zenon DEF m
    <2>. QED  BY <1>2, <2>1, <2>2, <2>3, PushesBack
  <1>3. ASSUME Doing("primary"), Peek \in DOMAIN Literals, Then(<<>>), Advance, Push(literal)
        PROVE  ParseInv'
    <2>1. Literals[Peek] \in {"int", "float", "bool"}  BY <1>3 DEF Literals
    <2>2. Literals[Peek] \notin Inner /\ Literals[Peek] \in Expressions
      BY <2>1 DEF Inner, Assignments, Expressions, Literal
    <2>. QED  BY <1>2, <1>3, <2>2
  <1>4. ASSUME Doing("primary"), Then(<<>>), Advance, Push(name)
        PROVE  ParseInv'
    <2>1. "identifier" \notin Inner /\ "identifier" \in Expressions
      BY DEF Inner, Assignments, Expressions
    <2>. QED  BY <1>2, <1>4, <2>1
  <1>5. ASSUME Doing("primary"), Go(Parens(<<Do("expr")>>)) PROVE ParseInv'
    BY <1>5, GroupCalled
  <1>6. ASSUME Doing("primary"), Skip(<<With("quoted", Peek)>>) PROVE ParseInv'
    BY <1>6, QuoteCalled
  <1>7. ASSUME Doing("primary"), Skip(<<With("list", "element"), Eat("]"), Build("list")>>)
        PROVE  ParseInv'
    BY <1>7, ElementsCalled
  <1>8. ASSUME Fail("ERR_UNEXPECTED_TOKEN") PROVE ParseInv'
    BY <1>8, FailKeepsInv DEF Errors
  <1>. QED  BY <1>1, <1>3, <1>4, <1>5, <1>6, <1>7, <1>8, Zenon

LEMMA ParseQuotedKeepsInv ==
  ASSUME ParseInv, ParseQuoted
  PROVE  ParseInv'
  <1>. DEFINE single == Head(todo).arg = "sq" /\ Len(Pieces) = 1 /\ Pieces[1].words = <<"qchar">>
              k == IF single THEN "char" ELSE "string"
  <1>1. /\ Doing("quoted")
        /\ \/ /\ Then(<<>>) /\ Advance /\ Reduced(Make(k, Pieces))
              /\ UNCHANGED <<rng_counter, punned>>
           \/ Take(<<Again>>)
    BY Zenon DEF ParseQuoted
  <1>2. k \in {"char", "string"}  OBVIOUS
  <1>. HIDE DEF k
  <1>3. ASSUME Doing("quoted"), Then(<<>>), Advance, Reduced(Make(k, Pieces)),
               UNCHANGED <<rng_counter, punned>>
        PROVE  ParseInv'
    BY <1>2, <1>3, QuotedEnds
  <1>4. ASSUME Doing("quoted"), Take(<<Again>>) PROVE ParseInv'
    BY <1>4, QuotedTaken
  <1>. QED  BY <1>1, <1>3, <1>4, Zenon

LEMMA AcceptKeepsInv ==
  ASSUME ParseInv, Accept
  PROVE  ParseInv'
  <1>1. status = "parsing" /\ todo = <<>> /\ status' = "parsed"
        /\ UNCHANGED <<tokens, current, input, todo, done, rng_counter, punned>>
    BY DEF Accept
  <1>2. Whole(now)  BY <1>1, SafeNil DEF ParseInv
  <1>3. now' = now /\ CursorInv'  BY <1>1 DEF now, Peek, CursorInv, Last, ParseInv
  <1>4. Whole(now')  BY <1>2, <1>3
  <1>. QED  BY <1>1, <1>3, <1>4 DEF ParseInv, Stacked

-----------------------------------------------------------------------------
\* The initial states and the whole next-state relation.
LEMMA InitGivesInv ==
  ASSUME Init
  PROVE  ParseInv
  <1>. DEFINE a == Item("program", "none", 0)  b == Item("build", "program", 0)
  <1>1. /\ input \in Inputs /\ tokens = input.start /\ current = 1 /\ todo = <<a, b>>
        /\ done = <<>> /\ rng_counter = 0 /\ status = "parsing"
    BY DEF Init
  <1>2. CursorInv
    <2>1. input.start \in Seq(STRING) /\ input.start # <<>>  BY <1>1, InputsAssumption
    <2>2. IsSequence(tokens) /\ Len(tokens) \in Nat /\ Len(tokens) > 0
      BY <1>1, <2>1 DEF IsSequence
    <2>. QED  BY <1>1, <2>2 DEF CursorInv
  <1>3. IsSequence(todo) /\ todo = Cons(a, Cons(b, <<>>)) /\ IsSequence(Cons(b, <<>>))
    <2>1. IsSequence(<<a, b>>) /\ IsSequence(<<b>>)  BY Tuples
    <2>2. <<a, b>> = Cons(a, <<b>>) /\ <<b>> = Cons(b, <<>>)  BY TupleCons, Zenon
    <2>. QED  BY <1>1, <2>1, <2>2, Zenon
  <1>4. Len(done) = 0 /\ IsSequence(done)  BY <1>1, Tuples
  <1>5. Stacked(todo, Len(done))
    <2>1. IsSequence(<<>>) /\ Stacked(<<>>, 0)  BY Tuples DEF Stacked
    <2>2. Stacked(Cons(b, <<>>), 0)  BY <2>1, ItemHas, StackedCons
    <2>3. Stacked(Cons(a, Cons(b, <<>>)), 0)  BY <1>3, <2>2, ItemHas, StackedCons
    <2>. QED  BY <1>3, <1>4, <2>3
  <1>6. now.len = 0 /\ now.room = 1 /\ State(now)  BY <1>1, <1>4 DEF now, State
  <1>7. Safe(Cons(a, Cons(b, <<>>)), now)
    <2>1. a.do = "program" /\ Plain(a) /\ Slack(a) = 0  BY DEF Item, Plain, Closers, Slack
    <2>2. ASSUME NEW t, Goes(a, now, t)
          PROVE  Safe(Cons(b, <<>>), t)
      <3>1. /\ State(t) /\ t.room >= 1 /\ t.next = "eof"
            /\ Adds(0, Statements \cup {"func"}, now, t)
        BY <1>6, <2>1, <2>2 DEF Goes, Does, State
      <3>2. 0 <= t.len /\ \A i \in 1 .. t.len : t.kind[i] \in Statements \cup {"func"}
        BY <3>1 DEF Adds, State
      <3>3. \A p : (\A i \in 1 .. t.len - 0 : p[i].kind = t.kind[0 + i])
                     => Fits("program", p, t.len - 0)
        BY <3>1, <3>2 DEF Fits, Only, State
      <3>4. ASSUME NEW v, State(v), v.room >= t.room, Adds(0, Giving("program"), t, v),
                   v.len = 0 + 1, v.next = t.next
            PROVE  Safe(<<>>, v)
        <4>1. v.kind[1] = "program"  BY <3>4 DEF Adds, Giving
        <4>2. v.room >= 1  BY <3>1, <3>4 DEF State
        <4>. QED  BY <3>1, <3>4, <4>1, <4>2, SafeNil DEF Whole
      <3>5. IsSequence(<<>>) /\ 0 \in Nat /\ "program" \in Built  BY Tuples DEF Built
      <3>. QED  BY <3>1, <3>2, <3>3, <3>4, <3>5, Builds
    <2>. HIDE DEF a, b
    <2>. QED  BY <1>3, <1>6, <2>1, <2>2, Plain1
  <1>. QED
    BY <1>1, <1>2, <1>3, <1>4, <1>5, <1>7 DEF ParseInv

LEMMA NextKeepsInv ==
  ASSUME ParseInv, [Parse]_parserVars
  PROVE  ParseInv'
  <1>1. CASE UNCHANGED parserVars
    <2>1. UNCHANGED <<tokens, current, input, todo, done, rng_counter, status>>
      BY <1>1 DEF parserVars
    <2>2. now' = now  BY <2>1 DEF now, Peek
    <2>. QED  BY <2>1, <2>2 DEF ParseInv, CursorInv, Last, Stacked
  <1>2. ASSUME ParseFunction PROVE ParseInv'
    BY <1>2, ParseProgramKeepsInv, ParseBlockKeepsInv, ParseTypeKeepsInv, InitializerKeepsInv,
       ReturnTypeKeepsInv, ListKeepsInv, MoreKeepsInv DEF ParseFunction
  <1>3. ASSUME ParseStatements PROVE ParseInv'
    BY <1>3, ParseStatementKeepsInv, DirectiveKeepsInv, ElseBranchKeepsInv,
       ParseForStatementKeepsInv, BuildRangeKeepsInv DEF ParseStatements
  <1>4. ASSUME ParseExpressions PROVE ParseInv'
    BY <1>4, ParseExpressionKeepsInv, ParseAssignmentKeepsInv, AssignToKeepsInv,
       ParseTernaryKeepsInv, ParseOperatorKeepsInv, ParseUnaryKeepsInv, ParseCallKeepsInv,
       MethodArgsKeepsInv, BuildAccessKeepsInv, ParsePrimaryKeepsInv, ParseQuotedKeepsInv
       DEF ParseExpressions
  <1>5. ASSUME Consume \/ ConsumeName \/ ConsumeEndOfStatement \/ BuildNode \/ Accept
        PROVE  ParseInv'
    BY <1>5, ConsumeKeepsInv, ConsumeNameKeepsInv, ConsumeEndOfStatementKeepsInv,
       BuildNodeKeepsInv, AcceptKeepsInv
  <1>. QED  BY <1>1, <1>2, <1>3, <1>4, <1>5 DEF Parse

LEMMA InvGivesTypes ==
  ASSUME ParseInv
  PROVE  TypeOK
  <1>1. Len(tokens) \in Nat /\ Len(done) \in Nat /\ Len(todo) \in Nat /\ DOMAIN todo = 1 .. Len(todo)
    BY PushLength DEF ParseInv, CursorInv, IsSequence
  <1>2. /\ current \in 1 .. Len(tokens) + 1
        /\ current = Len(tokens) + 1 => Last(tokens) = "eof"
        /\ rng_counter \in 0 .. Len(tokens)
    BY <1>1 DEF ParseInv, CursorInv
  <1>3. \A i \in DOMAIN todo : todo[i].base <= Len(done)  BY <1>1 DEF ParseInv, Stacked
  <1>4. status = "parsed" => todo = <<>> /\ Len(done) = 1 /\ Peek = "eof"
    BY NowIs DEF ParseInv, Whole
  <1>. QED  BY <1>2, <1>3, <1>4 DEF TypeOK, ParseInv

LEMMA InvGivesWalkable ==
  ASSUME ParseInv
  PROVE  TreesAreWalkable
  <1>. SUFFICES ASSUME status = "parsed" PROVE \A n \in Subtrees(tree) : Placed(n)
    BY DEF TreesAreWalkable
  <1>1. Len(done) = 1  BY NowIs DEF ParseInv, Whole
  <1>2. Walks(tree)  BY <1>1 DEF ParseInv, tree
  <1>. QED  BY <1>2, WalksDown

\* On every token list the cursor stays on the list or right behind its end,
\* the counter of the range loops never passes the tokens, each running
\* function finds the pieces it had when it was entered, and what is left of a
\* whole parse is one tree: no parse function takes more than it made.
THEOREM ParserKeepsTypeOK == ParserSpec => []TypeOK
  <1>1. Init => ParseInv  BY InitGivesInv
  <1>2. ParseInv /\ [Parse]_parserVars => ParseInv'  BY NextKeepsInv
  <1>3. ParseInv => TypeOK  BY InvGivesTypes
  <1>. QED  BY <1>1, <1>2, <1>3, PTL DEF ParserSpec

\* On every token list, whatever its length and its names, the tree of a
\* parsed program has the shape the analyser and the generator index into.
THEOREM ParserBuildsWalkableTrees == ParserSpec => []TreesAreWalkable
  <1>1. Init => ParseInv  BY InitGivesInv
  <1>2. ParseInv /\ [Parse]_parserVars => ParseInv'  BY NextKeepsInv
  <1>3. ParseInv => TreesAreWalkable  BY InvGivesWalkable
  <1>. QED  BY <1>1, <1>2, <1>3, PTL DEF ParserSpec

-----------------------------------------------------------------------------
\* What the pieces keep of the text: the children of every node in the tree
\* of n are apart, and n covers what it keeps and what its children cover.
Parted(n) == \E S : n \in S /\ Closed(S) /\ \A m \in S : KidsApart(m)
Sound(n) ==
  /\ n.covers = n.keeps \cup UNION {n.kids[i].covers : i \in DOMAIN n.kids}
  /\ Parted(n)

LEMMA DomainIs == \A s : IsSequence(s) => DOMAIN s = 1 .. Len(s) /\ Len(s) \in Nat
  <1>. TAKE s
  <1>. HAVE IsSequence(s)
  <1>1. PICK S : s \in Seq(S)  BY DEF IsSequence
  <1>. QED  BY <1>1

LEMMA PartedTree ==
  ASSUME NEW n, n.height \in Nat, Parted(n)
  PROVE  \A m \in Subtrees(n) : KidsApart(m)
  <1>1. PICK S : n \in S /\ Closed(S) /\ \A m \in S : KidsApart(m)  BY DEF Parted
  <1>2. Subtrees(n) \subseteq S  BY <1>1, SubtreesInside DEF Closed
  <1>. QED  BY <1>1, <1>2

LEMMA PartedKids ==
  ASSUME NEW n, Parted(n)
  PROVE  \A i \in DOMAIN n.kids : Parted(n.kids[i])
  <1>1. PICK S : n \in S /\ Closed(S) /\ \A m \in S : KidsApart(m)  BY DEF Parted
  <1>. QED  BY <1>1 DEF Parted, Closed

LEMMA NodeSound ==
  ASSUME NEW kids, IsSequence(kids), \A i \in 1 .. Len(kids) : Parted(kids[i]),
         \A i, j \in 1 .. Len(kids) : i # j => kids[i].covers \cap kids[j].covers = {},
         NEW kind, NEW words, NEW keeps
  PROVE  /\ Sound(Node(kind, words, keeps, kids))
         /\ Node(kind, words, keeps, kids).covers
              = keeps \cup UNION {kids[i].covers : i \in 1 .. Len(kids)}
  <1>. DEFINE n == Node(kind, words, keeps, kids)
              Witness(m, S) == m \in S /\ Closed(S) /\ \A x \in S : KidsApart(x)
              F == [i \in DOMAIN kids |-> CHOOSE S : Witness(kids[i], S)]
              S == {n} \cup UNION {F[i] : i \in DOMAIN kids}
  <1>0. DOMAIN kids = 1 .. Len(kids)  BY DomainIs
  <1>1. /\ n.kids = kids /\ n.keeps = keeps
        /\ n.covers = keeps \cup UNION {kids[i].covers : i \in DOMAIN kids}
    BY DEF Node
  <1>. HIDE DEF n
  <1>2. KidsApart(n)  BY <1>0, <1>1 DEF KidsApart
  <1>3. \A i \in DOMAIN kids : Witness(kids[i], F[i])
    <2>. TAKE i \in DOMAIN kids
    <2>1. \E X : Witness(kids[i], X)  BY <1>0 DEF Parted
    <2>. HIDE DEF Witness
    <2>. QED  BY <2>1
  <1>. HIDE DEF F
  <1>4. Closed(S)
    <2>. SUFFICES ASSUME NEW m \in S, NEW i \in DOMAIN m.kids PROVE m.kids[i] \in S
      BY DEF Closed
    <2>1. CASE m = n  BY <1>1, <1>3, <2>1
    <2>2. CASE \E j \in DOMAIN kids : m \in F[j]  BY <1>3, <2>2 DEF Closed
    <2>. QED  BY <2>1, <2>2
  <1>5. \A m \in S : KidsApart(m)  BY <1>2, <1>3
  <1>6. Parted(n)  BY <1>4, <1>5 DEF Parted
  <1>7. Sound(n)  BY <1>1, <1>6 DEF Sound
  <1>. QED  BY <1>0, <1>1, <1>7 DEF n

LEMMA LeafSound ==
  ASSUME NEW kind, NEW words, NEW keeps
  PROVE  /\ Sound(Node(kind, words, keeps, <<>>))
         /\ Node(kind, words, keeps, <<>>).covers = keeps
  <1>. DEFINE kids == <<>>
  <1>1. IsSequence(kids) /\ Len(kids) = 0  BY Tuples
  <1>. HIDE DEF kids
  <1>2. /\ Sound(Node(kind, words, keeps, kids))
        /\ Node(kind, words, keeps, kids).covers
             = keeps \cup UNION {kids[i].covers : i \in 1 .. Len(kids)}
    BY <1>1, NodeSound
  <1>3. UNION {kids[i].covers : i \in 1 .. Len(kids)} = {}  BY <1>1
  <1>. QED  BY <1>2, <1>3 DEF kids

LEMMA NodeHas ==
  \A kind, words, keeps, kids :
    /\ Node(kind, words, keeps, kids).kind = kind
    /\ Node(kind, words, keeps, kids).words = words
    /\ Node(kind, words, keeps, kids).keeps = keeps
    /\ Node(kind, words, keeps, kids).kids = kids
  BY DEF Node

\* A word, and a name, covers what it keeps.
LEMMA LeafCovers ==
  ASSUME NEW n, Walks(n), Sound(n), n.kind \in {"word", "identifier"}
  PROVE  n.covers = n.keeps
  <1>1. Placed(n) /\ IsSequence(n.kids)  BY WalksDown DEF Shaped
  <1>2. n.kind \notin Inner  BY DEF Inner, Assignments
  <1>3. Len(n.kids) = 0  BY <1>1, <1>2 DEF Placed
  <1>4. DOMAIN n.kids = {}  BY <1>1, <1>3, DomainIs
  <1>. QED  BY <1>4 DEF Sound

\* Making a node of its pieces loses nothing of them.
LEMMA MakeSound ==
  ASSUME NEW p, IsSequence(p),
         \A i \in 1 .. Len(p) : Parted(p[i]) /\ (IsWord(p[i]) => p[i].covers = p[i].keeps),
         \A i, j \in 1 .. Len(p) : i # j /\ ~ IsWord(p[i]) /\ ~ IsWord(p[j])
                                   => p[i].covers \cap p[j].covers = {},
         NEW kind
  PROVE  /\ Sound(Make(kind, p))
         /\ Make(kind, p).covers = UNION {p[i].covers : i \in 1 .. Len(p)}
  <1>. DEFINE c == Children(p)  words == Spelled(p)  keeps == KeptBy(p)
  <1>1. PICK e : Chosen(p, Len(p), c, e)  BY ChildrenChosen
  <1>2. DOMAIN p = 1 .. Len(p)  BY DomainIs
  <1>3. keeps = UNION {p[i].keeps : i \in {j \in 1 .. Len(p) : IsWord(p[j])}}
    BY <1>2 DEF KeptBy
  <1>. HIDE DEF c, words, keeps
  <1>4. IsSequence(c) /\ Len(c) \in Nat  BY <1>1, DomainIs DEF Chosen
  <1>5. \A i \in 1 .. Len(c) : e[i] \in 1 .. Len(p) /\ ~ IsWord(p[e[i]]) /\ c[i] = p[e[i]]
    BY <1>1 DEF Chosen
  <1>6. \A i \in 1 .. Len(c) : Parted(c[i])  BY <1>5
  <1>7. \A i, j \in 1 .. Len(c) : i # j => e[i] # e[j]
    <2>. SUFFICES ASSUME NEW i \in 1 .. Len(c), NEW j \in 1 .. Len(c), i < j
                  PROVE  e[i] # e[j]
      BY <1>4
    <2>1. e[i] < e[j] /\ e[i] \in 1 .. Len(p)  BY <1>1 DEF Chosen
    <2>. QED  BY <2>1
  <1>8. \A i, j \in 1 .. Len(c) : i # j => c[i].covers \cap c[j].covers = {}
    BY <1>5, <1>7
  <1>9. /\ Sound(Node(kind, words, keeps, c))
        /\ Node(kind, words, keeps, c).covers
             = keeps \cup UNION {c[i].covers : i \in 1 .. Len(c)}
    BY <1>4, <1>6, <1>8, NodeSound
  <1>10. \A i \in 1 .. Len(p) : IsWord(p[i]) => p[i].covers = p[i].keeps
    OBVIOUS
  <1>11. \A i \in 1 .. Len(p) : ~ IsWord(p[i]) => \E j \in 1 .. Len(c) : c[j] = p[i]
    BY <1>1 DEF Chosen
  <1>12. keeps \cup UNION {c[i].covers : i \in 1 .. Len(c)}
           = UNION {p[i].covers : i \in 1 .. Len(p)}
    <2>1. keeps = UNION {p[i].covers : i \in {j \in 1 .. Len(p) : IsWord(p[j])}}
      BY <1>3, <1>10
    <2>2. UNION {c[i].covers : i \in 1 .. Len(c)}
            = UNION {p[i].covers : i \in {j \in 1 .. Len(p) : ~ IsWord(p[j])}}
      BY <1>5, <1>11
    <2>. QED  BY <2>1, <2>2
  <1>. QED  BY <1>9, <1>12 DEF Make, c, words, keeps

-----------------------------------------------------------------------------
\* The account of the text: every token before the cursor that does more than
\* separate is in a piece, no two pieces share one, and none is of a token to
\* come.
Account ==
  /\ \A i \in 1 .. Len(done) : Sound(done[i]) /\ done[i].covers \subseteq 1 .. current - 1
  /\ \A i, j \in 1 .. Len(done) : i # j => done[i].covers \cap done[j].covers = {}
  /\ \A k \in 1 .. current - 1 :
       tokens[k] \notin Separators => \E i \in 1 .. Len(done) : k \in done[i].covers

EofIsLast == \A i \in 1 .. Len(tokens) - 1 : tokens[i] # "eof"

LEMMA TokensMove ==
  ASSUME CursorInv, EofIsLast, UNCHANGED input, Advance
  PROVE  /\ EofIsLast' /\ current \in Nat /\ Len(tokens) \in Nat
         /\ \A k \in 1 .. Len(tokens) : tokens'[k] = tokens[k]
         /\ \/ current' = current /\ current = Len(tokens) + 1 /\ Peek = "eof"
            \/ current' = current + 1 /\ current <= Len(tokens) /\ tokens[current] = Peek
  <1>0. /\ IsSequence(tokens) /\ Len(tokens) \in Nat /\ Len(tokens) > 0
        /\ current \in 1 .. Len(tokens) + 1 /\ current \in Nat
    BY PushLength DEF CursorInv
  <1>1. current' = IF current > Len(tokens) THEN current ELSE current + 1
    BY DEF Advance
  <1>2. \/ current' = current /\ current = Len(tokens) + 1 /\ Peek = "eof"
        \/ current' = current + 1 /\ current <= Len(tokens) /\ tokens[current] = Peek
    BY <1>0, <1>1, PeekTells DEF Peek
  <1>3. CASE UNCHANGED tokens
    BY <1>0, <1>2, <1>3 DEF EofIsLast
  <1>4. CASE Last(tokens) # "eof" /\ \E t : tokens' = Append(tokens, t)
    <2>1. PICK t : tokens' = Append(tokens, t)  BY <1>4
    <2>2. /\ Len(tokens') = Len(tokens) + 1
          /\ \A k \in 1 .. Len(tokens) : tokens'[k] = tokens[k]
      BY <1>0, <2>1, PushLength
    <2>3. \A k \in 1 .. Len(tokens) : tokens[k] # "eof"
      <3>1. tokens[Len(tokens)] # "eof"  BY <1>4 DEF Last
      <3>. QED  BY <1>0, <3>1 DEF EofIsLast
    <2>4. EofIsLast'  BY <1>0, <2>2, <2>3 DEF EofIsLast
    <2>. QED  BY <1>0, <1>2, <2>2, <2>4
  <1>5. \/ UNCHANGED tokens
        \/ Last(tokens) # "eof" /\ \E t : tokens' = Append(tokens, t)
    BY Zenon DEF Advance, Reveal
  <1>. QED  BY <1>3, <1>4, <1>5

LEMMA CursorBetween ==
  ASSUME NEW a \in Int, NEW b \in Int, 1 <= a, a <= b
  PROVE  /\ 1 .. a - 1 \subseteq 1 .. b - 1 /\ a .. b - 1 \subseteq 1 .. b - 1
         /\ (1 .. a - 1) \cap (a .. b - 1) = {}
         /\ 1 .. b - 1 = (1 .. a - 1) \cup (a .. b - 1)
  OBVIOUS

\* What the cursor passes in a step.
LEMMA Passed ==
  ASSUME CursorInv, EofIsLast, UNCHANGED input, NEW X,
         \/ Stay /\ X = {}
         \/ Advance /\ Peek \in Separators /\ X = {}
         \/ Advance /\ current <= Len(tokens) /\ X = {current}
  PROVE  /\ X \subseteq current .. current' - 1
         /\ \A k \in 1 .. current - 1 : tokens'[k] = tokens[k]
         /\ \A k \in current .. current' - 1 : k \in X \/ tokens'[k] \in Separators
         /\ 1 .. current - 1 \subseteq 1 .. current' - 1
         /\ current .. current' - 1 \subseteq 1 .. current' - 1
         /\ (1 .. current - 1) \cap (current .. current' - 1) = {}
         /\ 1 .. current' - 1 = (1 .. current - 1) \cup (current .. current' - 1)
  <1>0. Len(tokens) \in Nat /\ current \in 1 .. Len(tokens) + 1
    BY DomainIs DEF CursorInv
  <1>1. /\ current' \in Int /\ current' >= current /\ X \subseteq current .. current' - 1
        /\ \A k \in 1 .. current - 1 : tokens'[k] = tokens[k]
        /\ \A k \in current .. current' - 1 : k \in X \/ tokens'[k] \in Separators
    <2>1. CASE Stay /\ X = {}
      <3>1. current' = current /\ tokens' = tokens  BY <2>1 DEF Stay
      <3>. QED  BY <1>0, <2>1, <3>1
    <2>2. ASSUME Advance, \/ Peek \in Separators /\ X = {}
                          \/ current <= Len(tokens) /\ X = {current}
          PROVE  /\ current' \in Int /\ current' >= current /\ X \subseteq current .. current' - 1
                 /\ \A k \in 1 .. current - 1 : tokens'[k] = tokens[k]
                 /\ \A k \in current .. current' - 1 : k \in X \/ tokens'[k] \in Separators
      <3>1. /\ \A k \in 1 .. Len(tokens) : tokens'[k] = tokens[k]
            /\ \/ current' = current /\ current = Len(tokens) + 1
               \/ current' = current + 1 /\ current <= Len(tokens) /\ tokens[current] = Peek
        BY <2>2, TokensMove
      <3>2. \A k \in 1 .. current - 1 : tokens'[k] = tokens[k]  BY <1>0, <3>1
      <3>3. CASE current' = current /\ current = Len(tokens) + 1
        BY <1>0, <2>2, <3>2, <3>3
      <3>4. CASE current' = current + 1 /\ current <= Len(tokens) /\ tokens[current] = Peek
        <4>1. tokens'[current] = Peek  BY <1>0, <3>1, <3>4
        <4>2. current .. current' - 1 = {current}  BY <1>0, <3>4
        <4>. QED  BY <1>0, <2>2, <3>2, <3>4, <4>1, <4>2
      <3>. QED  BY <3>1, <3>3, <3>4
    <2>. QED  BY <2>1, <2>2
  <1>2. current \in Int /\ 1 <= current /\ current <= current'  BY <1>0, <1>1
  <1>3. /\ 1 .. current - 1 \subseteq 1 .. current' - 1
        /\ current .. current' - 1 \subseteq 1 .. current' - 1
        /\ (1 .. current - 1) \cap (current .. current' - 1) = {}
        /\ 1 .. current' - 1 = (1 .. current - 1) \cup (current .. current' - 1)
    BY <1>1, <1>2, CursorBetween
  <1>. QED  BY <1>1, <1>3

\* The pieces above b become one, or one is added when there are none; a token
\* that is taken goes into it, a separator need not.
LEMMA AccountGoesOn ==
  ASSUME CursorInv, EofIsLast, Account, IsSequence(done), UNCHANGED input,
         NEW b \in Nat, b <= Len(done), NEW n, Sound(n), NEW X,
         done' = Append(SubSeq(done, 1, b), n),
         n.covers = X \cup UNION {done[i].covers : i \in b + 1 .. Len(done)},
         \/ Stay /\ X = {}
         \/ Advance /\ Peek \in Separators /\ X = {}
         \/ Advance /\ current <= Len(tokens) /\ X = {current}
  PROVE  Account'
  <1>0. Len(done) \in Nat /\ Len(tokens) \in Nat /\ current \in 1 .. Len(tokens) + 1
    BY DomainIs DEF CursorInv
  <1>1. /\ Len(done') = b + 1 /\ done'[b + 1] = n
        /\ \A i \in 1 .. b : done'[i] = done[i]
    BY ReducedPieces
  <1>2. /\ X \subseteq current .. current' - 1
        /\ \A k \in 1 .. current - 1 : tokens'[k] = tokens[k]
        /\ \A k \in current .. current' - 1 : k \in X \/ tokens'[k] \in Separators
        /\ 1 .. current - 1 \subseteq 1 .. current' - 1
        /\ current .. current' - 1 \subseteq 1 .. current' - 1
        /\ (1 .. current - 1) \cap (current .. current' - 1) = {}
        /\ 1 .. current' - 1 = (1 .. current - 1) \cup (current .. current' - 1)
    BY Passed
  <1>3. \A i \in 1 .. Len(done) : Sound(done[i]) /\ done[i].covers \subseteq 1 .. current - 1
    BY DEF Account
  <1>4. \A i, j \in 1 .. Len(done) : i # j => done[i].covers \cap done[j].covers = {}
    BY DEF Account
  <1>5. \A k \in 1 .. current - 1 :
          tokens[k] \notin Separators => \E i \in 1 .. Len(done) : k \in done[i].covers
    BY DEF Account
  <1>6. \A i \in b + 1 .. Len(done) : i \in 1 .. Len(done)  BY <1>0
  <1>7. \A i \in 1 .. b : i \in 1 .. Len(done) /\ i \notin b + 1 .. Len(done)  BY <1>0
  <1>8. n.covers \subseteq 1 .. current' - 1
    <2>1. ASSUME NEW k \in n.covers PROVE k \in 1 .. current' - 1
      <3>1. CASE k \in X  BY <1>2, <3>1
      <3>2. CASE k \notin X
        <4>1. PICK i \in b + 1 .. Len(done) : k \in done[i].covers  BY <3>2
        <4>2. k \in 1 .. current - 1  BY <1>3, <1>6, <4>1
        <4>. QED  BY <1>2, <4>2
      <3>. QED  BY <3>1, <3>2
    <2>. QED  BY <2>1
  <1>9. \A i \in 1 .. b : done[i].covers \cap n.covers = {}
    <2>. SUFFICES ASSUME NEW i \in 1 .. b, NEW k \in done[i].covers, k \in n.covers PROVE FALSE
      OBVIOUS
    <2>1. k \in 1 .. current - 1  BY <1>3, <1>7
    <2>2. k \notin X  BY <1>2, <2>1
    <2>3. PICK j \in b + 1 .. Len(done) : k \in done[j].covers  BY <2>2
    <2>. QED  BY <1>4, <1>6, <1>7, <2>3
  <1>10. ASSUME NEW i \in 1 .. Len(done')
         PROVE  Sound(done'[i]) /\ done'[i].covers \subseteq 1 .. current' - 1
    <2>1. CASE i = b + 1  BY <1>1, <1>8, <2>1
    <2>2. CASE i \in 1 .. b
      <3>1. done'[i] = done[i] /\ i \in 1 .. Len(done)  BY <1>1, <1>7, <2>2
      <3>2. 1 .. current - 1 \subseteq 1 .. current' - 1  BY <1>2
      <3>. QED  BY <1>3, <3>1, <3>2
    <2>. QED  BY <1>1, <2>1, <2>2
  <1>11. ASSUME NEW i \in 1 .. Len(done'), NEW j \in 1 .. Len(done'), i # j
         PROVE  done'[i].covers \cap done'[j].covers = {}
    <2>1. CASE i = b + 1
      <3>1. j \in 1 .. b /\ done'[j] = done[j] /\ done'[i] = n  BY <1>1, <1>11, <2>1
      <3>. QED  BY <1>9, <3>1
    <2>2. CASE i # b + 1 /\ j = b + 1
      <3>1. i \in 1 .. b /\ done'[i] = done[i] /\ done'[j] = n  BY <1>1, <2>2
      <3>. QED  BY <1>9, <3>1
    <2>3. CASE i # b + 1 /\ j # b + 1
      <3>1. i \in 1 .. b /\ done'[i] = done[i] /\ j \in 1 .. b /\ done'[j] = done[j]
        BY <1>1, <2>3
      <3>. QED  BY <1>4, <1>7, <1>11, <3>1
    <2>. QED  BY <2>1, <2>2, <2>3
  <1>12. ASSUME NEW k \in 1 .. current' - 1, tokens'[k] \notin Separators
         PROVE  \E i \in 1 .. Len(done') : k \in done'[i].covers
    <2>1. CASE k \in 1 .. current - 1
      <3>1. PICK i \in 1 .. Len(done) : k \in done[i].covers  BY <1>2, <1>5, <1>12, <2>1
      <3>2. CASE i \in 1 .. b
        <4>1. i \in 1 .. Len(done') /\ done'[i] = done[i]  BY <1>1, <3>2
        <4>. QED  BY <3>1, <4>1
      <3>3. CASE i \in b + 1 .. Len(done)
        <4>1. k \in n.covers /\ b + 1 \in 1 .. Len(done')  BY <1>1, <3>1, <3>3
        <4>. QED  BY <1>1, <4>1
      <3>. QED  BY <3>2, <3>3
    <2>2. CASE k \in current .. current' - 1
      <3>1. k \in n.covers /\ b + 1 \in 1 .. Len(done')  BY <1>1, <1>2, <1>12, <2>2
      <3>. QED  BY <1>1, <3>1
    <2>. QED  BY <1>2, <2>1, <2>2
  <1>. QED  BY <1>10, <1>11, <1>12 DEF Account

\* A step that leaves the pieces alone and passes a separator at most.
LEMMA AccountStays ==
  ASSUME CursorInv, EofIsLast, Account, UNCHANGED <<input, done>>,
         \/ Stay
         \/ Advance /\ Peek \in Separators
  PROVE  Account'
  <1>1. /\ \A k \in 1 .. current - 1 : tokens'[k] = tokens[k]
        /\ \A k \in current .. current' - 1 : k \in {} \/ tokens'[k] \in Separators
        /\ 1 .. current - 1 \subseteq 1 .. current' - 1
        /\ 1 .. current' - 1 = (1 .. current - 1) \cup (current .. current' - 1)
    BY Passed
  <1>. QED  BY <1>1 DEF Account

-----------------------------------------------------------------------------
\* What is still to do takes separators only where it drops what it takes, the
\* levels of operators it knows, and the token after an @ is one of the list.
Proper(x) ==
  /\ x.do # "directive"
  /\ x.do = "consume" => x.arg \in Separators
  /\ x.do \in {"operand", "operators"} => x.arg \in 1 .. 6
Fine(q) == IsSequence(q) /\ \A i \in 1 .. Len(q) : Proper(q[i])

TodoInv ==
  status = "parsing" /\ todo # <<>> =>
    /\ Fine(Tail(todo))
    /\ \/ Proper(Head(todo))
       \/ Head(todo).do = "directive" /\ current <= Len(tokens)

TextInv == EofIsLast /\ TodoInv /\ (~ punned => Account)

LEMMA FineJoin == \A r, s : Fine(r) /\ Fine(s) => Fine(r \o s)
  <1>. SUFFICES ASSUME NEW r, NEW s, Fine(r), Fine(s) PROVE Fine(r \o s)  OBVIOUS
  <1>1. /\ IsSequence(r \o s) /\ Len(r \o s) = Len(r) + Len(s)
        /\ Len(r) \in Nat /\ Len(s) \in Nat
        /\ \A i \in 1 .. Len(r) : (r \o s)[i] = r[i]
        /\ \A i \in 1 .. Len(s) : (r \o s)[Len(r) + i] = s[i]
    BY ConcatLength DEF Fine
  <1>. DEFINE t == r \o s
  <1>. HIDE DEF t
  <1>2. ASSUME NEW i \in 1 .. Len(r) + Len(s) PROVE Proper(t[i])
    <2>1. CASE i \in 1 .. Len(r)  BY <1>1, <2>1 DEF Fine, t
    <2>2. CASE i \notin 1 .. Len(r)
      <3>1. i - Len(r) \in 1 .. Len(s) /\ Len(r) + (i - Len(r)) = i  BY <1>1, <2>2
      <3>2. t[i] = s[i - Len(r)]  BY <1>1, <3>1 DEF t
      <3>. QED  BY <3>1, <3>2 DEF Fine
    <2>. QED  BY <2>1, <2>2
  <1>. QED  BY <1>1, <1>2 DEF Fine, t

LEMMA FineTuples ==
  /\ Fine(<<>>)
  /\ \A a : Proper(a) => Fine(<<a>>)
  /\ \A a, b : Proper(a) /\ Proper(b) => Fine(<<a, b>>)
  /\ \A a, b, c : Proper(a) /\ Proper(b) /\ Proper(c) => Fine(<<a, b, c>>)
  /\ \A a, b, c, d : Proper(a) /\ Proper(b) /\ Proper(c) /\ Proper(d) => Fine(<<a, b, c, d>>)
  /\ \A a, b, c, d, e :
       Proper(a) /\ Proper(b) /\ Proper(c) /\ Proper(d) /\ Proper(e) => Fine(<<a, b, c, d, e>>)
  /\ \A a, b, c, d, e, f :
       Proper(a) /\ Proper(b) /\ Proper(c) /\ Proper(d) /\ Proper(e) /\ Proper(f)
         => Fine(<<a, b, c, d, e, f>>)
  <1>1. Fine(<<>>)  BY Tuples DEF Fine
  <1>2. ASSUME NEW a, Proper(a) PROVE Fine(<<a>>)
    <2>1. IsSequence(<<a>>) /\ Len(<<a>>) = 1 /\ <<a>>[1] = a  BY Tuples
    <2>. DEFINE q == <<a>>
    <2>. HIDE DEF q
    <2>2. \A i \in 1 .. Len(q) : Proper(q[i])  BY <1>2, <2>1 DEF q
    <2>. QED  BY <2>1, <2>2 DEF Fine, q
  <1>3. \A a, q : Proper(a) /\ Fine(q) => Fine(Cons(a, q))
    BY <1>2, FineJoin, Zenon DEF Cons
  <1>4. \A a : Proper(a) => Fine(<<a>>)  BY <1>2
  <1>5. ASSUME NEW a, NEW b,
                Proper(a), Proper(b)
         PROVE  Fine(<<a, b>>)
    <2>1. Fine(<<b>>)  BY <1>4, <1>5
    <2>2. <<a, b>> = Cons(a, <<b>>)  BY TupleCons
    <2>. QED  BY <1>3, <1>5, <2>1, <2>2, Zenon
  <1>6. ASSUME NEW a, NEW b, NEW c,
                Proper(a), Proper(b), Proper(c)
         PROVE  Fine(<<a, b, c>>)
    <2>1. Fine(<<b, c>>)  BY <1>5, <1>6
    <2>2. <<a, b, c>> = Cons(a, <<b, c>>)  BY TupleCons
    <2>. QED  BY <1>3, <1>6, <2>1, <2>2, Zenon
  <1>7. ASSUME NEW a, NEW b, NEW c, NEW d,
                Proper(a), Proper(b), Proper(c), Proper(d)
         PROVE  Fine(<<a, b, c, d>>)
    <2>1. Fine(<<b, c, d>>)  BY <1>6, <1>7
    <2>2. <<a, b, c, d>> = Cons(a, <<b, c, d>>)  BY TupleCons
    <2>. QED  BY <1>3, <1>7, <2>1, <2>2, Zenon
  <1>8. ASSUME NEW a, NEW b, NEW c, NEW d, NEW e,
                Proper(a), Proper(b), Proper(c), Proper(d), Proper(e)
         PROVE  Fine(<<a, b, c, d, e>>)
    <2>1. Fine(<<b, c, d, e>>)  BY <1>7, <1>8
    <2>2. <<a, b, c, d, e>> = Cons(a, <<b, c, d, e>>)  BY TupleCons
    <2>. QED  BY <1>3, <1>8, <2>1, <2>2, Zenon
  <1>9. ASSUME NEW a, NEW b, NEW c, NEW d, NEW e, NEW f,
                Proper(a), Proper(b), Proper(c), Proper(d), Proper(e), Proper(f)
         PROVE  Fine(<<a, b, c, d, e, f>>)
    <2>1. Fine(<<b, c, d, e, f>>)  BY <1>8, <1>9
    <2>2. <<a, b, c, d, e, f>> = Cons(a, <<b, c, d, e, f>>)  BY TupleCons
    <2>. QED  BY <1>3, <1>9, <2>1, <2>2, Zenon
  <1>. QED  BY <1>1, <1>4, <1>5, <1>6, <1>7, <1>8, <1>9

LEMMA FineSplit ==
  ASSUME NEW q, Fine(q), q # <<>>
  PROVE  Fine(Tail(q)) /\ Proper(Head(q))
  <1>1. /\ IsSequence(Tail(q)) /\ Len(Tail(q)) = Len(q) - 1 /\ Len(q) \in Nat \ {0}
        /\ \A i \in 1 .. Len(q) - 1 : Tail(q)[i] = q[i + 1]
        /\ Head(q) = q[1]
    BY TailLength DEF Fine
  <1>2. \A i \in 1 .. Len(q) - 1 : i + 1 \in 1 .. Len(q)  BY <1>1
  <1>3. 1 \in 1 .. Len(q)  BY <1>1
  <1>. QED  BY <1>1, <1>2, <1>3 DEF Fine

-----------------------------------------------------------------------------
\* Steps that begin other calls keep the account.
LEMMA TodoGoesOn ==
  ASSUME TodoInv, NEW f, Doing(f), NEW items, Fine(items), Then(items)
  PROVE  TodoInv'
  <1>1. todo' = items \o Tail(todo) /\ Fine(Tail(todo))
    BY DEF Doing, Then, TodoInv
  <1>2. Fine(todo')  BY <1>1, FineJoin
  <1>. QED  BY <1>2, FineSplit DEF TodoInv

LEMMA StepText ==
  ASSUME ParseInv, TextInv, NEW f, Doing(f), NEW items, Fine(items), Then(items),
         Stay \/ Advance, ~ punned' => ~ punned /\ Account'
  PROVE  TextInv'
  <1>1. TodoInv'  BY TodoGoesOn DEF TextInv
  <1>2. EofIsLast'
    <2>1. UNCHANGED input /\ CursorInv /\ EofIsLast  BY DEF Then, ParseInv, TextInv
    <2>2. CASE Stay  BY <2>1, <2>2 DEF Stay, EofIsLast
    <2>3. CASE Advance  BY <2>1, <2>3, TokensMove
    <2>. QED  BY <2>2, <2>3
  <1>. QED  BY <1>1, <1>2 DEF TextInv

LEMMA GoText ==
  ASSUME ParseInv, TextInv, NEW f, Doing(f), NEW items, Fine(items), Go(items)
  PROVE  TextInv'
  <1>1. Then(items) /\ Stay /\ UNCHANGED <<input, done, punned>>  BY DEF Go, Then, NoNode
  <1>2. ASSUME ~ punned PROVE Account'
    BY <1>1, <1>2, AccountStays DEF ParseInv, TextInv
  <1>. QED  BY <1>1, <1>2, StepText

LEMMA SkipText ==
  ASSUME ParseInv, TextInv, NEW f, Doing(f), NEW items, Fine(items), Skip(items),
         Peek \in Separators
  PROVE  TextInv'
  <1>1. Then(items) /\ Advance /\ UNCHANGED <<input, done, punned>>  BY DEF Skip, Then, NoNode
  <1>2. ASSUME ~ punned PROVE Account'
    BY <1>1, <1>2, AccountStays DEF ParseInv, TextInv
  <1>. QED  BY <1>1, <1>2, StepText

LEMMA FailText ==
  ASSUME TextInv, NEW code \in Errors, Fail(code)
  PROVE  TextInv'
  <1>1. status' # "parsing" /\ UNCHANGED <<tokens, current, done, punned>>
    BY DEF Fail, Errors
  <1>. QED  BY <1>1 DEF TextInv, TodoInv, EofIsLast, Account

\* A piece is added.
LEMMA PushedAll ==
  ASSUME NEW n
  PROVE  /\ Append(done, n) = Append(SubSeq(done, 1, Len(done)), n) \/ ~ IsSequence(done)
         /\ UNION {done[i].covers : i \in Len(done) + 1 .. Len(done)} = {} \/ ~ IsSequence(done)
  <1>. SUFFICES ASSUME IsSequence(done)
                PROVE  /\ Append(done, n) = Append(SubSeq(done, 1, Len(done)), n)
                       /\ UNION {done[i].covers : i \in Len(done) + 1 .. Len(done)} = {}
    OBVIOUS
  <1>1. PICK S : done \in Seq(S)  BY DEF IsSequence
  <1>2. SubSeq(done, 1, Len(done)) = done  BY <1>1
  <1>3. Len(done) + 1 .. Len(done) = {}  BY <1>1
  <1>. QED  BY <1>2, <1>3

LEMMA PushAccount ==
  ASSUME ParseInv, EofIsLast, Account, UNCHANGED input, NEW n, Sound(n), done' = Append(done, n),
         \/ Stay /\ n.covers = {}
         \/ Advance /\ Peek \in Separators /\ n.covers = {}
         \/ Advance /\ current <= Len(tokens) /\ n.covers = {current}
  PROVE  Account'
  <1>1. IsSequence(done) /\ Len(done) \in Nat /\ Len(done) <= Len(done) /\ CursorInv
    BY NowIs DEF ParseInv
  <1>2. /\ done' = Append(SubSeq(done, 1, Len(done)), n)
        /\ UNION {done[i].covers : i \in Len(done) + 1 .. Len(done)} = {}
    BY <1>1, PushedAll
  <1>. DEFINE X == n.covers
  <1>3. \/ Stay /\ X = {}
        \/ Advance /\ Peek \in Separators /\ X = {}
        \/ Advance /\ current <= Len(tokens) /\ X = {current}
    OBVIOUS
  <1>4. n.covers = X \cup UNION {done[i].covers : i \in Len(done) + 1 .. Len(done)}
    BY <1>2
  <1>. HIDE DEF X
  <1>. QED
    BY ONLY <1>1, <1>2, <1>3, <1>4, EofIsLast, Account, UNCHANGED input, Sound(n), AccountGoesOn

LEMMA PushText ==
  ASSUME ParseInv, TextInv, NEW f, Doing(f), NEW items, Fine(items), Then(items),
         NEW n, Sound(n), Push(n),
         \/ Stay /\ n.covers = {}
         \/ Advance /\ Peek \in Separators /\ n.covers = {}
         \/ Advance /\ current <= Len(tokens) /\ n.covers = {current}
  PROVE  TextInv'
  <1>1. done' = Append(done, n) /\ UNCHANGED <<input, punned>>  BY DEF Push, Then
  <1>2. ASSUME ~ punned PROVE Account'
    BY <1>1, <1>2, PushAccount DEF TextInv
  <1>. QED  BY <1>1, <1>2, StepText

LEMMA WordSound ==
  \A w, keeps : /\ Sound(Word(w, keeps)) /\ Parted(Word(w, keeps)) /\ IsWord(Word(w, keeps))
                /\ Word(w, keeps).covers = keeps /\ Word(w, keeps).keeps = keeps
  <1>1. \A w, keeps : Sound(Word(w, keeps)) /\ Word(w, keeps).covers = keeps
    BY LeafSound DEF Word
  <1>2. \A w, keeps : Word(w, keeps).keeps = keeps  BY NodeHas DEF Word
  <1>. QED  BY <1>1, <1>2, WordWalks DEF Sound

LEMMA TakeText ==
  ASSUME ParseInv, TextInv, NEW f, Doing(f), NEW items, Fine(items), Take(items),
         Peek # "eof" \/ current <= Len(tokens)
  PROVE  TextInv'
  <1>. DEFINE w == Word(Peek, {current})
  <1>1. Sound(w) /\ w.covers = {current}  BY WordSound
  <1>2. Then(items) /\ Advance /\ Push(w)  BY DEF Take
  <1>3. current <= Len(tokens)
    <2>1. CursorInv /\ Len(tokens) \in Nat /\ current \in Nat  BY NowIs, DomainIs DEF ParseInv, CursorInv
    <2>. QED  BY <2>1, PeekTells
  <1>. HIDE DEF w
  <1>. QED  BY <1>1, <1>2, <1>3, PushText

LEMMA Shifted ==
  ASSUME NEW a \in Nat, NEW b \in Nat, a <= b
  PROVE  \A i \in a + 1 .. b : i - a \in 1 .. b - a /\ a + (i - a) = i
  OBVIOUS

\* The pieces of the current call are made into one.
LEMMA ReduceText ==
  ASSUME ParseInv, TextInv, NEW f, Doing(f), NEW items, Fine(items), Then(items),
         NEW n, Reduced(n), ~ punned' => ~ punned, NEW X,
         ~ punned' => Sound(n) /\ n.covers = X \cup UNION {Pieces[i].covers : i \in 1 .. Len(Pieces)},
         \/ Stay /\ X = {}
         \/ Advance /\ Peek \in Separators /\ X = {}
         \/ Advance /\ current <= Len(tokens) /\ X = {current}
  PROVE  TextInv'
  <1>1. PICK x, q, m : x.do = f /\ Frame(x, q, m)  BY Framed
  <1>2. /\ x = Head(todo) /\ x.base \in Nat /\ x.base <= Len(done)
        /\ IsSequence(done) /\ CursorInv /\ UNCHANGED input
    BY <1>1 DEF Frame, ParseInv, Then
  <1>3. ASSUME ~ punned' PROVE ~ punned /\ Account'
    <2>1. done' = Append(SubSeq(done, 1, x.base), n)  BY <1>2 DEF Reduced
    <2>2. UNION {Pieces[i].covers : i \in 1 .. Len(Pieces)}
            = UNION {done[i].covers : i \in x.base + 1 .. Len(done)}
      <3>1. PICK S : done \in Seq(S)  BY <1>2 DEF IsSequence
      <3>0. Len(done) \in Nat  BY <3>1
      <3>2. /\ Len(Pieces) = Len(done) - x.base
            /\ \A i \in 1 .. Len(Pieces) : Pieces[i] = done[x.base + i]
        BY <1>2, <3>1 DEF Pieces
      <3>3. \A i \in x.base + 1 .. Len(done) :
              i - x.base \in 1 .. Len(Pieces) /\ Pieces[i - x.base] = done[i]
        <4>1. \A i \in x.base + 1 .. Len(done) :
                i - x.base \in 1 .. Len(done) - x.base /\ x.base + (i - x.base) = i
          BY <1>2, <3>0, Shifted
        <4>. QED  BY <3>2, <4>1
      <3>4. \A i \in 1 .. Len(Pieces) : x.base + i \in x.base + 1 .. Len(done)
        BY <1>2, <3>1, <3>2
      <3>5. \A i \in 1 .. Len(Pieces) : \E j \in x.base + 1 .. Len(done) : Pieces[i].covers = done[j].covers
        BY <3>2, <3>4, Zenon
      <3>6. \A j \in x.base + 1 .. Len(done) : \E i \in 1 .. Len(Pieces) : Pieces[i].covers = done[j].covers
        BY <3>3, Zenon
      <3>. DEFINE P == UNION {Pieces[i].covers : i \in 1 .. Len(Pieces)}
                  D == UNION {done[i].covers : i \in x.base + 1 .. Len(done)}
      <3>7. ASSUME NEW k \in P PROVE k \in D
        <4>1. PICK i \in 1 .. Len(Pieces) : k \in Pieces[i].covers  OBVIOUS
        <4>2. PICK j \in x.base + 1 .. Len(done) : Pieces[i].covers = done[j].covers  BY <3>5
        <4>. QED  BY <4>1, <4>2, Zenon
      <3>8. ASSUME NEW k \in D PROVE k \in P
        <4>1. PICK j \in x.base + 1 .. Len(done) : k \in done[j].covers  OBVIOUS
        <4>2. PICK i \in 1 .. Len(Pieces) : Pieces[i].covers = done[j].covers  BY <3>6
        <4>. QED  BY <4>1, <4>2, Zenon
      <3>9. P \subseteq D /\ D \subseteq P  BY <3>7, <3>8, Zenon
      <3>. HIDE DEF P, D
      <3>10. P = D  BY <3>9
      <3>. QED  BY <3>10 DEF P, D
    <2>3. n.covers = X \cup UNION {done[i].covers : i \in x.base + 1 .. Len(done)} /\ Sound(n)
      BY <1>3, <2>2
    <2>. QED  BY <1>2, <1>3, <2>1, <2>3, AccountGoesOn DEF TextInv
  <1>. QED  BY <1>3, StepText

\* What is known of the pieces of the current call.
LEMMA PiecesSound ==
  ASSUME ParseInv, Account, NEW f, Doing(f)
  PROVE  /\ IsSequence(Pieces)
         /\ \A i \in 1 .. Len(Pieces) :
              /\ Walks(Pieces[i]) /\ Sound(Pieces[i]) /\ Parted(Pieces[i])
              /\ IsWord(Pieces[i]) \/ Pieces[i].kind = "identifier"
                   => Pieces[i].covers = Pieces[i].keeps
         /\ \A i, j \in 1 .. Len(Pieces) : i # j => Pieces[i].covers \cap Pieces[j].covers = {}
  <1>1. PICK x, q, m : x.do = f /\ Frame(x, q, m)  BY Framed
  <1>2. x = Head(todo) /\ x.base \in Nat /\ x.base <= Len(done) /\ IsSequence(done)
    BY <1>1 DEF Frame, ParseInv
  <1>3. PICK S : done \in Seq(S)  BY <1>2 DEF IsSequence
  <1>4. /\ Pieces \in Seq(S) /\ Len(Pieces) = Len(done) - x.base
        /\ \A i \in 1 .. Len(Pieces) : Pieces[i] = done[x.base + i]
    BY <1>2, <1>3 DEF Pieces
  <1>5. /\ \A i \in 1 .. Len(Pieces) : x.base + i \in 1 .. Len(done)
        /\ \A i, j \in 1 .. Len(Pieces) : i # j => x.base + i # x.base + j
    BY <1>2, <1>3, <1>4
  <1>6. \A i \in 1 .. Len(done) : Walks(done[i]) /\ Sound(done[i])  BY DEF ParseInv, Account
  <1>7. \A i, j \in 1 .. Len(done) : i # j => done[i].covers \cap done[j].covers = {}
    BY DEF Account
  <1>8. \A i \in 1 .. Len(Pieces) : Walks(Pieces[i]) /\ Sound(Pieces[i])
    BY <1>4, <1>5, <1>6
  <1>9. \A i, j \in 1 .. Len(Pieces) : i # j => Pieces[i].covers \cap Pieces[j].covers = {}
    BY <1>4, <1>5, <1>7
  <1>10. \A i \in 1 .. Len(Pieces) :
           /\ Parted(Pieces[i])
           /\ IsWord(Pieces[i]) \/ Pieces[i].kind = "identifier"
                => Pieces[i].covers = Pieces[i].keeps
    BY <1>8, LeafCovers DEF Sound, IsWord
  <1>. QED  BY <1>4, <1>8, <1>9, <1>10 DEF IsSequence

-----------------------------------------------------------------------------
\* The nodes that are not simply made of the pieces.
LEMMA OverOne ==
  ASSUME NEW a, Sound(a), NEW kind, NEW words, NEW keeps
  PROVE  /\ Sound(Node(kind, words, keeps, <<a>>))
         /\ Node(kind, words, keeps, <<a>>).covers = keeps \cup a.covers
  <1>. DEFINE k == <<a>>
  <1>1. IsSequence(k) /\ Len(k) = 1 /\ k[1] = a  BY Tuples
  <1>. HIDE DEF k
  <1>2. /\ \A i \in 1 .. Len(k) : Parted(k[i])
        /\ \A i, j \in 1 .. Len(k) : i # j => k[i].covers \cap k[j].covers = {}
    BY <1>1 DEF Sound
  <1>3. /\ Sound(Node(kind, words, keeps, k))
        /\ Node(kind, words, keeps, k).covers
             = keeps \cup UNION {k[i].covers : i \in 1 .. Len(k)}
    BY <1>1, <1>2, NodeSound
  <1>4. UNION {k[i].covers : i \in 1 .. Len(k)} = a.covers
    <2>1. \A i \in 1 .. Len(k) : i = 1  BY <1>1
    <2>2. 1 \in 1 .. Len(k)  BY <1>1
    <2>. QED  BY <1>1, <2>1, <2>2
  <1>. QED  BY <1>3, <1>4 DEF k

LEMMA OverTwo ==
  ASSUME NEW a, NEW b, Sound(a), Sound(b), a.covers \cap b.covers = {},
         NEW kind, NEW words, NEW keeps
  PROVE  /\ Sound(Node(kind, words, keeps, <<a, b>>))
         /\ Node(kind, words, keeps, <<a, b>>).covers = keeps \cup a.covers \cup b.covers
  <1>. DEFINE k == <<a, b>>
  <1>1. IsSequence(k) /\ Len(k) = 2  BY Tuples
  <1>2. k[1] = a /\ k[2] = b  OBVIOUS
  <1>. HIDE DEF k
  <1>5. 1 .. Len(k) = {1, 2}  BY <1>1
  <1>3. /\ \A i \in 1 .. Len(k) : Parted(k[i])
        /\ \A i, j \in 1 .. Len(k) : i # j => k[i].covers \cap k[j].covers = {}
    BY <1>2, <1>5 DEF Sound
  <1>4. /\ Sound(Node(kind, words, keeps, k))
        /\ Node(kind, words, keeps, k).covers
             = keeps \cup UNION {k[i].covers : i \in 1 .. Len(k)}
    BY <1>1, <1>3, NodeSound
  <1>6. UNION {k[i].covers : i \in 1 .. Len(k)} = a.covers \cup b.covers
    BY <1>2, <1>5
  <1>. QED  BY <1>4, <1>6 DEF k

LEMMA UpdateSound ==
  ASSUME NEW name, NEW op, NEW value, Sound(value)
  PROVE  /\ Sound(Update(name, op, value))
         /\ Update(name, op, value).covers = name.keeps \cup value.covers
  <1>. DEFINE i == Node("identifier", name.words, {}, <<>>)
              b == Node("binary", <<op>>, {}, <<i, value>>)
              n == Node("assign", name.words, name.keeps, <<b>>)
  <1>1. Sound(i) /\ i.covers = {}  BY LeafSound
  <1>. HIDE DEF i
  <1>2. Sound(b) /\ b.covers = {} \cup i.covers \cup value.covers
    <2>1. i.covers \cap value.covers = {}  BY <1>1
    <2>2. Sound(i) /\ Sound(value)  BY <1>1
    <2>. DEFINE words == <<op>>
    <2>. HIDE DEF words
    <2>3. /\ Sound(Node("binary", words, {}, <<i, value>>))
          /\ Node("binary", words, {}, <<i, value>>).covers = {} \cup i.covers \cup value.covers
      BY ONLY <2>1, <2>2, OverTwo
    <2>. QED  BY <2>3 DEF words
  <1>. HIDE DEF b
  <1>3. Sound(n) /\ n.covers = name.keeps \cup b.covers  BY <1>2, OverOne
  <1>4. Update(name, op, value) = n  BY Zenon DEF Update, n, b, i
  <1>. HIDE DEF n
  <1>. QED  BY <1>1, <1>2, <1>3, <1>4

LEMMA RangeLoopSound ==
  ASSUME NEW d, NEW c, NEW s, NEW b, Sound(d), Sound(c), Sound(s), Sound(b),
         d.covers = {}, s.covers = {}, c.covers \cap b.covers = {}, NEW words, NEW keeps
  PROVE  /\ Sound(Node("for", words, keeps, <<d, c, s, b>>))
         /\ Node("for", words, keeps, <<d, c, s, b>>).covers = keeps \cup c.covers \cup b.covers
  <1>. DEFINE k == <<d, c, s, b>>
  <1>1. k \in Seq({d, c, s, b}) /\ Len(k) = 4 /\ k[1] = d /\ k[2] = c /\ k[3] = s /\ k[4] = b
    OBVIOUS
  <1>2. IsSequence(k)  BY <1>1 DEF IsSequence
  <1>. HIDE DEF k
  <1>5. 1 .. Len(k) = {1, 2, 3, 4}  BY <1>1
  <1>3. /\ \A i \in 1 .. Len(k) : Parted(k[i])
        /\ \A i, j \in 1 .. Len(k) : i # j => k[i].covers \cap k[j].covers = {}
    BY <1>1, <1>5 DEF Sound
  <1>4. /\ Sound(Node("for", words, keeps, k))
        /\ Node("for", words, keeps, k).covers
             = keeps \cup UNION {k[i].covers : i \in 1 .. Len(k)}
    BY <1>2, <1>3, NodeSound
  <1>6. UNION {k[i].covers : i \in 1 .. Len(k)} = c.covers \cup b.covers
    BY <1>1, <1>5
  <1>. QED  BY <1>4, <1>6 DEF k

\* A name read from an identifier.
LEMMA NameKept ==
  ASSUME NEW n, n.kind = "identifier"
  PROVE  NameOf(n).keeps = n.keeps
  BY DEF NameOf

\* name = value.
LEMMA AssignSound ==
  ASSUME NEW w, NEW keeps, NEW value, ~ IsWord(value), Sound(value)
  PROVE  LET n == Make("assign", <<Word(w, keeps), value>>)
         IN  Sound(n) /\ n.covers = keeps \cup value.covers
  <1>. DEFINE name == Word(w, keeps)  p == <<name, value>>
  <1>0. Parted(name) /\ name.covers = keeps /\ name.keeps = keeps /\ IsWord(name)
    BY WordSound
  <1>. HIDE DEF name
  <1>1. IsSequence(p) /\ Len(p) = 2  BY Tuples
  <1>2. p[1] = name /\ p[2] = value  OBVIOUS
  <1>. HIDE DEF p
  <1>5. 1 .. Len(p) = {1, 2}  BY <1>1
  <1>3. /\ \A i \in 1 .. Len(p) : Parted(p[i]) /\ (IsWord(p[i]) => p[i].covers = p[i].keeps)
        /\ \A i, j \in 1 .. Len(p) : i # j /\ ~ IsWord(p[i]) /\ ~ IsWord(p[j])
                                  => p[i].covers \cap p[j].covers = {}
    BY <1>0, <1>2, <1>5 DEF Sound
  <1>4. Sound(Make("assign", p)) /\ Make("assign", p).covers = UNION {p[i].covers : i \in 1 .. Len(p)}
    BY <1>1, <1>3, MakeSound
  <1>6. UNION {p[i].covers : i \in 1 .. Len(p)} = keeps \cup value.covers
    BY <1>0, <1>2, <1>5
  <1>7. Sound(Make("assign", p)) /\ Make("assign", p).covers = keeps \cup value.covers
    BY <1>4, <1>6
  <1>. QED  BY <1>7, Zenon DEF p, name

\* name[index] = value: the index is taken over from the target.
LEMMA AssignElementSound ==
  ASSUME NEW w, NEW more, NEW target, Walks(target), target.kind = "access", Sound(target),
         NEW value, ~ IsWord(value), Sound(value), target.covers \cap value.covers = {}
  PROVE  LET n == Make("assign_element",
                       <<Word(w, target.keeps \cup more)>> \o target.kids \o <<value>>)
         IN  Sound(n) /\ n.covers = more \cup target.covers \cup value.covers
  <1>. DEFINE name == Word(w, target.keeps \cup more)
              k == target.kids  v == <<value>>  f == <<name>> \o k  p == f \o v
  <1>0. /\ Parted(name) /\ name.covers = target.keeps \cup more /\ name.keeps = name.covers
        /\ IsWord(name)
    BY WordSound
  <1>. HIDE DEF name
  <1>1. /\ IsSequence(k) /\ Len(k) = 1 /\ Parted(k[1]) /\ ~ IsWord(k[1])
        /\ target.covers = target.keeps \cup k[1].covers
    <2>1. Placed(target) /\ IsSequence(k)  BY WalksDown DEF Shaped
    <2>2. Len(k) = 1 /\ All(Kinds(target), Expressions)  BY <2>1 DEF Placed
    <2>3. k[1].kind \in Expressions  BY <2>1, <2>2, KindsOfChildren
    <2>4. DOMAIN k = {1}  BY <2>1, <2>2, DomainIs
    <2>5. Parted(k[1])  BY <2>4, PartedKids DEF Sound
    <2>6. target.covers = target.keeps \cup UNION {target.kids[i].covers : i \in DOMAIN target.kids}
      BY DEF Sound
    <2>7. UNION {target.kids[i].covers : i \in DOMAIN target.kids} = k[1].covers  BY <2>4
    <2>. QED  BY <2>1, <2>2, <2>3, <2>5, <2>6, <2>7, KindFacts DEF IsWord
  <1>2. IsSequence(v) /\ Len(v) = 1 /\ v[1] = value /\ IsSequence(<<name>>)
        /\ Len(<<name>>) = 1 /\ <<name>>[1] = name
    BY Tuples
  <1>. HIDE DEF v, k
  <1>3. IsSequence(f) /\ Len(f) = 2 /\ f[1] = name /\ f[2] = k[1]
    <2>0. IsSequence(<<name>>) /\ IsSequence(k)  BY <1>1, <1>2
    <2>1. IsSequence(f) /\ Len(f) = Len(<<name>>) + Len(k)
          /\ (\A i \in 1 .. Len(<<name>>) : f[i] = <<name>>[i])
          /\ (\A i \in 1 .. Len(k) : f[Len(<<name>>) + i] = k[i])
      BY <2>0, ConcatLength
    <2>. QED  BY <1>1, <1>2, <2>1
  <1>. HIDE DEF f
  <1>4. IsSequence(p) /\ Len(p) = 3 /\ p[1] = name /\ p[2] = k[1] /\ p[3] = value
    <2>0. IsSequence(f) /\ IsSequence(v)  BY <1>2, <1>3
    <2>1. IsSequence(p) /\ Len(p) = Len(f) + Len(v)
          /\ (\A i \in 1 .. Len(f) : p[i] = f[i])
          /\ (\A i \in 1 .. Len(v) : p[Len(f) + i] = v[i])
      BY <2>0, ConcatLength
    <2>. QED  BY <1>2, <1>3, <2>1
  <1>. HIDE DEF p
  <1>5. 1 .. Len(p) = {1, 2, 3}  BY <1>4
  <1>6. k[1].covers \cap value.covers = {}  BY <1>1
  <1>7. /\ \A i \in 1 .. Len(p) : Parted(p[i]) /\ (IsWord(p[i]) => p[i].covers = p[i].keeps)
        /\ \A i, j \in 1 .. Len(p) : i # j /\ ~ IsWord(p[i]) /\ ~ IsWord(p[j])
                                  => p[i].covers \cap p[j].covers = {}
    BY <1>0, <1>1, <1>4, <1>5, <1>6 DEF Sound
  <1>8. /\ Sound(Make("assign_element", p))
        /\ Make("assign_element", p).covers = UNION {p[i].covers : i \in 1 .. Len(p)}
    BY <1>4, <1>7, MakeSound
  <1>9. UNION {p[i].covers : i \in 1 .. Len(p)} = name.covers \cup k[1].covers \cup value.covers
    BY <1>4, <1>5
  <1>10. UNION {p[i].covers : i \in 1 .. Len(p)} = more \cup target.covers \cup value.covers
    BY <1>0, <1>1, <1>9
  <1>11. /\ Sound(Make("assign_element", p))
         /\ Make("assign_element", p).covers = more \cup target.covers \cup value.covers
    BY <1>8, <1>10
  <1>. QED  BY <1>11, Zenon DEF p, f, v, k, name

-----------------------------------------------------------------------------
\* Nodes that are made keep the account.
LEMMA BuildText ==
  ASSUME ParseInv, TextInv, NEW f, Doing(f), Then(<<>>), Stay, NEW n, Reduced(n),
         ~ punned' => ~ punned,
         ~ punned' => Sound(n) /\ n.covers = UNION {Pieces[i].covers : i \in 1 .. Len(Pieces)}
  PROVE  TextInv'
  <1>. DEFINE items == <<>>  X == {}
              P == UNION {Pieces[i].covers : i \in 1 .. Len(Pieces)}
  <1>1. Fine(items) /\ Then(items)  BY FineTuples
  <1>2. ~ punned' => Sound(n) /\ n.covers = X \cup P  OBVIOUS
  <1>3. Stay /\ X = {}  OBVIOUS
  <1>. HIDE DEF items, X
  <1>. QED  BY <1>1, <1>2, <1>3, ReduceText

\* The pieces of a node with two or three of them.
LEMMA CoversOfTwo ==
  ASSUME NEW p, Len(p) = 2
  PROVE  UNION {p[i].covers : i \in 1 .. Len(p)} = p[1].covers \cup p[2].covers
  <1>1. 1 .. Len(p) = {1, 2}  OBVIOUS
  <1>. QED  BY <1>1
LEMMA CoversOfThree ==
  ASSUME NEW p, Len(p) = 3
  PROVE  UNION {p[i].covers : i \in 1 .. Len(p)} = p[1].covers \cup p[2].covers \cup p[3].covers
  <1>1. 1 .. Len(p) = {1, 2, 3}  OBVIOUS
  <1>. QED  BY <1>1

LEMMA BuildNodeKeepsText ==
  ASSUME ParseInv, TextInv, BuildNode
  PROVE  TextInv'
  <1>. DEFINE m == Make(Head(todo).arg, Pieces)
  <1>1. Doing("build") /\ Reduce(m)  BY DEF BuildNode
  <1>2. Then(<<>>) /\ Stay /\ Reduced(m) /\ punned' = punned  BY <1>1 DEF Reduce
  <1>3. ASSUME ~ punned
        PROVE  Sound(m) /\ m.covers = UNION {Pieces[i].covers : i \in 1 .. Len(Pieces)}
    <2>1. Account  BY <1>3 DEF TextInv
    <2>2. /\ IsSequence(Pieces)
          /\ \A i \in 1 .. Len(Pieces) :
               /\ Parted(Pieces[i])
               /\ IsWord(Pieces[i]) => Pieces[i].covers = Pieces[i].keeps
          /\ \A i, j \in 1 .. Len(Pieces) :
               i # j => Pieces[i].covers \cap Pieces[j].covers = {}
      BY <1>1, <2>1, PiecesSound
    <2>. QED  BY <2>2, MakeSound
  <1>. HIDE DEF m
  <1>. QED  BY <1>1, <1>2, <1>3, BuildText

LEMMA BuildAccessKeepsText ==
  ASSUME ParseInv, TextInv, BuildAccess
  PROVE  TextInv'
  <1>. DEFINE name == NameOf(Pieces[1])  c == Pieces[2]
              m == Node("access", name.words, name.keeps, <<c>>)
  <1>1. /\ Doing("build") /\ Head(todo).arg = "access" /\ Reduced(m) /\ Then(<<>>) /\ Stay
        /\ punned' = (punned \/ Pieces[1].kind # "identifier")
    BY Zenon DEF BuildAccess
  <1>2. Len(Pieces) = 2
    <2>1. Fits("access", Pieces, Len(Pieces))  BY <1>1, PiecesFit
    <2>. QED  BY <2>1 DEF Fits
  <1>3. ~ punned' => ~ punned /\ Pieces[1].kind = "identifier"  BY <1>1, Zenon
  <1>4. ASSUME ~ punned'
        PROVE  Sound(m) /\ m.covers = UNION {Pieces[i].covers : i \in 1 .. Len(Pieces)}
    <2>1. Account /\ Pieces[1].kind = "identifier"  BY <1>3, <1>4 DEF TextInv
    <2>2. 1 \in 1 .. Len(Pieces) /\ 2 \in 1 .. Len(Pieces)  BY <1>2
    <2>3. Pieces[1].covers = Pieces[1].keeps /\ Sound(c)  BY <1>1, <2>1, <2>2, PiecesSound
    <2>4. name.keeps = Pieces[1].covers  BY <2>1, <2>3, NameKept
    <2>. HIDE DEF name, c
    <2>5. Sound(m) /\ m.covers = name.keeps \cup c.covers  BY <2>3, OverOne
    <2>6. UNION {Pieces[i].covers : i \in 1 .. Len(Pieces)} = Pieces[1].covers \cup Pieces[2].covers
      BY <1>2, CoversOfTwo
    <2>. QED  BY <2>4, <2>5, <2>6 DEF c
  <1>. HIDE DEF m
  <1>. QED  BY <1>1, <1>3, <1>4, BuildText

LEMMA BuildRangeKeepsText ==
  ASSUME ParseInv, TextInv, BuildRange
  PROVE  TextInv'
  <1>. DEFINE w == "__pinum_i" \o ToString(rng_counter)
              idx == Word(w, {})  use == Node("identifier", idx.words, {}, <<>>)
              low == Node("int", <<"0">>, {}, <<>>)  typ == Word("int", {})
              d == Make("decl", <<typ, idx, low>>)
              c == Node("binary", <<"<">>, {}, <<use, Pieces[2]>>)
              s == Update(idx, "+", One)
              b == Pieces[3]
              m == Node("for", Pieces[1].words, Pieces[1].keeps, <<d, c, s, b>>)
  <1>1. /\ Doing("build") /\ Head(todo).arg = "range" /\ Reduced(m)
        /\ Then(<<>>) /\ Stay /\ punned' = punned
    BY Zenon DEF BuildRange
  <1>2. Len(Pieces) = 3 /\ IsWord(Pieces[1])
    <2>1. Fits("range", Pieces, Len(Pieces))  BY <1>1, PiecesFit
    <2>. QED  BY <2>1 DEF Fits, IsWord
  <1>3. ASSUME ~ punned
        PROVE  Sound(m) /\ m.covers = UNION {Pieces[i].covers : i \in 1 .. Len(Pieces)}
    <2>1. Account  BY <1>3 DEF TextInv
    <2>2. 1 \in 1 .. Len(Pieces) /\ 2 \in 1 .. Len(Pieces) /\ 3 \in 1 .. Len(Pieces)  BY <1>2
    <2>3. /\ Pieces[1].covers = Pieces[1].keeps /\ Sound(Pieces[2]) /\ Sound(b)
          /\ Pieces[2].covers \cap b.covers = {}
      BY <1>1, <1>2, <2>1, <2>2, PiecesSound
    <2>. HIDE DEF w
    <2>4. Sound(d) /\ d.covers = {}
      <3>1. Parted(typ) /\ IsWord(typ) /\ typ.covers = {} /\ typ.keeps = {}  BY WordSound
      <3>2. Parted(idx) /\ IsWord(idx) /\ idx.covers = {} /\ idx.keeps = {}  BY WordSound
      <3>3. Parted(low) /\ ~ IsWord(low) /\ low.covers = {}  BY LeafSound, NodeHas DEF Sound, IsWord
      <3>. DEFINE p == <<typ, idx, low>>
      <3>4. IsSequence(p) /\ Len(p) = 3  BY Tuples
      <3>. HIDE DEF typ, idx, low
      <3>5. p[1] = typ /\ p[2] = idx /\ p[3] = low  OBVIOUS
      <3>. HIDE DEF p
      <3>6. 1 .. Len(p) = {1, 2, 3}  BY <3>4
      <3>7. /\ \A i \in 1 .. Len(p) : Parted(p[i]) /\ (IsWord(p[i]) => p[i].covers = p[i].keeps)
            /\ \A i, j \in 1 .. Len(p) : i # j /\ ~ IsWord(p[i]) /\ ~ IsWord(p[j])
                                      => p[i].covers \cap p[j].covers = {}
        BY <3>1, <3>2, <3>3, <3>5, <3>6
      <3>8. Sound(Make("decl", p)) /\ Make("decl", p).covers = UNION {p[i].covers : i \in 1 .. Len(p)}
        BY <3>4, <3>7, MakeSound
      <3>9. UNION {p[i].covers : i \in 1 .. Len(p)} = {}  BY <3>1, <3>2, <3>3, <3>5, <3>6
      <3>10. Sound(Make("decl", p)) /\ Make("decl", p).covers = {}  BY <3>8, <3>9
      <3>. QED  BY <3>10, Zenon DEF p
    <2>5. Sound(c) /\ c.covers = Pieces[2].covers
      <3>1. Sound(use) /\ use.covers = {}  BY LeafSound
      <3>. DEFINE words == <<"<">>
      <3>. HIDE DEF use, words
      <3>2. use.covers \cap Pieces[2].covers = {} /\ Sound(use) /\ Sound(Pieces[2])
        BY <2>3, <3>1
      <3>3. /\ Sound(Node("binary", words, {}, <<use, Pieces[2]>>))
            /\ Node("binary", words, {}, <<use, Pieces[2]>>).covers
                 = {} \cup use.covers \cup Pieces[2].covers
        BY ONLY <3>2, OverTwo
      <3>4. {} \cup use.covers \cup Pieces[2].covers = Pieces[2].covers  BY <3>1
      <3>. QED  BY <3>3, <3>4 DEF words
    <2>6. Sound(s) /\ s.covers = {}
      <3>1. Sound(One) /\ One.covers = {}  BY LeafSound DEF One
      <3>2. idx.keeps = {}  BY WordSound
      <3>. HIDE DEF idx
      <3>3. Sound(s) /\ s.covers = idx.keeps \cup One.covers  BY <3>1, UpdateSound
      <3>. QED  BY <3>1, <3>2, <3>3
    <2>. HIDE DEF d, c, s, b
    <2>7. c.covers \cap b.covers = {}  BY <2>3, <2>5
    <2>8. Sound(m) /\ m.covers = Pieces[1].keeps \cup c.covers \cup b.covers
      BY <2>3, <2>4, <2>5, <2>6, <2>7, RangeLoopSound
    <2>9. UNION {Pieces[i].covers : i \in 1 .. Len(Pieces)}
            = Pieces[1].covers \cup Pieces[2].covers \cup Pieces[3].covers
      BY <1>2, CoversOfThree
    <2>. QED  BY <2>3, <2>5, <2>8, <2>9 DEF b
  <1>. HIDE DEF m
  <1>. QED  BY <1>1, <1>3, BuildText

LEMMA AssignToKeepsText ==
  ASSUME ParseInv, TextInv, AssignTo
  PROVE  TextInv'
  <1>. DEFINE target == Pieces[1]  op == Pieces[2]  value == Pieces[3]  arg == Head(todo).arg
              name == Word(target.words[1], target.keeps \cup op.keeps)
              e == Make("assign_element", <<name>> \o target.kids \o <<value>>)
              a == Make("assign", <<name, value>>)
              sign == Compound[op.words[1]]
              v == Update(name, sign, value)
              P == UNION {Pieces[i].covers : i \in 1 .. Len(Pieces)}
  <1>1. Doing("build") /\ \/ arg = "assign" /\ target.kind = "access" /\ Reduce(e)
                          \/ arg = "assign" /\ target.kind = "identifier" /\ Reduce(a)
                          \/ arg = "compound" /\ target.kind = "identifier" /\ Reduce(v)
                          \/ Fail("ERR_INVALID_ASSIGN_TARGET")
    BY Zenon DEF AssignTo
  <1>. HIDE DEF sign
  <1>2. ASSUME NEW kind \in {"assign", "compound"}, arg = kind, ~ punned
        PROVE  /\ Walks(target) /\ Sound(target) /\ Sound(value) /\ ~ IsWord(value)
               /\ op.covers = op.keeps /\ target.covers \cap value.covers = {}
               /\ target.kind = "identifier" => target.covers = target.keeps
               /\ P = target.covers \cup op.covers \cup value.covers
    <2>1. Fits(kind, Pieces, Len(Pieces))  BY <1>1, <1>2, PiecesFit
    <2>2. Len(Pieces) = 3 /\ value.kind \in Expressions /\ op.kind = "word"  BY <2>1 DEF Fits
    <2>3. 1 \in 1 .. Len(Pieces) /\ 2 \in 1 .. Len(Pieces) /\ 3 \in 1 .. Len(Pieces)  BY <2>2
    <2>4. Account  BY <1>2 DEF TextInv
    <2>5. /\ Walks(target) /\ Sound(target) /\ Sound(value) /\ op.covers = op.keeps
          /\ target.covers \cap value.covers = {}
          /\ target.kind = "identifier" => target.covers = target.keeps
      BY <1>1, <2>2, <2>3, <2>4, PiecesSound DEF IsWord
    <2>6. ~ IsWord(value)  BY <2>2, KindFacts DEF IsWord
    <2>7. P = target.covers \cup op.covers \cup value.covers  BY <2>2, CoversOfThree
    <2>. QED  BY <2>5, <2>6, <2>7
  <1>3. ASSUME NEW m, Reduce(m), ~ punned => Sound(m) /\ m.covers = P PROVE TextInv'
    <2>1. Then(<<>>) /\ Stay /\ Reduced(m) /\ punned' = punned  BY <1>3 DEF Reduce
    <2>. QED  BY <1>1, <1>3, <2>1, BuildText
  <1>4. name.keeps = target.keeps \cup op.keeps  BY WordSound
  <1>. HIDE DEF target, op, value, P
  <1>5. CASE arg = "assign" /\ target.kind = "access" /\ Reduce(e)
    <2>1. ASSUME ~ punned PROVE Sound(e) /\ e.covers = P
      <3>1. /\ Walks(target) /\ Sound(target) /\ Sound(value) /\ ~ IsWord(value)
            /\ op.covers = op.keeps /\ target.covers \cap value.covers = {}
            /\ P = target.covers \cup op.covers \cup value.covers
        BY <1>2, <1>5, <2>1
      <3>2. Sound(e) /\ e.covers = op.keeps \cup target.covers \cup value.covers
        BY <1>5, <3>1, AssignElementSound
      <3>. QED  BY <3>1, <3>2
    <2>. HIDE DEF e
    <2>. QED  BY <1>3, <1>5, <2>1
  <1>6. CASE arg = "assign" /\ target.kind = "identifier" /\ Reduce(a)
    <2>1. ASSUME ~ punned PROVE Sound(a) /\ a.covers = P
      <3>1. /\ Sound(value) /\ ~ IsWord(value) /\ op.covers = op.keeps
            /\ target.covers = target.keeps
            /\ P = target.covers \cup op.covers \cup value.covers
        BY <1>2, <1>6, <2>1
      <3>2. Sound(a) /\ a.covers = (target.keeps \cup op.keeps) \cup value.covers
        BY <3>1, AssignSound
      <3>. QED  BY <3>1, <3>2
    <2>. HIDE DEF a
    <2>. QED  BY <1>3, <1>6, <2>1
  <1>7. CASE arg = "compound" /\ target.kind = "identifier" /\ Reduce(v)
    <2>1. ASSUME ~ punned PROVE Sound(v) /\ v.covers = P
      <3>1. /\ Sound(value) /\ op.covers = op.keeps /\ target.covers = target.keeps
            /\ P = target.covers \cup op.covers \cup value.covers
        BY <1>2, <1>7, <2>1
      <3>. HIDE DEF name
      <3>2. Sound(v) /\ v.covers = name.keeps \cup value.covers  BY <3>1, UpdateSound
      <3>. QED  BY <1>4, <3>1, <3>2
    <2>. HIDE DEF v
    <2>. QED  BY <1>3, <1>7, <2>1
  <1>8. CASE Fail("ERR_INVALID_ASSIGN_TARGET")  BY <1>8, FailText DEF Errors
  <1>. QED  BY <1>1, <1>5, <1>6, <1>7, <1>8, Zenon

-----------------------------------------------------------------------------
\* The items the functions put on the list.
LEMMA SeparatorsAre ==
  /\ "(" \in Separators /\ ")" \in Separators /\ "{" \in Separators /\ "}" \in Separators
  /\ "[" \in Separators /\ "]" \in Separators /\ "<" \in Separators /\ ">" \in Separators
  /\ "," \in Separators /\ ";" \in Separators /\ ":" \in Separators /\ "." \in Separators
  /\ "nl" \in Separators /\ "eof" \in Separators /\ "dq" \in Separators /\ "sq" \in Separators
  /\ "=" \in Separators /\ "else" \in Separators
  BY Zenon DEF Separators

\* The end of the file is no name and no type.
LEMMA EofIsNoName == "eof" \notin Names \cup Scalars
  <1>1. "eof" \in Fixed  BY SeparatorsAre, Zenon DEF Fixed
  <1>. QED  BY <1>1, NamesAssumption, Zenon

Minded == {"directive", "consume", "operand", "operators"}

LEMMA ItemProper ==
  /\ \A f, a, b : f \notin Minded => Proper(Item(f, a, b))
  /\ \A f : f \notin Minded => Proper(Do(f))
  /\ \A f, a : f \notin Minded => Proper(With(f, a))
  /\ \A kind : Proper(Build(kind))
  /\ \A f, a : f \notin Minded => Proper(Finish(f, a))
  /\ \A t \in Separators : Proper(Eat(t))
  /\ \A n \in 1 .. 6 : Proper(With("operators", n)) /\ Proper(With("operand", n))
  <1>1. \A f, a, b : Item(f, a, b).do = f /\ Item(f, a, b).arg = a  BY DEF Item
  <1>2. \A f, a, b : f \notin Minded => Proper(Item(f, a, b))
    BY <1>1 DEF Proper, Minded
  <1>3. \A a, b : a \in Separators => Proper(Item("consume", a, b))  BY <1>1 DEF Proper
  <1>4. \A f : f \notin Minded => Proper(Do(f))  BY <1>2, Zenon DEF Do
  <1>5. \A f, a : f \notin Minded => Proper(With(f, a))  BY <1>2, Zenon DEF With
  <1>6. \A kind : Proper(Build(kind))
    <2>1. "build" \notin Minded  BY DEF Minded
    <2>. QED  BY <1>2, <2>1, Zenon DEF Build
  <1>7. \A f, a : f \notin Minded => Proper(Finish(f, a))  BY <1>2, Zenon DEF Finish
  <1>8. \A t \in Separators : Proper(Eat(t))  BY <1>3, Zenon DEF Eat, With
  <1>9. \A n \in 1 .. 6 : \A b : Proper(Item("operators", n, b)) /\ Proper(Item("operand", n, b))
    BY <1>1 DEF Proper
  <1>10. \A n \in 1 .. 6 : Proper(With("operators", n)) /\ Proper(With("operand", n))
    BY <1>9, Zenon DEF With
  <1>. QED  BY <1>2, <1>4, <1>5, <1>6, <1>7, <1>8, <1>10

LEMMA DoProper ==
  /\ Proper(Do("type")) /\ Proper(Do("name")) /\ Proper(Do("initializer")) /\ Proper(Do("end"))
  /\ Proper(Do("return_type")) /\ Proper(Do("block")) /\ Proper(Do("expr")) /\ Proper(Do("else"))
  /\ Proper(Do("unary")) /\ Proper(Do("stmt")) /\ Proper(Do("stmts")) /\ Proper(Do("element_type"))
  /\ Proper(Do("for_init")) /\ Proper(Do("directive_value")) /\ Proper(Do("branch"))
  /\ Proper(Do("ternary")) /\ Proper(Do("assignment")) /\ Proper(Do("question"))
  /\ Proper(Do("primary")) /\ Proper(Do("postfix")) /\ Proper(Do("call")) /\ Proper(Do("method"))
  /\ \A a : Proper(With("list", a)) /\ Proper(With("optional", a)) /\ Proper(With("more", a))
            /\ Proper(With("quoted", a)) /\ Proper(Finish("build", a)) /\ Proper(Finish("range?", a))
  <1>1. \A f \in {"type", "name", "initializer", "end", "return_type", "block", "expr", "else",
                  "unary", "stmt", "stmts", "element_type", "for_init", "directive_value",
                  "branch", "ternary", "assignment", "question", "primary", "postfix", "call",
                  "method", "list", "optional", "more", "quoted", "build", "range?"} :
          f \notin Minded
    BY DEF Minded
  <1>. QED  BY <1>1, ItemProper

LEMMA ParensFine == \A q : Fine(q) => Fine(Parens(q))
  <1>1. Proper(Eat("(")) /\ Proper(Eat(")"))  BY SeparatorsAre, ItemProper
  <1>2. Fine(<<Eat("(")>>) /\ Fine(<<Eat(")")>>)  BY <1>1, FineTuples
  <1>3. \A q : Fine(q) => Fine(<<Eat("(")>> \o q)  BY <1>2, FineJoin, Zenon
  <1>. QED  BY <1>2, <1>3, FineJoin, Zenon DEF Parens

LEMMA FineRest ==
  /\ Fine(Decl) /\ Fine(Param) /\ Fine(FuncDef) /\ Fine(PrintRest) /\ Fine(ReadRest)
  /\ Fine(IfRest) /\ Fine(WhileRest) /\ Fine(ReturnRest) /\ Fine(ForRest)
  <1>0. \A kind : Proper(Build(kind))  BY ItemProper
  <1>1. Fine(Decl)
    BY <1>0, DoProper, FineTuples, Zenon DEF Decl
  <1>2. Fine(Param)
    BY <1>0, DoProper, FineTuples, Zenon DEF Param
  <1>3. Fine(FuncDef)
    <2>1. Fine(<<Do("name")>>) /\ Fine(<<With("list", "param")>>)  BY DoProper, FineTuples, Zenon
    <2>2. Fine(<<Do("return_type"), Do("block"), Build("func")>>)
      BY <1>0, DoProper, FineTuples, Zenon
    <2>3. Fine(Parens(<<With("list", "param")>>))  BY <2>1, ParensFine, Zenon
    <2>4. Fine(<<Do("name")>> \o Parens(<<With("list", "param")>>))  BY <2>1, <2>3, FineJoin, Zenon
    <2>. QED  BY <2>2, <2>4, FineJoin, Zenon DEF FuncDef
  <1>4. Fine(PrintRest)
    <2>1. Fine(<<With("list", "expr")>>) /\ Fine(<<Do("end"), Build("print")>>)
      BY <1>0, DoProper, FineTuples, Zenon
    <2>. QED  BY <2>1, ParensFine, FineJoin, Zenon DEF PrintRest
  <1>5. Fine(ReadRest)
    <2>1. Fine(<<Do("name")>>) /\ Fine(<<Do("end"), Build("read")>>)
      BY <1>0, DoProper, FineTuples, Zenon
    <2>. QED  BY <2>1, ParensFine, FineJoin, Zenon DEF ReadRest
  <1>6. Fine(IfRest)
    <2>1. Fine(<<Do("expr")>>) /\ Fine(<<Do("block"), Do("else"), Build("if")>>)
      BY <1>0, DoProper, FineTuples, Zenon
    <2>. QED  BY <2>1, ParensFine, FineJoin, Zenon DEF IfRest
  <1>7. Fine(WhileRest)
    <2>1. Fine(<<Do("expr")>>) /\ Fine(<<Do("block"), Build("while")>>)
      BY <1>0, DoProper, FineTuples, Zenon
    <2>. QED  BY <2>1, ParensFine, FineJoin, Zenon DEF WhileRest
  <1>8. Fine(ReturnRest)
    BY <1>0, DoProper, FineTuples, Zenon DEF ReturnRest
  <1>9. Fine(ForRest)
    <2>1. Proper(Eat(";")) /\ Proper(Eat(")"))  BY SeparatorsAre, ItemProper, Zenon
    <2>2. Proper(With("optional", ";")) /\ Proper(With("optional", ")")) /\ Proper(Finish("build", "for"))
      BY DoProper, Zenon
    <2>. QED  BY <2>1, <2>2, DoProper, FineTuples, Zenon DEF ForRest
  <1>. QED  BY <1>1, <1>2, <1>3, <1>4, <1>5, <1>6, <1>7, <1>8, <1>9

LEMMA FineElement == \A kind : Fine(Element(kind))
  <1>. TAKE kind
  <1>1. Fine(<<Do("expr")>>) /\ Fine(Param)  BY DoProper, FineTuples, FineRest, Zenon
  <1>. QED  BY <1>1, Zenon DEF Element

LEMMA FineChain == \A n \in 1 .. 6 : Fine(Chain(n))
  <1>. TAKE n \in 1 .. 6
  <1>1. Proper(With("operators", n)) /\ Proper(Do("unary"))  BY ItemProper, DoProper
  <1>. QED  BY <1>1, FineTuples, Zenon DEF Chain

LEMMA AgainProper ==
  ASSUME TextInv, NEW f, Doing(f), f # "directive"
  PROVE  Proper(Again) /\ Head(todo).do = f
  BY DEF TextInv, TodoInv, Doing, Again

\* What the simple steps keep.
SimpleStepsKeepText ==
  /\ \A f, q : Doing(f) /\ Fine(q) /\ Go(q) => TextInv'
  /\ \A f, q : Doing(f) /\ Fine(q) /\ Skip(q) /\ Peek \in Separators => TextInv'
  /\ \A f, q : Doing(f) /\ Fine(q) /\ Take(q) /\ Peek # "eof" => TextInv'
  /\ \A code : code \in Errors /\ Fail(code) => TextInv'

LEMMA StepsKeepText ==
  ASSUME ParseInv, TextInv
  PROVE  SimpleStepsKeepText
  BY GoText, SkipText, TakeText, FailText DEF SimpleStepsKeepText

LEMMA ErrorsAre ==
  /\ "crash" \in Errors /\ "ERR_EXPECTED" \in Errors /\ "ERR_UNEXPECTED_TOKEN" \in Errors
  /\ "ERR_INVALID_CALL_TARGET" \in Errors /\ "ERR_INVALID_ASSIGN_TARGET" \in Errors
  BY DEF Errors

-----------------------------------------------------------------------------
\* Each action keeps the account.
LEMMA ConsumeKeepsText ==
  ASSUME ParseInv, TextInv, Consume
  PROVE  TextInv'
  <1>1. SimpleStepsKeepText  BY StepsKeepText
  <1>2. Doing("consume")  BY DEF Consume
  <1>3. Head(todo).arg \in Separators  BY <1>2, AgainProper DEF Proper, Again
  <1>4. CASE Peek = Head(todo).arg /\ Skip(<<>>)
    BY <1>1, <1>2, <1>3, <1>4, FineTuples, Zenon DEF SimpleStepsKeepText
  <1>5. CASE Fail("ERR_EXPECTED")
    BY <1>1, <1>5, ErrorsAre, Zenon DEF SimpleStepsKeepText
  <1>. QED  BY <1>4, <1>5, Zenon DEF Consume

LEMMA ConsumeNameKeepsText ==
  ASSUME ParseInv, TextInv, ConsumeName
  PROVE  TextInv'
  <1>1. SimpleStepsKeepText  BY StepsKeepText
  <1>2. Peek \in Names => Peek # "eof"  BY EofIsNoName
  <1>. QED  BY <1>1, <1>2, FineTuples, ErrorsAre, Zenon DEF SimpleStepsKeepText, ConsumeName

LEMMA ConsumeEndOfStatementKeepsText ==
  ASSUME ParseInv, TextInv, ConsumeEndOfStatement
  PROVE  TextInv'
  <1>1. SimpleStepsKeepText  BY StepsKeepText
  <1>2. Peek \in {";", "nl"} => Peek \in Separators  BY SeparatorsAre, Zenon
  <1>. QED
    BY <1>1, <1>2, FineTuples, ErrorsAre, Zenon DEF SimpleStepsKeepText, ConsumeEndOfStatement

LEMMA ParseProgramKeepsText ==
  ASSUME ParseInv, TextInv, ParseProgram
  PROVE  TextInv'
  <1>1. SimpleStepsKeepText  BY StepsKeepText
  <1>2. Doing("program")  BY DEF ParseProgram
  <1>3. Proper(Again)  BY <1>2, AgainProper
  <1>4. Fine(<<Again>>) /\ Fine(<<Do("stmt"), Again>>)  BY <1>3, DoProper, FineTuples, Zenon
  <1>5. Fine(FuncDef \o <<Again>>)  BY <1>4, FineRest, FineJoin, Zenon
  <1>6. Peek = "fn" => Peek # "eof"  OBVIOUS
  <1>7. Peek = "nl" => Peek \in Separators  BY SeparatorsAre, Zenon
  <1>. QED
    BY <1>1, <1>2, <1>4, <1>5, <1>6, <1>7, FineTuples, Zenon DEF SimpleStepsKeepText, ParseProgram

LEMMA ParseBlockKeepsText ==
  ASSUME ParseInv, TextInv, ParseBlock
  PROVE  TextInv'
  <1>1. SimpleStepsKeepText  BY StepsKeepText
  <1>2. Fine(<<Eat("{"), Do("stmts"), Eat("}"), Build("block")>>)
    <2>1. Proper(Eat("{")) /\ Proper(Eat("}")) /\ Proper(Build("block"))
      BY SeparatorsAre, ItemProper, Zenon
    <2>. QED  BY <2>1, DoProper, FineTuples, Zenon
  <1>3. ASSUME Doing("stmts") PROVE Fine(<<Again>>) /\ Fine(<<Do("stmt"), Again>>)
    <2>1. Proper(Again)  BY <1>3, AgainProper
    <2>. QED  BY <2>1, DoProper, FineTuples, Zenon
  <1>4. Peek = "nl" => Peek \in Separators  BY SeparatorsAre, Zenon
  <1>. QED
    BY <1>1, <1>2, <1>3, <1>4, FineTuples, Zenon DEF SimpleStepsKeepText, ParseBlock

LEMMA ParseTypeKeepsText ==
  ASSUME ParseInv, TextInv, ParseType
  PROVE  TextInv'
  <1>1. SimpleStepsKeepText  BY StepsKeepText
  <1>2. Fine(<<Eat("<"), Do("element_type"), Eat(">")>>)
    BY SeparatorsAre, ItemProper, DoProper, FineTuples, Zenon
  <1>3. Peek \in Scalars \/ Peek = "vec" => Peek # "eof"  BY EofIsNoName
  <1>. QED
    BY <1>1, <1>2, <1>3, FineTuples, ErrorsAre, Zenon DEF SimpleStepsKeepText, ParseType

LEMMA InitializerKeepsText ==
  ASSUME ParseInv, TextInv, Initializer
  PROVE  TextInv'
  <1>1. SimpleStepsKeepText  BY StepsKeepText
  <1>2. Fine(<<Do("expr")>>)  BY DoProper, FineTuples, Zenon
  <1>3. Peek = "=" => Peek \in Separators  BY SeparatorsAre, Zenon
  <1>. QED  BY <1>1, <1>2, <1>3, FineTuples, Zenon DEF SimpleStepsKeepText, Initializer

LEMMA ReturnTypeKeepsText ==
  ASSUME ParseInv, TextInv, ReturnType
  PROVE  TextInv'
  <1>1. SimpleStepsKeepText  BY StepsKeepText
  <1>2. Fine(<<Do("type")>>) /\ Fine(<<>>)  BY DoProper, FineTuples, Zenon
  <1>3. Peek = ":" => Peek \in Separators  BY SeparatorsAre, Zenon
  <1>4. ASSUME Doing("return_type"), Then(<<>>), Stay, Push(Word("void", {})) PROVE TextInv'
    <2>. DEFINE w == Word("void", {})  none == <<>>
    <2>1. Sound(w) /\ w.covers = {} /\ Push(w) /\ Fine(none) /\ Then(none)
      BY <1>2, <1>4, WordSound
    <2>. HIDE DEF w, none
    <2>. QED  BY <1>4, <2>1, PushText
  <1>. QED
    BY <1>1, <1>2, <1>3, <1>4, Zenon DEF SimpleStepsKeepText, ReturnType

LEMMA ListKeepsText ==
  ASSUME ParseInv, TextInv, List
  PROVE  TextInv'
  <1>1. SimpleStepsKeepText  BY StepsKeepText
  <1>2. \A kind : Fine(Element(kind) \o <<With("more", kind)>>)
    <2>1. \A kind : Fine(<<With("more", kind)>>)  BY DoProper, FineTuples, Zenon
    <2>. QED  BY <2>1, FineElement, FineJoin, Zenon
  <1>. QED  BY <1>1, <1>2, FineTuples, Zenon DEF SimpleStepsKeepText, List

LEMMA MoreKeepsText ==
  ASSUME ParseInv, TextInv, More
  PROVE  TextInv'
  <1>1. SimpleStepsKeepText  BY StepsKeepText
  <1>2. Doing("more")  BY DEF More
  <1>3. Proper(Again)  BY <1>2, AgainProper
  <1>4. \A kind : Fine(Element(kind) \o <<Again>>)
    BY <1>3, FineTuples, FineElement, FineJoin, Zenon
  <1>5. Peek = "," => Peek \in Separators  BY SeparatorsAre, Zenon
  <1>. QED  BY <1>1, <1>4, <1>5, FineTuples, Zenon DEF SimpleStepsKeepText, More

LEMMA ConsParts ==
  ASSUME NEW a, NEW q, IsSequence(q)
  PROVE  Head(Cons(a, q)) = a /\ Tail(Cons(a, q)) = q
  <1>. DEFINE s == Cons(a, q)
  <1>1. /\ IsSequence(s) /\ Len(s) = Len(q) + 1 /\ s[1] = a /\ Len(q) \in Nat
        /\ \A i \in 1 .. Len(q) : s[i + 1] = q[i]
    BY ConsIs, DomainIs
  <1>. HIDE DEF s
  <1>2. /\ IsSequence(Tail(s)) /\ Len(Tail(s)) = Len(q) /\ Head(s) = s[1]
        /\ \A i \in 1 .. Len(q) : Tail(s)[i] = q[i]
    <2>1. s # <<>>  BY <1>1
    <2>2. /\ IsSequence(Tail(s)) /\ Len(Tail(s)) = Len(s) - 1 /\ Head(s) = s[1]
          /\ \A i \in 1 .. Len(s) - 1 : Tail(s)[i] = s[i + 1]
      BY <1>1, <2>1, TailLength
    <2>. QED  BY <1>1, <2>2
  <1>3. Tail(s) = q  BY <1>2, SequencesEqual
  <1>. QED  BY <1>1, <1>2, <1>3 DEF s

\* The token after an @ is one of the list.
LEMMA AtTaken ==
  ASSUME ParseInv, TextInv, Doing("stmt"), Peek = "@",
         Take(<<Do("directive"), Build("directive")>>)
  PROVE  TextInv'
  <1>. DEFINE a == Do("directive")  b == Build("directive")  q == Tail(todo)
              w == Word(Peek, {current})
  <1>1. /\ todo' = <<a, b>> \o q /\ UNCHANGED <<input, status, punned>> /\ Advance
        /\ done' = Append(done, w)
    BY Zenon DEF Take, Then, Push
  <1>2. CursorInv /\ EofIsLast /\ UNCHANGED input  BY <1>1 DEF ParseInv, TextInv
  <1>3. EofIsLast'  BY <1>1, <1>2, TokensMove
  <1>4. current <= Len(tokens)
    <2>1. Len(tokens) \in Nat /\ current \in Nat  BY <1>1, <1>2, TokensMove
    <2>. QED  BY <1>2, <2>1, PeekTells
  <1>5. current' <= Len(tokens')
    <2>1. /\ IsSequence(tokens) /\ Len(tokens) \in Nat /\ current \in Nat
          /\ \A t : Len(Append(tokens, t)) = Len(tokens) + 1
      BY <1>2, PushLength DEF CursorInv
    <2>2. current' = current + 1  BY <1>1, <1>4, <2>1 DEF Advance
    <2>3. CASE current < Len(tokens)
      <3>1. tokens' = tokens  BY <1>1, <2>3 DEF Advance, Reveal
      <3>. QED  BY <2>1, <2>2, <2>3, <3>1
    <2>4. CASE current = Len(tokens)
      <3>1. Last(tokens) # "eof"
        <4>1. Peek = tokens[Len(tokens)]  BY <2>1, <2>4 DEF Peek
        <4>. QED  BY <4>1 DEF Last
      <3>2. \E t : tokens' = Append(tokens, t)
        BY <1>1, <2>1, <2>4, <3>1 DEF Advance, Reveal
      <3>. QED  BY <2>1, <2>2, <2>4, <3>2
    <2>. QED  BY <1>4, <2>1, <2>3, <2>4
  <1>6. TodoInv'
    <2>1. Fine(q) /\ IsSequence(q)  BY DEF Doing, TextInv, TodoInv, Fine
    <2>2. Proper(b) /\ a.do = "directive"
      <3>1. Proper(b)  BY ItemProper, Zenon
      <3>. QED  BY <3>1 DEF Do, Item
    <2>3. Fine(<<b>>)  BY <2>2, FineTuples, Zenon
    <2>. HIDE DEF a, b, q
    <2>4. todo' = Cons(a, Cons(b, q))  BY <1>1, <2>1, Put2, Zenon
    <2>5. Fine(Cons(b, q))  BY <2>1, <2>3, FineJoin, Zenon DEF Cons
    <2>6. Head(todo') = a /\ Tail(todo') = Cons(b, q)
      <3>. DEFINE r == Cons(b, q)
      <3>1. IsSequence(r)  BY <2>5 DEF Fine
      <3>. HIDE DEF r
      <3>2. Head(Cons(a, r)) = a /\ Tail(Cons(a, r)) = r  BY <3>1, ConsParts
      <3>. QED  BY <2>4, <3>2 DEF r
    <2>. QED  BY <1>5, <2>2, <2>5, <2>6 DEF TodoInv
  <1>7. ASSUME ~ punned' PROVE Account'
    <2>1. Account /\ Sound(w) /\ w.covers = {current}
      BY <1>1, <1>7, WordSound DEF TextInv
    <2>. HIDE DEF w
    <2>. QED  BY <1>1, <1>2, <1>4, <2>1, PushAccount
  <1>. QED  BY <1>3, <1>6, <1>7 DEF TextInv

-----------------------------------------------------------------------------
LEMMA ParseStatementKeepsText ==
  ASSUME ParseInv, TextInv, ParseStatement
  PROVE  TextInv'
  <1>1. SimpleStepsKeepText  BY StepsKeepText
  <1>2. Proper(Eat("(")) /\ \A kind : Proper(Build(kind))  BY SeparatorsAre, ItemProper
  <1>3. Fine(<<Eat("("), Do("for_init")>>) /\ Fine(<<Do("expr"), Do("end")>>)
        /\ \A kind : Fine(<<Do("end"), Build(kind)>>)
    BY <1>2, DoProper, FineTuples, Zenon
  <1>4. Peek \in {"print", "println", "read", "if", "while", "for", "return", "break", "continue"}
          => Peek # "eof"
    OBVIOUS
  <1>5. /\ Doing("stmt")
        /\ \/ Go(Decl)
           \/ Peek \in {"print", "println"} /\ Take(PrintRest)
           \/ Peek = "read" /\ Take(ReadRest)
           \/ Peek = "if" /\ Take(IfRest)
           \/ Peek = "while" /\ Take(WhileRest)
           \/ Peek = "for" /\ Take(<<Eat("("), Do("for_init")>>)
           \/ Peek = "return" /\ Take(ReturnRest)
           \/ Peek \in {"break", "continue"} /\ Take(<<Do("end"), Build(Peek)>>)
           \/ Peek = "@" /\ Take(<<Do("directive"), Build("directive")>>)
           \/ Go(<<Do("expr"), Do("end")>>)
    BY Zenon DEF ParseStatement
  <1>6. CASE Go(Decl) \/ Go(<<Do("expr"), Do("end")>>)
    BY <1>1, <1>3, <1>5, <1>6, FineRest, Zenon DEF SimpleStepsKeepText
  <1>7. ASSUME NEW q \in {PrintRest, ReadRest, IfRest, WhileRest, ReturnRest},
               Take(q), Peek # "eof"
        PROVE  TextInv'
    <2>1. Fine(q)  BY FineRest
    <2>. QED  BY <1>1, <1>5, <1>7, <2>1, Zenon DEF SimpleStepsKeepText
  <1>8. CASE Peek = "for" /\ Take(<<Eat("("), Do("for_init")>>)
    BY <1>1, <1>3, <1>4, <1>5, <1>8, Zenon DEF SimpleStepsKeepText
  <1>9. CASE Peek \in {"break", "continue"} /\ Take(<<Do("end"), Build(Peek)>>)
    BY <1>1, <1>3, <1>4, <1>5, <1>9, Zenon DEF SimpleStepsKeepText
  <1>10. CASE Peek = "@" /\ Take(<<Do("directive"), Build("directive")>>)
    BY <1>5, <1>10, AtTaken
  <1>. QED  BY <1>4, <1>5, <1>6, <1>7, <1>8, <1>9, <1>10, Zenon

LEMMA DirectiveKeepsText ==
  ASSUME ParseInv, TextInv, Directive
  PROVE  TextInv'
  <1>1. SimpleStepsKeepText  BY StepsKeepText
  <1>2. ASSUME Doing("directive"), Take(<<Do("directive_value")>>) PROVE TextInv'
    <2>1. current <= Len(tokens)
      BY <1>2 DEF TextInv, TodoInv, Doing, Proper
    <2>2. Fine(<<Do("directive_value")>>)  BY DoProper, FineTuples, Zenon
    <2>. QED  BY <1>2, <2>1, <2>2, TakeText
  <1>3. Peek \in Names \cup {"lib"} => Peek # "eof"  BY EofIsNoName
  <1>. QED
    BY <1>1, <1>2, <1>3, FineTuples, ErrorsAre, Zenon DEF SimpleStepsKeepText, Directive

LEMMA ElseBranchKeepsText ==
  ASSUME ParseInv, TextInv, ElseBranch
  PROVE  TextInv'
  <1>1. SimpleStepsKeepText  BY StepsKeepText
  <1>2. Fine(<<Do("branch")>>) /\ Fine(<<Do("block")>>)  BY DoProper, FineTuples, Zenon
  <1>3. Peek = "if" => Peek # "eof"  OBVIOUS
  <1>4. Peek = "else" => Peek \in Separators  BY SeparatorsAre, Zenon
  <1>. QED
    BY <1>1, <1>2, <1>3, <1>4, FineRest, FineTuples, Zenon DEF SimpleStepsKeepText, ElseBranch

LEMMA NullSound == Sound(Null) /\ Null.covers = {}
  BY LeafSound DEF Null

LEMMA ParseForStatementKeepsText ==
  ASSUME ParseInv, TextInv, ParseForStatement
  PROVE  TextInv'
  <1>1. SimpleStepsKeepText  BY StepsKeepText
  <1>2. Fine(Decl \o ForRest)  BY FineRest, FineJoin, Zenon
  <1>3. Fine(<<Do("expr"), Finish("range?", "none")>>) /\ Fine(<<Do("expr")>>)
    BY DoProper, FineTuples, Zenon
  <1>4. Fine(<<Do("block"), Finish("build", "range")>>)  BY DoProper, FineTuples, Zenon
  <1>5. Fine(<<Eat(";")>> \o ForRest)
    <2>1. Proper(Eat(";"))  BY SeparatorsAre, ItemProper, Zenon
    <2>. QED  BY <2>1, FineTuples, FineRest, FineJoin, Zenon
  <1>6. Peek = ")" => Peek \in Separators  BY SeparatorsAre, Zenon
  <1>7. ASSUME Doing("for_init"), Peek \in Separators, Then(ForRest), Advance, Push(Null)
        PROVE  TextInv'
    <2>1. Fine(ForRest)  BY FineRest
    <2>. QED  BY <1>7, <2>1, NullSound, PushText
  <1>8. ASSUME Doing("optional"), Then(<<>>), Stay, Push(Null) PROVE TextInv'
    <2>. DEFINE none == <<>>
    <2>1. Fine(none) /\ Then(none)  BY <1>8, FineTuples
    <2>. HIDE DEF none
    <2>. QED  BY <1>8, <2>1, NullSound, PushText
  <1>9. Peek = ";" => Peek \in Separators  BY SeparatorsAre, Zenon
  <1>10. \/ /\ Doing("for_init")
            /\ \/ Go(Decl \o ForRest)
               \/ Peek \in Separators /\ Then(ForRest) /\ Advance /\ Push(Null)
               \/ Go(<<Do("expr"), Finish("range?", "none")>>)
         \/ /\ Doing("range?")
            /\ \/ Peek \in Separators /\ Skip(<<Do("block"), Finish("build", "range")>>)
               \/ Go(<<Eat(";")>> \o ForRest)
         \/ /\ Doing("optional")
            /\ \/ Then(<<>>) /\ Stay /\ Push(Null)
               \/ Go(<<Do("expr")>>)
    BY <1>6, <1>9, Zenon DEF ParseForStatement
  <1>. QED
    BY <1>1, <1>2, <1>3, <1>4, <1>5, <1>7, <1>8, <1>10, Zenon DEF SimpleStepsKeepText

-----------------------------------------------------------------------------
LEMMA ParseExpressionKeepsText ==
  ASSUME ParseInv, TextInv, ParseExpression
  PROVE  TextInv'
  <1>1. SimpleStepsKeepText  BY StepsKeepText
  <1>2. Fine(<<Do("ternary"), Do("assignment")>>) /\ Fine(<<Do("primary"), Do("postfix")>>)
        /\ Fine(<<Do("question")>>)
    BY DoProper, FineTuples, Zenon
  <1>3. Fine(Chain(1) \o <<Do("question")>>)
    <2>1. Fine(Chain(1))  BY FineChain
    <2>. QED  BY <1>2, <2>1, FineJoin, Zenon
  <1>4. ASSUME Doing("operand") PROVE Fine(Chain(Head(todo).arg))
    <2>1. Head(todo).arg \in 1 .. 6  BY <1>4, AgainProper DEF Proper, Again
    <2>. QED  BY <2>1, FineChain
  <1>. QED  BY <1>1, <1>2, <1>3, <1>4, Zenon DEF SimpleStepsKeepText, ParseExpression

LEMMA ParseAssignmentKeepsText ==
  ASSUME ParseInv, TextInv, ParseAssignment
  PROVE  TextInv'
  <1>1. SimpleStepsKeepText  BY StepsKeepText
  <1>2. \A a : Fine(<<Do("expr"), Finish("build", a)>>)  BY DoProper, FineTuples, Zenon
  <1>3. Peek = "=" \/ Peek \in DOMAIN Compound => Peek # "eof"  BY DEF Compound
  <1>. QED
    BY <1>1, <1>2, <1>3, FineTuples, Zenon DEF SimpleStepsKeepText, ParseAssignment

LEMMA ParseTernaryKeepsText ==
  ASSUME ParseInv, TextInv, ParseTernary
  PROVE  TextInv'
  <1>1. SimpleStepsKeepText  BY StepsKeepText
  <1>2. Fine(<<Do("ternary"), Eat(":"), Do("ternary"), Finish("build", "ternary")>>)
    <2>1. Proper(Eat(":"))  BY SeparatorsAre, ItemProper
    <2>. QED  BY <2>1, DoProper, FineTuples, Zenon
  <1>3. Peek = "?" => Peek # "eof"  OBVIOUS
  <1>. QED  BY <1>1, <1>2, <1>3, FineTuples, Zenon DEF SimpleStepsKeepText, ParseTernary

LEMMA ParseOperatorKeepsText ==
  ASSUME ParseInv, TextInv, ParseOperator
  PROVE  TextInv'
  <1>1. SimpleStepsKeepText  BY StepsKeepText
  <1>2. Doing("operators")  BY DEF ParseOperator
  <1>3. Proper(Again) /\ Head(todo).arg \in 1 .. 6
    BY <1>2, AgainProper DEF Proper, Again
  <1>4. ASSUME NEW level \in Head(todo).arg .. 6, Peek \in Operators(level),
               Take(<<RightOperand(level), Finish("build", "binary"), Again>>)
        PROVE  TextInv'
    <2>1. level \in 1 .. 6  BY <1>3
    <2>2. Peek # "eof"
      <3>1. level = 1 \/ level = 2 \/ level = 3 \/ level = 4 \/ level = 5 \/ level = 6  BY <2>1
      <3>. QED  BY <1>4, <3>1 DEF Operators
    <2>3. Proper(RightOperand(level))
      <3>1. CASE level = 6  BY <3>1, DoProper DEF RightOperand
      <3>2. CASE level # 6
        <4>1. level + 1 \in 1 .. 6  BY <2>1, <3>2
        <4>2. Proper(With("operand", level + 1))  BY <4>1, ItemProper
        <4>. QED  BY <3>2, <4>2 DEF RightOperand
      <3>. QED  BY <3>1, <3>2
    <2>4. Fine(<<RightOperand(level), Finish("build", "binary"), Again>>)
      BY <1>3, <2>3, DoProper, FineTuples, Zenon
    <2>. QED  BY <1>1, <1>2, <1>4, <2>2, <2>4, Zenon DEF SimpleStepsKeepText
  <1>5. ASSUME Go(<<>>) PROVE TextInv'
    BY <1>1, <1>2, <1>5, FineTuples, Zenon DEF SimpleStepsKeepText
  <1>. QED  BY <1>4, <1>5, Zenon DEF ParseOperator

LEMMA ParseUnaryKeepsText ==
  ASSUME ParseInv, TextInv, ParseUnary
  PROVE  TextInv'
  <1>1. SimpleStepsKeepText  BY StepsKeepText
  <1>2. Fine(<<Do("unary"), Build("unary")>>) /\ Fine(<<Do("primary"), Do("postfix")>>)
    BY ItemProper, DoProper, FineTuples, Zenon
  <1>3. Peek \in {"!", "-"} => Peek # "eof"  OBVIOUS
  <1>. QED  BY <1>1, <1>2, <1>3, Zenon DEF SimpleStepsKeepText, ParseUnary

LEMMA MethodArgsKeepsText ==
  ASSUME ParseInv, TextInv, MethodArgs
  PROVE  TextInv'
  <1>1. SimpleStepsKeepText  BY StepsKeepText
  <1>2. Fine(Parens(<<With("list", "arg")>>))
    <2>1. Fine(<<With("list", "arg")>>)  BY DoProper, FineTuples, Zenon
    <2>. QED  BY <2>1, ParensFine, Zenon
  <1>. QED  BY <1>1, <1>2, FineTuples, Zenon DEF SimpleStepsKeepText, MethodArgs

-----------------------------------------------------------------------------
\* What stands before a postfix is the one piece of its call.
LEMMA TheOperand ==
  ASSUME ParseInv, Doing("postfix")
  PROVE  Len(Pieces) = 1 /\ Last(done) = Pieces[1]
  <1>1. PICK x, q, n : x.do = "postfix" /\ Frame(x, q, n)  BY Framed
  <1>2. /\ x = Head(todo) /\ n = Len(done) /\ n \in Nat /\ now.len = n
        /\ x.base \in Nat /\ now.len = x.base + 1 /\ IsSequence(done)
    BY <1>1 DEF Frame, Ready, ParseInv
  <1>3. PICK S : done \in Seq(S)  BY <1>2 DEF IsSequence
  <1>4. Pieces = SubSeq(done, x.base + 1, x.base + 1) /\ Len(done) = x.base + 1
    BY <1>2 DEF Pieces
  <1>5. x.base + 1 \in 1 .. Len(done)  BY <1>2
  <1>6. Len(Pieces) = 1 /\ Pieces[1] = done[x.base + 1]
    BY <1>3, <1>4, <1>5
  <1>. QED  BY <1>4, <1>6 DEF Last

LEMMA CoversOfOne ==
  ASSUME NEW p, Len(p) = 1
  PROVE  UNION {p[i].covers : i \in 1 .. Len(p)} = p[1].covers
  <1>1. 1 .. Len(p) = {1}  OBVIOUS
  <1>. QED  BY <1>1

LEMMA ParseCallKeepsText ==
  ASSUME ParseInv, TextInv, ParseCall
  PROVE  TextInv'
  <1>. DEFINE node == Last(done)
              w == Word(node.words[1], node.keeps)
              name == Word(node.words[1], node.keeps \cup {current})
              sign == Step[Peek]
              v == Update(name, sign, One)
              args == <<With("list", "arg"), Eat(")"), Finish("build", "call"), Again>>
              P == UNION {Pieces[i].covers : i \in 1 .. Len(Pieces)}
  <1>1. SimpleStepsKeepText  BY StepsKeepText
  <1>2. /\ Doing("postfix")
        /\ \/ /\ Peek = "(" /\ node.kind = "identifier"
              /\ Then(args) /\ Advance /\ Reduced(w) /\ UNCHANGED <<rng_counter, punned>>
           \/ Fail("ERR_INVALID_CALL_TARGET")
           \/ Peek = "[" /\ Skip(<<Do("expr"), Eat("]"), Finish("build", "access"), Again>>)
           \/ Peek = "." /\ Skip(<<Do("name"), Do("method"), Finish("build", "member"), Again>>)
           \/ /\ Peek \in DOMAIN Step /\ node.kind = "identifier"
              /\ Then(<<Again>>) /\ Advance /\ Reduced(v) /\ UNCHANGED <<rng_counter, punned>>
           \/ Fail("ERR_INVALID_ASSIGN_TARGET")
           \/ Go(<<>>)
    BY Zenon DEF ParseCall
  <1>3. Proper(Again) /\ Proper(Eat(")")) /\ Proper(Eat("]"))
    BY <1>2, AgainProper, SeparatorsAre, ItemProper
  <1>4. /\ Fine(args) /\ Fine(<<Again>>) /\ Fine(<<>>)
        /\ Fine(<<Do("expr"), Eat("]"), Finish("build", "access"), Again>>)
        /\ Fine(<<Do("name"), Do("method"), Finish("build", "member"), Again>>)
    BY <1>3, DoProper, FineTuples, Zenon
  <1>5. /\ Peek = "(" => Peek \in Separators
        /\ Peek = "[" => Peek \in Separators
        /\ Peek = "." => Peek \in Separators
    BY SeparatorsAre, Zenon
  <1>6. ASSUME node.kind = "identifier", ~ punned PROVE P = node.keeps
    <2>1. Len(Pieces) = 1 /\ node = Pieces[1]  BY <1>2, TheOperand
    <2>2. Account /\ 1 \in 1 .. Len(Pieces)  BY <1>6, <2>1 DEF TextInv
    <2>3. Pieces[1].covers = Pieces[1].keeps  BY <1>2, <1>6, <2>1, <2>2, PiecesSound
    <2>. QED  BY <2>1, <2>3, CoversOfOne
  <1>7. Sound(w) /\ w.covers = node.keeps  BY WordSound
  <1>. HIDE DEF args, sign
  <1>8. Sound(v) /\ v.covers = node.keeps \cup {current}
    <2>1. Sound(One) /\ One.covers = {}  BY LeafSound DEF One
    <2>2. name.keeps = node.keeps \cup {current}  BY WordSound
    <2>. HIDE DEF name
    <2>3. Sound(v) /\ v.covers = name.keeps \cup One.covers  BY <2>1, UpdateSound
    <2>. QED  BY <2>1, <2>2, <2>3
  <1>. HIDE DEF node, w, v
  <1>9. ASSUME Peek = "(", node.kind = "identifier", Then(args), Advance, Reduced(w),
               UNCHANGED <<rng_counter, punned>>
        PROVE  TextInv'
    <2>. DEFINE X == {}
    <2>1. ~ punned' => ~ punned  BY <1>9
    <2>2. ~ punned' => Sound(w) /\ w.covers = X \cup P  BY <1>6, <1>7, <1>9
    <2>3. Advance /\ Peek \in Separators /\ X = {}  BY <1>5, <1>9
    <2>. HIDE DEF X
    <2>. QED  BY <1>2, <1>4, <1>9, <2>1, <2>2, <2>3, ReduceText
  <1>10. ASSUME Peek \in DOMAIN Step, node.kind = "identifier", Then(<<Again>>), Advance,
                Reduced(v), UNCHANGED <<rng_counter, punned>>
         PROVE  TextInv'
    <2>. DEFINE X == {current}  again == <<Again>>
    <2>1. ~ punned' => ~ punned  BY <1>10
    <2>2. ~ punned' => Sound(v) /\ v.covers = X \cup P  BY <1>6, <1>8, <1>10
    <2>3. current <= Len(tokens)
      <3>1. Peek # "eof"  BY <1>10 DEF Step
      <3>2. CursorInv /\ Len(tokens) \in Nat /\ current \in Nat
        BY NowIs, DomainIs DEF ParseInv, CursorInv
      <3>. QED  BY <3>1, <3>2, PeekTells
    <2>4. Advance /\ current <= Len(tokens) /\ X = {current}  BY <1>10, <2>3
    <2>5. Fine(again) /\ Then(again)  BY <1>4, <1>10
    <2>. HIDE DEF X, again
    <2>. QED  BY <1>2, <1>10, <2>1, <2>2, <2>4, <2>5, ReduceText
  <1>11. CASE Peek = "[" /\ Skip(<<Do("expr"), Eat("]"), Finish("build", "access"), Again>>)
    BY <1>1, <1>2, <1>4, <1>5, <1>11, Zenon DEF SimpleStepsKeepText
  <1>12. CASE Peek = "." /\ Skip(<<Do("name"), Do("method"), Finish("build", "member"), Again>>)
    BY <1>1, <1>2, <1>4, <1>5, <1>12, Zenon DEF SimpleStepsKeepText
  <1>13. CASE Fail("ERR_INVALID_CALL_TARGET") \/ Fail("ERR_INVALID_ASSIGN_TARGET")
    BY <1>1, <1>13, ErrorsAre, Zenon DEF SimpleStepsKeepText
  <1>14. CASE Go(<<>>)
    BY <1>1, <1>2, <1>4, <1>14, Zenon DEF SimpleStepsKeepText
  <1>. QED  BY <1>2, <1>9, <1>10, <1>11, <1>12, <1>13, <1>14, Zenon

LEMMA ParsePrimaryKeepsText ==
  ASSUME ParseInv, TextInv, ParsePrimary
  PROVE  TextInv'
  <1>. DEFINE literal == Node(Literals[Peek], <<Peek>>, {current}, <<>>)
              name == Node("identifier", <<Peek>>, {current}, <<>>)
  <1>1. SimpleStepsKeepText  BY StepsKeepText
  <1>2. /\ Doing("primary")
        /\ \/ Peek \in DOMAIN Literals /\ Then(<<>>) /\ Advance /\ Push(literal)
           \/ Peek \in Names /\ Then(<<>>) /\ Advance /\ Push(name)
           \/ Go(Parens(<<Do("expr")>>))
           \/ Peek \in Quotes /\ Skip(<<With("quoted", Peek)>>)
           \/ Peek = "[" /\ Skip(<<With("list", "element"), Eat("]"), Build("list")>>)
           \/ Fail("ERR_UNEXPECTED_TOKEN")
    BY Zenon DEF ParsePrimary
  <1>3. Sound(literal) /\ literal.covers = {current} /\ Sound(name) /\ name.covers = {current}
    BY LeafSound
  <1>4. Peek \in DOMAIN Literals \cup Names => Peek # "eof"  BY EofIsNoName DEF Literals
  <1>. HIDE DEF literal, name
  <1>5. ASSUME Peek \in DOMAIN Literals \cup Names, Then(<<>>), Advance, NEW n, Push(n),
               Sound(n), n.covers = {current}
        PROVE  TextInv'
    <2>. DEFINE none == <<>>
    <2>1. Fine(none) /\ Then(none)  BY <1>5, FineTuples
    <2>2. current <= Len(tokens)
      <3>1. CursorInv /\ Len(tokens) \in Nat /\ current \in Nat
        BY NowIs, DomainIs DEF ParseInv, CursorInv
      <3>. QED  BY <1>4, <1>5, <3>1, PeekTells
    <2>. HIDE DEF none
    <2>. QED  BY <1>2, <1>5, <2>1, <2>2, PushText
  <1>6. CASE Peek \in DOMAIN Literals /\ Then(<<>>) /\ Advance /\ Push(literal)
    BY <1>3, <1>5, <1>6
  <1>7. CASE Peek \in Names /\ Then(<<>>) /\ Advance /\ Push(name)
    BY <1>3, <1>5, <1>7
  <1>8. CASE Go(Parens(<<Do("expr")>>))
    <2>1. Fine(<<Do("expr")>>)  BY DoProper, FineTuples, Zenon
    <2>. QED  BY <1>1, <1>2, <1>8, <2>1, ParensFine, Zenon DEF SimpleStepsKeepText
  <1>9. CASE Peek \in Quotes /\ Skip(<<With("quoted", Peek)>>)
    <2>1. Peek \in Separators  BY <1>9, SeparatorsAre, Zenon DEF Quotes
    <2>2. Fine(<<With("quoted", Peek)>>)  BY DoProper, FineTuples, Zenon
    <2>. QED  BY <1>1, <1>2, <1>9, <2>1, <2>2, Zenon DEF SimpleStepsKeepText
  <1>10. CASE Peek = "[" /\ Skip(<<With("list", "element"), Eat("]"), Build("list")>>)
    <2>1. Peek \in Separators  BY <1>10, SeparatorsAre, Zenon
    <2>2. Proper(Eat("]")) /\ Proper(Build("list"))  BY SeparatorsAre, ItemProper
    <2>3. Fine(<<With("list", "element"), Eat("]"), Build("list")>>)
      BY <2>2, DoProper, FineTuples, Zenon
    <2>. QED  BY <1>1, <1>2, <1>10, <2>1, <2>3, Zenon DEF SimpleStepsKeepText
  <1>11. CASE Fail("ERR_UNEXPECTED_TOKEN")
    BY <1>1, <1>11, ErrorsAre, Zenon DEF SimpleStepsKeepText
  <1>. QED  BY <1>2, <1>6, <1>7, <1>8, <1>9, <1>10, <1>11, Zenon

LEMMA ParseQuotedKeepsText ==
  ASSUME ParseInv, TextInv, ParseQuoted
  PROVE  TextInv'
  <1>. DEFINE single == Head(todo).arg = "sq" /\ Len(Pieces) = 1 /\ Pieces[1].words = <<"qchar">>
              k == IF single THEN "char" ELSE "string"
              m == Make(k, Pieces)
  <1>1. SimpleStepsKeepText  BY StepsKeepText
  <1>2. /\ Doing("quoted")
        /\ \/ /\ Peek \in Quotes \cup {"eof"} /\ Then(<<>>) /\ Advance /\ Reduced(m)
              /\ UNCHANGED <<rng_counter, punned>>
           \/ Peek \notin Quotes \cup {"eof"} /\ Take(<<Again>>)
    BY Zenon DEF ParseQuoted
  <1>. HIDE DEF k
  <1>3. ASSUME ~ punned
        PROVE  Sound(m) /\ m.covers = UNION {Pieces[i].covers : i \in 1 .. Len(Pieces)}
    <2>1. Account  BY <1>3 DEF TextInv
    <2>2. /\ IsSequence(Pieces)
          /\ \A i \in 1 .. Len(Pieces) :
               /\ Parted(Pieces[i])
               /\ IsWord(Pieces[i]) => Pieces[i].covers = Pieces[i].keeps
          /\ \A i, j \in 1 .. Len(Pieces) :
               i # j => Pieces[i].covers \cap Pieces[j].covers = {}
      BY <1>2, <2>1, PiecesSound
    <2>. QED  BY <2>2, MakeSound
  <1>. HIDE DEF m
  <1>4. ASSUME Peek \in Quotes \cup {"eof"}, Then(<<>>), Advance, Reduced(m),
               UNCHANGED <<rng_counter, punned>>
        PROVE  TextInv'
    <2>. DEFINE X == {}  none == <<>>
                P == UNION {Pieces[i].covers : i \in 1 .. Len(Pieces)}
    <2>1. Peek \in Separators  BY <1>4, SeparatorsAre, Zenon DEF Quotes
    <2>2. Fine(none) /\ Then(none)  BY <1>4, FineTuples
    <2>3. (~ punned' => ~ punned) /\ (~ punned' => Sound(m) /\ m.covers = X \cup P)
      BY <1>3, <1>4
    <2>4. Advance /\ Peek \in Separators /\ X = {}  BY <1>4, <2>1
    <2>. HIDE DEF X, none
    <2>. QED  BY <1>2, <1>4, <2>2, <2>3, <2>4, ReduceText
  <1>5. CASE Peek \notin Quotes \cup {"eof"} /\ Take(<<Again>>)
    <2>1. Proper(Again)  BY <1>2, AgainProper
    <2>2. Fine(<<Again>>)  BY <2>1, FineTuples, Zenon
    <2>3. Peek # "eof"  BY <1>5
    <2>. QED  BY <1>1, <1>2, <1>5, <2>2, <2>3, Zenon DEF SimpleStepsKeepText
  <1>. QED  BY <1>2, <1>4, <1>5, Zenon

LEMMA AcceptKeepsText ==
  ASSUME TextInv, Accept
  PROVE  TextInv'
  BY DEF Accept, TextInv, TodoInv, EofIsLast, Account

-----------------------------------------------------------------------------
LEMMA InitGivesText ==
  ASSUME Init
  PROVE  TextInv
  <1>. DEFINE a == Item("program", "none", 0)  b == Item("build", "program", 0)
  <1>1. /\ input \in Inputs /\ tokens = input.start /\ current = 1 /\ todo = <<a, b>>
        /\ done = <<>>
    BY DEF Init
  <1>2. EofIsLast
    <2>1. /\ input.start \in Seq(STRING) /\ "eof" \notin ToSet(input.start)
      BY <1>1, InputsAssumption
    <2>2. \A i \in 1 .. Len(input.start) : input.start[i] # "eof"  BY <2>1 DEF ToSet
    <2>. QED  BY <1>1, <2>1, <2>2 DEF EofIsLast
  <1>3. TodoInv
    <2>1. Proper(a) /\ Proper(b)
      <3>1. "program" \notin Minded /\ "build" \notin Minded  BY DEF Minded
      <3>. QED  BY <3>1, ItemProper, Zenon
    <2>. HIDE DEF a, b
    <2>2. Fine(todo)  BY <1>1, <2>1, FineTuples
    <2>. QED  BY <2>2, FineSplit DEF TodoInv
  <1>4. Account
    <2>1. Len(done) = 0 /\ 1 .. current - 1 = {}  BY <1>1, Tuples
    <2>. QED  BY <2>1 DEF Account
  <1>. QED  BY <1>2, <1>3, <1>4 DEF TextInv

LEMMA NextKeepsText ==
  ASSUME ParseInv, TextInv, [Parse]_parserVars
  PROVE  TextInv'
  <1>1. CASE UNCHANGED parserVars
    BY <1>1 DEF parserVars, TextInv, TodoInv, EofIsLast, Account
  <1>2. ASSUME ParseFunction PROVE TextInv'
    BY <1>2, ParseProgramKeepsText, ParseBlockKeepsText, ParseTypeKeepsText,
       InitializerKeepsText, ReturnTypeKeepsText, ListKeepsText, MoreKeepsText DEF ParseFunction
  <1>3. ASSUME ParseStatements PROVE TextInv'
    BY <1>3, ParseStatementKeepsText, DirectiveKeepsText, ElseBranchKeepsText,
       ParseForStatementKeepsText, BuildRangeKeepsText DEF ParseStatements
  <1>4. ASSUME ParseExpressions PROVE TextInv'
    BY <1>4, ParseExpressionKeepsText, ParseAssignmentKeepsText, AssignToKeepsText,
       ParseTernaryKeepsText, ParseOperatorKeepsText, ParseUnaryKeepsText, ParseCallKeepsText,
       MethodArgsKeepsText, BuildAccessKeepsText, ParsePrimaryKeepsText, ParseQuotedKeepsText
       DEF ParseExpressions
  <1>5. ASSUME Consume \/ ConsumeName \/ ConsumeEndOfStatement \/ BuildNode \/ Accept
        PROVE  TextInv'
    BY <1>5, ConsumeKeepsText, ConsumeNameKeepsText, ConsumeEndOfStatementKeepsText,
       BuildNodeKeepsText, AcceptKeepsText
  <1>. QED  BY <1>1, <1>2, <1>3, <1>4, <1>5 DEF Parse

LEMMA BeforeTheEnd ==
  \A c, k, n : /\ n \in Nat /\ c \in 1 .. n + 1 /\ c >= n /\ k \in 1 .. n
               /\ c = n => k # c
               => k \in 1 .. c - 1
  OBVIOUS

LEMMA TextTells ==
  ASSUME ParseInv, TextInv
  PROVE  NothingDropped
  <1>. SUFFICES ASSUME status = "parsed", ~ punned
                PROVE  /\ Content \subseteq tree.covers
                       /\ \A n \in Subtrees(tree) : KidsApart(n)
    BY DEF NothingDropped
  <1>1. Len(done) = 1 /\ Peek = "eof"  BY NowIs DEF ParseInv, Whole
  <1>2. Account /\ EofIsLast  BY DEF TextInv
  <1>3. Walks(tree) /\ Sound(tree)  BY <1>1, <1>2 DEF ParseInv, Account, tree
  <1>4. \A n \in Subtrees(tree) : KidsApart(n)
    <2>1. tree.height \in Nat /\ Parted(tree)  BY <1>3, WalksDown DEF Shaped, Sound
    <2>. HIDE DEF tree
    <2>. QED  BY <2>1, PartedTree
  <1>5. ASSUME NEW k \in Content PROVE k \in tree.covers
    <2>1. /\ DOMAIN tokens = 1 .. Len(tokens) /\ Len(tokens) \in Nat /\ Len(tokens) > 0
          /\ current \in 1 .. Len(tokens) + 1
      BY DomainIs DEF ParseInv, CursorInv
    <2>2. k \in 1 .. Len(tokens) /\ tokens[k] \notin Separators  BY <1>5, <2>1, Zenon DEF Content
    <2>3. tokens[k] # "eof"  BY <2>2, SeparatorsAre
    <2>4. current >= Len(tokens)
      <3>. SUFFICES ASSUME current < Len(tokens) PROVE FALSE  BY <2>1
      <3>1. Peek = tokens[current] /\ current \in 1 .. Len(tokens) - 1  BY <2>1 DEF Peek
      <3>. QED  BY <1>1, <1>2, <3>1 DEF EofIsLast
    <2>5. k \in 1 .. current - 1
      <3>1. current = Len(tokens) => tokens[current] = "eof"  BY <1>1, <2>1 DEF Peek
      <3>2. current = Len(tokens) => k # current  BY <2>3, <3>1
      <3>3. current \in 1 .. Len(tokens) + 1 /\ current >= Len(tokens) /\ Len(tokens) \in Nat
            /\ k \in 1 .. Len(tokens)
        BY <2>1, <2>2, <2>4
      <3>. QED  BY ONLY <3>2, <3>3, BeforeTheEnd
    <2>6. PICK i \in 1 .. Len(done) : k \in done[i].covers  BY <1>2, <2>2, <2>5 DEF Account
    <2>7. i = 1  BY <1>1, <2>6
    <2>. QED  BY <2>6, <2>7 DEF tree
  <1>. QED  BY <1>4, <1>5

\* On every token list, whatever its length and its names, a program that is
\* parsed keeps every token that does more than separate in its tree, and no
\* node holds a token twice, unless an index was put on what is not a name.
THEOREM ParserDropsNothing == ParserSpec => []NothingDropped
  <1>1. Init => ParseInv /\ TextInv  BY InitGivesInv, InitGivesText
  <1>2. (ParseInv /\ TextInv) /\ [Parse]_parserVars => (ParseInv /\ TextInv)'
    BY NextKeepsInv, NextKeepsText
  <1>3. ParseInv /\ TextInv => NothingDropped  BY TextTells
  <1>. QED  BY <1>1, <1>2, <1>3, PTL DEF ParserSpec
=============================================================================
