---------------------------- MODULE HashMap_proofs ---------------------------
(***************************************************************************)
(* The hash map is a dictionary, for any keys, values, hash function,      *)
(* capacities and load factors, and its iterations are complete.           *)
(*                                                                         *)
(* MapInv says what the two arrays are, IterInv where a live iterator is   *)
(* in the order of the nodes.  The lemmas go from sequences over chains    *)
(* and arrays to sets of nodes; the operations are then proved on those.   *)
(***************************************************************************)
EXTENDS HashMap, FiniteSetTheorems, TLAPS

NodeSet == [key : Keys, val : Vals]
ChainNodes(s) == {s[j] : j \in DOMAIN s}

\* A chain that belongs at index i of c, and holds each key once.
Placed(s, i, c) == /\ s \in Seq(NodeSet)
                   /\ \A j \in DOMAIN s : Bucket(s[j].key, c) = i
                   /\ \A j, l \in DOMAIN s : s[j].key = s[l].key => j = l
\* An array of c chains, each in its place.
Array(b, c) == /\ b \in [0 .. c - 1 -> Seq(NodeSet)]
               /\ \A i \in 0 .. c - 1 : Placed(b[i], i, c)
Apart(S, T) == \A m \in S, n \in T : m.key # n.key

\* The two arrays hold each key once, in its chain, and size counts the nodes.
MapInv == /\ capacity \in Powers /\ Array(buckets, capacity)
          /\ cap \in Powers \cup {0} /\ Array(newBuckets, cap)
          /\ Apart(NodesOf(buckets), NodesOf(newBuckets))
          /\ IsFiniteSet(Nodes) /\ Cardinality(Nodes) = size
          /\ maxLoad \in MaxLoads

-----------------------------------------------------------------------------
\* Numbers and sequences.
LEMMA PowersArePositive == Powers \subseteq Nat \ {0}
  <1>. DEFINE P(e) == 2 ^ e \in Nat \ {0}
  <1>1. P(0) /\ P(1) /\ P(2) /\ P(3) /\ P(4) /\ P(5) /\ P(6) /\ P(7)  OBVIOUS
  <1>2. P(8) /\ P(9) /\ P(10) /\ P(11) /\ P(12) /\ P(13) /\ P(14) /\ P(15)  OBVIOUS
  <1>3. P(16) /\ P(17) /\ P(18) /\ P(19) /\ P(20) /\ P(21) /\ P(22) /\ P(23)  OBVIOUS
  <1>4. P(24) /\ P(25) /\ P(26) /\ P(27) /\ P(28) /\ P(29) /\ P(30)  OBVIOUS
  <1>. HIDE DEF P
  <1>5. \A e \in 0 .. 30 : P(e)  BY <1>1, <1>2, <1>3, <1>4
  <1>. QED  BY <1>5 DEF Powers, P

\* RoundUp and the search for the first chain take the least of a set.
LEMMA MinIsLeast ==
  ASSUME NEW S \in SUBSET Nat, S # {}
  PROVE  Min(S) \in S /\ \A y \in S : Min(S) <= y
  <1>1. IsWellFoundedOn(OpToRel(<, Nat), Nat)  BY NatLessThanWellFounded
  <1>2. PICK x \in S : \A y \in S : ~ (<<y, x>> \in OpToRel(<, Nat))
    BY <1>1, WFMin
  <1>3. \A y \in S : ~ (y < x)  BY <1>2 DEF OpToRel
  <1>4. \A y \in S : x <= y  BY <1>3
  <1>. QED  BY <1>4 DEF Min

\* The sequence operations of the chains: a new head, the tail, one element less.
LEMMA HeadOn ==
  ASSUME NEW S, NEW n \in S, NEW s \in Seq(S)
  PROVE  /\ <<n>> \o s \in Seq(S) /\ Len(<<n>> \o s) = Len(s) + 1
         /\ (<<n>> \o s)[1] = n
         /\ \A j \in 1 .. Len(s) : (<<n>> \o s)[j + 1] = s[j]
  OBVIOUS

LEMMA TailOff ==
  ASSUME NEW S, NEW s \in Seq(S), s # <<>>
  PROVE  /\ Tail(s) \in Seq(S) /\ Len(Tail(s)) = Len(s) - 1 /\ Len(s) \in Nat \ {0}
         /\ Head(s) = s[1] /\ \A j \in 1 .. Len(s) - 1 : Tail(s)[j] = s[j + 1]
  OBVIOUS

LEMMA OneRemoved ==
  ASSUME NEW S, NEW s \in Seq(S), NEW p \in 1 .. Len(s)
  PROVE  /\ RemoveAt(s, p) \in Seq(S) /\ Len(RemoveAt(s, p)) = Len(s) - 1
         /\ \A j \in 1 .. Len(s) - 1 : RemoveAt(s, p)[j] = IF j < p THEN s[j] ELSE s[j + 1]
  <1>. DEFINE x == SubSeq(s, 1, p - 1)
              y == SubSeq(s, p + 1, Len(s))
  <1>1. /\ x \in Seq(S) /\ Len(x) = p - 1
        /\ \A j \in 1 .. p - 1 : x[j] = s[j]
    OBVIOUS
  <1>2. /\ y \in Seq(S) /\ Len(y) = Len(s) - p
        /\ \A j \in 1 .. Len(s) - p : y[j] = s[j + p]
    OBVIOUS
  <1>3. RemoveAt(s, p) = x \o y  BY DEF RemoveAt
  <1>. HIDE DEF x, y
  <1>4. x \o y \in Seq(S) /\ Len(x \o y) = Len(s) - 1  BY <1>1, <1>2
  <1>5. ASSUME NEW j \in 1 .. Len(s) - 1 PROVE (x \o y)[j] = IF j < p THEN s[j] ELSE s[j + 1]
    <2>1. CASE j < p  BY <2>1, <1>1, <1>2
    <2>2. CASE ~ (j < p)
      <3>1. (x \o y)[j] = y[j - (p - 1)]  BY <2>2, <1>1, <1>2
      <3>2. j - (p - 1) \in 1 .. Len(s) - p /\ (j - (p - 1)) + p = j + 1  BY <2>2
      <3>. QED  BY <3>1, <3>2, <1>2, <2>2
    <2>. QED  BY <2>1, <2>2
  <1>. QED  BY <1>3, <1>4, <1>5

-----------------------------------------------------------------------------
\* Chains.
LEMMA BucketIsIndex ==
  ASSUME NEW k \in Keys, NEW c \in Nat \ {0}
  PROVE  Bucket(k, c) \in 0 .. c - 1
  <1>1. Hash[k] \in Nat  BY HashAssumption
  <1>. QED  BY <1>1 DEF Bucket

LEMMA AtIsThere ==
  ASSUME NEW k, NEW s, InChain(k, s)
  PROVE  At(k, s) \in DOMAIN s /\ s[At(k, s)].key = k
  BY DEF InChain, At

LEMMA PushOnChain ==
  ASSUME NEW c, NEW i, NEW s, Placed(s, i, c), NEW k \in Keys, NEW v \in Vals,
         Bucket(k, c) = i, ~ InChain(k, s)
  PROVE  /\ Placed(<<Node(k, v)>> \o s, i, c)
         /\ ChainNodes(<<Node(k, v)>> \o s) = ChainNodes(s) \cup {Node(k, v)}
  <1>. DEFINE n == Node(k, v)
              t == <<n>> \o s
  <1>1. s \in Seq(NodeSet) /\ n \in NodeSet /\ n.key = k  BY DEF Placed, Node, NodeSet
  <1>. HIDE DEF n
  <1>2. /\ t \in Seq(NodeSet) /\ Len(t) = Len(s) + 1 /\ t[1] = n
        /\ \A j \in 1 .. Len(s) : t[j + 1] = s[j]
    BY <1>1, HeadOn
  <1>. HIDE DEF t
  <1>3. DOMAIN s = 1 .. Len(s) /\ DOMAIN t = 1 .. Len(s) + 1 /\ Len(s) \in Nat  BY <1>1, <1>2
  <1>4. \A j \in DOMAIN t : j = 1 \/ (j - 1 \in DOMAIN s /\ t[j] = s[j - 1])
    <2>. TAKE j \in DOMAIN t
    <2>1. j # 1 => j - 1 \in 1 .. Len(s) /\ (j - 1) + 1 = j  BY <1>3
    <2>. QED  BY <1>2, <1>3, <2>1
  <1>5. \A j \in DOMAIN t : Bucket(t[j].key, c) = i  BY <1>1, <1>2, <1>4 DEF Placed
  <1>6. \A j, l \in DOMAIN t : t[j].key = t[l].key => j = l
    <2>. SUFFICES ASSUME NEW j \in DOMAIN t, NEW l \in DOMAIN t, t[j].key = t[l].key
                  PROVE  j = l  OBVIOUS
    <2>1. j \in Int /\ l \in Int  BY <1>3
    <2>2. \A m \in DOMAIN s : s[m].key # k  BY DEF InChain
    <2>3. \A a, b \in DOMAIN s : s[a].key = s[b].key => a = b  BY DEF Placed
    <2>4. CASE j = 1 \/ l = 1  BY <2>4, <2>2, <1>1, <1>2, <1>4
    <2>5. CASE j # 1 /\ l # 1
      <3>1. j - 1 = l - 1  BY <2>5, <2>3, <1>4
      <3>. QED  BY <3>1, <2>1
    <2>. QED  BY <2>4, <2>5
  <1>7. ChainNodes(t) = ChainNodes(s) \cup {n}
    <2>1. \A j \in DOMAIN s : j + 1 \in DOMAIN t /\ t[j + 1] = s[j]  BY <1>2, <1>3
    <2>2. 1 \in DOMAIN t  BY <1>3
    <2>3. ChainNodes(s) \cup {n} \subseteq ChainNodes(t)  BY <2>1, <2>2, <1>2 DEF ChainNodes
    <2>4. ChainNodes(t) \subseteq ChainNodes(s) \cup {n}  BY <1>2, <1>4 DEF ChainNodes
    <2>. QED  BY <2>3, <2>4
  <1>. QED  BY <1>2, <1>5, <1>6, <1>7 DEF Placed, t, n

\* A chain without one of its nodes.
LEMMA NodeTakenOff ==
  ASSUME NEW c, NEW i, NEW s, Placed(s, i, c), NEW p \in DOMAIN s
  PROVE  /\ Placed(RemoveAt(s, p), i, c)
         /\ ChainNodes(RemoveAt(s, p)) = ChainNodes(s) \ {s[p]}
  <1>. DEFINE t == RemoveAt(s, p)
  <1>1. s \in Seq(NodeSet) /\ DOMAIN s = 1 .. Len(s) /\ Len(s) \in Nat  BY DEF Placed
  <1>2. /\ t \in Seq(NodeSet) /\ Len(t) = Len(s) - 1
        /\ \A j \in 1 .. Len(s) - 1 : t[j] = IF j < p THEN s[j] ELSE s[j + 1]
    BY <1>1, OneRemoved
  <1>. HIDE DEF t
  <1>3. DOMAIN t = 1 .. Len(s) - 1  BY <1>1, <1>2
  <1>. DEFINE old(j) == IF j < p THEN j ELSE j + 1
  <1>4. \A j \in DOMAIN t : old(j) \in DOMAIN s /\ old(j) # p /\ t[j] = s[old(j)]
    BY <1>1, <1>2, <1>3
  <1>5. \A j, l \in DOMAIN t : old(j) = old(l) => j = l  BY <1>1, <1>3
  <1>6. \A m \in DOMAIN s \ {p} : \E j \in DOMAIN t : old(j) = m
    <2>. TAKE m \in DOMAIN s \ {p}
    <2>1. CASE m < p  BY <2>1, <1>1, <1>3
    <2>2. CASE ~ (m < p)
      <3>1. m - 1 \in DOMAIN t /\ old(m - 1) = m  BY <2>2, <1>1, <1>3
      <3>. QED  BY <3>1
    <2>. QED  BY <2>1, <2>2
  <1>. HIDE DEF old
  <1>7. Placed(t, i, c)  BY <1>2, <1>4, <1>5 DEF Placed
  <1>8. \A m \in DOMAIN s \ {p} : s[m] # s[p]  BY DEF Placed
  <1>9. ChainNodes(t) \subseteq ChainNodes(s) \ {s[p]}  BY <1>4, <1>8 DEF ChainNodes
  <1>10. ChainNodes(s) \ {s[p]} \subseteq ChainNodes(t)  BY <1>4, <1>6 DEF ChainNodes
  <1>. QED  BY <1>7, <1>9, <1>10 DEF t

LEMMA HeadTakenOff ==
  ASSUME NEW c, NEW i, NEW s, Placed(s, i, c), s # <<>>
  PROVE  /\ Placed(Tail(s), i, c)
         /\ ChainNodes(Tail(s)) = ChainNodes(s) \ {Head(s)}
         /\ Head(s) \in ChainNodes(s) /\ Head(s) = s[1] /\ 1 \in DOMAIN s
  <1>1. s \in Seq(NodeSet)  BY DEF Placed
  <1>2. /\ Tail(s) \in Seq(NodeSet) /\ Len(Tail(s)) = Len(s) - 1 /\ Len(s) \in Nat \ {0}
        /\ Head(s) = s[1] /\ \A j \in 1 .. Len(s) - 1 : Tail(s)[j] = s[j + 1]
    BY <1>1, TailOff
  <1>3. 1 \in DOMAIN s  BY <1>1, <1>2
  <1>4. \A p \in 1 .. Len(s) :
          /\ RemoveAt(s, p) \in Seq(NodeSet) /\ Len(RemoveAt(s, p)) = Len(s) - 1
          /\ \A j \in 1 .. Len(s) - 1 :
                RemoveAt(s, p)[j] = IF j < p THEN s[j] ELSE s[j + 1]
    BY <1>1, OneRemoved
  <1>. DEFINE t == RemoveAt(s, 1)
  <1>5. 1 \in 1 .. Len(s)  BY <1>2
  <1>6. /\ t \in Seq(NodeSet) /\ Len(t) = Len(s) - 1
        /\ \A j \in 1 .. Len(s) - 1 : t[j] = IF j < 1 THEN s[j] ELSE s[j + 1]
    BY <1>4, <1>5
  <1>. HIDE DEF t
  <1>8. \A j \in 1 .. Len(s) - 1 : t[j] = Tail(s)[j]  BY <1>2, <1>6
  <1>9. t = Tail(s)  BY <1>2, <1>6, <1>8
  <1>7. \A p \in DOMAIN s : /\ Placed(RemoveAt(s, p), i, c)
                            /\ ChainNodes(RemoveAt(s, p)) = ChainNodes(s) \ {s[p]}
    BY NodeTakenOff
  <1>10. Placed(t, i, c) /\ ChainNodes(t) = ChainNodes(s) \ {s[1]}  BY <1>3, <1>7 DEF t
  <1>. QED  BY <1>2, <1>3, <1>9, <1>10 DEF ChainNodes

\* A value written into a node in place.
LEMMA ValueWritten ==
  ASSUME NEW c, NEW i, NEW s, Placed(s, i, c), NEW p \in DOMAIN s, NEW v \in Vals
  PROVE  LET t == [s EXCEPT ![p].val = v] IN
         /\ Placed(t, i, c)
         /\ ChainNodes(t) = (ChainNodes(s) \ {s[p]}) \cup {Node(s[p].key, v)}
  <1>. DEFINE t == [s EXCEPT ![p].val = v]
              n == Node(s[p].key, v)
  <1>1. s \in Seq(NodeSet) /\ DOMAIN s = 1 .. Len(s)  BY DEF Placed
  <1>2. s[p] \in NodeSet  BY <1>1
  <1>3. n \in NodeSet /\ n.key = s[p].key /\ [s[p] EXCEPT !.val = v] = n
    BY <1>2 DEF NodeSet, Node
  <1>4. t = [s EXCEPT ![p] = n]  BY <1>3
  <1>. HIDE DEF t, n
  <1>5. /\ t \in Seq(NodeSet) /\ DOMAIN t = DOMAIN s /\ t[p] = n
        /\ \A j \in DOMAIN s \ {p} : t[j] = s[j]
    BY <1>1, <1>3, <1>4
  <1>6. \A j \in DOMAIN s : t[j].key = s[j].key  BY <1>3, <1>5
  <1>7. Placed(t, i, c)  BY <1>5, <1>6 DEF Placed
  <1>8. \A m \in DOMAIN s \ {p} : s[m] # s[p]  BY DEF Placed
  <1>9. ChainNodes(t) = (ChainNodes(s) \ {s[p]}) \cup {n}
    BY <1>5, <1>8 DEF ChainNodes
  <1>. QED  BY <1>7, <1>9 DEF t, n

-----------------------------------------------------------------------------
\* Arrays of chains.
Replaced(b, i, s) == [b EXCEPT ![i] = s]
Unlinked(b, c, k) ==
  LET i == Bucket(k, c) IN [b EXCEPT ![i] = RemoveAt(b[i], At(k, b[i]))]
Overwritten(b, c, k, v) ==
  LET i == Bucket(k, c) IN [b EXCEPT ![i] = [b[i] EXCEPT ![At(k, b[i])].val = v]]
Functional(N) == \A m, n \in N : m.key = n.key => m = n

LEMMA InArray ==
  ASSUME NEW c \in Nat, NEW b, Array(b, c)
  PROVE  /\ \A n : n \in NodesOf(b) <=> \E i \in 0 .. c - 1 : n \in ChainNodes(b[i])
         /\ NodesOf(b) \subseteq NodeSet /\ DOMAIN b = 0 .. c - 1
  <1>1. DOMAIN b = 0 .. c - 1  BY DEF Array
  <1>2. \A n : n \in NodesOf(b) <=> \E i \in 0 .. c - 1 : n \in ChainNodes(b[i])
    BY <1>1 DEF NodesOf, ChainNodes
  <1>3. \A i \in 0 .. c - 1 : b[i] \in Seq(NodeSet)  BY DEF Array
  <1>4. \A i \in 0 .. c - 1 : ChainNodes(b[i]) \subseteq NodeSet  BY <1>3 DEF ChainNodes
  <1>. QED  BY <1>1, <1>2, <1>4

LEMMA ChainsPlace ==
  ASSUME NEW c \in Nat, NEW b, Array(b, c), NEW i \in 0 .. c - 1, NEW n \in ChainNodes(b[i])
  PROVE  Bucket(n.key, c) = i
  BY DEF Array, Placed, ChainNodes

LEMMA ArrayIsFunctional ==
  ASSUME NEW c \in Nat, NEW b, Array(b, c)
  PROVE  Functional(NodesOf(b))
  <1>. SUFFICES ASSUME NEW m \in NodesOf(b), NEW n \in NodesOf(b), m.key = n.key
                PROVE  m = n
    BY DEF Functional
  <1>1. PICK i \in 0 .. c - 1 : m \in ChainNodes(b[i])  BY InArray
  <1>2. PICK j \in 0 .. c - 1 : n \in ChainNodes(b[j])  BY InArray
  <1>3. Bucket(m.key, c) = i  BY <1>1, ChainsPlace
  <1>4. Bucket(n.key, c) = j  BY <1>2, ChainsPlace
  <1>5. i = j  BY <1>3, <1>4
  <1>6. Placed(b[i], i, c)  BY DEF Array
  <1>. QED  BY <1>1, <1>2, <1>5, <1>6 DEF Placed, ChainNodes

\* A lookup walks the only chain its key can be in.
LEMMA LookupFinds ==
  ASSUME NEW c \in Nat \ {0}, NEW b, Array(b, c), NEW k \in Keys
  PROVE  InChain(k, b[Bucket(k, c)]) <=> \E n \in NodesOf(b) : n.key = k
  <1>1. Bucket(k, c) \in 0 .. c - 1  BY BucketIsIndex
  <1>2. ASSUME InChain(k, b[Bucket(k, c)]) PROVE \E n \in NodesOf(b) : n.key = k
    <2>1. PICK j \in DOMAIN b[Bucket(k, c)] : b[Bucket(k, c)][j].key = k
      BY <1>2 DEF InChain
    <2>2. b[Bucket(k, c)][j] \in ChainNodes(b[Bucket(k, c)])  BY DEF ChainNodes
    <2>. QED  BY <1>1, <2>1, <2>2, InArray
  <1>3. ASSUME NEW n \in NodesOf(b), n.key = k PROVE InChain(k, b[Bucket(k, c)])
    <2>1. PICK i \in 0 .. c - 1 : n \in ChainNodes(b[i])  BY InArray
    <2>2. Bucket(k, c) = i  BY <2>1, <1>3, ChainsPlace
    <2>. QED  BY <2>1, <2>2, <1>3 DEF InChain, ChainNodes
  <1>. QED  BY <1>2, <1>3

\* One chain of an array is replaced: what that does to its nodes.
LEMMA ReplaceChain ==
  ASSUME NEW c \in Nat, NEW b, Array(b, c), NEW i \in 0 .. c - 1, NEW s, Placed(s, i, c)
  PROVE  /\ Array(Replaced(b, i, s), c)
         /\ NodesOf(Replaced(b, i, s))
              = (NodesOf(b) \ ChainNodes(b[i])) \cup ChainNodes(s)
  <1>. DEFINE d == Replaced(b, i, s)
  <1>1. /\ d \in [0 .. c - 1 -> Seq(NodeSet)] /\ d[i] = s
        /\ \A j \in 0 .. c - 1 : j # i => d[j] = b[j]
    BY DEF Array, Placed, Replaced
  <1>. HIDE DEF d
  <1>2. \A j \in 0 .. c - 1 : Placed(d[j], j, c)  BY <1>1 DEF Array
  <1>3. Array(d, c)  BY <1>1, <1>2 DEF Array
  <1>4. \A n : n \in NodesOf(d) <=> \E j \in 0 .. c - 1 : n \in ChainNodes(d[j])
    BY <1>3, InArray
  <1>5. \A n : n \in NodesOf(b) <=> \E j \in 0 .. c - 1 : n \in ChainNodes(b[j])
    BY InArray
  <1>6. \A j \in 0 .. c - 1 : \A n \in ChainNodes(b[j]) : Bucket(n.key, c) = j
    BY ChainsPlace
  <1>7. ASSUME NEW n
        PROVE  n \in NodesOf(d) <=> n \in (NodesOf(b) \ ChainNodes(b[i])) \cup ChainNodes(s)
    <2>1. CASE n \in ChainNodes(s)  BY <2>1, <1>1, <1>4
    <2>2. CASE n \notin ChainNodes(s)
      <3>1. n \in NodesOf(d) <=> \E j \in (0 .. c - 1) \ {i} : n \in ChainNodes(b[j])
        BY <2>2, <1>1, <1>4
      <3>. QED  BY <3>1, <2>2, <1>5, <1>6
    <2>. QED  BY <2>1, <2>2
  <1>. QED  BY <1>3, <1>7 DEF d

\* The four changes the operations make to an array.
LEMMA PushEffect ==
  ASSUME NEW c \in Nat \ {0}, NEW b, Array(b, c), NEW k \in Keys, NEW v \in Vals,
         \A n \in NodesOf(b) : n.key # k
  PROVE  /\ Array(PushHead(b, c, k, v), c)
         /\ NodesOf(PushHead(b, c, k, v)) = NodesOf(b) \cup {Node(k, v)}
  <1>. DEFINE i == Bucket(k, c)
              s == <<Node(k, v)>> \o b[i]
  <1>1. i \in 0 .. c - 1  BY BucketIsIndex
  <1>2. ~ InChain(k, b[i])  BY LookupFinds
  <1>3. Placed(b[i], i, c)  BY <1>1 DEF Array
  <1>4. Placed(s, i, c) /\ ChainNodes(s) = ChainNodes(b[i]) \cup {Node(k, v)}
    BY <1>2, <1>3, PushOnChain
  <1>5. PushHead(b, c, k, v) = Replaced(b, i, s)  BY DEF PushHead, Replaced
  <1>6. ChainNodes(b[i]) \subseteq NodesOf(b)  BY <1>1, InArray
  <1>. HIDE DEF i, s
  <1>7. /\ Array(Replaced(b, i, s), c)
        /\ NodesOf(Replaced(b, i, s))
              = (NodesOf(b) \ ChainNodes(b[i])) \cup ChainNodes(s)
    BY <1>1, <1>4, ReplaceChain
  <1>. QED  BY <1>4, <1>5, <1>6, <1>7

LEMMA UnlinkEffect ==
  ASSUME NEW c \in Nat \ {0}, NEW b, Array(b, c), NEW k \in Keys, InChain(k, b[Bucket(k, c)])
  PROVE  /\ Array(Unlinked(b, c, k), c)
         /\ \E n \in NodesOf(b) : n.key = k /\ NodesOf(Unlinked(b, c, k)) = NodesOf(b) \ {n}
  <1>. DEFINE i == Bucket(k, c)
              p == At(k, b[i])
              n == b[i][p]
              s == RemoveAt(b[i], p)
  <1>1. i \in 0 .. c - 1  BY BucketIsIndex
  <1>2. p \in DOMAIN b[i] /\ n.key = k  BY AtIsThere
  <1>3. Placed(b[i], i, c)  BY <1>1 DEF Array
  <1>. HIDE DEF i, p
  <1>4. Placed(s, i, c) /\ ChainNodes(s) = ChainNodes(b[i]) \ {n}
    BY <1>2, <1>3, NodeTakenOff
  <1>5. ChainNodes(b[i]) \subseteq NodesOf(b)  BY <1>1, InArray
  <1>6. n \in ChainNodes(b[i])  BY <1>2 DEF ChainNodes
  <1>. HIDE DEF n, s
  <1>7. /\ Array(Replaced(b, i, s), c)
        /\ NodesOf(Replaced(b, i, s))
              = (NodesOf(b) \ ChainNodes(b[i])) \cup ChainNodes(s)
    BY <1>1, <1>4, ReplaceChain
  <1>8. NodesOf(Replaced(b, i, s)) = NodesOf(b) \ {n}  BY <1>4, <1>5, <1>6, <1>7
  <1>. QED  BY <1>2, <1>5, <1>6, <1>7, <1>8 DEF i, p, s, Replaced, Unlinked

LEMMA TailEffect ==
  ASSUME NEW c \in Nat, NEW b, Array(b, c), NEW i \in 0 .. c - 1, b[i] # <<>>
  PROVE  /\ Array([b EXCEPT ![i] = Tail(b[i])], c)
         /\ Head(b[i]) \in NodesOf(b)
         /\ NodesOf([b EXCEPT ![i] = Tail(b[i])]) = NodesOf(b) \ {Head(b[i])}
  <1>. DEFINE s == Tail(b[i])
              n == Head(b[i])
  <1>1. Placed(b[i], i, c)  BY DEF Array
  <1>2. /\ Placed(s, i, c) /\ ChainNodes(s) = ChainNodes(b[i]) \ {n}
        /\ n \in ChainNodes(b[i])
    BY <1>1, HeadTakenOff
  <1>3. ChainNodes(b[i]) \subseteq NodesOf(b)  BY InArray
  <1>. HIDE DEF s, n
  <1>4. /\ Array(Replaced(b, i, s), c)
        /\ NodesOf(Replaced(b, i, s))
              = (NodesOf(b) \ ChainNodes(b[i])) \cup ChainNodes(s)
    BY <1>2, ReplaceChain
  <1>5. NodesOf(Replaced(b, i, s)) = NodesOf(b) \ {n}  BY <1>2, <1>3, <1>4
  <1>. QED  BY <1>2, <1>3, <1>4, <1>5 DEF s, n, Replaced

LEMMA OverwriteEffect ==
  ASSUME NEW c \in Nat \ {0}, NEW b, Array(b, c), NEW k \in Keys, NEW v \in Vals,
         InChain(k, b[Bucket(k, c)])
  PROVE  /\ Array(Overwritten(b, c, k, v), c)
         /\ \E n \in NodesOf(b) :
               /\ n.key = k
               /\ NodesOf(Overwritten(b, c, k, v)) = (NodesOf(b) \ {n}) \cup {Node(k, v)}
  <1>. DEFINE i == Bucket(k, c)
              p == At(k, b[i])
              n == b[i][p]
              s == [b[i] EXCEPT ![p].val = v]
  <1>1. i \in 0 .. c - 1  BY BucketIsIndex
  <1>2. p \in DOMAIN b[i] /\ n.key = k  BY AtIsThere
  <1>3. Placed(b[i], i, c)  BY <1>1 DEF Array
  <1>. HIDE DEF i, p
  <1>4. Placed(s, i, c) /\ ChainNodes(s) = (ChainNodes(b[i]) \ {n}) \cup {Node(k, v)}
    BY <1>2, <1>3, ValueWritten
  <1>5. ChainNodes(b[i]) \subseteq NodesOf(b)  BY <1>1, InArray
  <1>6. n \in ChainNodes(b[i])  BY <1>2 DEF ChainNodes
  <1>7. Functional(NodesOf(b))  BY ArrayIsFunctional
  <1>. HIDE DEF n, s
  <1>8. /\ Array(Replaced(b, i, s), c)
        /\ NodesOf(Replaced(b, i, s))
              = (NodesOf(b) \ ChainNodes(b[i])) \cup ChainNodes(s)
    BY <1>1, <1>4, ReplaceChain
  <1>9. NodesOf(Replaced(b, i, s)) = (NodesOf(b) \ {n}) \cup {Node(k, v)}
    BY <1>4, <1>5, <1>6, <1>8
  <1>. QED  BY <1>2, <1>5, <1>6, <1>8, <1>9 DEF i, p, s, Replaced, Overwritten

LEMMA NewArrayIsEmpty ==
  ASSUME NEW c \in Nat
  PROVE  Array(NewArray(c), c) /\ NodesOf(NewArray(c)) = {}
  <1>1. Array(NewArray(c), c)  BY DEF Array, NewArray, Placed
  <1>2. \A i \in 0 .. c - 1 : ChainNodes(NewArray(c)[i]) = {}  BY DEF NewArray, ChainNodes
  <1>. QED  BY <1>1, <1>2, InArray

-----------------------------------------------------------------------------
\* The partial function a set of nodes stands for.
DictOf(N) == [k \in {n.key : n \in N} |-> (CHOOSE n \in N : n.key = k).val]

\* A dictionary read, added to, reduced and overwritten, node by node.
LEMMA DictReads ==
  ASSUME NEW N, Functional(N), NEW n \in N
  PROVE  n.key \in DOMAIN DictOf(N) /\ DictOf(N)[n.key] = n.val
  <1>1. (CHOOSE m \in N : m.key = n.key) = n  BY DEF Functional
  <1>. QED  BY <1>1 DEF DictOf

LEMMA DictAdds ==
  ASSUME NEW N, Functional(N), NEW k \in Keys, NEW v \in Vals, \A n \in N : n.key # k
  PROVE  DictOf(N \cup {Node(k, v)}) = Dictionary!Add(DictOf(N), k, v)
  <1>. DEFINE m == Node(k, v)
              M == N \cup {m}
  <1>1. m.key = k /\ m.val = v  BY DEF Node
  <1>. HIDE DEF m
  <1>2. Functional(M)  BY <1>1 DEF Functional
  <1>3. DOMAIN DictOf(N) = {n.key : n \in N} /\ DOMAIN DictOf(M) = {n.key : n \in M}
    BY DEF DictOf
  <1>4. DOMAIN DictOf(M) = DOMAIN DictOf(N) \cup {k}  BY <1>1, <1>3
  <1>5. DictOf(M)[k] = v
    <2>1. m \in M  OBVIOUS
    <2>2. DictOf(M)[m.key] = m.val  BY <2>1, <1>2, DictReads
    <2>. QED  BY <2>2, <1>1
  <1>6. ASSUME NEW x \in DOMAIN DictOf(N) PROVE x # k /\ DictOf(M)[x] = DictOf(N)[x]
    <2>1. PICK n \in N : n.key = x  BY <1>3
    <2>2. n \in M  OBVIOUS
    <2>3. DictOf(M)[n.key] = n.val  BY <1>2, <2>2, DictReads
    <2>4. DictOf(N)[n.key] = n.val  BY <2>1, DictReads
    <2>. QED  BY <2>1, <2>3, <2>4
  <1>7. DictOf(M) = [x \in DOMAIN DictOf(M) |-> DictOf(M)[x]]  BY DEF DictOf
  <1>. HIDE DEF M
  <1>8. Dictionary!Add(DictOf(N), k, v)
          = [x \in DOMAIN DictOf(N) \cup {k} |-> IF x = k THEN v ELSE DictOf(N)[x]]
    BY DEF Dictionary!Add
  <1>. QED  BY <1>4, <1>5, <1>6, <1>7, <1>8 DEF M, m

LEMMA DictDrops ==
  ASSUME NEW N, Functional(N), NEW n \in N
  PROVE  DictOf(N \ {n}) = Dictionary!Drop(DictOf(N), {n.key})
  <1>. DEFINE M == N \ {n}
  <1>1. Functional(M)  BY DEF Functional
  <1>2. DOMAIN DictOf(N) = {m.key : m \in N} /\ DOMAIN DictOf(M) = {m.key : m \in M}
    BY DEF DictOf
  <1>3. DOMAIN DictOf(M) = DOMAIN DictOf(N) \ {n.key}  BY <1>2 DEF Functional
  <1>4. ASSUME NEW x \in DOMAIN DictOf(M) PROVE DictOf(M)[x] = DictOf(N)[x]
    <2>1. PICK m \in M : m.key = x  BY <1>2
    <2>2. DictOf(M)[m.key] = m.val  BY <1>1, DictReads
    <2>3. m \in N  OBVIOUS
    <2>4. DictOf(N)[m.key] = m.val  BY <2>3, DictReads
    <2>. QED  BY <2>1, <2>2, <2>4
  <1>5. DictOf(M) = [x \in DOMAIN DictOf(M) |-> DictOf(M)[x]]  BY DEF DictOf
  <1>. HIDE DEF M
  <1>6. Dictionary!Drop(DictOf(N), {n.key})
          = [x \in DOMAIN DictOf(N) \ {n.key} |-> DictOf(N)[x]]
    BY DEF Dictionary!Drop
  <1>. QED  BY <1>3, <1>4, <1>5, <1>6 DEF M

LEMMA DictOverwrites ==
  ASSUME NEW N, Functional(N), NEW n \in N, n.key \in Keys, NEW v \in Vals
  PROVE  DictOf((N \ {n}) \cup {Node(n.key, v)}) = Dictionary!Add(DictOf(N), n.key, v)
  <1>. DEFINE M == N \ {n}
              k == n.key
  <1>1. Functional(M) /\ \A m \in M : m.key # k  BY DEF Functional
  <1>2. DictOf(M) = Dictionary!Drop(DictOf(N), {k})  BY DictDrops
  <1>. HIDE DEF M, k
  <1>3. DictOf(M \cup {Node(k, v)}) = Dictionary!Add(DictOf(M), k, v)
    BY <1>1, DictAdds DEF k
  <1>4. k \in DOMAIN DictOf(N)  BY DictReads DEF k
  <1>. DEFINE d == DictOf(N)
  <1>5. Dictionary!Drop(d, {k}) = [x \in DOMAIN d \ {k} |-> d[x]]  BY DEF Dictionary!Drop
  <1>. HIDE DEF d
  <1>6. Dictionary!Add(Dictionary!Drop(d, {k}), k, v)
          = [x \in (DOMAIN d \ {k}) \cup {k} |-> IF x = k THEN v ELSE d[x]]
    BY <1>5 DEF Dictionary!Add
  <1>7. Dictionary!Add(d, k, v) = [x \in DOMAIN d \cup {k} |-> IF x = k THEN v ELSE d[x]]
    BY DEF Dictionary!Add
  <1>8. (DOMAIN d \ {k}) \cup {k} = DOMAIN d \cup {k}  OBVIOUS
  <1>. QED  BY <1>2, <1>3, <1>6, <1>7, <1>8 DEF d, M, k

-----------------------------------------------------------------------------
\* The map between operations.
LEMMA NodesAreFunctional ==
  ASSUME MapInv
  PROVE  /\ Functional(Nodes) /\ Nodes \subseteq NodeSet
         /\ capacity \in Nat \ {0} /\ cap \in Nat /\ Contents = DictOf(Nodes)
  <1>1. capacity \in Nat \ {0} /\ cap \in Nat  BY PowersArePositive DEF MapInv
  <1>2. /\ Functional(NodesOf(buckets)) /\ NodesOf(buckets) \subseteq NodeSet
        /\ Functional(NodesOf(newBuckets)) /\ NodesOf(newBuckets) \subseteq NodeSet
    BY <1>1, ArrayIsFunctional, InArray DEF MapInv
  <1>3. Apart(NodesOf(buckets), NodesOf(newBuckets))  BY DEF MapInv
  <1>4. Functional(Nodes)  BY <1>2, <1>3 DEF Functional, Apart, Nodes
  <1>. QED  BY <1>1, <1>2, <1>4 DEF Nodes, Contents, DictOf

LEMMA AtRest ==
  ASSUME MapInv, ~ Rehashing
  PROVE  cap = 0 /\ NodesOf(newBuckets) = {} /\ Nodes = NodesOf(buckets)
  <1>1. cap = 0  BY DEF Rehashing
  <1>2. NodesOf(newBuckets) = {}  BY <1>1, InArray DEF MapInv
  <1>. QED  BY <1>1, <1>2 DEF Nodes

LEMMA FoundIsHeld ==
  ASSUME MapInv, ~ Rehashing, NEW k \in Keys
  PROVE  /\ Found(k) <=> \E n \in Nodes : n.key = k
         /\ Found(k) <=> k \in DOMAIN Contents
         /\ Lookup(k) = IF k \in DOMAIN Contents THEN Contents[k] ELSE NoVal
  <1>. DEFINE i == Bucket(k, capacity)
              p == At(k, buckets[i])
              n == buckets[i][p]
  <1>1. capacity \in Nat \ {0} /\ Array(buckets, capacity) /\ Nodes = NodesOf(buckets)
    BY NodesAreFunctional, AtRest DEF MapInv
  <1>2. Found(k) <=> \E m \in Nodes : m.key = k
    BY <1>1, LookupFinds DEF Found, Chain
  <1>3. Found(k) <=> k \in DOMAIN Contents  BY <1>2 DEF Contents
  <1>4. ASSUME Found(k) PROVE Lookup(k) = Contents[k]
    <2>1. p \in DOMAIN buckets[i] /\ n.key = k  BY <1>4, AtIsThere DEF Found, Chain
    <2>2. i \in 0 .. capacity - 1  BY <1>1, BucketIsIndex
    <2>3. n \in ChainNodes(buckets[i])  BY <2>1 DEF ChainNodes
    <2>4. Lookup(k) = n.val  BY <1>4 DEF Lookup, Chain
    <2>. HIDE DEF i, n
    <2>5. n \in Nodes  BY <1>1, <2>2, <2>3, InArray
    <2>6. DictOf(Nodes)[n.key] = n.val  BY <2>5, NodesAreFunctional, DictReads
    <2>. QED  BY <2>1, <2>4, <2>6, NodesAreFunctional
  <1>5. ~ Found(k) => Lookup(k) = NoVal  BY DEF Lookup
  <1>. QED  BY <1>2, <1>3, <1>4, <1>5

\* The array a rehash asks for, or the one there was.
LEMMA RehashStarts ==
  ASSUME MapInv, ~ Rehashing, NEW c \in Int, StartRehash(c)
  PROVE  /\ cap' \in Powers \cup {0} /\ Array(newBuckets', cap') /\ NodesOf(newBuckets') = {}
         /\ oom' = TRUE \/ (oom' = oom /\ cap' \in Powers /\ cap' >= c)
  <1>1. CASE /\ RoundUp(c) \in c .. MaxCapacity /\ cap' = RoundUp(c)
             /\ newBuckets' = NewArray(RoundUp(c)) /\ oom' = oom
    <2>. DEFINE S == {q \in Powers : q >= c}
    <2>1. S \in SUBSET Nat  BY PowersArePositive
    <2>2. MaxCapacity \in Nat /\ MaxCapacity \in Powers
      BY PowersArePositive, CapacityAssumption
    <2>3. MaxCapacity >= c  BY <1>1, <2>2
    <2>4. S # {}  BY <2>2, <2>3
    <2>5. Min(S) \in S  BY <2>1, <2>4, MinIsLeast
    <2>6. RoundUp(c) = Min(S)  BY DEF RoundUp
    <2>7. RoundUp(c) \in Powers  BY <2>5, <2>6
    <2>8. RoundUp(c) \in Nat  BY <2>7, PowersArePositive
    <2>. QED  BY <1>1, <2>7, <2>8, NewArrayIsEmpty
  <1>2. CASE oom' = TRUE /\ UNCHANGED <<newBuckets, cap>>  BY <1>2, AtRest DEF MapInv
  <1>. QED  BY <1>1, <1>2 DEF StartRehash

-----------------------------------------------------------------------------
\* Each operation keeps the map in order and answers as the dictionary does.
DictStep == Dictionary!Next \/ UNCHANGED <<Contents, answer>>

LEMMA AddNodeSteps ==
  ASSUME MapInv, ~ Rehashing, NEW k \in Keys, NEW v \in Vals, ~ Found(k), AddNode(k, v)
  PROVE  MapInv' /\ Contents' = Dictionary!Add(Contents, k, v)
  <1>1. /\ capacity \in Nat \ {0} /\ Array(buckets, capacity)
        /\ Functional(Nodes) /\ Contents = DictOf(Nodes)
        /\ Nodes = NodesOf(buckets) /\ cap = 0 /\ NodesOf(newBuckets) = {}
    BY NodesAreFunctional, AtRest DEF MapInv
  <1>2. \A n \in Nodes : n.key # k  BY FoundIsHeld
  <1>3. /\ Array(buckets', capacity)
        /\ NodesOf(buckets') = Nodes \cup {Node(k, v)}
    BY <1>1, <1>2, PushEffect DEF AddNode
  <1>4. /\ cap' \in Powers \cup {0} /\ Array(newBuckets', cap')
        /\ NodesOf(newBuckets') = {}
    <2>1. CASE StartRehash(2 * capacity)
      <3>1. 2 * capacity \in Int  BY <1>1
      <3>. QED  BY <2>1, <3>1, RehashStarts
    <2>2. CASE NoRehash  BY <2>2, <1>1 DEF NoRehash, MapInv
    <2>. QED  BY <2>1, <2>2 DEF AddNode
  <1>5. Nodes' = Nodes \cup {Node(k, v)}  BY <1>3, <1>4 DEF Nodes
  <1>6. Node(k, v) \notin Nodes  BY <1>2 DEF Node
  <1>7. IsFiniteSet(Nodes') /\ Cardinality(Nodes') = size'
    BY <1>5, <1>6, FS_AddElement DEF MapInv, AddNode
  <1>8. MapInv'  BY <1>3, <1>4, <1>7 DEF MapInv, AddNode, Apart
  <1>9. Contents' = DictOf(Nodes')  BY DEF Contents, DictOf
  <1>. QED  BY <1>1, <1>2, <1>5, <1>8, <1>9, DictAdds

LEMMA InsertSteps ==
  ASSUME MapInv, NEW k \in Keys, NEW v \in Vals, Insert(k, v)
  PROVE  MapInv' /\ Dictionary!Insert(k, v)
  <1>1. ~ Rehashing  BY DEF Insert
  <1>2. Found(k) <=> k \in DOMAIN Contents  BY <1>1, FoundIsHeld
  <1>3. CASE ~ Found(k) /\ AddNode(k, v)
    BY <1>1, <1>2, <1>3, AddNodeSteps DEF Dictionary!Insert, AddNode
  <1>4. CASE Found(k) /\ answer' = "false" /\ UNCHANGED mapVars
    <2>1. MapInv' /\ Contents' = Contents  BY <1>4 DEF mapVars, MapInv, Nodes, Contents
    <2>. QED  BY <2>1, <1>2, <1>4 DEF Dictionary!Insert
  <1>. QED  BY <1>3, <1>4 DEF Insert

LEMMA PutSteps ==
  ASSUME MapInv, NEW k \in Keys, NEW v \in Vals, Put(k, v)
  PROVE  MapInv' /\ Dictionary!Put(k, v)
  <1>1. ~ Rehashing  BY DEF Put
  <1>2. CASE ~ Found(k) /\ AddNode(k, v)
    BY <1>1, <1>2, AddNodeSteps DEF Dictionary!Put, AddNode
  <1>3. CASE /\ Found(k)
             /\ buckets' = [buckets EXCEPT ![Bucket(k, capacity)][At(k, Chain(k))].val = v]
             /\ answer' = "true"
             /\ UNCHANGED <<capacity, size, maxLoad, newBuckets, cap>>
    <2>1. /\ capacity \in Nat \ {0} /\ Array(buckets, capacity)
          /\ Functional(Nodes) /\ Contents = DictOf(Nodes) /\ Nodes \subseteq NodeSet
          /\ Nodes = NodesOf(buckets) /\ cap = 0 /\ NodesOf(newBuckets) = {}
      BY <1>1, NodesAreFunctional, AtRest DEF MapInv
    <2>2. InChain(k, buckets[Bucket(k, capacity)])  BY <1>3 DEF Found, Chain
    <2>. DEFINE d == Overwritten(buckets, capacity, k, v)
    <2>3. buckets' = d  BY <1>3 DEF Chain, Overwritten
    <2>4. /\ Array(d, capacity)
          /\ \E n \in NodesOf(buckets) :
                n.key = k /\ NodesOf(d) = (NodesOf(buckets) \ {n}) \cup {Node(k, v)}
      BY <2>1, <2>2, OverwriteEffect
    <2>. HIDE DEF d
    <2>5. PICK n \in Nodes : n.key = k /\ NodesOf(d) = (Nodes \ {n}) \cup {Node(k, v)}
      BY <2>1, <2>4
    <2>6. Nodes' = (Nodes \ {n}) \cup {Node(k, v)}  BY <1>3, <2>1, <2>3, <2>5 DEF Nodes
    <2>7. Node(k, v) \notin Nodes \ {n}  BY <2>1, <2>5 DEF Functional, Node
    <2>8. /\ IsFiniteSet(Nodes \ {n}) /\ Cardinality(Nodes \ {n}) = size - 1
      BY FS_RemoveElement DEF MapInv
    <2>9. size \in Nat  BY FS_CardinalityType DEF MapInv
    <2>10. IsFiniteSet(Nodes') /\ Cardinality(Nodes') = size'
      <3>. DEFINE T == Nodes \ {n}
      <3>1. IsFiniteSet(T) /\ Cardinality(T) = size - 1 /\ Node(k, v) \notin T
        BY <2>7, <2>8
      <3>. HIDE DEF T
      <3>2. /\ IsFiniteSet(T \cup {Node(k, v)})
            /\ Cardinality(T \cup {Node(k, v)}) = (size - 1) + 1
        BY <3>1, FS_AddElement
      <3>3. (size - 1) + 1 = size  BY <2>9
      <3>. QED  BY <3>2, <3>3, <1>3, <2>6 DEF T
    <2>11. MapInv'  BY <1>3, <2>1, <2>3, <2>4, <2>10 DEF MapInv, Apart
    <2>12. DictOf((Nodes \ {n}) \cup {Node(n.key, v)})
             = Dictionary!Add(DictOf(Nodes), n.key, v)
      BY <2>1, <2>5, DictOverwrites
    <2>13. Contents' = DictOf(Nodes')  BY DEF Contents, DictOf
    <2>. QED  BY <1>3, <2>1, <2>5, <2>6, <2>11, <2>12, <2>13 DEF Dictionary!Put
  <1>. QED  BY <1>2, <1>3 DEF Put

\* What the two ways to erase do to the nodes.
LEMMA UnlinkSteps ==
  ASSUME MapInv, ~ Rehashing, NEW k \in Keys, Found(k), buckets' = Unlink(k),
         size' = size - 1, UNCHANGED <<capacity, maxLoad, newBuckets, cap>>
  PROVE  /\ MapInv' /\ Contents' = Dictionary!Drop(Contents, {k})
         /\ k \in DOMAIN Contents
  <1>1. /\ capacity \in Nat \ {0} /\ Array(buckets, capacity)
        /\ Functional(Nodes) /\ Contents = DictOf(Nodes)
        /\ Nodes = NodesOf(buckets) /\ cap = 0 /\ NodesOf(newBuckets) = {}
    BY NodesAreFunctional, AtRest DEF MapInv
  <1>2. InChain(k, buckets[Bucket(k, capacity)])  BY DEF Found, Chain
  <1>. DEFINE d == Unlinked(buckets, capacity, k)
  <1>3. buckets' = d  BY DEF Unlink, Unlinked
  <1>4. /\ Array(d, capacity)
        /\ \E n \in NodesOf(buckets) : n.key = k /\ NodesOf(d) = NodesOf(buckets) \ {n}
    BY <1>1, <1>2, UnlinkEffect
  <1>. HIDE DEF d
  <1>5. PICK n \in Nodes : n.key = k /\ NodesOf(d) = Nodes \ {n}  BY <1>1, <1>4
  <1>6. Nodes' = Nodes \ {n}  BY <1>1, <1>3, <1>5 DEF Nodes
  <1>7. IsFiniteSet(Nodes') /\ Cardinality(Nodes') = size'
    BY <1>6, FS_RemoveElement DEF MapInv
  <1>8. MapInv'  BY <1>1, <1>3, <1>4, <1>7 DEF MapInv, Apart
  <1>9. Contents' = DictOf(Nodes')  BY DEF Contents, DictOf
  <1>. QED  BY <1>1, <1>5, <1>6, <1>8, <1>9, DictDrops, DictReads

LEMMA EraseSteps ==
  ASSUME MapInv, NEW k \in Keys, Erase(k)
  PROVE  MapInv' /\ Dictionary!Erase(k)
  <1>1. ~ Rehashing  BY DEF Erase
  <1>2. Found(k) <=> k \in DOMAIN Contents  BY <1>1, FoundIsHeld
  <1>3. CASE Found(k) /\ buckets' = Unlink(k) /\ size' = size - 1 /\ answer' = "true"
    BY <1>1, <1>2, <1>3, UnlinkSteps DEF Erase, Dictionary!Erase
  <1>4. CASE ~ Found(k) /\ answer' = "false" /\ UNCHANGED <<buckets, size>>
    <2>1. MapInv' /\ Contents' = Contents  BY <1>4 DEF Erase, MapInv, Nodes, Contents
    <2>2. Contents = [x \in DOMAIN Contents |-> Contents[x]]  BY DEF Contents
    <2>3. DOMAIN Contents \ {k} = DOMAIN Contents  BY <1>2, <1>4
    <2>4. Dictionary!Drop(Contents, {k}) = Contents  BY <2>2, <2>3 DEF Dictionary!Drop
    <2>. QED  BY <1>2, <1>4, <2>1, <2>4 DEF Dictionary!Erase
  <1>. QED  BY <1>3, <1>4 DEF Erase

LEMMA ClearSteps ==
  ASSUME MapInv, Clear
  PROVE  MapInv' /\ Dictionary!Clear
  <1>1. /\ cap' = 0 /\ NodesOf(newBuckets') = {} /\ capacity \in Nat
    BY NodesAreFunctional, AtRest DEF Clear
  <1>2. Array(buckets', capacity) /\ NodesOf(buckets') = {}
    BY <1>1, NewArrayIsEmpty DEF Clear
  <1>3. Nodes' = {}  BY <1>1, <1>2 DEF Nodes
  <1>4. IsFiniteSet(Nodes') /\ Cardinality(Nodes') = size'
    BY <1>3, FS_EmptySet DEF Clear
  <1>5. MapInv'  BY <1>1, <1>2, <1>4 DEF MapInv, Clear, Apart
  <1>6. Contents' = [x \in {} |-> Contents[x]]  BY <1>3 DEF Contents
  <1>7. Dictionary!Drop(Contents, DOMAIN Contents) = [x \in {} |-> Contents[x]]
    <2>1. DOMAIN Contents \ DOMAIN Contents = {}  OBVIOUS
    <2>. QED  BY <2>1 DEF Dictionary!Drop
  <1>. QED  BY <1>5, <1>6, <1>7 DEF Dictionary!Clear, Clear

\* Rehash and Reserve: an array is asked for, nothing has moved yet.
LEMMA GrowthSteps ==
  ASSUME MapInv, ~ Rehashing, UNCHANGED <<buckets, capacity, size, answer>>,
         maxLoad' \in MaxLoads,
         cap' \in Powers \cup {0} /\ Array(newBuckets', cap') /\ NodesOf(newBuckets') = {}
  PROVE  MapInv' /\ UNCHANGED <<Contents, answer>>
  <1>1. Nodes' = Nodes  BY AtRest DEF Nodes
  <1>2. Contents' = Contents  BY <1>1 DEF Contents
  <1>. QED  BY <1>1, <1>2 DEF MapInv, Apart

LEMMA MoveNodeSteps ==
  ASSUME MapInv, MoveNode
  PROVE  MapInv' /\ UNCHANGED <<Contents, answer>>
  <1>. DEFINE S == {b \in DOMAIN buckets : buckets[b] # <<>>}
              i == Min(S)
              n == Head(buckets[i])
  <1>1. /\ capacity \in Nat \ {0} /\ Array(buckets, capacity) /\ Array(newBuckets, cap)
        /\ Functional(Nodes) /\ Contents = DictOf(Nodes) /\ Nodes \subseteq NodeSet
        /\ cap \in Nat \ {0}
    BY NodesAreFunctional DEF MapInv, MoveNode, Rehashing
  <1>2. DOMAIN buckets = 0 .. capacity - 1  BY <1>1, InArray
  <1>3. S \in SUBSET Nat  BY <1>1, <1>2
  <1>4. S # {}
    <2>1. PICK m : m \in NodesOf(buckets)  BY DEF MoveNode
    <2>2. PICK j \in 0 .. capacity - 1 : m \in ChainNodes(buckets[j])
      BY <1>1, <2>1, InArray
    <2>3. buckets[j] # <<>>  BY <2>2 DEF ChainNodes
    <2>. QED  BY <1>2, <2>3
  <1>5. i \in S  BY <1>3, <1>4, MinIsLeast
  <1>6. i \in 0 .. capacity - 1 /\ buckets[i] # <<>>  BY <1>2, <1>5
  <1>7. /\ buckets' = [buckets EXCEPT ![i] = Tail(buckets[i])]
        /\ newBuckets' = PushHead(newBuckets, cap, n.key, n.val)
        /\ UNCHANGED <<capacity, size, maxLoad, cap, answer>>
    BY DEF MoveNode
  <1>. HIDE DEF i, S
  <1>8. /\ Array(buckets', capacity) /\ n \in NodesOf(buckets)
        /\ NodesOf(buckets') = NodesOf(buckets) \ {n}
    BY <1>1, <1>6, <1>7, TailEffect
  <1>. HIDE DEF n
  <1>9. n \in NodeSet /\ Node(n.key, n.val) = n  BY <1>1, <1>8 DEF Nodes, Node, NodeSet
  <1>10. n.key \in Keys /\ n.val \in Vals  BY <1>9 DEF NodeSet
  <1>11. \A m \in NodesOf(newBuckets) : m.key # n.key  BY <1>8 DEF MapInv, Apart
  <1>12. Array(newBuckets', cap) /\ NodesOf(newBuckets') = NodesOf(newBuckets) \cup {n}
    BY <1>1, <1>7, <1>9, <1>10, <1>11, PushEffect
  <1>13. Nodes' = Nodes  BY <1>8, <1>12 DEF Nodes
  <1>14. Apart(NodesOf(buckets'), NodesOf(newBuckets'))
    <2>1. \A m \in NodesOf(buckets) : m # n => m.key # n.key
      BY <1>1, <1>8 DEF Functional, Nodes
    <2>. QED  BY <2>1, <1>8, <1>12 DEF MapInv, Apart
  <1>15. MapInv'  BY <1>7, <1>8, <1>12, <1>13, <1>14 DEF MapInv
  <1>. QED  BY <1>7, <1>13, <1>15 DEF Contents

LEMMA SwapArraysSteps ==
  ASSUME MapInv, SwapArrays
  PROVE  MapInv' /\ UNCHANGED <<Contents, answer>>
  <1>1. /\ buckets' = newBuckets /\ capacity' = cap /\ newBuckets' = NewArray(0) /\ cap' = 0
        /\ NodesOf(buckets) = {} /\ UNCHANGED <<size, maxLoad, answer>> /\ cap # 0
    BY DEF SwapArrays, Rehashing
  <1>2. Array(newBuckets', 0) /\ NodesOf(newBuckets') = {}  BY <1>1, NewArrayIsEmpty
  <1>3. Nodes' = Nodes  BY <1>1, <1>2 DEF Nodes
  <1>4. capacity' \in Powers /\ Array(buckets', capacity')  BY <1>1 DEF MapInv
  <1>5. MapInv'  BY <1>1, <1>2, <1>3, <1>4 DEF MapInv, Apart
  <1>. QED  BY <1>1, <1>3, <1>5 DEF Contents

\* The operations that change nothing a caller sees, and the iterators.
LEMMA GrowthAskedSteps ==
  ASSUME MapInv,
         \/ \E c \in 0 .. MaxCapacity : Rehash(c)
         \/ \E n \in 0 .. Cardinality(Keys) : Reserve(n)
         \/ \E m \in MaxLoads : SetMaxLoadFactor(m)
  PROVE  MapInv' /\ UNCHANGED <<Contents, answer>>
  <1>1. ASSUME NEW c \in 0 .. MaxCapacity, Rehash(c)
        PROVE  MapInv' /\ UNCHANGED <<Contents, answer>>
    <2>1. c \in Int  OBVIOUS
    <2>2. /\ cap' \in Powers \cup {0} /\ Array(newBuckets', cap') /\ NodesOf(newBuckets') = {}
      BY <1>1, <2>1, RehashStarts DEF Rehash
    <2>3. maxLoad' \in MaxLoads  BY <1>1 DEF Rehash, MapInv
    <2>. QED  BY <1>1, <2>2, <2>3, GrowthSteps DEF Rehash
  <1>2. ASSUME NEW n \in 0 .. Cardinality(Keys), Reserve(n)
        PROVE  MapInv' /\ UNCHANGED <<Contents, answer>>
    <2>1. maxLoad \in Nat \ {0}  BY LoadAssumption DEF MapInv
    <2>2. n \in Int  OBVIOUS
    <2>3. Needed(n) \in Int  BY <2>1, <2>2 DEF Needed
    <2>4. /\ cap' \in Powers \cup {0} /\ Array(newBuckets', cap') /\ NodesOf(newBuckets') = {}
      <3>1. CASE StartRehash(Needed(n))  BY <1>2, <3>1, <2>3, RehashStarts DEF Reserve
      <3>2. CASE NoRehash  BY <1>2, <3>2, AtRest DEF Reserve, NoRehash, MapInv
      <3>. QED  BY <1>2, <3>1, <3>2 DEF Reserve
    <2>5. maxLoad' \in MaxLoads  BY <1>2 DEF Reserve, MapInv
    <2>. QED  BY <1>2, <2>4, <2>5, GrowthSteps DEF Reserve
  <1>3. ASSUME NEW m \in MaxLoads, SetMaxLoadFactor(m)
        PROVE  MapInv' /\ UNCHANGED <<Contents, answer>>
    <2>1. /\ cap' \in Powers \cup {0} /\ Array(newBuckets', cap') /\ NodesOf(newBuckets') = {}
      BY <1>3, AtRest DEF SetMaxLoadFactor, MapInv
    <2>. QED  BY <1>3, <2>1, GrowthSteps DEF SetMaxLoadFactor
  <1>. QED  BY <1>1, <1>2, <1>3

LEMMA MapUnchanged ==
  ASSUME MapInv, UNCHANGED mapVars
  PROVE  MapInv' /\ Contents' = Contents
  BY DEF mapVars, MapInv, Nodes, Contents

\* The empty map.
LEMMA MapInit == Init => MapInv /\ Dictionary!Init
  <1>. SUFFICES ASSUME Init PROVE MapInv /\ Dictionary!Init  OBVIOUS
  <1>1. InitialCapacity \in Nat  BY CapacityAssumption, PowersArePositive
  <1>2. /\ Array(buckets, capacity) /\ NodesOf(buckets) = {}
        /\ Array(newBuckets, cap) /\ NodesOf(newBuckets) = {}
    BY <1>1, NewArrayIsEmpty DEF Init
  <1>3. Nodes = {}  BY <1>2 DEF Nodes
  <1>4. IsFiniteSet(Nodes) /\ Cardinality(Nodes) = size  BY <1>3, FS_EmptySet DEF Init
  <1>5. MapInv  BY <1>2, <1>4, CapacityAssumption DEF MapInv, Init, Apart
  <1>6. Contents = [k \in {} |-> NoVal]  BY <1>3 DEF Contents
  <1>. QED  BY <1>5, <1>6 DEF Dictionary!Init, Init

-----------------------------------------------------------------------------
\* The order in which an iterator walks the nodes: by bucket, then by chain.
Earlier(i, j, m, l) == i < m \/ (i = m /\ j < l)
Ahead(b, x, y) ==
  \E i, m \in DOMAIN b : \E j \in DOMAIN b[i], l \in DOMAIN b[m] :
     b[i][j].key = x /\ b[m][l].key = y /\ Earlier(i, j, m, l)
Stands(b, i, x) == i \in DOMAIN b /\ \E j \in DOMAIN b[i] : b[i][j].key = x

\* What d keeps of the order of b, but for the key k.
Keeps(b, d, k) ==
  /\ \A x, y : x # k /\ y # k /\ Ahead(b, x, y) => Ahead(d, x, y)
  /\ \A i, x : x # k /\ Stands(b, i, x) => Stands(d, i, x)

IterType == [mode : {"none", "live", "stale"}, bucket : Int, node : Keys \cup {NoKey}]
\* A live iterator stands on a node; what it owes is there or ahead of it, what
\* it has yielded is behind it.
IterInv ==
  /\ iter \in IterType /\ due \subseteq Keys /\ seen \subseteq Keys
  /\ iter.mode = "live" =>
       /\ ~ Rehashing
       /\ iter.node # NoKey => Stands(buckets, iter.bucket, iter.node)
       /\ \A x \in due : iter.node # NoKey
                         /\ (x = iter.node \/ Ahead(buckets, iter.node, x))
       /\ \A x \in seen : iter.node # NoKey => Ahead(buckets, x, iter.node)

LEMMA Places ==
  ASSUME NEW c \in Nat, NEW b, Array(b, c)
  PROVE  /\ DOMAIN b = 0 .. c - 1
         /\ \A i \in DOMAIN b : /\ b[i] \in Seq(NodeSet) /\ DOMAIN b[i] = 1 .. Len(b[i])
                                /\ Len(b[i]) \in Nat
         /\ \A i \in DOMAIN b : \A j \in DOMAIN b[i] : b[i][j].key \in Keys
         /\ \A i, m \in DOMAIN b : \A j \in DOMAIN b[i], l \in DOMAIN b[m] :
               b[i][j].key = b[m][l].key => i = m /\ j = l
  <1>1. DOMAIN b = 0 .. c - 1  BY InArray
  <1>2. \A i \in DOMAIN b : /\ b[i] \in Seq(NodeSet) /\ DOMAIN b[i] = 1 .. Len(b[i])
                            /\ Len(b[i]) \in Nat
    BY <1>1 DEF Array
  <1>3. \A i \in DOMAIN b : \A j \in DOMAIN b[i] : b[i][j] \in NodeSet  BY <1>2
  <1>4. \A i \in DOMAIN b : \A j \in DOMAIN b[i] : b[i][j].key \in Keys  BY <1>3 DEF NodeSet
  <1>5. \A i \in DOMAIN b : Placed(b[i], i, c)  BY <1>1 DEF Array
  <1>6. \A i, m \in DOMAIN b : \A j \in DOMAIN b[i], l \in DOMAIN b[m] :
           b[i][j].key = b[m][l].key => i = m /\ j = l
    <2>. SUFFICES ASSUME NEW i \in DOMAIN b, NEW m \in DOMAIN b,
                         NEW j \in DOMAIN b[i], NEW l \in DOMAIN b[m],
                         b[i][j].key = b[m][l].key
                  PROVE  i = m /\ j = l  OBVIOUS
    <2>1. i = m
      <3>1. Bucket(b[i][j].key, c) = i /\ Bucket(b[m][l].key, c) = m  BY <1>5 DEF Placed
      <3>. QED  BY <3>1
    <2>. QED  BY <2>1, <1>5 DEF Placed
  <1>. QED  BY <1>1, <1>2, <1>4, <1>6

LEMMA OrderMoves ==
  ASSUME NEW b, NEW d, NEW k, NEW to, DOMAIN d = DOMAIN b,
         \A i \in DOMAIN b : \A j \in DOMAIN b[i] : b[i][j].key # k =>
            to[i][j] \in DOMAIN d[i] /\ d[i][to[i][j]].key = b[i][j].key,
         \A i \in DOMAIN b : \A j, l \in DOMAIN b[i] :
            b[i][j].key # k /\ b[i][l].key # k /\ j < l => to[i][j] < to[i][l]
  PROVE  Keeps(b, d, k)
  <1>1. ASSUME NEW x, NEW y, x # k, y # k, Ahead(b, x, y) PROVE Ahead(d, x, y)
    <2>0. PICK i \in DOMAIN b, m \in DOMAIN b :
             \E j \in DOMAIN b[i], l \in DOMAIN b[m] :
                b[i][j].key = x /\ b[m][l].key = y /\ Earlier(i, j, m, l)
      BY <1>1 DEF Ahead
    <2>1. PICK j \in DOMAIN b[i], l \in DOMAIN b[m] :
             b[i][j].key = x /\ b[m][l].key = y /\ Earlier(i, j, m, l)
      BY <2>0
    <2>2. /\ to[i][j] \in DOMAIN d[i] /\ d[i][to[i][j]].key = x
          /\ to[m][l] \in DOMAIN d[m] /\ d[m][to[m][l]].key = y
      BY <1>1, <2>1
    <2>3. Earlier(i, to[i][j], m, to[m][l])  BY <1>1, <2>1 DEF Earlier
    <2>. QED  BY <2>2, <2>3 DEF Ahead
  <1>2. ASSUME NEW i, NEW x, x # k, Stands(b, i, x) PROVE Stands(d, i, x)
    <2>1. PICK j \in DOMAIN b[i] : i \in DOMAIN b /\ b[i][j].key = x  BY <1>2 DEF Stands
    <2>. QED  BY <1>2, <2>1 DEF Stands
  <1>. QED  BY <1>1, <1>2 DEF Keeps

LEMMA PushKeeps ==
  ASSUME NEW c \in Nat \ {0}, NEW b, Array(b, c), NEW k \in Keys, NEW v \in Vals, NEW q
  PROVE  Keeps(b, PushHead(b, c, k, v), q)
  <1>. DEFINE h == Bucket(k, c)
              s == <<Node(k, v)>> \o b[h]
              d == PushHead(b, c, k, v)
              to == [i \in DOMAIN b |-> [j \in DOMAIN b[i] |-> IF i = h THEN j + 1 ELSE j]]
  <1>1. /\ DOMAIN b = 0 .. c - 1 /\ h \in DOMAIN b
        /\ \A i \in DOMAIN b : /\ b[i] \in Seq(NodeSet) /\ DOMAIN b[i] = 1 .. Len(b[i])
                               /\ Len(b[i]) \in Nat
    BY Places, BucketIsIndex
  <1>2. d = [b EXCEPT ![h] = s]  BY DEF PushHead
  <1>3. Node(k, v) \in NodeSet  BY DEF Node, NodeSet
  <1>. HIDE DEF h
  <1>4. /\ s \in Seq(NodeSet) /\ Len(s) = Len(b[h]) + 1
        /\ \A j \in 1 .. Len(b[h]) : s[j + 1] = b[h][j]
    BY <1>1, <1>3, HeadOn
  <1>. HIDE DEF s, d
  <1>5. DOMAIN d = DOMAIN b /\ d[h] = s /\ \A i \in DOMAIN b : i # h => d[i] = b[i]
    BY <1>1, <1>2 DEF Array
  <1>6. DOMAIN s = 1 .. Len(b[h]) + 1  BY <1>1, <1>4
  <1>7. ASSUME NEW i \in DOMAIN b, NEW j \in DOMAIN b[i]
        PROVE  to[i][j] \in DOMAIN d[i] /\ d[i][to[i][j]].key = b[i][j].key
    <2>1. CASE i = h
      <3>1. j \in 1 .. Len(b[h]) /\ j + 1 \in 1 .. Len(b[h]) + 1  BY <1>1, <2>1
      <3>2. to[i][j] = j + 1  BY <2>1
      <3>. QED  BY <2>1, <3>1, <3>2, <1>4, <1>5, <1>6
    <2>2. CASE i # h  BY <2>2, <1>5
    <2>. QED  BY <2>1, <2>2
  <1>8. ASSUME NEW i \in DOMAIN b, NEW j \in DOMAIN b[i], NEW l \in DOMAIN b[i], j < l
        PROVE  to[i][j] < to[i][l]
    <2>1. j \in Int /\ l \in Int  BY <1>1
    <2>. QED  BY <1>8, <2>1
  <1>. HIDE DEF to
  <1>9. Keeps(b, d, q)  BY <1>5, <1>7, <1>8, OrderMoves
  <1>. QED  BY <1>9 DEF d

\* Where the nodes of a chain go when one of them is unlinked.
LEMMA UnlinkMoves ==
  ASSUME NEW c \in Nat \ {0}, NEW b, Array(b, c), NEW k \in Keys,
         NEW h \in DOMAIN b, NEW p \in DOMAIN b[h], b[h][p].key = k
  PROVE  LET d == Unlinked(b, c, k) IN
         /\ DOMAIN d = DOMAIN b
         /\ \A i \in DOMAIN b : i # h => d[i] = b[i]
         /\ \A j \in DOMAIN b[h] : /\ j < p => j \in DOMAIN d[h] /\ d[h][j] = b[h][j]
                                   /\ j > p => j - 1 \in DOMAIN d[h] /\ d[h][j - 1] = b[h][j]
  <1>. DEFINE d == Unlinked(b, c, k)
              s == RemoveAt(b[h], p)
  <1>1. /\ DOMAIN b = 0 .. c - 1 /\ b[h] \in Seq(NodeSet) /\ DOMAIN b[h] = 1 .. Len(b[h])
        /\ Len(b[h]) \in Nat
    BY Places
  <1>2. Bucket(k, c) = h  BY <1>1 DEF Array, Placed
  <1>3. InChain(k, b[h])  BY DEF InChain
  <1>4. At(k, b[h]) = p
    <2>1. At(k, b[h]) \in DOMAIN b[h] /\ b[h][At(k, b[h])].key = k  BY <1>3, AtIsThere
    <2>. QED  BY <2>1, Places
  <1>5. d = [b EXCEPT ![h] = s]  BY <1>2, <1>4 DEF Unlinked
  <1>6. /\ s \in Seq(NodeSet) /\ Len(s) = Len(b[h]) - 1
        /\ \A j \in 1 .. Len(b[h]) - 1 : s[j] = IF j < p THEN b[h][j] ELSE b[h][j + 1]
    BY <1>1, OneRemoved
  <1>. HIDE DEF d, s
  <1>7. DOMAIN d = DOMAIN b /\ d[h] = s /\ \A i \in DOMAIN b : i # h => d[i] = b[i]
    BY <1>5 DEF Array
  <1>8. DOMAIN s = 1 .. Len(b[h]) - 1  BY <1>1, <1>6
  <1>9. ASSUME NEW j \in DOMAIN b[h]
        PROVE  /\ j < p => j \in DOMAIN s /\ s[j] = b[h][j]
               /\ j > p => j - 1 \in DOMAIN s /\ s[j - 1] = b[h][j]
    <2>1. j \in Int /\ p \in Int /\ j >= 1 /\ p >= 1 /\ j <= Len(b[h]) /\ p <= Len(b[h])
      BY <1>1
    <2>2. j < p => j \in 1 .. Len(b[h]) - 1  BY <1>1, <2>1
    <2>3. j > p => j - 1 \in 1 .. Len(b[h]) - 1 /\ ~ (j - 1 < p) /\ (j - 1) + 1 = j
      BY <1>1, <2>1
    <2>. QED  BY <2>2, <2>3, <1>6, <1>8
  <1>. QED  BY <1>7, <1>9 DEF d

LEMMA UnlinkKeeps ==
  ASSUME NEW c \in Nat \ {0}, NEW b, Array(b, c), NEW k \in Keys,
         InChain(k, b[Bucket(k, c)])
  PROVE  Keeps(b, Unlinked(b, c, k), k)
  <1>. DEFINE h == Bucket(k, c)
              p == At(k, b[h])
              d == Unlinked(b, c, k)
              to == [i \in DOMAIN b |->
                       [j \in DOMAIN b[i] |-> IF i = h /\ j > p THEN j - 1 ELSE j]]
  <1>1. h \in DOMAIN b /\ p \in DOMAIN b[h] /\ b[h][p].key = k
    BY Places, BucketIsIndex, AtIsThere
  <1>. HIDE DEF h, p
  <1>2. /\ DOMAIN d = DOMAIN b
        /\ \A i \in DOMAIN b : i # h => d[i] = b[i]
        /\ \A j \in DOMAIN b[h] : /\ j < p => j \in DOMAIN d[h] /\ d[h][j] = b[h][j]
                                  /\ j > p => j - 1 \in DOMAIN d[h] /\ d[h][j - 1] = b[h][j]
    BY <1>1, UnlinkMoves
  <1>. HIDE DEF d
  <1>3. \A i \in DOMAIN b : \A j \in DOMAIN b[i] : j \in Int  BY Places
  <1>4. p \in Int  BY <1>1, <1>3
  <1>5. ASSUME NEW i \in DOMAIN b, NEW j \in DOMAIN b[i], b[i][j].key # k
        PROVE  to[i][j] \in DOMAIN d[i] /\ d[i][to[i][j]].key = b[i][j].key
    <2>1. CASE i # h  BY <2>1, <1>2
    <2>2. CASE i = h
      <3>1. j # p /\ j \in Int  BY <2>2, <1>1, <1>3, <1>5
      <3>2. j < p \/ j > p  BY <3>1, <1>4
      <3>3. CASE j < p  BY <2>2, <3>3, <3>1, <1>2, <1>4
      <3>4. CASE j > p  BY <2>2, <3>4, <1>2
      <3>. QED  BY <3>2, <3>3, <3>4
    <2>. QED  BY <2>1, <2>2
  <1>6. ASSUME NEW i \in DOMAIN b, NEW j \in DOMAIN b[i], NEW l \in DOMAIN b[i],
               b[i][j].key # k, b[i][l].key # k, j < l
        PROVE  to[i][j] < to[i][l]
    <2>1. j \in Int /\ l \in Int  BY <1>3
    <2>2. i = h => j # p  BY <1>1, <1>6
    <2>. QED  BY <1>4, <1>6, <2>1, <2>2
  <1>. HIDE DEF to
  <1>7. Keeps(b, d, k)  BY <1>2, <1>5, <1>6, OrderMoves
  <1>. QED  BY <1>7 DEF d

LEMMA OverwriteKeeps ==
  ASSUME NEW c \in Nat \ {0}, NEW b, Array(b, c), NEW k \in Keys, NEW v \in Vals,
         InChain(k, b[Bucket(k, c)]), NEW q
  PROVE  Keeps(b, Overwritten(b, c, k, v), q)
  <1>. DEFINE h == Bucket(k, c)
              p == At(k, b[h])
              s == [b[h] EXCEPT ![p].val = v]
              d == Overwritten(b, c, k, v)
              to == [i \in DOMAIN b |-> [j \in DOMAIN b[i] |-> j]]
  <1>1. h \in DOMAIN b /\ p \in DOMAIN b[h] /\ b[h] \in Seq(NodeSet)
    BY Places, BucketIsIndex, AtIsThere
  <1>2. d = [b EXCEPT ![h] = s]  BY DEF Overwritten
  <1>3. b[h][p] \in NodeSet  BY <1>1
  <1>. HIDE DEF h, p
  <1>4. /\ DOMAIN s = DOMAIN b[h]
        /\ \A j \in DOMAIN s : s[j].key = b[h][j].key
    BY <1>1, <1>3 DEF NodeSet
  <1>. HIDE DEF s, d
  <1>5. DOMAIN d = DOMAIN b /\ d[h] = s /\ \A i \in DOMAIN b : i # h => d[i] = b[i]
    BY <1>1, <1>2 DEF Array
  <1>6. \A i \in DOMAIN b : \A j \in DOMAIN b[i] :
          to[i][j] \in DOMAIN d[i] /\ d[i][to[i][j]].key = b[i][j].key
    BY <1>4, <1>5
  <1>7. \A i \in DOMAIN b : \A j, l \in DOMAIN b[i] : j < l => to[i][j] < to[i][l]
    OBVIOUS
  <1>. HIDE DEF to
  <1>8. Keeps(b, d, q)  BY <1>5, <1>6, <1>7, OrderMoves
  <1>. QED  BY <1>8 DEF d

\* The next chain that is not empty.
LEMMA HeadAfter ==
  ASSUME NEW c \in Nat, NEW b, Array(b, c), NEW i \in Int, NEW last \in Int, NEW h,
         h = HeadOf(After(i, b), b, last)
  PROVE  /\ h \in IterType /\ h.mode = "live"
         /\ h.node # NoKey => /\ h.bucket \in DOMAIN b /\ h.bucket > i
                              /\ 1 \in DOMAIN b[h.bucket] /\ b[h.bucket][1].key = h.node
         /\ \A m \in DOMAIN b : \A l \in DOMAIN b[m] : m > i =>
               /\ h.node # NoKey
               /\ b[m][l].key = h.node \/ Ahead(b, h.node, b[m][l].key)
  <1>. DEFINE S == After(i, b)
  <1>1. /\ DOMAIN b = 0 .. c - 1
        /\ \A m \in DOMAIN b : /\ b[m] \in Seq(NodeSet) /\ DOMAIN b[m] = 1 .. Len(b[m])
                               /\ Len(b[m]) \in Nat
        /\ \A m \in DOMAIN b : \A j \in DOMAIN b[m] : b[m][j].key \in Keys
    BY Places
  <1>2. S = {j \in DOMAIN b : j > i /\ b[j] # <<>>}  BY DEF After
  <1>3. \A m \in DOMAIN b : b[m] # <<>> => 1 \in DOMAIN b[m]  BY <1>1
  <1>4. h = [mode   |-> "live",
             bucket |-> IF S = {} THEN last ELSE Min(S),
             node   |-> IF S = {} THEN NoKey ELSE b[Min(S)][1].key]
    BY DEF HeadOf
  <1>. HIDE DEF S
  <1>5. CASE S = {}
    <2>1. \A m \in DOMAIN b : \A l \in DOMAIN b[m] : ~ (m > i)
      <3>. SUFFICES ASSUME NEW m \in DOMAIN b, NEW l \in DOMAIN b[m] PROVE ~ (m > i)
        OBVIOUS
      <3>1. b[m] # <<>>  BY <1>1
      <3>. QED  BY <3>1, <1>2, <1>5
    <2>2. h = [mode |-> "live", bucket |-> last, node |-> NoKey]  BY <1>4, <1>5
    <2>. QED  BY <2>1, <2>2 DEF IterType
  <1>6. CASE S # {}
    <2>1. S \in SUBSET Nat  BY <1>1, <1>2
    <2>2. Min(S) \in S /\ \A y \in S : Min(S) <= y  BY <1>6, <2>1, MinIsLeast
    <2>. DEFINE q == Min(S)
    <2>3. q \in DOMAIN b /\ q > i /\ 1 \in DOMAIN b[q] /\ q \in Nat
      BY <2>1, <2>2, <1>2, <1>3
    <2>4. h = [mode |-> "live", bucket |-> q, node |-> b[q][1].key]  BY <1>4, <1>6
    <2>5. \A y \in S : q <= y  BY <2>2
    <2>. HIDE DEF q
    <2>6. h \in IterType /\ h.mode = "live" /\ h.node \in Keys
      BY <1>1, <2>3, <2>4 DEF IterType
    <2>7. h.node # NoKey  BY <2>6, MarkersAssumption
    <2>8. ASSUME NEW m \in DOMAIN b, NEW l \in DOMAIN b[m], m > i
          PROVE  b[m][l].key = h.node \/ Ahead(b, h.node, b[m][l].key)
      <3>1. b[m] # <<>>  BY <1>1
      <3>2. m \in S  BY <3>1, <2>8, <1>2
      <3>3. q <= m /\ m \in Int /\ l \in Int /\ l >= 1  BY <3>2, <2>5, <1>1
      <3>4. q < m \/ (q = m /\ 1 < l) \/ (q = m /\ l = 1)  BY <3>3, <2>3
      <3>5. CASE q = m /\ l = 1  BY <3>5, <2>4
      <3>6. CASE q < m \/ (q = m /\ 1 < l)
        <4>1. Earlier(q, 1, m, l)  BY <3>6 DEF Earlier
        <4>. QED  BY <4>1, <2>3, <2>4 DEF Ahead
      <3>. QED  BY <3>4, <3>5, <3>6
    <2>. QED  BY <2>3, <2>4, <2>6, <2>7, <2>8
  <1>. QED  BY <1>5, <1>6

\* The node at position j of chain i, or the head of the next chain: what was
\* before that position is behind the iterator, the rest is not.
LEMMA FromPosition ==
  ASSUME NEW c \in Nat, NEW b, Array(b, c), NEW i \in DOMAIN b, NEW j \in Nat \ {0},
         NEW last \in Int, NEW h,
         h = IF j \in DOMAIN b[i]
             THEN [mode |-> "live", bucket |-> i, node |-> b[i][j].key]
             ELSE HeadOf(After(i, b), b, last)
  PROVE  /\ h \in IterType /\ h.mode = "live"
         /\ h.node # NoKey => Stands(b, h.bucket, h.node)
         /\ \A m \in DOMAIN b : \A l \in DOMAIN b[m] :
               IF Earlier(m, l, i, j)
               THEN h.node # NoKey => Ahead(b, b[m][l].key, h.node)
               ELSE /\ h.node # NoKey
                    /\ b[m][l].key = h.node \/ Ahead(b, h.node, b[m][l].key)
  <1>1. /\ DOMAIN b = 0 .. c - 1
        /\ \A m \in DOMAIN b : DOMAIN b[m] = 1 .. Len(b[m]) /\ Len(b[m]) \in Nat
        /\ \A m \in DOMAIN b : \A l \in DOMAIN b[m] : b[m][l].key \in Keys
    BY Places
  <1>2. CASE j \in DOMAIN b[i]
    <2>1. h = [mode |-> "live", bucket |-> i, node |-> b[i][j].key]  BY <1>2
    <2>2. h.node \in Keys /\ h \in IterType /\ h.mode = "live"
      BY <1>1, <1>2, <2>1 DEF IterType
    <2>3. h.node # NoKey  BY <2>2, MarkersAssumption
    <2>4. Stands(b, h.bucket, h.node)  BY <1>2, <2>1 DEF Stands
    <2>5. ASSUME NEW m \in DOMAIN b, NEW l \in DOMAIN b[m], Earlier(m, l, i, j)
          PROVE  Ahead(b, b[m][l].key, h.node)
      BY <1>2, <2>1, <2>5 DEF Ahead
    <2>6. ASSUME NEW m \in DOMAIN b, NEW l \in DOMAIN b[m], ~ Earlier(m, l, i, j)
          PROVE  b[m][l].key = h.node \/ Ahead(b, h.node, b[m][l].key)
      <3>1. m \in Int /\ l \in Int /\ i \in Int  BY <1>1
      <3>2. Earlier(i, j, m, l) \/ (m = i /\ l = j)  BY <2>6, <3>1 DEF Earlier
      <3>. QED  BY <3>2, <1>2, <2>1 DEF Ahead
    <2>. QED  BY <2>2, <2>3, <2>4, <2>5, <2>6
  <1>3. CASE j \notin DOMAIN b[i]
    <2>1. h = HeadOf(After(i, b), b, last) /\ i \in Int  BY <1>1, <1>3
    <2>2. /\ h \in IterType /\ h.mode = "live"
          /\ h.node # NoKey => /\ h.bucket \in DOMAIN b /\ h.bucket > i
                               /\ 1 \in DOMAIN b[h.bucket] /\ b[h.bucket][1].key = h.node
          /\ \A m \in DOMAIN b : \A l \in DOMAIN b[m] : m > i =>
                /\ h.node # NoKey
                /\ b[m][l].key = h.node \/ Ahead(b, h.node, b[m][l].key)
      BY <2>1, HeadAfter
    <2>3. h.node # NoKey => Stands(b, h.bucket, h.node)  BY <2>2 DEF Stands
    <2>4. \A l \in DOMAIN b[i] : l < j  BY <1>1, <1>3
    <2>5. ASSUME NEW m \in DOMAIN b, NEW l \in DOMAIN b[m], Earlier(m, l, i, j), h.node # NoKey
          PROVE  Ahead(b, b[m][l].key, h.node)
      <3>1. m \in Int /\ h.bucket \in Int  BY <1>1, <2>2, <2>5
      <3>2. m < h.bucket  BY <3>1, <2>1, <2>2, <2>5 DEF Earlier
      <3>3. Earlier(m, l, h.bucket, 1)  BY <3>2 DEF Earlier
      <3>. QED  BY <3>3, <2>2, <2>5 DEF Ahead
    <2>6. ASSUME NEW m \in DOMAIN b, NEW l \in DOMAIN b[m], ~ Earlier(m, l, i, j)
          PROVE  m > i
      <3>1. m \in Int /\ l \in Int  BY <1>1
      <3>. QED  BY <3>1, <2>1, <2>4, <2>6 DEF Earlier
    <2>. QED  BY <2>2, <2>3, <2>5, <2>6
  <1>. QED  BY <1>2, <1>3

\* An iterator left alone by an operation that keeps the order.
LEMMA IterKept ==
  ASSUME IterInv, NEW k, Keeps(buckets, buckets', k), iter' = iter, cap' = cap,
         due' = due \ {k}, seen' = seen \ {k},
         iter.mode = "live" /\ iter.node # NoKey => iter.node # k
  PROVE  IterInv'
  <1>1. iter' \in IterType /\ due' \subseteq Keys /\ seen' \subseteq Keys  BY DEF IterInv
  <1>2. ASSUME iter.mode = "live"
        PROVE  /\ ~ Rehashing'
               /\ iter.node # NoKey => Stands(buckets', iter.bucket, iter.node)
               /\ \A x \in due' : iter.node # NoKey
                                  /\ (x = iter.node \/ Ahead(buckets', iter.node, x))
               /\ \A x \in seen' : iter.node # NoKey => Ahead(buckets', x, iter.node)
    <2>1. ~ Rehashing'  BY <1>2 DEF IterInv, Rehashing
    <2>2. iter.node # NoKey => iter.node # k  BY <1>2
    <2>3. \A x \in due' : x # k /\ x \in due  OBVIOUS
    <2>4. \A x \in seen' : x # k /\ x \in seen  OBVIOUS
    <2>. QED  BY <1>2, <2>1, <2>2, <2>3, <2>4 DEF IterInv, Keeps
  <1>. QED  BY <1>1, <1>2 DEF IterInv

LEMMA IterDropped ==
  ASSUME DropIter
  PROVE  IterInv'
  BY DEF DropIter, NoIter, IterInv, IterType

LEMMA IterUntouched ==
  ASSUME IterInv, UNCHANGED <<buckets, cap, iterVars>>
  PROVE  IterInv'
  BY DEF IterInv, iterVars, Rehashing

\* While nodes move no iterator is live.
LEMMA IterWhileMoving ==
  ASSUME IterInv, Rehashing, UNCHANGED iterVars
  PROVE  IterInv'
  BY DEF IterInv, iterVars

LEMMA IterUnderStores ==
  ASSUME MapInv, IterInv, NEW k \in Keys, NEW v \in Vals, Insert(k, v) \/ Put(k, v)
  PROVE  IterInv'
  <1>1. capacity \in Nat \ {0} /\ Array(buckets, capacity)
    BY NodesAreFunctional DEF MapInv
  <1>2. due \ {NoKey} = due /\ seen \ {NoKey} = seen  BY MarkersAssumption DEF IterInv
  <1>3. CASE AddNode(k, v)
    <2>1. CASE StartRehash(2 * capacity)  BY <2>1, IterDropped DEF StartRehash
    <2>2. CASE NoRehash
      <3>1. Keeps(buckets, buckets', NoKey)  BY <1>1, <1>3, PushKeeps DEF AddNode
      <3>. QED  BY <3>1, <2>2, <1>2, IterKept DEF NoRehash, iterVars
    <2>. QED  BY <1>3, <2>1, <2>2 DEF AddNode
  <1>4. CASE UNCHANGED <<mapVars, iterVars>>  BY <1>4, IterUntouched DEF mapVars
  <1>5. CASE /\ Found(k)
             /\ buckets' = [buckets EXCEPT ![Bucket(k, capacity)][At(k, Chain(k))].val = v]
             /\ UNCHANGED <<cap, iterVars>>
    <2>1. buckets' = Overwritten(buckets, capacity, k, v)  BY <1>5 DEF Chain, Overwritten
    <2>2. InChain(k, buckets[Bucket(k, capacity)])  BY <1>5 DEF Found, Chain
    <2>3. Keeps(buckets, buckets', NoKey)  BY <1>1, <2>1, <2>2, OverwriteKeeps
    <2>. QED  BY <2>3, <1>5, <1>2, IterKept DEF iterVars
  <1>. QED  BY <1>3, <1>4, <1>5 DEF Insert, Put

LEMMA IterUnderErase ==
  ASSUME MapInv, IterInv, NEW k \in Keys, Erase(k)
  PROVE  IterInv'
  <1>1. capacity \in Nat \ {0} /\ Array(buckets, capacity)
    BY NodesAreFunctional DEF MapInv
  <1>2. CASE /\ Found(k) /\ buckets' = Unlink(k)
             /\ due' = due \ {k} /\ seen' = seen \ {k}
             /\ iter' = IF iter.node = k THEN [iter EXCEPT !.mode = "stale"] ELSE iter
    <2>1. buckets' = Unlinked(buckets, capacity, k)  BY <1>2 DEF Unlink, Unlinked
    <2>2. InChain(k, buckets[Bucket(k, capacity)])  BY <1>2 DEF Found, Chain
    <2>3. Keeps(buckets, buckets', k)  BY <1>1, <2>1, <2>2, UnlinkKeeps
    <2>4. CASE iter.node = k
      <3>1. iter' = [iter EXCEPT !.mode = "stale"]  BY <1>2, <2>4
      <3>2. iter' \in IterType /\ iter'.mode = "stale"  BY <3>1 DEF IterInv, IterType
      <3>. QED  BY <3>2, <1>2 DEF IterInv
    <2>5. CASE iter.node # k  BY <1>2, <2>3, <2>5, IterKept DEF Erase
    <2>. QED  BY <2>4, <2>5
  <1>3. CASE UNCHANGED <<buckets, size, iterVars>>  BY <1>3, IterUntouched DEF Erase
  <1>. QED  BY <1>2, <1>3 DEF Erase

\* Where a live iterator stands.
LEMMA LiveStands ==
  ASSUME MapInv, IterInv, Live
  PROVE  /\ iter.bucket \in DOMAIN buckets /\ Position \in DOMAIN buckets[iter.bucket]
         /\ buckets[iter.bucket][Position].key = iter.node
         /\ iter.node \in Keys /\ Found(iter.node)
  <1>1. /\ capacity \in Nat \ {0} /\ Array(buckets, capacity) /\ Nodes = NodesOf(buckets)
    BY NodesAreFunctional, AtRest DEF MapInv, Live
  <1>2. Stands(buckets, iter.bucket, iter.node)  BY DEF IterInv, Live
  <1>3. InChain(iter.node, buckets[iter.bucket])  BY <1>2 DEF Stands, InChain
  <1>4. /\ iter.bucket \in DOMAIN buckets /\ Position \in DOMAIN buckets[iter.bucket]
        /\ buckets[iter.bucket][Position].key = iter.node
    BY <1>2, <1>3, AtIsThere DEF Stands, Position
  <1>5. iter.node \in Keys  BY DEF IterInv, IterType, Live
  <1>6. iter.bucket = Bucket(iter.node, capacity)  BY <1>1, <1>4, InArray DEF Array, Placed
  <1>. QED  BY <1>3, <1>4, <1>5, <1>6 DEF Found, Chain

LEMMA IterUnderBegin ==
  ASSUME MapInv, IterInv, Begin
  PROVE  IterInv'
  <1>1. capacity \in Nat \ {0} /\ Array(buckets, capacity)
    BY NodesAreFunctional DEF MapInv
  <1>2. /\ DOMAIN buckets = 0 .. capacity - 1
        /\ \A i \in DOMAIN buckets : \A j \in DOMAIN buckets[i] : buckets[i][j].key \in Keys
    BY <1>1, Places
  <1>3. {i \in DOMAIN buckets : buckets[i] # <<>>} = After(-1, buckets)
    BY <1>1, <1>2 DEF After
  <1>4. iter' = HeadOf(After(-1, buckets), buckets, 0)  BY <1>3 DEF Begin
  <1>5. -1 \in Int /\ 0 \in Int  OBVIOUS
  <1>6. /\ iter' \in IterType /\ iter'.mode = "live"
        /\ iter'.node # NoKey =>
             /\ iter'.bucket \in DOMAIN buckets /\ iter'.bucket > -1
             /\ 1 \in DOMAIN buckets[iter'.bucket] /\ buckets[iter'.bucket][1].key = iter'.node
        /\ \A m \in DOMAIN buckets : \A l \in DOMAIN buckets[m] : m > -1 =>
              /\ iter'.node # NoKey
              /\ \/ buckets[m][l].key = iter'.node
                 \/ Ahead(buckets, iter'.node, buckets[m][l].key)
    BY <1>1, <1>4, <1>5, HeadAfter
  <1>7. due' = KeysOf(buckets) /\ seen' = {} /\ buckets' = buckets /\ ~ Rehashing'
    BY DEF Begin, mapVars, Rehashing
  <1>8. \A x \in due' : \E m \in DOMAIN buckets : \E l \in DOMAIN buckets[m] :
                           buckets[m][l].key = x
    BY <1>7 DEF KeysOf, NodesOf
  <1>9. due' \subseteq Keys  BY <1>2, <1>8
  <1>10. \A m \in DOMAIN buckets : m > -1  BY <1>1, <1>2
  <1>11. \A x \in due' : /\ iter'.node # NoKey
                         /\ x = iter'.node \/ Ahead(buckets, iter'.node, x)
    BY <1>6, <1>8, <1>10
  <1>12. iter'.node # NoKey => Stands(buckets, iter'.bucket, iter'.node)  BY <1>6 DEF Stands
  <1>. QED  BY <1>6, <1>7, <1>9, <1>11, <1>12 DEF IterInv

\* Moving on and erasing through the iterator, from the node where it stands.
LEMMA IterUnderNext ==
  ASSUME MapInv, IterInv, IterNext
  PROVE  IterInv'
  <1>. DEFINE b == buckets
              i == iter.bucket
              p == Position
              x0 == iter.node
              h == iter'
  <1>1. /\ capacity \in Nat \ {0} /\ Array(b, capacity)
        /\ i \in DOMAIN b /\ p \in DOMAIN b[i] /\ b[i][p].key = x0 /\ x0 \in Keys
    BY NodesAreFunctional, LiveStands DEF MapInv, IterNext
  <1>2. /\ \A m \in DOMAIN b : \A l \in DOMAIN b[m] : l \in Nat \ {0} /\ m \in Int
        /\ \A q, m \in DOMAIN b : \A j \in DOMAIN b[q], l \in DOMAIN b[m] :
              b[q][j].key = b[m][l].key => q = m /\ j = l
    BY <1>1, Places
  <1>3. p \in Nat \ {0} /\ p + 1 \in Nat \ {0} /\ capacity - 1 \in Int  BY <1>1, <1>2
  <1>4. iter = [mode |-> "live", bucket |-> i, node |-> x0]  BY DEF IterInv, IterType, IterNext, Live
  <1>5. h = IF p + 1 \in DOMAIN b[i]
            THEN [mode |-> "live", bucket |-> i, node |-> b[i][p + 1].key]
            ELSE HeadOf(After(i, b), b, capacity - 1)
    BY <1>4 DEF IterNext, Standing
  <1>6. /\ due' = due \ {x0} /\ seen' = seen \cup {x0} /\ buckets' = b /\ ~ Rehashing'
        /\ due \subseteq Keys /\ seen \subseteq Keys
        /\ \A x \in due : x = x0 \/ Ahead(b, x0, x)
        /\ \A x \in seen : Ahead(b, x, x0)
    BY DEF IterNext, Live, mapVars, Rehashing, IterInv
  <1>. HIDE DEF b, i, p, x0, h
  <1>7. /\ h \in IterType /\ h.mode = "live"
        /\ h.node # NoKey => Stands(b, h.bucket, h.node)
        /\ \A m \in DOMAIN b : \A l \in DOMAIN b[m] :
              IF Earlier(m, l, i, p + 1)
              THEN h.node # NoKey => Ahead(b, b[m][l].key, h.node)
              ELSE /\ h.node # NoKey
                   /\ b[m][l].key = h.node \/ Ahead(b, h.node, b[m][l].key)
    BY <1>1, <1>3, <1>5, FromPosition
  <1>8. ASSUME NEW x \in due'
        PROVE  h.node # NoKey /\ (x = h.node \/ Ahead(b, h.node, x))
    <2>1. Ahead(b, x0, x)  BY <1>6
    <2>2. PICK q \in DOMAIN b, m \in DOMAIN b :
             \E j \in DOMAIN b[q], l \in DOMAIN b[m] :
                b[q][j].key = x0 /\ b[m][l].key = x /\ Earlier(q, j, m, l)
      BY <2>1 DEF Ahead
    <2>3. PICK j \in DOMAIN b[q], l \in DOMAIN b[m] :
             b[q][j].key = x0 /\ b[m][l].key = x /\ Earlier(q, j, m, l)
      BY <2>2
    <2>4. Earlier(i, p, m, l)  BY <2>3, <1>1, <1>2
    <2>5. m \in Int /\ l \in Int /\ i \in Int  BY <1>1, <1>2
    <2>6. ~ Earlier(m, l, i, p + 1)  BY <2>4, <2>5, <1>3 DEF Earlier
    <2>. QED  BY <1>7, <2>3, <2>6
  <1>9. ASSUME NEW x \in seen', h.node # NoKey
        PROVE  Ahead(b, x, h.node)
    <2>1. CASE x = x0
      <3>1. Earlier(i, p, i, p + 1)  BY <1>3 DEF Earlier
      <3>. QED  BY <3>1, <2>1, <1>1, <1>7, <1>9
    <2>2. CASE x # x0
      <3>1. Ahead(b, x, x0)  BY <2>2, <1>6
      <3>2. PICK m \in DOMAIN b, q \in DOMAIN b :
               \E l \in DOMAIN b[m], j \in DOMAIN b[q] :
                  b[m][l].key = x /\ b[q][j].key = x0 /\ Earlier(m, l, q, j)
        BY <3>1 DEF Ahead
      <3>3. PICK l \in DOMAIN b[m], j \in DOMAIN b[q] :
               b[m][l].key = x /\ b[q][j].key = x0 /\ Earlier(m, l, q, j)
        BY <3>2
      <3>4. Earlier(m, l, i, p)  BY <3>3, <1>1, <1>2
      <3>5. m \in Int /\ l \in Int /\ i \in Int  BY <1>1, <1>2
      <3>6. Earlier(m, l, i, p + 1)  BY <3>4, <3>5, <1>3 DEF Earlier
      <3>. QED  BY <3>3, <3>6, <1>7, <1>9
    <2>. QED  BY <2>1, <2>2
  <1>10. due' \subseteq Keys /\ seen' \subseteq Keys  BY <1>1, <1>6
  <1>. QED  BY <1>6, <1>7, <1>8, <1>9, <1>10 DEF IterInv, b, h

LEMMA IterUnderEraseIter ==
  ASSUME MapInv, IterInv, EraseIter
  PROVE  IterInv'
  <1>. DEFINE b == buckets
              i == iter.bucket
              p == Position
              x0 == iter.node
              h == iter'
              d == Unlinked(buckets, capacity, iter.node)
  <1>1. /\ capacity \in Nat \ {0} /\ Array(b, capacity)
        /\ i \in DOMAIN b /\ p \in DOMAIN b[i] /\ b[i][p].key = x0 /\ x0 \in Keys
        /\ InChain(x0, b[Bucket(x0, capacity)])
    BY NodesAreFunctional, LiveStands DEF MapInv, EraseIter, Found, Chain
  <1>2. /\ \A m \in DOMAIN b : \A l \in DOMAIN b[m] : l \in Nat \ {0} /\ m \in Int
        /\ \A q, m \in DOMAIN b : \A j \in DOMAIN b[q], l \in DOMAIN b[m] :
              b[q][j].key = b[m][l].key => q = m /\ j = l
    BY <1>1, Places
  <1>3. p \in Nat \ {0} /\ capacity - 1 \in Int  BY <1>1, <1>2
  <1>4. iter = [mode |-> "live", bucket |-> i, node |-> x0]
    BY DEF IterInv, IterType, EraseIter, Live
  <1>5. buckets' = d  BY DEF EraseIter, Unlink, Unlinked
  <1>6. h = IF p \in DOMAIN d[i]
            THEN [mode |-> "live", bucket |-> i, node |-> d[i][p].key]
            ELSE HeadOf(After(i, d), d, capacity - 1)
    BY <1>4, <1>5 DEF EraseIter, Standing
  <1>7. /\ due' = due \ {x0} /\ seen' = seen /\ ~ Rehashing'
        /\ due \subseteq Keys /\ seen \subseteq Keys
        /\ \A x \in due : x = x0 \/ Ahead(b, x0, x)
        /\ \A x \in seen : Ahead(b, x, x0)
    BY DEF EraseIter, Live, Rehashing, IterInv
  <1>8. Array(d, capacity)  BY <1>1, UnlinkEffect
  <1>9. /\ DOMAIN d = DOMAIN b
        /\ \A m \in DOMAIN b : m # i => d[m] = b[m]
        /\ \A j \in DOMAIN b[i] : /\ j < p => j \in DOMAIN d[i] /\ d[i][j] = b[i][j]
                                  /\ j > p => j - 1 \in DOMAIN d[i] /\ d[i][j - 1] = b[i][j]
    BY <1>1, UnlinkMoves
  <1>. HIDE DEF b, i, p, x0, h, d
  <1>10. i \in DOMAIN d  BY <1>1, <1>9
  <1>11. /\ h \in IterType /\ h.mode = "live"
         /\ h.node # NoKey => Stands(d, h.bucket, h.node)
         /\ \A m \in DOMAIN d : \A l \in DOMAIN d[m] :
               IF Earlier(m, l, i, p)
               THEN h.node # NoKey => Ahead(d, d[m][l].key, h.node)
               ELSE /\ h.node # NoKey
                    /\ d[m][l].key = h.node \/ Ahead(d, h.node, d[m][l].key)
    BY <1>1, <1>3, <1>6, <1>8, <1>10, FromPosition
  <1>12. ASSUME NEW x \in due'
         PROVE  h.node # NoKey /\ (x = h.node \/ Ahead(d, h.node, x))
    <2>1. Ahead(b, x0, x)  BY <1>7
    <2>2. PICK q \in DOMAIN b, m \in DOMAIN b :
             \E j \in DOMAIN b[q], l \in DOMAIN b[m] :
                b[q][j].key = x0 /\ b[m][l].key = x /\ Earlier(q, j, m, l)
      BY <2>1 DEF Ahead
    <2>3. PICK j \in DOMAIN b[q], l \in DOMAIN b[m] :
             b[q][j].key = x0 /\ b[m][l].key = x /\ Earlier(q, j, m, l)
      BY <2>2
    <2>4. Earlier(i, p, m, l)  BY <2>3, <1>1, <1>2
    <2>5. m \in Int /\ l \in Int /\ i \in Int  BY <1>1, <1>2
    <2>6. CASE m = i
      <3>1. l > p  BY <2>4, <2>5, <2>6, <1>3 DEF Earlier
      <3>2. l - 1 \in DOMAIN d[i] /\ d[i][l - 1].key = x  BY <3>1, <2>3, <2>6, <1>9
      <3>3. ~ Earlier(i, l - 1, i, p)  BY <3>1, <2>5, <1>3 DEF Earlier
      <3>. QED  BY <3>2, <3>3, <1>10, <1>11
    <2>7. CASE m # i
      <3>1. ~ Earlier(m, l, i, p)  BY <2>4, <2>5, <2>7 DEF Earlier
      <3>. QED  BY <3>1, <2>3, <2>7, <1>9, <1>11
    <2>. QED  BY <2>6, <2>7
  <1>13. ASSUME NEW x \in seen', h.node # NoKey
         PROVE  Ahead(d, x, h.node)
    <2>1. Ahead(b, x, x0)  BY <1>7
    <2>2. PICK m \in DOMAIN b, q \in DOMAIN b :
             \E l \in DOMAIN b[m], j \in DOMAIN b[q] :
                b[m][l].key = x /\ b[q][j].key = x0 /\ Earlier(m, l, q, j)
      BY <2>1 DEF Ahead
    <2>3. PICK l \in DOMAIN b[m], j \in DOMAIN b[q] :
             b[m][l].key = x /\ b[q][j].key = x0 /\ Earlier(m, l, q, j)
      BY <2>2
    <2>4. Earlier(m, l, i, p)  BY <2>3, <1>1, <1>2
    <2>5. m \in DOMAIN d /\ l \in DOMAIN d[m] /\ d[m][l].key = x
      <3>1. CASE m = i
        <4>1. l < p  BY <3>1, <2>4, <1>1, <1>2 DEF Earlier
        <4>. QED  BY <4>1, <3>1, <2>3, <1>9
      <3>2. CASE m # i  BY <3>2, <2>3, <1>9
      <3>. QED  BY <3>1, <3>2
    <2>. QED  BY <2>4, <2>5, <1>11, <1>13
  <1>14. due' \subseteq Keys /\ seen' \subseteq Keys  BY <1>7
  <1>. QED  BY <1>5, <1>7, <1>11, <1>12, <1>13, <1>14 DEF IterInv, h

-----------------------------------------------------------------------------
\* Every step keeps both invariants, and is a step of the dictionary or none.
LEMMA HashMapStep ==
  ASSUME MapInv, IterInv, Next
  PROVE  MapInv' /\ IterInv' /\ DictStep
  <1>1. ASSUME NEW k \in Keys, NEW v \in Vals, Insert(k, v) \/ Put(k, v)
        PROVE  MapInv' /\ IterInv' /\ DictStep
    BY <1>1, InsertSteps, PutSteps, IterUnderStores DEF DictStep, Dictionary!Next
  <1>2. ASSUME NEW k \in Keys, NoMemory(k)
        PROVE  MapInv' /\ IterInv' /\ DictStep
    <2>1. k \notin DOMAIN Contents  BY <1>2, FoundIsHeld DEF NoMemory
    <2>2. MapInv' /\ Contents' = Contents  BY <1>2, MapUnchanged DEF NoMemory
    <2>3. IterInv'  BY <1>2, IterUntouched DEF NoMemory, mapVars
    <2>4. Dictionary!Refuse(k)  BY <1>2, <2>1, <2>2 DEF NoMemory, Dictionary!Refuse
    <2>. QED  BY <2>2, <2>3, <2>4 DEF DictStep, Dictionary!Next
  <1>3. ASSUME NEW k \in Keys, Get(k)
        PROVE  MapInv' /\ IterInv' /\ DictStep
    <2>1. answer' = IF k \in DOMAIN Contents THEN Contents[k] ELSE NoVal
      BY <1>3, FoundIsHeld DEF Get
    <2>2. MapInv' /\ Contents' = Contents  BY <1>3, MapUnchanged DEF Get
    <2>3. IterInv'  BY <1>3, IterUntouched DEF Get, mapVars
    <2>4. Dictionary!Get(k)  BY <2>1, <2>2 DEF Dictionary!Get
    <2>. QED  BY <2>2, <2>3, <2>4 DEF DictStep, Dictionary!Next
  <1>4. ASSUME NEW k \in Keys, Erase(k)
        PROVE  MapInv' /\ IterInv' /\ DictStep
    BY <1>4, EraseSteps, IterUnderErase DEF DictStep, Dictionary!Next
  <1>5. CASE Clear
    BY <1>5, ClearSteps, IterDropped DEF Clear, DictStep, Dictionary!Next
  <1>6. CASE \/ \E c \in 0 .. MaxCapacity : Rehash(c)
             \/ \E n \in 0 .. Cardinality(Keys) : Reserve(n)
             \/ \E m \in MaxLoads : SetMaxLoadFactor(m)
    <2>1. MapInv' /\ DictStep  BY <1>6, GrowthAskedSteps DEF DictStep
    <2>2. DropIter \/ UNCHANGED <<buckets, cap, iterVars>>
      BY <1>6 DEF Rehash, Reserve, SetMaxLoadFactor, StartRehash, NoRehash
    <2>. QED  BY <2>1, <2>2, IterDropped, IterUntouched
  <1>7. CASE MoveNode \/ SwapArrays
    BY <1>7, MoveNodeSteps, SwapArraysSteps, IterWhileMoving
    DEF MoveNode, SwapArrays, DictStep
  <1>8. CASE Begin
    BY <1>8, MapUnchanged, IterUnderBegin DEF Begin, DictStep
  <1>9. CASE IterNext
    BY <1>9, MapUnchanged, IterUnderNext DEF IterNext, DictStep
  <1>10. CASE EraseIter
    <2>1. iter.node \in Keys /\ Found(iter.node) /\ ~ Rehashing
      BY <1>10, LiveStands DEF EraseIter, Live
    <2>2. /\ MapInv' /\ Contents' = Dictionary!Drop(Contents, {iter.node})
          /\ iter.node \in DOMAIN Contents
      BY <1>10, <2>1, UnlinkSteps DEF EraseIter
    <2>3. Dictionary!Discard(iter.node)  BY <1>10, <2>2 DEF EraseIter, Dictionary!Discard
    <2>. QED  BY <1>10, <2>1, <2>2, <2>3, IterUnderEraseIter DEF DictStep, Dictionary!Next
  <1>. QED  BY <1>1, <1>2, <1>3, <1>4, <1>5, <1>6, <1>7, <1>8, <1>9, <1>10 DEF Next

LEMMA HashMapInit == Init => MapInv /\ IterInv /\ Dictionary!Init
  BY MapInit DEF Init, IterInv, IterType, NoIter

LEMMA HashMapStutters ==
  ASSUME MapInv, IterInv, UNCHANGED vars
  PROVE  MapInv' /\ IterInv' /\ UNCHANGED <<Contents, answer>>
  BY MapUnchanged, IterUntouched DEF vars, mapVars

\* The inductive invariant of the map and its iterator.
LEMMA HashMapInvariant == Spec => [](MapInv /\ IterInv)
  <1>1. MapInv /\ IterInv /\ [Next]_vars => (MapInv /\ IterInv)'
    BY HashMapStep, HashMapStutters
  <1>. QED  BY <1>1, HashMapInit, PTL DEF Spec

-----------------------------------------------------------------------------
\* The capacity is a power of two and the array has that many chains, through
\* any mix of doublings, reservations and requested sizes.
THEOREM HashMapTypes == Spec => []TypeOK
  <1>1. MapInv => TypeOK
    <2>. SUFFICES ASSUME MapInv PROVE TypeOK  OBVIOUS
    <2>1. capacity \in Nat \ {0} /\ cap \in Nat /\ Nodes \subseteq NodeSet
      BY NodesAreFunctional
    <2>2. DOMAIN buckets = 0 .. capacity - 1 /\ DOMAIN newBuckets = 0 .. cap - 1
      BY <2>1, InArray DEF MapInv
    <2>3. size \in Nat  BY FS_CardinalityType DEF MapInv
    <2>. QED  BY <2>1, <2>2, <2>3 DEF TypeOK, MapInv, NodeSet
  <1>. QED  BY <1>1, HashMapInvariant, PTL

\* No iteration yields an element a second time.
THEOREM IterationsDoNotRepeat == Spec => []NeverTwice
  <1>1. MapInv /\ IterInv => NeverTwice
    <2>. SUFFICES ASSUME MapInv, IterInv, iter.mode = "live", iter.node \in seen
                  PROVE  FALSE
      BY DEF NeverTwice
    <2>1. iter.node # NoKey  BY MarkersAssumption DEF IterInv
    <2>2. Ahead(buckets, iter.node, iter.node)  BY <2>1 DEF IterInv
    <2>3. capacity \in Nat /\ Array(buckets, capacity)  BY NodesAreFunctional DEF MapInv
    <2>4. /\ \A q, m \in DOMAIN buckets :
               \A j \in DOMAIN buckets[q], l \in DOMAIN buckets[m] :
                  buckets[q][j].key = buckets[m][l].key => q = m /\ j = l
          /\ \A m \in DOMAIN buckets : \A l \in DOMAIN buckets[m] : l \in Int /\ m \in Int
      BY <2>3, Places
    <2>. QED  BY <2>2, <2>4 DEF Ahead, Earlier
  <1>. QED  BY <1>1, HashMapInvariant, PTL

\* An iteration that has come to its end owes nothing.
THEOREM IterationsAreComplete == Spec => []NothingSkipped
  <1>1. IterInv => NothingSkipped  BY DEF IterInv, NothingSkipped
  <1>. QED  BY <1>1, HashMapInvariant, PTL

\* Whatever the hash function, the load factors and the failures of malloc, the
\* map is a dictionary to its callers, also from inside a rehash.
THEOREM MapIsDictionary == Spec => ImplementsDictionary
  <1>1. MapInv /\ IterInv /\ [Next]_vars
          => [Dictionary!Next]_<<Contents, answer>>
    BY HashMapStep, HashMapStutters DEF DictStep
  <1>. QED
    BY <1>1, HashMapInit, HashMapInvariant, PTL
    DEF Spec, ImplementsDictionary, Dictionary!Spec, Dictionary!dictVars

-----------------------------------------------------------------------------
\* Counting: the nodes, the places they are held at and the keys are as many.
Held == {p \in {<<0, i, j>> : i \in DOMAIN buckets, j \in 1 .. size}
                 \cup {<<1, i, j>> : i \in DOMAIN newBuckets, j \in 1 .. size} :
           p[3] =< Len((IF p[1] = 0 THEN buckets ELSE newBuckets)[p[2]])}
HeldAt(p) == (IF p[1] = 0 THEN buckets ELSE newBuckets)[p[2]][p[3]]

LEMMA ChainsAreCounted ==
  ASSUME MapInv, NEW c \in Nat, NEW b, Array(b, c), NodesOf(b) \subseteq Nodes,
         NEW i \in DOMAIN b
  PROVE  Len(b[i]) =< size
  <1>. DEFINE s == b[i]
              f == [j \in 1 .. Len(s) |-> s[j]]
  <1>1. /\ i \in 0 .. c - 1 /\ DOMAIN s = 1 .. Len(s) /\ Len(s) \in Nat
        /\ \A j, l \in DOMAIN s : s[j].key = s[l].key => j = l
    BY Places
  <1>2. \A j \in 1 .. Len(s) : s[j] \in Nodes  BY <1>1, InArray DEF ChainNodes
  <1>. HIDE DEF s
  <1>3. f \in [1 .. Len(s) -> Nodes]  BY <1>2
  <1>4. \A j, l \in 1 .. Len(s) : f[j] = f[l] => j = l  BY <1>1
  <1>5. f \in Injection(1 .. Len(s), Nodes)  BY <1>3, <1>4 DEF Injection, IsInjective
  <1>6. Cardinality(1 .. Len(s)) =< Cardinality(Nodes)
    BY <1>5, FS_Injection DEF MapInv
  <1>7. Cardinality(1 .. Len(s)) = Len(s)
    <2>1. Len(s) \in Int /\ 1 \in Int  BY <1>1
    <2>2. Cardinality(1 .. Len(s)) = IF 1 > Len(s) THEN 0 ELSE Len(s) - 1 + 1
      BY <2>1, FS_Interval
    <2>. QED  BY <2>2, <1>1
  <1>. QED  BY <1>6, <1>7 DEF MapInv, s

LEMMA KeysAreCounted ==
  ASSUME MapInv
  PROVE  Cardinality(DOMAIN Contents) = size
  <1>. DEFINE T == DOMAIN Contents
              f == [n \in Nodes |-> n.key]
  <1>1. T = {n.key : n \in Nodes}  BY DEF Contents
  <1>2. Functional(Nodes)  BY NodesAreFunctional
  <1>. HIDE DEF T
  <1>3. f \in [Nodes -> T]  BY <1>1
  <1>4. \A m, n \in Nodes : f[m] = f[n] => m = n  BY <1>2 DEF Functional
  <1>5. \A t \in T : \E n \in Nodes : f[n] = t  BY <1>1
  <1>6. f \in Bijection(Nodes, T)
    BY <1>3, <1>4, <1>5 DEF Bijection, Injection, Surjection, IsInjective
  <1>7. ExistsBijection(Nodes, T)  BY <1>6 DEF ExistsBijection
  <1>8. Cardinality(T) = Cardinality(Nodes)  BY <1>7, FS_Bijection DEF MapInv
  <1>. QED  BY <1>8 DEF MapInv, T

LEMMA PlacesAreCounted ==
  ASSUME MapInv
  PROVE  Cardinality(Held) = size
  <1>. DEFINE f == [p \in Held |-> HeldAt(p)]
  <1>1. /\ capacity \in Nat /\ Array(buckets, capacity) /\ cap \in Nat /\ Array(newBuckets, cap)
        /\ size \in Nat
    BY NodesAreFunctional, FS_CardinalityType DEF MapInv
  <1>2. \A i \in DOMAIN buckets : \A j \in DOMAIN buckets[i] :
          buckets[i][j] \in NodesOf(buckets)
    BY <1>1, InArray DEF ChainNodes
  <1>3. \A i \in DOMAIN newBuckets : \A j \in DOMAIN newBuckets[i] :
          newBuckets[i][j] \in NodesOf(newBuckets)
    BY <1>1, InArray DEF ChainNodes
  <1>4. \A i \in DOMAIN buckets : DOMAIN buckets[i] = 1 .. Len(buckets[i])
                                  /\ Len(buckets[i]) \in Nat /\ Len(buckets[i]) =< size
    BY <1>1, Places, ChainsAreCounted DEF Nodes
  <1>5. \A i \in DOMAIN newBuckets : DOMAIN newBuckets[i] = 1 .. Len(newBuckets[i])
                                     /\ Len(newBuckets[i]) \in Nat /\ Len(newBuckets[i]) =< size
    BY <1>1, Places, ChainsAreCounted DEF Nodes
  <1>6. \A p : p \in Held <=>
          \/ \E i \in DOMAIN buckets : \E j \in DOMAIN buckets[i] : p = <<0, i, j>>
          \/ \E i \in DOMAIN newBuckets : \E j \in DOMAIN newBuckets[i] : p = <<1, i, j>>
    <2>1. \A i \in DOMAIN buckets : \A j \in 1 .. size :
             <<0, i, j>> \in Held <=> j \in DOMAIN buckets[i]
      BY <1>4 DEF Held
    <2>2. \A i \in DOMAIN newBuckets : \A j \in 1 .. size :
             <<1, i, j>> \in Held <=> j \in DOMAIN newBuckets[i]
      BY <1>5 DEF Held
    <2>3. \A i \in DOMAIN buckets : \A j \in DOMAIN buckets[i] : j \in 1 .. size
      BY <1>1, <1>4
    <2>4. \A i \in DOMAIN newBuckets : \A j \in DOMAIN newBuckets[i] : j \in 1 .. size
      BY <1>1, <1>5
    <2>5. \A p \in Held : \/ \E i \in DOMAIN buckets, j \in 1 .. size : p = <<0, i, j>>
                          \/ \E i \in DOMAIN newBuckets, j \in 1 .. size : p = <<1, i, j>>
      BY DEF Held
    <2>. QED  BY <2>1, <2>2, <2>3, <2>4, <2>5
  <1>7. \A i \in DOMAIN buckets, j \in Nat : HeldAt(<<0, i, j>>) = buckets[i][j]
    BY DEF HeldAt
  <1>8. \A i \in DOMAIN newBuckets, j \in Nat : HeldAt(<<1, i, j>>) = newBuckets[i][j]
    BY DEF HeldAt
  <1>9. \A i \in DOMAIN buckets : \A j \in DOMAIN buckets[i] : j \in Nat  BY <1>4
  <1>10. \A i \in DOMAIN newBuckets : \A j \in DOMAIN newBuckets[i] : j \in Nat  BY <1>5
  <1>11. \A p \in Held :
           \/ \E i \in DOMAIN buckets : \E j \in DOMAIN buckets[i] :
                 p = <<0, i, j>> /\ HeldAt(p) = buckets[i][j] /\ HeldAt(p) \in NodesOf(buckets)
           \/ \E i \in DOMAIN newBuckets : \E j \in DOMAIN newBuckets[i] :
                 /\ p = <<1, i, j>> /\ HeldAt(p) = newBuckets[i][j]
                 /\ HeldAt(p) \in NodesOf(newBuckets)
    BY <1>2, <1>3, <1>6, <1>7, <1>8, <1>9, <1>10
  <1>12. f \in [Held -> Nodes]  BY <1>11 DEF Nodes
  <1>13. ASSUME NEW p \in Held, NEW q \in Held, HeldAt(p) = HeldAt(q)
         PROVE  p = q
    <2>1. /\ \A i, m \in DOMAIN buckets : \A j \in DOMAIN buckets[i], l \in DOMAIN buckets[m] :
                buckets[i][j].key = buckets[m][l].key => i = m /\ j = l
          /\ \A i, m \in DOMAIN newBuckets :
                \A j \in DOMAIN newBuckets[i], l \in DOMAIN newBuckets[m] :
                   newBuckets[i][j].key = newBuckets[m][l].key => i = m /\ j = l
      BY <1>1, Places
    <2>2. Apart(NodesOf(buckets), NodesOf(newBuckets))  BY DEF MapInv
    <2>. QED  BY <1>11, <1>13, <2>1, <2>2 DEF Apart
  <1>14. ASSUME NEW n \in Nodes PROVE \E p \in Held : HeldAt(p) = n
    <2>1. CASE n \in NodesOf(buckets)
      <3>1. PICK i \in DOMAIN buckets : n \in ChainNodes(buckets[i])  BY <2>1, <1>1, InArray
      <3>2. PICK j \in DOMAIN buckets[i] : n = buckets[i][j]  BY <3>1 DEF ChainNodes
      <3>. QED  BY <3>2, <1>6, <1>7, <1>9
    <2>2. CASE n \in NodesOf(newBuckets)
      <3>1. PICK i \in DOMAIN newBuckets : n \in ChainNodes(newBuckets[i])
        BY <2>2, <1>1, InArray
      <3>2. PICK j \in DOMAIN newBuckets[i] : n = newBuckets[i][j]  BY <3>1 DEF ChainNodes
      <3>. QED  BY <3>2, <1>6, <1>8, <1>10
    <2>. QED  BY <2>1, <2>2 DEF Nodes
  <1>15. f \in Injection(Held, Nodes) /\ f \in Surjection(Held, Nodes)
    BY <1>12, <1>13, <1>14 DEF Injection, Surjection, IsInjective
  <1>16. Cardinality(Held) = Cardinality(Nodes)  BY <1>15, FS_Injection DEF MapInv
  <1>. QED  BY <1>16 DEF MapInv

\* Every node is in the chain a lookup of its key walks, no key is held twice,
\* and size counts the nodes.
THEOREM NodesStayInPlace == Spec => []NodesInPlace
  <1>1. MapInv => NodesInPlace
    <2>. SUFFICES ASSUME MapInv PROVE NodesInPlace  OBVIOUS
    <2>1. /\ capacity \in Nat /\ Array(buckets, capacity)
          /\ cap \in Nat /\ Array(newBuckets, cap)
      BY NodesAreFunctional DEF MapInv
    <2>2. InPlace(buckets, capacity) /\ InPlace(newBuckets, cap)
      BY <2>1, InArray DEF InPlace, Array, Placed
    <2>3. /\ \A i \in DOMAIN buckets : Len(buckets[i]) =< size
          /\ \A i \in DOMAIN newBuckets : Len(newBuckets[i]) =< size
      BY <2>1, ChainsAreCounted DEF Nodes
    <2>. QED
      BY <2>2, <2>3, PlacesAreCounted, KeysAreCounted DEF NodesInPlace, Held
  <1>. QED  BY <1>1, HashMapInvariant, PTL

-----------------------------------------------------------------------------
\* Reservations.
Room == IF Rehashing THEN cap ELSE capacity
Enough == 2 * reserved =< maxLoad * Room
ReserveInv == reserved \in Nat /\ (oom \/ Enough)

\* Products of naturals grow with their factors.
LEMMA ScaledUp ==
  ASSUME NEW m \in Nat, NEW x \in Nat, NEW y \in Nat, x =< y
  PROVE  m * x =< m * y
  OBVIOUS

LEMMA NeededIsEnough ==
  ASSUME NEW n \in Nat, maxLoad \in Nat \ {0}
  PROVE  2 * n =< maxLoad * Needed(n) /\ Needed(n) \in Nat
  <1>. DEFINE a == 2 * n + maxLoad - 1
              q == a \div maxLoad
  <1>1. a \in Nat  OBVIOUS
  <1>. HIDE DEF a
  <1>2. a = maxLoad * q + (a % maxLoad) /\ q \in Nat  BY <1>1
  <1>3. a % maxLoad \in 0 .. maxLoad - 1  BY <1>1
  <1>4. Needed(n) = q  BY DEF Needed, a
  <1>. HIDE DEF q
  <1>. DEFINE z == maxLoad * q
  <1>5. z \in Nat  BY <1>2
  <1>6. a = z + (a % maxLoad)  BY <1>2
  <1>. HIDE DEF z
  <1>7. 2 * n =< z  BY <1>3, <1>5, <1>6 DEF a
  <1>. QED  BY <1>2, <1>4, <1>7 DEF z

\* An operation that leaves the reservation alone and takes no room away.
LEMMA RoomKept ==
  ASSUME MapInv, MapInv', ReserveInv, oom => oom', reserved' \in {0, reserved},
         ~ oom' => (maxLoad' = maxLoad /\ Room =< Room') \/ reserved' = 0
  PROVE  ReserveInv'
  <1>. DEFINE m == maxLoad
              n == maxLoad'
              r == Room
              q == Room'
  <1>1. /\ m \in Nat /\ n \in Nat /\ r \in Nat /\ q \in Nat
        /\ reserved \in Nat /\ reserved' \in Nat
    BY LoadAssumption, PowersArePositive DEF MapInv, ReserveInv, Room
  <1>2. Enough <=> 2 * reserved =< m * r  BY DEF Enough
  <1>3. Enough' <=> 2 * reserved' =< n * q  BY DEF Enough
  <1>. HIDE DEF m, n, r, q
  <1>4. m * r \in Nat /\ n * q \in Nat  BY <1>1
  <1>5. reserved' = 0 => 2 * reserved' =< n * q  BY <1>4
  <1>6. ASSUME n = m, r =< q, reserved' = reserved, Enough
        PROVE  2 * reserved' =< n * q
    <2>1. m * r =< m * q  BY <1>1, <1>6, ScaledUp
    <2>2. 2 * reserved =< m * r  BY <1>2, <1>6
    <2>. DEFINE x == m * r
                y == m * q
    <2>3. x \in Nat /\ y \in Nat /\ n * q = y  BY <1>1, <1>4, <1>6
    <2>4. x =< y /\ 2 * reserved =< x  BY <2>1, <2>2
    <2>. HIDE DEF x, y
    <2>5. 2 * reserved =< y  BY <1>1, <2>3, <2>4
    <2>. QED  BY <2>3, <2>5, <1>6
  <1>7. oom' \/ Enough'  BY <1>3, <1>5, <1>6 DEF ReserveInv, m, n, r, q
  <1>. QED  BY <1>1, <1>7 DEF ReserveInv

LEMMA ReserveStep ==
  ASSUME MapInv, IterInv, ReserveInv, Next
  PROVE  ReserveInv'
  <1>1. MapInv'  BY HashMapStep
  <1>2. reserved \in Nat  BY DEF ReserveInv
  <1>3. capacity \in Nat \ {0} /\ cap \in Nat  BY NodesAreFunctional
  <1>4. ASSUME NEW k \in Keys, NEW v \in Vals, ~ Rehashing, AddNode(k, v)
        PROVE  ReserveInv'
    <2>1. CASE StartRehash(2 * capacity)
      <3>1. 2 * capacity \in Int  BY <1>3
      <3>2. oom' = TRUE \/ (oom' = oom /\ cap' \in Powers /\ cap' >= 2 * capacity)
        BY <1>4, <2>1, <3>1, RehashStarts
      <3>3. cap' \in Powers => cap' \in Nat \ {0}  BY PowersArePositive
      <3>4. ~ oom' => maxLoad' = maxLoad /\ Room =< Room'
        BY <1>3, <1>4, <3>2, <3>3 DEF AddNode, Room, Rehashing
      <3>. QED  BY <1>1, <1>2, <1>4, <3>2, <3>4, RoomKept DEF AddNode
    <2>2. CASE NoRehash
      <3>1. maxLoad' = maxLoad /\ Room' = Room /\ oom' = oom /\ reserved' = reserved
        BY <1>4, <2>2 DEF AddNode, NoRehash, Room, Rehashing
      <3>. QED  BY <3>1 DEF ReserveInv, Enough
    <2>. QED  BY <1>4, <2>1, <2>2 DEF AddNode
  <1>5. ASSUME UNCHANGED <<capacity, cap, maxLoad, reserved>>, oom' \in {oom, TRUE}
        PROVE  ReserveInv'
    <2>1. Room' = Room  BY <1>5 DEF Room, Rehashing
    <2>. QED  BY <1>5, <2>1 DEF ReserveInv, Enough
  <1>6. ASSUME NEW k \in Keys, NEW v \in Vals, Insert(k, v) \/ Put(k, v)
        PROVE  ReserveInv'
    <2>1. CASE ~ Rehashing /\ AddNode(k, v)  BY <1>4, <2>1
    <2>2. CASE UNCHANGED <<capacity, cap, maxLoad, reserved, oom>>  BY <1>5, <2>2
    <2>. QED  BY <1>6, <2>1, <2>2 DEF Insert, Put, mapVars
  <1>7. ASSUME NEW k \in Keys, NoMemory(k) \/ Get(k) \/ Erase(k)
        PROVE  ReserveInv'
    BY <1>5, <1>7 DEF NoMemory, Get, Erase, mapVars
  <1>8. CASE Clear \/ MoveNode \/ Begin \/ IterNext \/ EraseIter
    BY <1>5, <1>8 DEF Clear, MoveNode, Begin, IterNext, EraseIter, mapVars
  <1>9. CASE SwapArrays
    <2>1. /\ Room' = Room /\ maxLoad' = maxLoad /\ oom' = oom /\ reserved' = reserved
      BY <1>9 DEF SwapArrays, Room, Rehashing
    <2>. QED  BY <2>1 DEF ReserveInv, Enough
  <1>10. ASSUME NEW c \in 0 .. MaxCapacity, Rehash(c)
         PROVE  ReserveInv'
    <2>1. reserved' = 0 /\ (oom => oom')  BY <1>10 DEF Rehash, StartRehash
    <2>. QED  BY <1>1, <2>1, RoomKept
  <1>11. ASSUME NEW m \in MaxLoads, SetMaxLoadFactor(m)
         PROVE  ReserveInv'
    <2>1. reserved' = 0 /\ oom' = oom  BY <1>11 DEF SetMaxLoadFactor
    <2>. QED  BY <1>1, <1>2, <2>1, RoomKept
  <1>12. ASSUME NEW n \in 0 .. Cardinality(Keys), Reserve(n)
         PROVE  ReserveInv'
    <2>1. /\ maxLoad \in Nat \ {0} /\ n \in Nat /\ ~ Rehashing
          /\ reserved' = n /\ UNCHANGED <<capacity, maxLoad>>
      BY <1>12, LoadAssumption DEF MapInv, Reserve
    <2>2. 2 * n =< maxLoad * Needed(n) /\ Needed(n) \in Nat  BY <2>1, NeededIsEnough
    <2>3. ~ oom' => Needed(n) =< Room' /\ Room' \in Nat
      <3>1. CASE StartRehash(Needed(n))
        <4>1. Needed(n) \in Int  BY <2>2
        <4>2. oom' = TRUE \/ (oom' = oom /\ cap' \in Powers /\ cap' >= Needed(n))
          BY <2>1, <3>1, <4>1, RehashStarts
        <4>3. cap' \in Powers => cap' \in Nat \ {0}  BY PowersArePositive
        <4>. QED  BY <2>2, <4>2, <4>3 DEF Room, Rehashing
      <3>2. CASE Needed(n) =< capacity /\ NoRehash
        BY <1>3, <2>1, <3>2 DEF Room, Rehashing, NoRehash
      <3>. QED  BY <1>12, <3>1, <3>2 DEF Reserve
    <2>5. ASSUME ~ oom' PROVE 2 * n =< maxLoad * Room'
      <3>1. maxLoad * Needed(n) =< maxLoad * Room'  BY <2>1, <2>2, <2>3, <2>5, ScaledUp
      <3>2. maxLoad * Needed(n) \in Int /\ maxLoad * Room' \in Int
        BY <2>1, <2>2, <2>3, <2>5
      <3>. QED  BY <2>1, <2>2, <3>1, <3>2
    <2>. QED  BY <2>1, <2>5 DEF ReserveInv, Enough
  <1>. QED  BY <1>6, <1>7, <1>8, <1>9, <1>10, <1>11, <1>12 DEF Next

LEMMA ReserveInit == Init => ReserveInv
  <1>. SUFFICES ASSUME Init PROVE ReserveInv  OBVIOUS
  <1>1. maxLoad \in Nat /\ Room \in Nat
    BY LoadAssumption, CapacityAssumption, PowersArePositive DEF Init, Room, Rehashing
  <1>. DEFINE room == maxLoad * Room
  <1>2. room \in Nat  BY <1>1
  <1>. HIDE DEF room
  <1>3. reserved = 0 /\ 2 * reserved =< room  BY <1>2 DEF Init
  <1>. QED  BY <1>3 DEF ReserveInv, Enough, room

LEMMA ReserveStutters == ReserveInv /\ UNCHANGED vars => ReserveInv'
  BY DEF ReserveInv, Enough, vars, mapVars, Room, Rehashing

\* After a reservation no insertion up to the promised count moves the buckets,
\* unless an allocation has failed.
THEOREM ReservationsHold == Spec => ReserveHolds
  <1>1. MapInv /\ IterInv /\ ReserveInv /\ [Next]_vars
          => [~ Rehashing /\ cap' # 0 /\ size' > size => size' > reserved \/ oom]_vars
    <2>. SUFFICES ASSUME MapInv, IterInv, ReserveInv, Next, ~ Rehashing, cap' # 0,
                         size' > size, ~ oom
                  PROVE  size' > reserved
      OBVIOUS
    <2>1. /\ cap = 0 /\ size \in Nat /\ capacity \in Nat /\ reserved \in Nat
          /\ maxLoad \in Nat
      BY AtRest, NodesAreFunctional, FS_CardinalityType, LoadAssumption
      DEF MapInv, ReserveInv
    <2>2. \/ \E k \in Keys, v \in Vals : AddNode(k, v)
          \/ size' = size \/ size' = size - 1 \/ size' = 0
      BY DEF Next, Insert, Put, NoMemory, Get, Erase, Clear, Rehash, Reserve,
             SetMaxLoadFactor, MoveNode, SwapArrays, Begin, IterNext, EraseIter, mapVars
    <2>3. PICK k \in Keys, v \in Vals : AddNode(k, v)  BY <2>1, <2>2
    <2>4. size' = size + 1 /\ Overloaded(size + 1)
      BY <2>1, <2>3 DEF AddNode, NoRehash
    <2>. DEFINE room == maxLoad * capacity
    <2>5. 2 * (size + 1) > room  BY <2>4 DEF Overloaded
    <2>6. 2 * reserved =< room  BY DEF ReserveInv, Enough, Room
    <2>7. room \in Nat  BY <2>1
    <2>. HIDE DEF room
    <2>. QED  BY <2>1, <2>4, <2>5, <2>6, <2>7
  <1>2. MapInv /\ IterInv /\ ReserveInv /\ [Next]_vars => ReserveInv'
    BY ReserveStep, ReserveStutters
  <1>. QED
    BY <1>1, <1>2, ReserveInit, HashMapInvariant, PTL DEF Spec, ReserveHolds
=============================================================================
