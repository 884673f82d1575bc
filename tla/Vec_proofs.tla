------------------------------ MODULE Vec_proofs -----------------------------
(***************************************************************************)
(* The vectors of the running program, for any number of variables, any    *)
(* sizes and any answers of malloc and realloc.                            *)
(***************************************************************************)
EXTENDS Vec, TLAPS

Cell == Items \cup {Junk}

\* The heap: blocks handed out so far, each a row of cells.
HeapInv == /\ next \in 0 .. MaxBlocks
           /\ DOMAIN heap \subseteq 1 .. next
           /\ heap \in [DOMAIN heap -> Seq(Cell)]
\* The structs: none points to a block not handed out yet, and each has the
\* size of what the programmer put in, copied or not.
StructInv ==
  /\ vecs \in [Vars -> [data : 0 .. next, size : 0 .. MaxSize, capacity : Nat]]
  /\ model \in [Vars -> Seq(Items)]
  /\ \A x \in Vars : /\ vecs[x].size <= vecs[x].capacity /\ Len(model[x]) = vecs[x].size
                     /\ vecs[x].data = Null => vecs[x].capacity = 0
\* A struct with a block of its own, and the elements in it.
Owns(x) ==
  vecs[x].data # Null =>
    /\ Live(x) /\ Len(heap[vecs[x].data]) = vecs[x].capacity
    /\ \A i \in 1 .. vecs[x].size : heap[vecs[x].data][i] = model[x][i]
    /\ \A y \in Vars \ {x} : vecs[y].data # vecs[x].data
MemoryInv == /\ HeapInv /\ StructInv /\ private \subseteq Vars
             /\ \A x \in private : Owns(x)
             /\ outcome \in {"running", "panic", "wild"} /\ AppendStaysInside

-----------------------------------------------------------------------------
\* Sequences.
LEMMA WriteElement ==
  ASSUME NEW S, NEW s \in Seq(S), NEW i \in 1 .. Len(s), NEW v \in S
  PROVE  /\ [s EXCEPT ![i] = v] \in Seq(S) /\ Len([s EXCEPT ![i] = v]) = Len(s)
         /\ [s EXCEPT ![i] = v][i] = v
         /\ \A j \in 1 .. Len(s) : j # i => [s EXCEPT ![i] = v][j] = s[j]
  OBVIOUS

LEMMA LiteralsAreSequences ==
  ASSUME NEW items \in Literals
  PROVE  items \in Seq(Items) /\ Len(items) \in 0 .. MaxSize
  <1>1. PICK n \in 0 .. MaxLiteral : items \in [1 .. n -> Items]  BY DEF Literals
  <1>2. n \in Nat /\ n \in 0 .. MaxSize  BY BoundsAssumption
  <1>. QED  BY <1>1, <1>2

\* What realloc keeps.
LEMMA ResizedKeeps ==
  ASSUME NEW cells \in Seq(Cell), NEW c \in Nat
  PROVE  /\ Resized(cells, c) \in Seq(Cell) /\ Len(Resized(cells, c)) = c
         /\ \A i \in 1 .. c : i <= Len(cells) => Resized(cells, c)[i] = cells[i]
  <1>. DEFINE r == Resized(cells, c)
  <1>1. r = [i \in 1 .. c |-> IF i \in DOMAIN cells THEN cells[i] ELSE Junk]  BY DEF Resized
  <1>2. \A i \in 1 .. c : (IF i \in DOMAIN cells THEN cells[i] ELSE Junk) \in Cell  BY DEF Cell
  <1>3. r \in [1 .. c -> Cell]  BY <1>1, <1>2
  <1>4. r \in Seq(Cell) /\ Len(r) = c  BY <1>3
  <1>. QED  BY <1>1, <1>4

\* An index that is compared as an unsigned number.
LEMMA Unsigned ==
  ASSUME NEW i \in Indices, NEW n \in 0 .. MaxSize
  PROVE  InBounds(i, n) <=> i \in 0 .. n - 1
  <1>. DEFINE w == 2 ^ IndexBits
  <1>1. w \in Nat /\ w > MaxSize /\ i \in Int /\ i < w /\ (i < 0 => i + w > MaxSize)
    BY IndexAssumption
  <1>2. MaxSize \in Nat  BY BoundsAssumption
  <1>. HIDE DEF w
  <1>3. i >= 0 => i % w = i  BY <1>1
  <1>4. i < 0 => i % w = i + w  BY <1>1, <1>2
  <1>5. InBounds(i, n) <=> i % w < n  BY DEF InBounds, w
  <1>. QED  BY <1>1, <1>2, <1>3, <1>4, <1>5

-----------------------------------------------------------------------------
LEMMA MemoryInit == Init => MemoryInv
  <1>. SUFFICES ASSUME Init PROVE MemoryInv  OBVIOUS
  <1>1. HeapInv  BY BoundsAssumption DEF Init, HeapInv, Null
  <1>2. StructInv  BY BoundsAssumption DEF Init, StructInv, NullVec, Null
  <1>3. \A x \in Vars : Owns(x)  BY DEF Init, Owns, NullVec, Null
  <1>. QED  BY <1>1, <1>2, <1>3 DEF Init, MemoryInv, AppendStaysInside

\* Other variables do not notice what happens to a block they do not have.
LEMMA OthersKeep ==
  ASSUME MemoryInv, NEW x \in Vars, NEW z \in private, z # x,
         vecs'[z] = vecs[z], model'[z] = model[z],
         vecs[z].data # Null => /\ vecs[z].data \in DOMAIN heap'
                                /\ heap'[vecs[z].data] = heap[vecs[z].data],
         \A y \in Vars \ {z} : vecs'[y].data # vecs[y].data =>
            vecs'[y].data # vecs[z].data \/ vecs[z].data = Null
  PROVE  Owns(z)'
  BY DEF MemoryInv, Owns, Live

LEMMA DeclareKeeps ==
  ASSUME MemoryInv, NEW x \in Vars, NEW items \in Literals, Declare(x, items)
  PROVE  MemoryInv'
  <1>. HeapInv /\ StructInv /\ private \subseteq Vars  BY DEF MemoryInv
  <1>1. items \in Seq(Items) /\ Len(items) \in 0 .. MaxSize /\ items \in Seq(Cell)
    BY LiteralsAreSequences DEF Cell
  <1>2. next \in Nat /\ MaxBlocks \in Nat /\ MaxSize \in Nat
    BY BoundsAssumption DEF HeapInv
  <1>3. /\ private' = private \cup {x} /\ private' \subseteq Vars
        /\ outcome' = "running" /\ AppendStaysInside'
    BY DEF Declare, AppendStaysInside, Running
  <1>4. CASE /\ next' = next + 1 /\ next < MaxBlocks /\ items # <<>>
             /\ heap' = Put(heap, next', items)
             /\ vecs' = [vecs EXCEPT ![x] =
                  [data |-> next', size |-> Len(items), capacity |-> Len(items)]]
             /\ model' = [model EXCEPT ![x] = items]
    <2>1. /\ DOMAIN heap' = DOMAIN heap \cup {next'} /\ heap'[next'] = items
          /\ \A b \in DOMAIN heap : heap'[b] = heap[b]
      BY <1>2, <1>4 DEF Put, HeapInv
    <2>2. HeapInv'
      <3>1. next' \in 0 .. MaxBlocks /\ DOMAIN heap' \subseteq 1 .. next'
        BY <1>2, <1>4, <2>1 DEF HeapInv
      <3>2. heap' = [b \in DOMAIN heap' |-> heap'[b]]  BY <1>4 DEF Put
      <3>3. \A b \in DOMAIN heap' : heap'[b] \in Seq(Cell)  BY <1>1, <2>1 DEF HeapInv
      <3>. QED  BY <3>1, <3>2, <3>3 DEF HeapInv
    <2>3. StructInv'
      BY <1>1, <1>2, <1>4 DEF StructInv, Null
    <2>4. Owns(x)'
      <3>1. vecs'[x] = [data |-> next', size |-> Len(items), capacity |-> Len(items)]
            /\ model'[x] = items
        BY <1>4 DEF StructInv
      <3>2. \A y \in Vars \ {x} : vecs'[y].data # next'
        BY <1>2, <1>4 DEF StructInv
      <3>. QED  BY <2>1, <3>1, <3>2 DEF Owns, Live
    <2>5. ASSUME NEW z \in private, z # x PROVE Owns(z)'
      <3>1. vecs'[z] = vecs[z] /\ model'[z] = model[z]  BY <1>4, <2>5 DEF StructInv
      <3>2. vecs[z].data # Null => vecs[z].data \in DOMAIN heap
        BY <2>5 DEF MemoryInv, Owns, Live
      <3>3. vecs[z].data # next'  BY <1>2, <1>4 DEF StructInv
      <3>4. \A y \in Vars \ {z} : vecs'[y].data # vecs[y].data => vecs'[y].data # vecs[z].data
        BY <1>4, <3>3 DEF StructInv
      <3>. QED  BY <2>1, <2>5, <3>1, <3>2, <3>4, OthersKeep
    <2>6. \A z \in private' : Owns(z)'  BY <1>3, <2>4, <2>5
    <2>. QED  BY <1>3, <2>2, <2>3, <2>6 DEF MemoryInv
  <1>5. CASE /\ vecs' = [vecs EXCEPT ![x] = NullVec]
             /\ model' = [model EXCEPT ![x] = <<>>]
             /\ UNCHANGED <<heap, next>>
    <2>1. HeapInv'  BY <1>5 DEF HeapInv
    <2>2. StructInv'  BY <1>2, <1>5 DEF StructInv, NullVec, Null
    <2>3. Owns(x)'  BY <1>5 DEF Owns, StructInv, NullVec
    <2>4. ASSUME NEW z \in private, z # x PROVE Owns(z)'
      <3>1. vecs'[z] = vecs[z] /\ model'[z] = model[z]  BY <1>5, <2>4 DEF StructInv
      <3>2. vecs[z].data # Null => vecs[z].data \in DOMAIN heap
        BY <2>4 DEF MemoryInv, Owns, Live
      <3>3. \A y \in Vars \ {z} : vecs'[y].data # vecs[y].data => vecs'[y].data = Null
        BY <1>5 DEF StructInv, NullVec
      <3>. QED  BY <1>5, <2>4, <3>1, <3>2, <3>3, OthersKeep
    <2>5. \A z \in private' : Owns(z)'  BY <1>3, <2>3, <2>4
    <2>. QED  BY <1>3, <2>1, <2>2, <2>5 DEF MemoryInv
  <1>. QED  BY <1>4, <1>5 DEF Declare

LEMMA AssignKeeps ==
  ASSUME MemoryInv, NEW x \in Vars, NEW y \in Vars, Assign(y, x)
  PROVE  MemoryInv'
  <1>. HeapInv /\ StructInv /\ private \subseteq Vars  BY DEF MemoryInv
  <1>1. /\ x # y /\ vecs' = [vecs EXCEPT ![y] = vecs[x]] /\ model' = [model EXCEPT ![y] = model[x]]
        /\ private' = IF vecs[x].data = Null THEN private \cup {y} ELSE private \ {x, y}
        /\ UNCHANGED <<heap, next>> /\ outcome' = "running"
    BY DEF Assign, Running
  <1>2. HeapInv'  BY <1>1 DEF HeapInv
  <1>3. StructInv'  BY <1>1 DEF StructInv
  <1>4. private' \subseteq Vars  BY <1>1
  <1>5. AppendStaysInside'  BY <1>1 DEF AppendStaysInside
  <1>6. ASSUME NEW z \in private, z # y, vecs[x].data = Null \/ z # x PROVE Owns(z)'
    <2>1. vecs'[z] = vecs[z] /\ model'[z] = model[z]  BY <1>1, <1>6 DEF StructInv
    <2>2. /\ vecs[z].data # Null => vecs[z].data \in DOMAIN heap
          /\ vecs[z].data # Null /\ z # x => vecs[x].data # vecs[z].data
      BY <1>6 DEF MemoryInv, Owns, Live
    <2>3. \A w \in Vars \ {z} : vecs'[w].data # vecs[w].data =>
            vecs'[w].data # vecs[z].data \/ vecs[z].data = Null
      BY <1>1, <1>6, <2>2 DEF StructInv
    <2>. QED  BY <1>1, <1>6, <2>1, <2>2, <2>3, OthersKeep
  <1>7. vecs[x].data = Null => Owns(y)'
    BY <1>1 DEF Owns, StructInv
  <1>8. \A z \in private' : Owns(z)'
    <2>1. CASE vecs[x].data = Null  BY <1>1, <1>6, <1>7, <2>1
    <2>2. CASE vecs[x].data # Null  BY <1>1, <1>6, <2>2
    <2>. QED  BY <2>1, <2>2
  <1>. QED  BY <1>1, <1>2, <1>3, <1>4, <1>5, <1>8 DEF MemoryInv

\* The end of an append: block b, new or the vector's own, has the elements so
\* far and room for one more.
LEMMA StoreKeeps ==
  ASSUME MemoryInv, Running, NEW x \in Vars, NEW b, NEW c \in Nat, NEW item \in Items,
         NEW cells \in Seq(Cell), vecs[x].size < MaxSize, vecs[x].size < c, vecs[x].size < Len(cells),
         x \in private => Len(cells) = c,
         x \in private => \A i \in 1 .. vecs[x].size : cells[i] = model[x][i],
         \/ b = next + 1 /\ next < MaxBlocks /\ next' = next + 1
         \/ b = vecs[x].data /\ Live(x) /\ next' = next,
         Store(x, b, c, item, cells), UNCHANGED private, outcome' = "running"
  PROVE  MemoryInv'
  <1>. HeapInv /\ StructInv /\ private \subseteq Vars  BY DEF MemoryInv
  <1>. DEFINE n == vecs[x].size
              filled == [cells EXCEPT ![n + 1] = item]
  <1>1. /\ next \in Nat /\ MaxBlocks \in Nat /\ MaxSize \in Nat /\ n \in Nat
        /\ vecs[x].data \in 0 .. next /\ Len(model[x]) = n /\ model[x] \in Seq(Items)
    BY BoundsAssumption DEF HeapInv, StructInv
  <1>2. /\ filled \in Seq(Cell) /\ Len(filled) = Len(cells) /\ filled[n + 1] = item
        /\ \A i \in 1 .. n : filled[i] = cells[i]
    <2>1. n + 1 \in 1 .. Len(cells) /\ item \in Cell  BY <1>1 DEF Cell
    <2>2. \A i \in 1 .. n : i \in 1 .. Len(cells) /\ i # n + 1  BY <1>1
    <2>. HIDE DEF n
    <2>. QED  BY <2>1, <2>2, WriteElement
  <1>3. /\ heap' = Put(Without(heap, vecs[x].data), b, filled)
        /\ vecs' = [vecs EXCEPT ![x] = [data |-> b, size |-> n + 1, capacity |-> c]]
        /\ model' = [model EXCEPT ![x] = Append(model[x], item)]
    BY DEF Store, StructInv
  <1>4. /\ Append(model[x], item) \in Seq(Items) /\ Len(Append(model[x], item)) = n + 1
        /\ Append(model[x], item)[n + 1] = item
        /\ \A i \in 1 .. n : Append(model[x], item)[i] = model[x][i]
    BY <1>1
  <1>5. /\ vecs'[x] = [data |-> b, size |-> n + 1, capacity |-> c]
        /\ model'[x] = Append(model[x], item)
        /\ \A y \in Vars \ {x} : vecs'[y] = vecs[y] /\ model'[y] = model[y]
    BY <1>3 DEF StructInv
  <1>. HIDE DEF filled, n
  <1>6. /\ DOMAIN heap' = (DOMAIN heap \ {vecs[x].data}) \cup {b} /\ heap'[b] = filled
        /\ \A d \in DOMAIN heap \ {vecs[x].data, b} : heap'[d] = heap[d]
    BY <1>3 DEF Put, Without
  <1>7. b \in 1 .. next' /\ next' \in next .. MaxBlocks /\ next' \in Nat
    <2>1. next \in 0 .. MaxBlocks  BY DEF HeapInv
    <2>2. CASE b = next + 1 /\ next < MaxBlocks /\ next' = next + 1  BY <1>1, <2>1, <2>2
    <2>3. CASE b = vecs[x].data /\ Live(x) /\ next' = next
      BY <1>1, <2>1, <2>3 DEF Live, HeapInv
    <2>. QED  BY <2>2, <2>3
  <1>8. HeapInv'
    <2>1. DOMAIN heap' \subseteq 1 .. next'  BY <1>1, <1>6, <1>7 DEF HeapInv
    <2>2. \A d \in DOMAIN heap' : heap'[d] \in Seq(Cell)  BY <1>2, <1>6 DEF HeapInv
    <2>3. heap' = [d \in DOMAIN heap' |-> heap'[d]]  BY <1>3 DEF Put
    <2>. QED  BY <1>1, <1>6, <1>7, <2>1, <2>2, <2>3 DEF HeapInv
  <1>9. StructInv'
    <2>1. \A y \in Vars : vecs'[y] \in [data : 0 .. next', size : 0 .. MaxSize, capacity : Nat]
      <3>1. vecs'[x] \in [data : 0 .. next', size : 0 .. MaxSize, capacity : Nat]
        BY <1>1, <1>5, <1>7 DEF n
      <3>2. ASSUME NEW y \in Vars \ {x}
            PROVE  vecs'[y] \in [data : 0 .. next', size : 0 .. MaxSize, capacity : Nat]
        BY <1>1, <1>5, <1>7 DEF StructInv
      <3>. QED  BY <3>1, <3>2
    <2>2. vecs' \in [Vars -> [data : 0 .. next', size : 0 .. MaxSize, capacity : Nat]]
      BY <1>3, <2>1 DEF StructInv
    <2>3. model' \in [Vars -> Seq(Items)]  BY <1>3, <1>4 DEF StructInv
    <2>4. \A y \in Vars : /\ vecs'[y].size <= vecs'[y].capacity /\ Len(model'[y]) = vecs'[y].size
                          /\ vecs'[y].data = Null => vecs'[y].capacity = 0
      <3>1. /\ vecs'[x].size <= vecs'[x].capacity /\ Len(model'[x]) = vecs'[x].size
            /\ vecs'[x].data # Null
        BY <1>1, <1>4, <1>5, <1>7 DEF Null, n
      <3>. QED  BY <1>5, <3>1 DEF StructInv
    <2>. QED  BY <2>2, <2>3, <2>4 DEF StructInv
  <1>10. ASSUME x \in private PROVE Owns(x)'
    <2>1. \A i \in 1 .. n + 1 : filled[i] = model'[x][i]
      BY <1>1, <1>2, <1>4, <1>5, <1>10 DEF n
    <2>2. \A y \in Vars \ {x} : vecs'[y].data # b
      <3>1. CASE b = next + 1  BY <1>1, <1>5, <3>1 DEF StructInv
      <3>2. CASE b = vecs[x].data /\ Live(x)
        <4>1. vecs[x].data # Null  BY <3>2 DEF Live, HeapInv, Null
        <4>2. \A y \in Vars \ {x} : vecs[y].data # vecs[x].data
          BY <1>10, <4>1 DEF MemoryInv, Owns
        <4>. QED  BY <1>5, <3>2, <4>2
      <3>. QED  BY <3>1, <3>2
    <2>3. vecs'[x].data = b /\ vecs'[x].size = n + 1 /\ vecs'[x].capacity = c  BY <1>5
    <2>4. b \in DOMAIN heap' /\ heap'[b] = filled /\ Len(filled) = c  BY <1>2, <1>6, <1>10
    <2>. QED  BY <2>1, <2>2, <2>3, <2>4 DEF Owns, Live
  <1>11. ASSUME NEW z \in private, z # x PROVE Owns(z)'
    <2>1. vecs[z].data # Null => /\ vecs[z].data \in DOMAIN heap
                                 /\ vecs[x].data # vecs[z].data
      BY <1>11 DEF MemoryInv, Owns, Live
    <2>2. vecs[z].data # Null => b # vecs[z].data
      BY <1>1, <1>11, <2>1 DEF StructInv
    <2>. QED  BY <1>5, <1>6, <1>11, <2>1, <2>2, OthersKeep
  <1>12. \A z \in private' : Owns(z)'  BY <1>10, <1>11
  <1>13. AppendStaysInside'  BY DEF AppendStaysInside
  <1>. QED  BY <1>8, <1>9, <1>12, <1>13 DEF MemoryInv

\* An append that goes astray leaves everything as it is, and does so with
\* vectors that were copied only.
LEMMA AstrayKeeps ==
  ASSUME MemoryInv, NEW x \in Vars, Astray(x), UNCHANGED private, x \notin private
  PROVE  MemoryInv'
  <1>1. last'.private = FALSE /\ outcome' = "wild"
    <2>. DEFINE copied == x \in private
    <2>1. last' = [NoAccess EXCEPT !.private = copied] /\ outcome' = "wild"  BY DEF Astray
    <2>2. copied = FALSE  OBVIOUS
    <2>. HIDE DEF copied
    <2>. QED  BY <2>1, <2>2 DEF NoAccess
  <1>2. HeapInv' /\ StructInv'
    <2>1. UNCHANGED <<vecs, heap, next, model>>  BY DEF Astray
    <2>. QED  BY <2>1 DEF MemoryInv, HeapInv, StructInv
  <1>3. \A z \in private' : Owns(z)'
    <2>1. UNCHANGED <<vecs, heap, next, model>>  BY DEF Astray
    <2>. QED  BY <2>1 DEF MemoryInv, Owns, Live
  <1>. QED  BY <1>1, <1>2, <1>3 DEF MemoryInv, AppendStaysInside

LEMMA AppendInPlaceKeeps ==
  ASSUME MemoryInv, NEW x \in Vars, NEW item \in Items, AppendInPlace(x, item)
  PROVE  MemoryInv'
  <1>. HeapInv /\ StructInv /\ private \subseteq Vars  BY DEF MemoryInv
  <1>. DEFINE v == vecs[x]
  <1>1. /\ v.size \in Nat /\ v.capacity \in Nat /\ v.size < v.capacity /\ v.size < MaxSize
        /\ v.data # Null
    BY DEF AppendInPlace, Full, StructInv
  <1>2. x \in private => /\ Live(x) /\ Len(heap[v.data]) = v.capacity
                         /\ \A i \in 1 .. v.size : heap[v.data][i] = model[x][i]
    BY <1>1 DEF MemoryInv, Owns
  <1>3. CASE /\ Live(x) /\ v.size < Len(heap[v.data])
             /\ Store(x, v.data, v.capacity, item, heap[v.data])
             /\ UNCHANGED <<next, outcome>>
    <2>1. heap[v.data] \in Seq(Cell)  BY <1>3 DEF HeapInv, Live
    <2>. QED  BY <1>1, <1>2, <1>3, <2>1, StoreKeeps DEF AppendInPlace, Running
  <1>4. CASE ~ (Live(x) /\ v.size < Len(heap[v.data])) /\ Astray(x)
    BY <1>1, <1>2, <1>4, AstrayKeeps DEF AppendInPlace
  <1>. QED  BY <1>3, <1>4 DEF AppendInPlace

LEMMA AppendGrowingKeeps ==
  ASSUME MemoryInv, NEW x \in Vars, NEW item \in Items, AppendGrowing(x, item)
  PROVE  MemoryInv'
  <1>. HeapInv /\ StructInv /\ private \subseteq Vars  BY DEF MemoryInv
  <1>. DEFINE v == vecs[x]
              c == Grown(v)
              before == IF v.data = Null THEN <<>> ELSE heap[v.data]
              cells == Resized(before, c)
  <1>1. /\ v.size \in Nat /\ v.capacity \in Nat /\ v.size = v.capacity /\ v.size < MaxSize
        /\ v.data = Null => v.size = 0
    BY DEF AppendGrowing, Full, StructInv
  <1>2. c \in Nat /\ v.size < c  BY <1>1, CapacityAssumption DEF Grown
  <1>3. x \in private /\ v.data # Null =>
          /\ Live(x) /\ Len(heap[v.data]) = v.capacity
          /\ \A i \in 1 .. v.size : heap[v.data][i] = model[x][i]
    BY DEF MemoryInv, Owns
  <1>4. ASSUME v.data \in DOMAIN heap \cup {Null}
        PROVE  /\ cells \in Seq(Cell) /\ Len(cells) = c
               /\ x \in private => \A i \in 1 .. v.size : cells[i] = model[x][i]
    <2>1. before \in Seq(Cell)  BY <1>4 DEF HeapInv
    <2>2. /\ cells \in Seq(Cell) /\ Len(cells) = c
          /\ \A i \in 1 .. c : i <= Len(before) => cells[i] = before[i]
      <3>. HIDE DEF before, c
      <3>. QED  BY <1>2, <2>1, ResizedKeeps
    <2>3. x \in private => \A i \in 1 .. v.size : i \in 1 .. c /\ i <= Len(before) /\ before[i] = model[x][i]
      <3>1. CASE v.data = Null  BY <1>1, <3>1
      <3>2. CASE v.data # Null  BY <1>1, <1>2, <1>3, <3>2
      <3>. QED  BY <3>1, <3>2
    <2>. QED  BY <2>2, <2>3
  <1>. HIDE DEF cells, c, before
  <1>5. ASSUME v.data \in DOMAIN heap \cup {Null}, Store(x, next + 1, c, item, cells),
               next < MaxBlocks, next' = next + 1, UNCHANGED <<outcome, private>>, Running
        PROVE  MemoryInv'
    BY <1>1, <1>2, <1>4, <1>5, StoreKeeps DEF Running
  <1>6. ASSUME Live(x), Store(x, v.data, c, item, cells), UNCHANGED <<next, outcome, private>>, Running
        PROVE  MemoryInv'
    BY <1>1, <1>2, <1>4, <1>6, StoreKeeps DEF Running, Live
  <1>7. ASSUME UNCHANGED <<heap, vecs, next, model, outcome, private>>, Running
        PROVE  MemoryInv'
    <2>1. HeapInv' /\ StructInv'  BY <1>7 DEF HeapInv, StructInv
    <2>2. \A z \in private' : Owns(z)'  BY <1>7 DEF MemoryInv, Owns, Live
    <2>. QED  BY <1>7, <2>1, <2>2 DEF MemoryInv, AppendStaysInside, Running
  <1>8. CASE ~ Live(x) /\ v.data # Null /\ Astray(x)
    BY <1>3, <1>8, AstrayKeeps DEF AppendGrowing
  <1>. QED  BY <1>5, <1>6, <1>7, <1>8 DEF AppendGrowing, cells, c, before

\* What is remembered of an access.
LEMMA AccessIsRemembered ==
  ASSUME NEW x \in Vars, NEW i, NEW j, Access(x, i, j)
  PROVE  /\ last'.var = x /\ last'.var # "none" /\ last'.first = i /\ last'.second = j
         /\ last'.private <=> x \in private
         /\ outcome' = "running" => last'.got = heap[vecs[x].data][j + 1]
         /\ outcome' \in {"running", "panic", "wild"}
         /\ outcome' = "running" => Hits(x, j)
  <1>. DEFINE mine == x \in private
              it == IF outcome' = "running" THEN heap[vecs[x].data][j + 1] ELSE Junk
  <1>1. last' = [var |-> x, private |-> mine, first |-> i, second |-> j, got |-> it]
    BY DEF Access
  <1>2. outcome' = IF ~ InBounds(i, vecs[x].size) THEN "panic"
                   ELSE IF Hits(x, j) THEN "running" ELSE "wild"
    BY DEF Access
  <1>3. last'.private = mine
    <2>. HIDE DEF mine, it
    <2>. QED  BY <1>1
  <1>4. last'.var = x /\ last'.first = i /\ last'.second = j /\ last'.got = it
    <2>. HIDE DEF mine, it
    <2>. QED  BY <1>1
  <1>5. last'.private <=> x \in private  BY <1>3, Zenon
  <1>. QED  BY <1>2, <1>4, <1>5, VarsAssumption

LEMMA GetKeeps ==
  ASSUME MemoryInv, NEW x \in Vars, NEW i, NEW j, Access(x, i, j),
         UNCHANGED <<vecs, heap, next, model, private>>
  PROVE  MemoryInv'
  <1>1. HeapInv' /\ StructInv'  BY DEF MemoryInv, HeapInv, StructInv
  <1>2. \A z \in private' : Owns(z)'  BY DEF MemoryInv, Owns, Live
  <1>3. AppendStaysInside' /\ outcome' \in {"running", "panic", "wild"}
    BY AccessIsRemembered DEF AppendStaysInside
  <1>. QED  BY <1>1, <1>2, <1>3 DEF MemoryInv

LEMMA SetKeeps ==
  ASSUME MemoryInv, NEW x \in Vars, NEW i \in Indices, NEW j \in Indices, NEW item \in Items,
         Set(x, i, j, item)
  PROVE  MemoryInv'
  <1>. HeapInv /\ StructInv /\ private \subseteq Vars  BY DEF MemoryInv
  <1>1. Access(x, i, j) /\ UNCHANGED <<vecs, next, private>>  BY DEF Set
  <1>2. CASE outcome' # "running"  BY <1>1, <1>2, GetKeeps DEF Set
  <1>3. CASE outcome' = "running"
    <2>. DEFINE b == vecs[x].data
                k == j + 1
    <2>1. /\ b \in DOMAIN heap /\ heap[b] \in Seq(Cell) /\ model[x] \in Seq(Items)
          /\ k \in 1 .. Len(heap[b]) /\ k \in 1 .. Len(model[x]) /\ item \in Cell
      <3>1. Hits(x, j)  BY <1>1, <1>3, AccessIsRemembered
      <3>2. j \in Int  BY IndexAssumption
      <3>. QED  BY <3>1, <3>2 DEF Hits, Live, HeapInv, StructInv, Cell
    <2>2. /\ heap' = [heap EXCEPT ![b] = [heap[b] EXCEPT ![k] = item]]
          /\ model' = [model EXCEPT ![x] = [model[x] EXCEPT ![k] = item]]
      BY <1>3 DEF Set
    <2>. HIDE DEF b, k
    <2>3. /\ [heap[b] EXCEPT ![k] = item] \in Seq(Cell)
          /\ Len([heap[b] EXCEPT ![k] = item]) = Len(heap[b])
          /\ [heap[b] EXCEPT ![k] = item][k] = item
          /\ \A l \in 1 .. Len(heap[b]) : l # k => [heap[b] EXCEPT ![k] = item][l] = heap[b][l]
      BY <2>1, WriteElement
    <2>4. /\ [model[x] EXCEPT ![k] = item] \in Seq(Items)
          /\ Len([model[x] EXCEPT ![k] = item]) = Len(model[x])
          /\ [model[x] EXCEPT ![k] = item][k] = item
          /\ \A l \in 1 .. Len(model[x]) : l # k => [model[x] EXCEPT ![k] = item][l] = model[x][l]
      BY <2>1, WriteElement
    <2>5. /\ heap'[b] = [heap[b] EXCEPT ![k] = item] /\ DOMAIN heap' = DOMAIN heap
          /\ \A d \in DOMAIN heap \ {b} : heap'[d] = heap[d]
          /\ model'[x] = [model[x] EXCEPT ![k] = item]
          /\ \A y \in Vars \ {x} : model'[y] = model[y]
      BY <2>1, <2>2 DEF StructInv
    <2>6. HeapInv'
      BY <1>1, <2>2, <2>3 DEF HeapInv
    <2>7. StructInv'
      <3>1. model' \in [Vars -> Seq(Items)]  BY <2>2, <2>4 DEF StructInv
      <3>2. \A y \in Vars : Len(model'[y]) = Len(model[y])  BY <2>4, <2>5
      <3>. QED  BY <1>1, <3>1, <3>2 DEF StructInv
    <2>8. ASSUME x \in private PROVE Owns(x)'
      <3>1. /\ vecs[x].data # Null => /\ Live(x) /\ Len(heap[b]) = vecs[x].capacity
                                      /\ \A l \in 1 .. vecs[x].size : heap[b][l] = model[x][l]
                                      /\ \A y \in Vars \ {x} : vecs[y].data # vecs[x].data
        BY <2>8 DEF MemoryInv, Owns, b
      <3>2. vecs[x].size = Len(model[x]) /\ vecs[x].size <= vecs[x].capacity
            /\ vecs[x].size \in Nat /\ vecs[x].capacity \in Nat
        BY DEF StructInv
      <3>3. vecs[x].data # Null => \A l \in 1 .. vecs[x].size : heap'[b][l] = model'[x][l]
        BY <2>3, <2>4, <2>5, <3>1, <3>2
      <3>4. vecs[x].data # Null => b \in DOMAIN heap' /\ Len(heap'[b]) = vecs[x].capacity
        BY <2>1, <2>3, <2>5, <3>1
      <3>. QED  BY <1>1, <3>1, <3>3, <3>4 DEF Owns, Live, b
    <2>9. ASSUME NEW z \in private, z # x PROVE Owns(z)'
      <3>1. vecs[z].data # Null => vecs[z].data \in DOMAIN heap /\ b # vecs[z].data
        BY <2>9 DEF MemoryInv, Owns, Live, b
      <3>. QED  BY <1>1, <2>5, <2>9, <3>1, OthersKeep
    <2>10. \A z \in private' : Owns(z)'  BY <1>1, <2>8, <2>9
    <2>11. AppendStaysInside'  BY <1>3 DEF AppendStaysInside
    <2>. QED  BY <1>1, <1>3, <2>6, <2>7, <2>10, <2>11 DEF MemoryInv
  <1>. QED  BY <1>2, <1>3

LEMMA MemoryStep == MemoryInv /\ [Next]_vars => MemoryInv'
  <1>. SUFFICES ASSUME MemoryInv, [Next]_vars PROVE MemoryInv'  OBVIOUS
  <1>1. CASE UNCHANGED vars
    <2>1. HeapInv' /\ StructInv'  BY <1>1 DEF MemoryInv, HeapInv, StructInv, vars
    <2>2. \A z \in private' : Owns(z)'  BY <1>1 DEF MemoryInv, Owns, Live, vars
    <2>. QED  BY <1>1, <2>1, <2>2 DEF MemoryInv, AppendStaysInside, vars
  <1>2. ASSUME NEW x \in Vars, NEW i \in Indices, NEW j \in Indices, Get(x, i, j) PROVE MemoryInv'
    BY <1>2, GetKeeps DEF Get
  <1>. QED
    BY <1>1, <1>2, DeclareKeeps, AssignKeeps, AppendInPlaceKeeps, AppendGrowingKeeps, SetKeeps
    DEF Next

-----------------------------------------------------------------------------
\* Types: sizes stay within capacities, no struct points beyond the blocks
\* handed out, and cells hold items or what malloc left there.
THEOREM VecTypes == Spec => []TypeOK
  <1>1. MemoryInv => TypeOK
    <2>. SUFFICES ASSUME MemoryInv PROVE TypeOK  OBVIOUS
    <2>. HeapInv /\ StructInv  BY DEF MemoryInv
    <2>1. vecs \in [Vars -> [data : 0 .. MaxBlocks, size : 0 .. MaxSize, capacity : Nat]]
      <3>1. next \in 0 .. MaxBlocks /\ MaxBlocks \in Nat  BY BoundsAssumption DEF HeapInv
      <3>2. 0 .. next \subseteq 0 .. MaxBlocks  BY <3>1
      <3>. QED  BY <3>2 DEF StructInv
    <2>2. \A b \in DOMAIN heap : \A i \in DOMAIN heap[b] : heap[b][i] \in Items \cup {Junk}
      BY DEF HeapInv, Cell
    <2>. QED  BY <2>1, <2>2 DEF TypeOK, MemoryInv, HeapInv, StructInv
  <1>. QED  BY <1>1, MemoryInit, MemoryStep, PTL DEF Spec

\* A vector that was never copied is the sequence the program put in it,
\* whatever malloc and realloc answer and whatever the other vectors do
\* (append, __pinum_check_bounds).
THEOREM PrivateVectorsAreSequences == Spec => []PrivateIsSequence
  <1>1. MemoryInv => PrivateIsSequence
    BY DEF MemoryInv, StructInv, Owns, PrivateIsSequence
  <1>. QED  BY <1>1, MemoryInit, MemoryStep, PTL DEF Spec

\* No append to a vector that was never copied writes outside its block.
THEOREM AppendsStayInside == Spec => []AppendStaysInside
  <1>1. MemoryInv => AppendStaysInside  BY DEF MemoryInv
  <1>. QED  BY <1>1, MemoryInit, MemoryStep, PTL DEF Spec

\* What is remembered of the other steps.
LEMMA NoAccessOtherwise ==
  ASSUME MemoryInv, NEW x \in Vars, last' # NoAccess,
         \/ \E items \in Literals : Declare(x, items)
         \/ \E y \in Vars : Assign(y, x)
         \/ \E item \in Items : AppendInPlace(x, item) \/ AppendGrowing(x, item)
  PROVE  ~ last'.private
  <1>1. /\ Astray(x)
        /\ \E item \in Items : AppendInPlace(x, item) \/ AppendGrowing(x, item)
    BY DEF Declare, Assign, AppendInPlace, AppendGrowing
  <1>2. MemoryInv' /\ outcome' = "wild"
    BY <1>1, AppendInPlaceKeeps, AppendGrowingKeeps DEF Astray
  <1>3. last'.var = "none"
    <2>. DEFINE mine == x \in private
    <2>1. last' = [NoAccess EXCEPT !.private = mine]  BY <1>1 DEF Astray
    <2>. HIDE DEF mine
    <2>. QED  BY <2>1 DEF NoAccess
  <1>. QED  BY <1>2, <1>3 DEF MemoryInv, AppendStaysInside

\* An access to a vector that was never copied, by an index without effects,
\* panics exactly when the index is outside, and reaches the element otherwise
\* (__pinum_check_bounds).
THEOREM PanicsAreExact == Spec => PanicsOutside
  <1>. DEFINE Exact(x, i) ==
         \/ outcome' = "panic" /\ i \notin 0 .. Len(model[x]) - 1
         \/ outcome' = "running" /\ i \in 0 .. Len(model[x]) - 1 /\ last'.got = model[x][i + 1]
  <1>1. ASSUME MemoryInv, NEW x \in Vars, NEW i \in Indices, Access(x, i, i), x \in private
        PROVE  Exact(x, i)
    <2>. HeapInv /\ StructInv  BY <1>1 DEF MemoryInv
    <2>1. vecs[x].size \in 0 .. MaxSize /\ Len(model[x]) = vecs[x].size /\ vecs[x].capacity \in Nat
          /\ vecs[x].size <= vecs[x].capacity /\ (vecs[x].data = Null => vecs[x].capacity = 0)
      BY DEF StructInv
    <2>2. InBounds(i, vecs[x].size) <=> i \in 0 .. Len(model[x]) - 1  BY <2>1, Unsigned
    <2>3. outcome' = IF ~ InBounds(i, vecs[x].size) THEN "panic"
                     ELSE IF Hits(x, i) THEN "running" ELSE "wild"
      BY <1>1 DEF Access
    <2>4. CASE i \notin 0 .. Len(model[x]) - 1  BY <2>2, <2>3, <2>4
    <2>5. CASE i \in 0 .. Len(model[x]) - 1
      <3>1. MaxSize \in Nat /\ vecs[x].data # Null  BY <2>1, <2>5, BoundsAssumption
      <3>2. /\ Live(x) /\ Len(heap[vecs[x].data]) = vecs[x].capacity
            /\ \A k \in 1 .. vecs[x].size : heap[vecs[x].data][k] = model[x][k]
        BY <1>1, <3>1 DEF MemoryInv, Owns
      <3>3. Hits(x, i)  BY <2>1, <2>5, <3>1, <3>2 DEF Hits
      <3>4. outcome' = "running"  BY <2>2, <2>3, <2>5, <3>3
      <3>5. last'.got = heap[vecs[x].data][i + 1]  BY <1>1, <3>4, AccessIsRemembered
      <3>6. i + 1 \in 1 .. vecs[x].size  BY <2>1, <2>5, <3>1
      <3>. QED  BY <2>5, <3>2, <3>4, <3>5, <3>6
    <2>. QED  BY <2>4, <2>5
  <1>2. ASSUME MemoryInv, [Next]_vars, last' # last, last' # NoAccess, last'.private,
               last'.first = last'.second
        PROVE  Exact(last'.var, last'.first)
    <2>1. Next  BY <1>2 DEF vars
    <2>2. PICK x \in Vars, i \in Indices, j \in Indices : Access(x, i, j)
      BY <1>2, <2>1, NoAccessOtherwise DEF Next, Get, Set
    <2>3. last'.var = x /\ last'.first = i /\ last'.second = j /\ x \in private
      BY <1>2, <2>2, AccessIsRemembered
    <2>. QED  BY <1>1, <1>2, <2>2, <2>3
  <1>3. MemoryInv /\ [Next]_vars =>
          [last' # last /\ last' # NoAccess /\ last'.private /\ last'.first = last'.second =>
             LET x == last'.var  i == last'.first IN
             \/ outcome' = "panic" /\ i \notin 0 .. Len(model[x]) - 1
             \/ outcome' = "running" /\ i \in 0 .. Len(model[x]) - 1 /\ last'.got = model[x][i + 1]]_vars
    BY <1>2
  <1>. QED  BY <1>3, MemoryInit, MemoryStep, PTL DEF Spec, PanicsOutside
=============================================================================
