--------------------------------- MODULE Vec ---------------------------------
(***************************************************************************)
(* The vectors of the running program: the structs and helpers of          *)
(* runtime/pinum_rtvec.h, as the code that src/src/codegen_c.c prints uses *)
(* them.  A vector variable is a C struct with a pointer; assigning one to *)
(* another, or passing it to a function, copies the struct and shares the  *)
(* elements.  The heap maps each allocated block to its cells; nothing in  *)
(* the runtime frees a block but realloc.                                  *)
(*                                                                         *)
(* model, private and last are history variables: the sequence a variable  *)
(* holds for the programmer, the variables whose elements no other struct  *)
(* ever pointed to, and the last indexed access.                           *)
(***************************************************************************)
EXTENDS Integers, Sequences, FiniteSets

CONSTANTS Vars, Items, Junk,
          FirstCapacity,  \* 4 in append
          IndexBits,      \* 64: the width of unsigned long long
          Indices,        \* what index expressions evaluate to
          MaxLiteral,     \* bound: elements of one list literal
          MaxSize,        \* bound: elements of one vector
          MaxBlocks       \* bound: allocations of one run

ASSUME JunkAssumption == Junk \notin Items
ASSUME VarsAssumption == "none" \notin Vars
ASSUME CapacityAssumption == FirstCapacity \in Nat \ {0}
ASSUME BoundsAssumption == MaxSize \in Nat /\ MaxBlocks \in Nat /\ MaxLiteral \in 0 .. MaxSize
ASSUME IndexAssumption ==
  /\ Indices \subseteq Int
  /\ 2 ^ IndexBits \in Nat /\ 2 ^ IndexBits > MaxSize
  /\ \A i \in Indices : i < 2 ^ IndexBits /\ (i < 0 => i + 2 ^ IndexBits > MaxSize)

VARIABLES vecs,     \* variable to its struct
          heap,     \* allocated block to its cells
          next,     \* the last block handed out
          outcome,  \* "running", "panic", or "wild": an access to a cell that is no element
          model, private, last

vars == <<vecs, heap, next, outcome, model, private, last>>

Null == 0
NoAccess == [var |-> "none", private |-> TRUE, first |-> 0, second |-> 0, got |-> Junk]
NullVec == [data |-> Null, size |-> 0, capacity |-> 0]
Running == outcome = "running"
Live(x) == vecs[x].data \in DOMAIN heap

Put(h, b, cells) == [c \in DOMAIN h \cup {b} |-> IF c = b THEN cells ELSE h[c]]
Without(h, b) == [c \in DOMAIN h \ {b} |-> h[c]]

\* The cells after realloc to c of them.
Resized(cells, c) == [i \in 1 .. c |-> IF i \in DOMAIN cells THEN cells[i] ELSE Junk]

Init == /\ vecs = [x \in Vars |-> NullVec]
        /\ heap = [b \in {} |-> <<>>] /\ next = Null
        /\ outcome = "running"
        /\ model = [x \in Vars |-> <<>>] /\ private = Vars
        /\ last = NoAccess

-----------------------------------------------------------------------------
\* A declaration with a list literal: init(count, ...).  A malloc that fails
\* leaves the vector empty.
Declare(x, items) ==
  /\ Running
  /\ \/ /\ items # <<>> /\ next < MaxBlocks
        /\ next' = next + 1
        /\ heap' = Put(heap, next', items)
        /\ vecs' = [vecs EXCEPT ![x] =
             [data |-> next', size |-> Len(items), capacity |-> Len(items)]]
        /\ model' = [model EXCEPT ![x] = items]
     \/ /\ vecs' = [vecs EXCEPT ![x] = NullVec]
        /\ model' = [model EXCEPT ![x] = <<>>]
        /\ UNCHANGED <<heap, next>>
  /\ private' = private \cup {x}
  /\ last' = NoAccess /\ UNCHANGED outcome

\* y = x, or x passed as the parameter y.
Assign(y, x) ==
  /\ Running /\ x # y
  /\ vecs' = [vecs EXCEPT ![y] = vecs[x]]
  /\ model' = [model EXCEPT ![y] = model[x]]
  /\ private' = IF vecs[x].data = Null THEN private \cup {y} ELSE private \ {x, y}
  /\ last' = NoAccess /\ UNCHANGED <<heap, next, outcome>>

\* Mutant: doubling is all there is, and nothing doubled is nothing.
OnlyDoubled(v) == 2 * v.capacity

Grown(v) == IF v.capacity = 0 THEN FirstCapacity ELSE 2 * v.capacity

\* Mutant: the block grows one element too late.
FullTooLate(x) == vecs[x].size > vecs[x].capacity

Full(x) == vecs[x].size >= vecs[x].capacity

\* Mutant: the struct keeps the pointer realloc was given.
StoreOldPointer(x, b, c, item, cells) ==
  /\ heap' = Put(Without(heap, vecs[x].data), b, [cells EXCEPT ![vecs[x].size + 1] = item])
  /\ vecs' = [vecs EXCEPT ![x] = [@ EXCEPT !.size = vecs[x].size + 1, !.capacity = c]]
  /\ model' = [model EXCEPT ![x] = Append(@, item)]

\* The end of append: data[size++] = item, in block b with these cells.
Store(x, b, c, item, cells) ==
  /\ heap' = Put(Without(heap, vecs[x].data), b, [cells EXCEPT ![vecs[x].size + 1] = item])
  /\ vecs' = [vecs EXCEPT ![x] = [data |-> b, size |-> vecs[x].size + 1, capacity |-> c]]
  /\ model' = [model EXCEPT ![x] = Append(@, item)]

\* An append that writes outside the block it was given.
Astray(x) == /\ outcome' = "wild"
             /\ last' = [NoAccess EXCEPT !.private = x \in private]
             /\ UNCHANGED <<vecs, heap, next, model>>

\* append when there is room, ...
AppendInPlace(x, item) ==
  /\ Running /\ ~ Full(x) /\ vecs[x].size < MaxSize
  /\ \/ /\ Live(x) /\ vecs[x].size < Len(heap[vecs[x].data])
        /\ Store(x, vecs[x].data, vecs[x].capacity, item, heap[vecs[x].data])
        /\ last' = NoAccess /\ UNCHANGED <<next, outcome>>
     \/ ~ (Live(x) /\ vecs[x].size < Len(heap[vecs[x].data])) /\ Astray(x)
  /\ UNCHANGED private

\* ... and through realloc: moved to a new block, extended in place, or refused,
\* when the element is dropped; a pointer freed by an earlier realloc is no
\* argument for it.
AppendGrowing(x, item) ==
  LET c == Grown(vecs[x])
      cells == Resized(IF vecs[x].data = Null THEN <<>> ELSE heap[vecs[x].data], c) IN
  /\ Running /\ Full(x) /\ vecs[x].size < MaxSize
  /\ \/ /\ vecs[x].data \in DOMAIN heap \cup {Null}
        /\ \/ /\ next < MaxBlocks
              /\ next' = next + 1
              /\ Store(x, next', c, item, cells)
           \/ /\ Live(x)
              /\ Store(x, vecs[x].data, c, item, cells)
              /\ UNCHANGED next
           \/ UNCHANGED <<heap, vecs, next, model>>
        /\ last' = NoAccess /\ UNCHANGED outcome
     \/ ~ Live(x) /\ vecs[x].data # Null /\ Astray(x)
  /\ UNCHANGED private

-----------------------------------------------------------------------------
\* Mutant: the index is compared as a signed number.
UncheckedBelow(i, n) == i < n

\* __pinum_check_bounds compares as unsigned long long.
InBounds(i, n) == i % 2 ^ IndexBits < n

\* Cell j is an element of vector x.
Hits(x, j) == Live(x) /\ j \in 0 .. vecs[x].size - 1 /\ j < Len(heap[vecs[x].data])

\* arr[index], read or written: the macro evaluates the index expression for the
\* comparison, giving i, and again for the access, giving j.
Access(x, i, j) ==
  /\ Running
  /\ outcome' = IF ~ InBounds(i, vecs[x].size) THEN "panic"
                ELSE IF Hits(x, j) THEN "running" ELSE "wild"
  /\ last' = [var |-> x, private |-> x \in private, first |-> i, second |-> j,
              got |-> IF outcome' = "running" THEN heap[vecs[x].data][j + 1] ELSE Junk]

Get(x, i, j) == Access(x, i, j) /\ UNCHANGED <<vecs, heap, next, model, private>>

Set(x, i, j, item) ==
  /\ Access(x, i, j)
  /\ IF outcome' = "running"
     THEN /\ heap' = [heap EXCEPT ![vecs[x].data][j + 1] = item]
          /\ model' = [model EXCEPT ![x][j + 1] = item]
     ELSE UNCHANGED <<heap, model>>
  /\ UNCHANGED <<vecs, next, private>>

Literals == UNION {[1 .. n -> Items] : n \in 0 .. MaxLiteral}

Next == \E x \in Vars :
          \/ \E items \in Literals : Declare(x, items)
          \/ \E y \in Vars : Assign(y, x)
          \/ \E item \in Items : AppendInPlace(x, item) \/ AppendGrowing(x, item)
          \/ \E i, j \in Indices : \/ Get(x, i, j)
                                   \/ \E item \in Items : Set(x, i, j, item)

Spec == Init /\ [][Next]_vars

-----------------------------------------------------------------------------
\* The values of the state.
TypeOK ==
  /\ vecs \in [Vars -> [data : 0 .. MaxBlocks, size : 0 .. MaxSize, capacity : Nat]]
  /\ DOMAIN heap \subseteq 1 .. next
  /\ \A b \in DOMAIN heap : \A i \in DOMAIN heap[b] : heap[b][i] \in Items \cup {Junk}
  /\ \A x \in Vars : vecs[x].size =< vecs[x].capacity
  /\ outcome \in {"running", "panic", "wild"}

\* A variable that was never copied holds exactly what was put in it, however
\* often realloc moved, extended or refused its storage and whatever happens
\* through other vectors and their copies: its block is alive, as large as the
\* struct says, and nobody else's.
PrivateIsSequence ==
  outcome # "wild" =>
    \A x \in private :
      /\ vecs[x].size = Len(model[x])
      /\ vecs[x].data # Null =>
           /\ Live(x) /\ Len(heap[vecs[x].data]) = vecs[x].capacity
           /\ \A i \in DOMAIN model[x] : heap[vecs[x].data][i] = model[x][i]
           /\ \A y \in Vars \ {x} : vecs[y].data # vecs[x].data

\* An append writes outside its block only through a vector whose struct was
\* copied, whatever realloc answered before.
AppendStaysInside == outcome = "wild" /\ last.var = "none" => ~ last.private

\* For such a variable and an index expression without effects an access
\* panics exactly when the index is outside, negative ones included, and
\* otherwise reaches the element the programmer put there.
PanicsOutside ==
  [][last' # last /\ last' # NoAccess /\ last'.private /\ last'.first = last'.second =>
       LET x == last'.var  i == last'.first IN
       \/ outcome' = "panic" /\ i \notin 0 .. Len(model[x]) - 1
       \/ outcome' = "running" /\ i \in 0 .. Len(model[x]) - 1 /\ last'.got = model[x][i + 1]]_vars
=============================================================================
