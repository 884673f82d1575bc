------------------------------- MODULE HashMap -------------------------------
(***************************************************************************)
(* The chained hash map of src/src/_hashmap.c: an array of chains, grown   *)
(* by moving every node to a larger array, with iterators that survive     *)
(* erasing the element they stand on.  A chain is the sequence of its      *)
(* nodes; a node is its key and value (its stored hash is Hash[key]).      *)
(* Rehashing is the loop of hashmap_rehash, one node at a time.            *)
(*                                                                         *)
(* oom, reserved, due and seen are history variables: an allocation has    *)
(* failed, the element count promised by hashmap_reserve, and what an      *)
(* iteration still owes and has already yielded.                           *)
(***************************************************************************)
EXTENDS Integers, FiniteSets, Sequences, SequencesExt

CONSTANTS Keys, Vals, NoVal, NoKey,
          Hash,             \* the hash function: any function of the keys
          InitialCapacity,  \* 16 in hashmap_create
          MaxLoads,         \* load factors in use, in halves: 2 is the default 1.0
          MaxCapacity       \* bound: the largest bucket array

Powers == {2 ^ e : e \in 0 .. 30}

ASSUME HashAssumption == Hash \in [Keys -> Nat]
ASSUME CapacityAssumption == InitialCapacity \in Powers /\ MaxCapacity \in Powers
ASSUME LoadAssumption == MaxLoads \subseteq Nat \ {0}
ASSUME MarkersAssumption == NoKey \notin Keys /\ NoVal \notin Vals

VARIABLES buckets, capacity,  \* map->buckets, bucket index to chain; map->capacity
          size,               \* map->size
          maxLoad,            \* map->max_load_factor, in halves
          newBuckets, cap,    \* the locals of a rehash under way, cap = 0 otherwise
          iter,               \* the caller's iterator: [mode, bucket, node]
          answer, oom, reserved, due, seen

mapVars == <<buckets, capacity, size, maxLoad, newBuckets, cap>>
iterVars == <<iter, due, seen>>
vars == <<mapVars, iterVars, answer, oom, reserved>>

-----------------------------------------------------------------------------
NewArray(c) == [i \in 0 .. c - 1 |-> <<>>]       \* calloc
Rehashing == cap # 0

\* hash & (capacity - 1), for a capacity that is a power of two.
Bucket(k, c) == Hash[k] % c
Node(k, v) == [key |-> k, val |-> v]

InChain(k, chain) == \E j \in DOMAIN chain : chain[j].key = k
At(k, chain) == CHOOSE j \in DOMAIN chain : chain[j].key = k

\* The chain a lookup walks.
Chain(k) == buckets[Bucket(k, capacity)]
Found(k) == InChain(k, Chain(k))
Lookup(k) == IF Found(k) THEN Chain(k)[At(k, Chain(k))].val ELSE NoVal

NodesOf(b) == UNION {{b[i][j] : j \in DOMAIN b[i]} : i \in DOMAIN b}
KeysOf(b) == {n.key : n \in NodesOf(b)}

\* What the two arrays hold together, as a partial function.
Nodes == NodesOf(buckets) \cup NodesOf(newBuckets)
Contents == [k \in {n.key : n \in Nodes} |->
               (CHOOSE n \in Nodes : n.key = k).val]

-----------------------------------------------------------------------------
PushHead(b, c, k, v) == [b EXCEPT ![Bucket(k, c)] = <<Node(k, v)>> \o @]

\* Mutant: the link to the erased node is cut, the rest of its chain is lost.
UnlinkTail(k) == [buckets EXCEPT ![Bucket(k, capacity)] = SubSeq(@, 1, At(k, @) - 1)]
Unlink(k) == [buckets EXCEPT ![Bucket(k, capacity)] = RemoveAt(@, At(k, @))]

Overloaded(n) == 2 * n > maxLoad * capacity

\* Mutant: the requested count is taken as it is.
RoundUpNot(n) == Max({1, n})

\* hashmap_rehash rounds the request up to a power of two.
RoundUp(n) == Min({c \in Powers : c >= n})

\* The caller gives its iterator up: the buckets may be laid out anew.
NoIter == [mode |-> "none", bucket |-> 0, node |-> NoKey]
DropIter == iter' = NoIter /\ due' = {} /\ seen' = {}

\* Start moving to an array of c chains, unless calloc fails: then nothing.
StartRehash(c) ==
  /\ DropIter
  /\ \/ /\ RoundUp(c) \in c .. MaxCapacity
        /\ cap' = RoundUp(c)
        /\ newBuckets' = NewArray(RoundUp(c))
        /\ UNCHANGED oom
     \/ oom' = TRUE /\ UNCHANGED <<newBuckets, cap>>

NoRehash == UNCHANGED <<newBuckets, cap, oom, iterVars>>

Init == /\ buckets = NewArray(InitialCapacity) /\ capacity = InitialCapacity
        /\ size = 0
        /\ maxLoad \in MaxLoads
        /\ newBuckets = NewArray(0) /\ cap = 0
        /\ iter = NoIter
        /\ answer = "true" /\ oom = FALSE /\ reserved = 0 /\ due = {} /\ seen = {}

\* A new node at the head of its chain, then growth when the map is overloaded;
\* the tail shared by hashmap_insert and hashmap_put.
AddNode(k, v) ==
  /\ buckets' = PushHead(buckets, capacity, k, v)
  /\ size' = size + 1
  /\ answer' = "true"
  /\ \/ Overloaded(size + 1) /\ StartRehash(2 * capacity)
     \/ ~ Overloaded(size + 1) /\ NoRehash
  /\ UNCHANGED <<capacity, maxLoad, reserved>>

\* malloc(sizeof(HMNode)) fails.
NoMemory(k) == /\ ~ Rehashing /\ ~ Found(k)
               /\ answer' = "false" /\ oom' = TRUE
               /\ UNCHANGED <<mapVars, iterVars, reserved>>

Insert(k, v) ==
  /\ ~ Rehashing
  /\ \/ /\ Found(k)
        /\ answer' = "false"
        /\ UNCHANGED <<mapVars, iterVars, oom, reserved>>
     \/ ~ Found(k) /\ AddNode(k, v)

Put(k, v) ==
  /\ ~ Rehashing
  /\ \/ /\ Found(k)
        /\ buckets' = [buckets EXCEPT ![Bucket(k, capacity)][At(k, Chain(k))].val = v]
        /\ answer' = "true"
        /\ UNCHANGED <<capacity, size, maxLoad, newBuckets, cap, iterVars, oom, reserved>>
     \/ ~ Found(k) /\ AddNode(k, v)

\* hashmap_get; hashmap_contains walks the same chain.
Get(k) == /\ ~ Rehashing
          /\ answer' = Lookup(k)
          /\ UNCHANGED <<mapVars, iterVars, oom, reserved>>

\* Erasing the node an iterator stands on frees it under the iterator.
Erase(k) ==
  /\ ~ Rehashing
  /\ \/ /\ Found(k)
        /\ buckets' = Unlink(k)
        /\ size' = size - 1
        /\ answer' = "true"
        /\ due' = due \ {k} /\ seen' = seen \ {k}
        /\ iter' = IF iter.node = k THEN [iter EXCEPT !.mode = "stale"] ELSE iter
     \/ /\ ~ Found(k)
        /\ answer' = "false"
        /\ UNCHANGED <<buckets, size, iterVars>>
  /\ UNCHANGED <<capacity, maxLoad, newBuckets, cap, oom, reserved>>

Clear == /\ ~ Rehashing
         /\ buckets' = NewArray(capacity)
         /\ size' = 0
         /\ DropIter
         /\ UNCHANGED <<capacity, maxLoad, newBuckets, cap, answer, oom, reserved>>

-----------------------------------------------------------------------------
\* hashmap_rehash as its callers ask for it, and through hashmap_reserve.
Rehash(c) == /\ ~ Rehashing
             /\ StartRehash(c)
             /\ reserved' = 0
             /\ UNCHANGED <<buckets, capacity, size, maxLoad, answer>>

\* Mutant: the fraction is cut off.
NeededTruncated(n) == (2 * n) \div maxLoad

\* The buckets n elements need, rounded up for the fractional part.  The
\* quotient is exact here; the code divides floats, which lose the fraction
\* once the counts run into the millions.
Needed(n) == (2 * n + maxLoad - 1) \div maxLoad

Reserve(n) ==
  /\ ~ Rehashing
  /\ \/ Needed(n) > capacity /\ StartRehash(Needed(n))
     \/ Needed(n) =< capacity /\ NoRehash
  /\ reserved' = n
  /\ UNCHANGED <<buckets, capacity, size, maxLoad, answer>>

\* A factor that is not positive is ignored.
SetMaxLoadFactor(m) == /\ ~ Rehashing
                       /\ m > 0
                       /\ maxLoad' = m
                       /\ reserved' = 0
                       /\ UNCHANGED <<buckets, capacity, size, newBuckets, cap>>
                       /\ UNCHANGED <<iterVars, answer, oom>>

\* Mutant: the index of the old array is kept.
MoveNodeOldIndex ==
  LET i == Min({b \in DOMAIN buckets : buckets[b] # <<>>})
      n == Head(buckets[i]) IN
  /\ Rehashing
  /\ NodesOf(buckets) # {}
  /\ buckets' = [buckets EXCEPT ![i] = Tail(@)]
  /\ newBuckets' = PushHead(newBuckets, capacity, n.key, n.val)
  /\ UNCHANGED <<capacity, size, maxLoad, cap, iterVars, answer, oom, reserved>>

\* One turn of the inner loop: the first node of the first chain that still
\* has one becomes the head of its chain in the new array.
MoveNode ==
  LET i == Min({b \in DOMAIN buckets : buckets[b] # <<>>})
      n == Head(buckets[i]) IN
  /\ Rehashing
  /\ NodesOf(buckets) # {}
  /\ buckets' = [buckets EXCEPT ![i] = Tail(@)]
  /\ newBuckets' = PushHead(newBuckets, cap, n.key, n.val)
  /\ UNCHANGED <<capacity, size, maxLoad, cap, iterVars, answer, oom, reserved>>

\* Every chain is empty: the arrays are swapped and the old one freed.
SwapArrays == /\ Rehashing
              /\ NodesOf(buckets) = {}
              /\ buckets' = newBuckets /\ capacity' = cap
              /\ newBuckets' = NewArray(0) /\ cap' = 0
              /\ UNCHANGED <<size, maxLoad, iterVars, answer, oom, reserved>>

-----------------------------------------------------------------------------
\* Iterators.  At the end of a chain they go on with the next that is not empty.

\* Mutant: the chain that just ended is looked at again.
AfterOrAt(i, b) == {j \in DOMAIN b : j >= i /\ b[j] # <<>>}
After(i, b) == {j \in DOMAIN b : j > i /\ b[j] # <<>>}

HeadOf(S, b, last) ==
  [mode   |-> "live",
   bucket |-> IF S = {} THEN last ELSE Min(S),
   node   |-> IF S = {} THEN NoKey ELSE b[Min(S)][1].key]

\* The node at position j of the iterator's chain, or the next chain's head.
Standing(j, b) ==
  IF j \in DOMAIN b[iter.bucket]
  THEN [iter EXCEPT !.node = b[iter.bucket][j].key]
  ELSE HeadOf(After(iter.bucket, b), b, capacity - 1)

Position == At(iter.node, buckets[iter.bucket])

Begin == /\ ~ Rehashing
         /\ iter' = HeadOf({i \in DOMAIN buckets : buckets[i] # <<>>}, buckets, 0)
         /\ due' = KeysOf(buckets) /\ seen' = {}
         /\ UNCHANGED <<mapVars, answer, oom, reserved>>

Live == ~ Rehashing /\ iter.mode = "live" /\ iter.node # NoKey

IterNext == /\ Live
            /\ iter' = Standing(Position + 1, buckets)
            /\ due' = due \ {iter.node} /\ seen' = seen \cup {iter.node}
            /\ UNCHANGED <<mapVars, answer, oom, reserved>>

\* Mutant: hashmap_iter_next is called after the unlinking.
EraseIterSkips ==
  /\ Live
  /\ buckets' = Unlink(iter.node)
  /\ iter' = Standing(Position + 1, buckets')
  /\ size' = size - 1
  /\ due' = due \ {iter.node}
  /\ UNCHANGED <<capacity, maxLoad, newBuckets, cap, seen, answer, oom, reserved>>

\* hashmap_erase_iter: the node that takes the place of the erased one is next.
EraseIter ==
  /\ Live
  /\ buckets' = Unlink(iter.node)
  /\ iter' = Standing(Position, buckets')
  /\ size' = size - 1
  /\ due' = due \ {iter.node}
  /\ UNCHANGED <<capacity, maxLoad, newBuckets, cap, seen, answer, oom, reserved>>

-----------------------------------------------------------------------------
Next == \/ \E k \in Keys : \/ \E v \in Vals : Insert(k, v) \/ Put(k, v)
                           \/ NoMemory(k) \/ Get(k) \/ Erase(k)
        \/ Clear
        \/ \E c \in 0 .. MaxCapacity : Rehash(c)
        \/ \E n \in 0 .. Cardinality(Keys) : Reserve(n)
        \/ \E m \in MaxLoads : SetMaxLoadFactor(m)
        \/ MoveNode \/ SwapArrays
        \/ Begin \/ IterNext \/ EraseIter

Spec == Init /\ [][Next]_vars

-----------------------------------------------------------------------------
\* The values of the map's state.  The capacity is a power of two through any
\* mix of doublings, reservations and requested sizes: the index computation
\* hash & (capacity - 1) of every operation relies on it.
TypeOK ==
  /\ capacity \in Powers
  /\ DOMAIN buckets = 0 .. capacity - 1
  /\ DOMAIN newBuckets = 0 .. cap - 1
  /\ cap \in Powers \cup {0}
  /\ Nodes \subseteq [key : Keys, val : Vals]
  /\ size \in Nat

InPlace(b, c) == \A i \in DOMAIN b : \A j \in DOMAIN b[i] : Bucket(b[i][j].key, c) = i

\* Every node is in the chain a lookup of its key walks, in the old array and,
\* during a rehash, in the new one; no key is held twice; size counts the
\* nodes, so load factors are those of the map (insert, put, erase, rehash).
NodesInPlace ==
  LET places == {<<0, i, j>> : i \in DOMAIN buckets, j \in 1 .. size}
                \cup {<<1, i, j>> : i \in DOMAIN newBuckets, j \in 1 .. size}
      held == {p \in places : p[3] =< Len((IF p[1] = 0 THEN buckets ELSE newBuckets)[p[2]])}
  IN  /\ InPlace(buckets, capacity) /\ InPlace(newBuckets, cap)
      /\ \A i \in DOMAIN buckets : Len(buckets[i]) =< size
      /\ \A i \in DOMAIN newBuckets : Len(newBuckets[i]) =< size
      /\ Cardinality(held) = size
      /\ Cardinality(DOMAIN Contents) = size

\* An iteration never yields an element a second time, whatever is inserted,
\* overwritten or erased meanwhile, as long as the buckets stay where they are.
NeverTwice == iter.mode = "live" => iter.node \notin seen

\* An iteration that has come to its end has yielded every element that was
\* there at hashmap_begin and was not erased: hashmap_erase_iter neither skips
\* the node that follows the one it removes nor the rest of the buckets.
NothingSkipped == iter.mode = "live" /\ iter.node = NoKey => due = {}

\* include/_hashmap.h says of hashmap_reserve: "hold element_count items
\* without exceeding max_load_factor".  After a reservation no insertion up to
\* that count moves the buckets.
ReserveHolds ==
  [][~ Rehashing /\ cap' # 0 /\ size' > size => size' > reserved \/ oom]_vars

\* Callers see a dictionary, also from inside a rehash: no key or value is
\* lost, invented or answered wrongly by any sequence of operations.
Dictionary == INSTANCE Dict WITH dict <- Contents
ImplementsDictionary == Dictionary!Spec
=============================================================================
