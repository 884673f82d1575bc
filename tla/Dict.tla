-------------------------------- MODULE Dict --------------------------------
(***************************************************************************)
(* What the hash map of src/src/_hashmap.c promises its callers: a partial *)
(* function from keys to values.  answer is what the last operation        *)
(* returned.  An operation that needs memory may be refused.               *)
(***************************************************************************)

CONSTANTS Keys, Vals, NoVal

VARIABLES dict, answer

dictVars == <<dict, answer>>

Add(d, k, v) == [x \in DOMAIN d \cup {k} |-> IF x = k THEN v ELSE d[x]]
Drop(d, K) == [x \in DOMAIN d \ K |-> d[x]]

Init == dict = [k \in {} |-> NoVal] /\ answer = "true"

Insert(k, v) == \/ /\ k \notin DOMAIN dict
                   /\ dict' = Add(dict, k, v) /\ answer' = "true"
                \/ k \in DOMAIN dict /\ answer' = "false" /\ UNCHANGED dict

Put(k, v) == dict' = Add(dict, k, v) /\ answer' = "true"

\* A new key for which there is no memory.
Refuse(k) == k \notin DOMAIN dict /\ answer' = "false" /\ UNCHANGED dict

Get(k) == /\ answer' = IF k \in DOMAIN dict THEN dict[k] ELSE NoVal
          /\ UNCHANGED dict

Erase(k) == /\ dict' = Drop(dict, {k})
            /\ answer' = IF k \in DOMAIN dict THEN "true" ELSE "false"

\* Erased through an iterator: no answer but the iterator itself.
Discard(k) == k \in DOMAIN dict /\ dict' = Drop(dict, {k}) /\ UNCHANGED answer

Clear == dict' = Drop(dict, DOMAIN dict) /\ UNCHANGED answer

Next == \/ \E k \in Keys : \/ \E v \in Vals : Insert(k, v) \/ Put(k, v)
                           \/ Refuse(k) \/ Get(k) \/ Erase(k) \/ Discard(k)
        \/ Clear

Spec == Init /\ [][Next]_dictVars
=============================================================================
