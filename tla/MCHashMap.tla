------------------------------ MODULE MCHashMap ------------------------------
(***************************************************************************)
(* The instance of HashMap that TLC explores: three keys that share a      *)
(* chain of two buckets and part when the array doubles.                   *)
(***************************************************************************)
EXTENDS HashMap

MCKeys == {"a", "b", "c"}
MCHash == [k \in MCKeys |-> CASE k = "a" -> 1 [] k = "b" -> 3 [] k = "c" -> 5]
=============================================================================
