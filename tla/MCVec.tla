-------------------------------- MODULE MCVec --------------------------------
(***************************************************************************)
(* The instance of Vec that TLC explores: two vectors, indices from one    *)
(* below the first element to one past the last.                           *)
(***************************************************************************)
EXTENDS Vec, TLC

MCIndices == -1 .. 2

\* Neither the variables nor the items are told apart.
MCSymmetry == Permutations(Vars) \cup Permutations(Items)

\* example/vec.pn says that "writes are bounds-checked just like reads (panic
\* on out-of-bounds)".  The macro evaluates the index expression twice: one
\* whose second value differs, a call with an effect, goes unchecked.
IndexIsChecked == outcome = "wild" /\ last.var # "none" => ~ last.private
=============================================================================
