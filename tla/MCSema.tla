------------------------------- MODULE MCSema -------------------------------
(***************************************************************************)
(* The small instance of Sema that TLC explores, and what the repository   *)
(* says of the analyser that the analyser does not do.                     *)
(***************************************************************************)
EXTENDS Sema

MCNames == {"x"}
MCFns == {"main", "f"}
MCSourceTypes == {"int32", "vec<int32>"}
MCTypes == {Fulltype(s) : s \in MCSourceTypes}
MCReturnTypes == {"void", "vec_int32"}

\* src/src/main.c says of semantic_analyze that it "catches
\* undeclared/redeclared variables before codegen".  The arguments of a call
\* are not walked, so an undeclared variable there reaches the generated C.
CallArgumentsAreDeclared ==
  status = "accepted" => "undeclared call argument" \notin defects

\* test/semantic/invalid_method_call.pn: "unknown method names must be
\* rejected".  The method table is only asked when there are arguments:
\* v.push() is accepted as if it read a property.
UnknownMethodsAreRejected ==
  status = "accepted" => "unknown method without arguments" \notin defects
=============================================================================
