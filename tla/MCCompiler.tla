----------------------------- MODULE MCCompiler -----------------------------
(***************************************************************************)
(* The alphabets TLC explores: each has the tokens of one part of the      *)
(* language, so that all programs of useful length can be tried.           *)
(***************************************************************************)
EXTENDS Compiler

MCNames == {"a", "v", "s", "c", "d", "f", "append", "size", "main"}
MCScalars == {"int32", "float64"}
MCNameType == [a |-> "int32", v |-> "vec_int32", s |-> "char*", c |-> "char",
               d |-> "float64", __pinum_i0 |-> "int"]

Main == <<"fn", "main", "(", ")", "{">>
Function == <<"fn", "f", "(", ")", ":", "float64", "{", "}">>
MCInputs ==
  { [start |-> <<"a">>, limit |-> 7,
     kinds |-> {"a", "||", "&&", "==", "<", "+", "-", "*"}],
    [start |-> <<"nl">>, limit |-> 7, kinds |-> {"a", "(", ")", "+", "*", "-", "!"}],
    [start |-> <<"a">>, limit |-> 8, kinds |-> {"a", "?", ":", "=", "+=", "+"}],
    [start |-> <<"a">>, limit |-> 7, kinds |-> {"a", "(", ")", "[", "]", ".", "++", ",", "="}],
    [start |-> <<"[">>, limit |-> 7, kinds |-> {"[", "]", ",", "inum", "dq", "qtext", "sq", "qchar"}],
    [start |-> <<"@">>, limit |-> 6, kinds |-> {"@", "a", "lib", "inum", ";", "-", "*", "dq"}],
    [start |-> <<"if", "(", "a", ")", "{", "}">>, limit |-> 13,
     kinds |-> {"else", "if", "(", ")", "{", "}", "a", "nl", "break"}],
    [start |-> <<"for", "(">>, limit |-> 10,
     kinds |-> {";", "a", "=", "int32", "(", ")", "{", "}", "++", "for"}],
    [start |-> <<"nl">>, limit |-> 8,
     kinds |-> {"while", "(", ")", "{", "}", "a", "break", "continue", "return", "read", ";"}],
    [start |-> <<"fn", "f", "(">>, limit |-> 14,
     kinds |-> {")", "{", "}", "int32", "a", ",", "fn"}],
    [start |-> <<"fn", "f", "(", ")">>, limit |-> 14,
     kinds |-> {"{", "}", "int32", "vec", "<", ">", ":"}],
    [start |-> <<"nl">>, limit |-> 7,
     kinds |-> {"int32", "vec", "<", ">", "a", "=", "fnum", "nl", ";"}],
    [start |-> Main \o <<"print", "(">>, limit |-> 16,
     kinds |-> {"a", "v", ",", ")", ";", "}"}],
    [start |-> Main \o <<"println", "(">>, limit |-> 15,
     kinds |-> {"s", "c", "inum", "*", "+", ")", ";", "}"}],
    [start |-> Main \o <<"println", "(">>, limit |-> 14,
     kinds |-> {"v", "a", "[", "]", ".", "size", ")", ";", "}"}],
    [start |-> Function \o Main \o <<"println", "(", "f", "(">>, limit |-> 22,
     kinds |-> {"s", "d", "+", "*", ")", ";", "}"}],
    [start |-> Main \o <<"println", "(", "a", "?">>, limit |-> 16,
     kinds |-> {":", "s", "d", "<", "+", ")", ";", "}"}],
    [start |-> Main \o <<"v", ".">>, limit |-> 14,
     kinds |-> {"append", "a", "(", ")", ";", "}"}],
    [start |-> Main \o <<"v", "[">>, limit |-> 15,
     kinds |-> {"a", "=", "[", "]", ";", "}"}],
    [start |-> Main \o <<"for", "(">>, limit |-> 16,
     kinds |-> {";", "a", "=", ")", "{", "}"}] }
=============================================================================
