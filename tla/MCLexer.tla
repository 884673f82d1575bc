------------------------------ MODULE MCLexer ------------------------------
(***************************************************************************)
(* The instance of Lexer that TLC explores: one character of each kind.    *)
(***************************************************************************)
EXTENDS Lexer

MCChars == {"n", "0", ".", " ", "\n", "'", "\"", "#", "\\", "="}

\* The words of TOKEN_ID in every mode, which the letters do not spell.
MCModifiers == {<<"n", "n">>}

\* src/src/lexer_filter.c: "We only support 1 line comment."  An apostrophe in
\* a comment switches SQUOTE_MODE on; the newline is then a blank within
\* quotes and the comment goes on over the following lines.
CommentsEndWithTheirLine ==
  \A r \in comments : r.to =< Len(text) =>
    \A o \in r.from + 1 .. r.to : text[o] # "\n"
=============================================================================
