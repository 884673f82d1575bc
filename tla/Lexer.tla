-------------------------------- MODULE Lexer --------------------------------
(***************************************************************************)
(* The tokenizer of src/src/lexer.c, its comment filter and the loop of    *)
(* main that lists the tokens.  The source file is not fixed in advance:   *)
(* lexer_getc reads a character nobody has read before by choosing it, so  *)
(* a behaviour is one file and its tokens.                                 *)
(*                                                                         *)
(* text, the from and to of a token, and comments are history variables:   *)
(* the file as read so far, the stretch of it a token stands for, and the  *)
(* stretches that were skipped as comments.                                *)
(***************************************************************************)
EXTENDS Integers, Sequences, FiniteSets, FiniteSetsExt

CONSTANTS Chars,         \* the characters files are made of
          Modifiers,     \* "long", "short", "signed", "unsigned", "double"
          ListCapacity,  \* 16 in token_list_init
          MaxLength      \* bound: the length of a file

Eof == "EOF"
Letters == {"a", "n", "t", "_"}
Digits == {"0", "1"}
WordChars == Letters \cup Digits
Blanks == {" ", "\t", "\n"}                        \* isspace

ASSUME EofAssumption == Eof \notin Chars
ASSUME BoundsAssumption == ListCapacity \in Nat \ {0} /\ MaxLength \in Nat

VARIABLES text, ended,     \* the file: what was read of it, whether that is all
          cur,             \* the FILE's offset, g_line, g_col and g_prev_*
          SQUOTE_MODE, DQUOTE_MODE,
          pc,              \* the loop the lexer is in
          tok,             \* the token being built or just returned
          comment,         \* token_ignore_comment is running
          list, capacity,  \* the token_list
          comments

file == <<text, ended>>
modes == <<SQUOTE_MODE, DQUOTE_MODE>>
output == <<comment, list, capacity, comments>>
vars == <<file, cur, modes, pc, tok, output>>

Quoting == SQUOTE_MODE \/ DQUOTE_MODE

-----------------------------------------------------------------------------
\* The cursor.  lexer_getc moves it over c, lexer_ungetc back again.

Advance(k, c) ==
  [pos  |-> IF c = Eof THEN k.pos ELSE k.pos + 1,
   line |-> IF c = "\n" THEN k.line + 1 ELSE k.line,
   col  |-> IF c = "\n" THEN 1 ELSE IF c = Eof THEN k.col ELSE k.col + 1,
   prevLine |-> k.line, prevCol |-> k.col]

\* Mutant: the character is pushed back, the position is not.
BackOffsetOnly(k, c) == [k EXCEPT !.pos = IF c = Eof THEN @ ELSE @ - 1]

Back(k, c) == [k EXCEPT !.pos = IF c = Eof THEN @ ELSE @ - 1,
                        !.line = k.prevLine, !.col = k.prevCol]

\* fgetc: the next character is one read before, a new one, or the end.
Fetch(c) ==
  \/ /\ cur.pos < Len(text) /\ c = text[cur.pos + 1]
     /\ UNCHANGED file
  \/ /\ cur.pos = Len(text) /\ ~ ended /\ Len(text) < MaxLength
     /\ c \in Chars
     /\ text' = Append(text, c) /\ UNCHANGED ended
  \/ /\ cur.pos = Len(text)
     /\ c = Eof
     /\ ended' = TRUE /\ UNCHANGED text

Read(c) == Fetch(c) /\ cur' = Advance(cur, c)
ReadAndPushBack(c) == Fetch(c) /\ cur' = Back(Advance(cur, c), c)

\* The token whose first character is the one just read, at cursor k; to counts
\* on with the characters put in its value.
Begun(k, type) == [type |-> type, line |-> k.prevLine, col |-> k.prevCol,
                   from |-> cur.pos, to |-> k.pos]
Begin(type, next) == tok' = Begun(cur', type) /\ pc' = next
Take(type) == tok' = [tok EXCEPT !.type = type, !.to = @ + 1]
Finish(type) == tok' = [tok EXCEPT !.type = type] /\ pc' = "returned"
FinishWith(type) == Take(type) /\ pc' = "returned"

Init == /\ text = <<>> /\ ended = FALSE
        /\ cur = [pos |-> 0, line |-> 1, col |-> 1, prevLine |-> 1, prevCol |-> 1]
        /\ SQUOTE_MODE = FALSE /\ DQUOTE_MODE = FALSE
        /\ pc = "start"
        /\ tok = [type |-> "none", line |-> 1, col |-> 1, from |-> 0, to |-> 0]
        /\ comment = FALSE /\ list = <<>> /\ capacity = ListCapacity /\ comments = {}

-----------------------------------------------------------------------------
\* lexer_tokenizer, by the first character.
SkipBlank(c) == /\ pc = "start"
                /\ c \in Blanks \ {"\n"} /\ ~ Quoting
                /\ Read(c)
                /\ UNCHANGED <<modes, pc, tok, output>>

\* Characters that make a token on their own in every mode.
Single(c) ==
  /\ pc = "start"
  /\ Read(c)
  /\ \/ c \in Blanks /\ Quoting /\ Begin("WSPACE", "returned")
     \/ c = Eof /\ Begin("EOF", "returned")
     \/ c = "\n" /\ ~ Quoting /\ Begin("NLINE", "returned")
  /\ UNCHANGED <<modes, output>>

\* A letter is pushed back and lexer_tokenize_words reads it again; so is a
\* digit within quotes.
WordStart(c) == /\ pc = "start"
                /\ c \in Letters \/ (c \in Digits /\ Quoting)
                /\ Fetch(c)
                /\ cur' = Advance(Back(Advance(cur, c), c), c)
                /\ Begin("word", "word")
                /\ UNCHANGED <<modes, output>>

NumberStart(c) == /\ pc = "start"
                  /\ c \in Digits \cup {"."} /\ ~ Quoting
                  /\ Fetch(c)
                  /\ cur' = Advance(Back(Advance(cur, c), c), c)
                  /\ Begin(IF c = "." THEN "DOT" ELSE "INUM", "number")
                  /\ UNCHANGED <<modes, output>>

SingleQuote == /\ pc = "start"
               /\ Read("'")
               /\ SQUOTE_MODE' = (~ SQUOTE_MODE /\ ~ DQUOTE_MODE)
               /\ Begin(IF DQUOTE_MODE THEN "QSTRING" ELSE "SQUOTE", "returned")
               /\ UNCHANGED <<DQUOTE_MODE, output>>

\* Mutant: a double quote is not content within single quotes.
DoubleQuoteToggles == /\ pc = "start"
                      /\ Read("\"")
                      /\ DQUOTE_MODE' = ~ DQUOTE_MODE
                      /\ Begin(IF SQUOTE_MODE THEN "QSTRING" ELSE "DQUOTE", "returned")
                      /\ UNCHANGED <<SQUOTE_MODE, output>>

DoubleQuote == /\ pc = "start"
               /\ Read("\"")
               /\ DQUOTE_MODE' = (~ DQUOTE_MODE /\ ~ SQUOTE_MODE)
               /\ Begin(IF SQUOTE_MODE THEN "QSTRING" ELSE "DQUOTE", "returned")
               /\ UNCHANGED <<SQUOTE_MODE, output>>

BackSlash == /\ pc = "start"
             /\ Read("\\")
             /\ Begin("BSLASH", "escape")
             /\ UNCHANGED <<modes, output>>

\* The operators of two characters, by their characters.
Pairs == {<<"=", "=">>, <<"+", "+">>, <<"+", "=">>, <<"-", "-">>, <<"-", "=">>,
          <<"*", "=">>, <<"/", "=">>, <<"<", "=">>, <<">", "=">>, <<"!", "=">>,
          <<"%", "=">>, <<"&", "&">>, <<"|", "|">>}
Openers == {p[1] : p \in Pairs}

OperatorStart(c) == /\ pc = "start"
                    /\ c \in Openers /\ ~ Quoting
                    /\ Read(c)
                    /\ Begin(c, "second")
                    /\ UNCHANGED <<modes, output>>

Special == WordChars \cup Blanks \cup {".", "'", "\"", "\\", Eof}

\* Every other character: string content within quotes, a token of its own
\* kind otherwise.
Other(c) ==
  /\ pc = "start"
  /\ c \notin Special
  /\ c \notin Openers \/ Quoting
  /\ Read(c)
  /\ Begin(IF Quoting THEN "QSTRING" ELSE IF c = "#" THEN "HASHTAG" ELSE "MARK", "returned")
  /\ UNCHANGED <<modes, output>>

QuotedDot == /\ pc = "start" /\ Quoting
             /\ Read(".")
             /\ Begin("QSTRING", "returned")
             /\ UNCHANGED <<modes, output>>

-----------------------------------------------------------------------------
\* The rest of a token.

\* The type of a finished word.  Keywords are identifiers here; within quotes
\* every word is content, but for the five words that are an ID in any mode.
WordType ==
  IF Quoting /\ SubSeq(text, tok.from + 1, tok.to) \notin Modifiers THEN "QSTRING" ELSE "ID"

\* Mutant: digits end a word.
WordLettersOnly(c) ==
  /\ pc = "word"
  /\ \/ c \in Letters /\ Read(c) /\ Take(tok.type) /\ UNCHANGED pc
     \/ c \notin Letters /\ ReadAndPushBack(c) /\ Finish(WordType)
  /\ UNCHANGED <<modes, output>>

\* lexer_tokenize_words
Word(c) ==
  /\ pc = "word"
  /\ \/ c \in WordChars /\ Read(c) /\ Take(tok.type) /\ UNCHANGED pc
     \/ c \notin WordChars /\ ReadAndPushBack(c) /\ Finish(WordType)
  /\ UNCHANGED <<modes, output>>

\* lexer_tokenize_numbers: one dot makes a float, the second one ends it.
Number(c) ==
  /\ pc = "number"
  /\ \/ /\ c \in Digits
        /\ Read(c)
        /\ Take(IF tok.type = "DOT" THEN "FNUM" ELSE tok.type)
        /\ UNCHANGED pc
     \/ /\ c = "." /\ tok.type = "INUM"
        /\ Read(c)
        /\ Take("FNUM")
        /\ UNCHANGED pc
     \/ /\ c \notin Digits /\ (c = "." => tok.type # "INUM")
        /\ ReadAndPushBack(c)
        /\ Finish(tok.type)
  /\ UNCHANGED <<modes, output>>

Second(c) ==
  /\ pc = "second"
  /\ \/ <<tok.type, c>> \in Pairs /\ Read(c) /\ FinishWith("PAIR")
     \/ <<tok.type, c>> \notin Pairs /\ ReadAndPushBack(c) /\ Finish(tok.type)
  /\ UNCHANGED <<modes, output>>

\* Mutant: the character after the backslash is eaten in any case.
EscapeEats(c) ==
  /\ pc = "escape"
  /\ Read(c) /\ Finish(IF Quoting THEN "QSTRING" ELSE "BSLASH")
  /\ UNCHANGED <<modes, output>>

Escape(c) ==
  /\ pc = "escape"
  /\ \/ c = "n" /\ Read(c) /\ FinishWith("UNLINE")
     \/ c = "t" /\ Read(c) /\ FinishWith("TAB")
     \/ c = "0" /\ Read(c) /\ FinishWith("NTERMINATOR")
     \/ /\ c \notin {"n", "t", "0"}
        /\ ReadAndPushBack(c)
        /\ Finish(IF Quoting THEN "QSTRING" ELSE "BSLASH")
  /\ UNCHANGED <<modes, output>>

-----------------------------------------------------------------------------
\* The loop of main and token_ignore_comment, with each token returned.

\* Mutant: grows one token too late.
AddLate(t) == /\ capacity' = IF Len(list) > capacity THEN 2 * capacity ELSE capacity
              /\ list' = Append(list, t)

\* token_list_add
Add(t) == /\ capacity' = IF Len(list) >= capacity THEN 2 * capacity ELSE capacity
          /\ list' = Append(list, t)

Returned == pc = "returned"
LineEnds == tok.type \in {"NLINE", "EOF"}
GoOn == pc' = IF tok.type = "EOF" THEN "done" ELSE "start"

List == /\ Returned /\ ~ comment /\ tok.type # "HASHTAG"
        /\ Add(tok)
        /\ GoOn
        /\ UNCHANGED <<file, cur, modes, tok, comment, comments>>

\* Each turn of the loop of token_ignore_comment, the first with the hashtag.
Skip == /\ Returned /\ ~ LineEnds
        /\ comment \/ tok.type = "HASHTAG"
        /\ comment' = TRUE
        /\ DQUOTE_MODE' = FALSE
        /\ pc' = "start"
        /\ comments' = IF comment THEN comments
                       ELSE comments \cup {[from |-> tok.from, to |-> MaxLength + 1]}
        /\ UNCHANGED <<file, cur, SQUOTE_MODE, tok, list, capacity>>

\* Mutant: only a line's end ends a comment.
EndCommentAtLine ==
  /\ Returned /\ comment /\ LineEnds
  /\ \/ /\ tok.type = "NLINE"
        /\ comment' = FALSE
        /\ comments' = {IF r.to > MaxLength THEN [r EXCEPT !.to = tok.from] ELSE r : r \in comments}
        /\ Add(tok)
     \/ tok.type = "EOF" /\ UNCHANGED <<comment, comments, list, capacity>>
  /\ pc' = "start"
  /\ UNCHANGED <<file, cur, modes, tok>>

\* The newline that ends a comment is listed; at the end of the file main's
\* loop stops and lists the EOF.
EndComment ==
  /\ Returned /\ comment /\ LineEnds
  /\ comment' = FALSE
  /\ comments' = {IF r.to > MaxLength THEN [r EXCEPT !.to = tok.from] ELSE r : r \in comments}
  /\ Add(tok)
  /\ GoOn
  /\ UNCHANGED <<file, cur, modes, tok>>

Next == \/ \E c \in Chars \cup {Eof} :
             \/ SkipBlank(c) \/ Single(c) \/ WordStart(c) \/ NumberStart(c)
             \/ OperatorStart(c) \/ Other(c)
             \/ Word(c) \/ Number(c) \/ Second(c) \/ Escape(c)
        \/ SingleQuote \/ DoubleQuote \/ BackSlash \/ QuotedDot
        \/ List \/ Skip \/ EndComment

Spec == Init /\ [][Next]_vars
FairSpec == Spec /\ WF_vars(Next)

-----------------------------------------------------------------------------
\* What a text editor shows as the place of the character after offset o.
LineAt(o) == 1 + Cardinality({i \in 1 .. o : text[i] = "\n"})
ColAt(o) == o + 1 - Max({0} \cup {i \in 1 .. o : text[i] = "\n"})

\* The values of the lexer's state.  The write list->tokens[list->size++] of
\* token_list_add stays inside the array.
TypeOK ==
  /\ cur.pos \in 0 .. Len(text)
  /\ pc \in {"start", "word", "number", "second", "escape", "returned", "done"}
  /\ SQUOTE_MODE \in BOOLEAN /\ DQUOTE_MODE \in BOOLEAN
  /\ Len(list) =< capacity

\* The line and column of every token are those of its first character, which
\* src/src/lexer.c says of g_line and g_col: reading ahead and pushing the
\* single character back, at line ends and at the end of the file too, leaves
\* no trace in them.
PositionsExact ==
  /\ cur.line = LineAt(cur.pos) /\ cur.col = ColAt(cur.pos)
  /\ \A i \in DOMAIN list : /\ list[i].line = LineAt(list[i].from)
                            /\ list[i].col = ColAt(list[i].from)

Within(o, r) == r.from < o /\ o =< r.to

\* Tokens follow each other in the order of the text, and every character read
\* is in a token, in a comment or blank: nothing is lost when a character is
\* pushed back, a token is cut short or the file ends within it.
NoCharacterLost ==
  /\ \A i, j \in DOMAIN list : i < j => list[i].to =< list[j].from
  /\ pc \in {"start", "done"} /\ ~ comment =>
       \A o \in 1 .. cur.pos : \/ text[o] \in Blanks
                               \/ \E i \in DOMAIN list : Within(o, list[i])
                               \/ \E r \in comments : Within(o, r)

Count(type) == Cardinality({i \in DOMAIN list : list[i].type = type})
Odd(n) == n % 2 = 1

\* Between tokens the lexer is inside a string exactly when the list holds its
\* opening quote and not yet the closing one, and never inside two: comments,
\* and quotes within the other kind of quotes, leave the modes balanced.
ModesMatchTokens ==
  pc = "start" /\ ~ comment =>
    /\ SQUOTE_MODE <=> Odd(Count("SQUOTE"))
    /\ DQUOTE_MODE <=> Odd(Count("DQUOTE"))
    /\ ~ (SQUOTE_MODE /\ DQUOTE_MODE)

\* No token ends where it could have gone on: words, numbers and operators of
\* two characters are never split.
MaximalMunch ==
  \A i \in 2 .. Len(list) :
    LET t == list[i - 1]  u == list[i] IN
    t.to = u.from =>
      /\ ~ (t.type = "ID" /\ u.type \in {"ID", "INUM"})
      /\ ~ (t.type = "INUM" /\ u.type \in {"INUM", "FNUM", "DOT"})
      /\ <<t.type, u.type>> \notin Pairs

\* Every file is listed up to its end, which comes once and last; a comment or
\* a string that is still open there does not keep the lexer from it.
Terminates ==
  <>[](/\ pc = "done"
       /\ {i \in DOMAIN list : list[i].type = "EOF"} = {Len(list)})
=============================================================================
