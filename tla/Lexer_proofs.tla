----------------------------- MODULE Lexer_proofs ----------------------------
(***************************************************************************)
(* The tokenizer on files of any length, over any characters.              *)
(*                                                                         *)
(* Every action is of one of seven shapes (Shapes): a blank is read, a     *)
(* token is begun, continued or ended, or a returned token is listed,      *)
(* skipped, or ends a comment.  Positions and the coverage of the text     *)
(* follow from the shapes; quote modes and token ends need the actions.    *)
(***************************************************************************)
EXTENDS Lexer, FiniteSetTheorems, TLAPS

TypeNames == Openers \cup {"none", "WSPACE", "EOF", "NLINE", "word", "DOT", "INUM", "FNUM",
                           "QSTRING", "SQUOTE", "DQUOTE", "BSLASH", "HASHTAG", "MARK",
                           "ID", "PAIR", "UNLINE", "TAB", "NTERMINATOR"}
Token == [type : TypeNames, line : Int, col : Int, from : Nat, to : Nat]
Cursor == [pos : Nat, line : Int, col : Int, prevLine : Int, prevCol : Int]
InToken == {"word", "number", "second", "escape"}

\* The values of the state.
LexType ==
  /\ text \in Seq(Chars) /\ Len(text) =< MaxLength
  /\ cur \in Cursor /\ cur.pos =< Len(text)
  /\ SQUOTE_MODE \in BOOLEAN /\ DQUOTE_MODE \in BOOLEAN /\ comment \in BOOLEAN
  /\ pc \in InToken \cup {"start", "returned", "done"}
  /\ tok \in Token /\ tok.from =< Len(text)
  /\ list \in Seq(Token) /\ capacity \in Nat \ {0} /\ Len(list) =< capacity
  /\ comments \subseteq [from : Nat, to : Nat]

-----------------------------------------------------------------------------
\* Shapes of the actions.

\* The cursor with nothing to go back to but itself.
Here == [pos |-> cur.pos, line |-> cur.line, col |-> cur.col,
         prevLine |-> cur.line, prevCol |-> cur.col]

Blank(c) == /\ pc = "start" /\ Fetch(c) /\ c \in Blanks
            /\ cur' = Advance(cur, c)
            /\ UNCHANGED <<modes, pc, tok, output>>
Starts(c) == /\ pc = "start" /\ Fetch(c)
             /\ cur' = Advance(cur, c)
             /\ \E type \in TypeNames : /\ tok' = Begun(Advance(cur, c), type)
                                        /\ c = Eof => type = "EOF"
             /\ pc' \in InToken \cup {"returned"} /\ (c = Eof => pc' = "returned")
             /\ SQUOTE_MODE' \in BOOLEAN /\ DQUOTE_MODE' \in BOOLEAN
             /\ UNCHANGED output
Continues(c) == /\ pc \in InToken /\ Fetch(c) /\ c # Eof
                /\ cur' = Advance(cur, c)
                /\ \E type \in TypeNames : tok' = [tok EXCEPT !.type = type, !.to = @ + 1]
                /\ pc' \in InToken \cup {"returned"}
                /\ UNCHANGED <<modes, output>>
Stops(c) == /\ pc \in InToken /\ Fetch(c)
            /\ cur' = Here
            /\ \E type \in TypeNames : tok' = [tok EXCEPT !.type = type]
            /\ pc' = "returned"
            /\ UNCHANGED <<modes, output>>
Reading == \E c \in Chars \cup {Eof} : Blank(c) \/ Starts(c) \/ Continues(c) \/ Stops(c)

LEMMA BackIsHere ==
  ASSUME LexType, NEW c
  PROVE  /\ Back(Advance(cur, c), c) = Here
         /\ Advance(Here, c) = Advance(cur, c)
  <1>. cur \in Cursor  BY DEF LexType
  <1>1. /\ Advance(cur, c) \in Cursor
        /\ Advance(cur, c).pos = IF c = Eof THEN cur.pos ELSE cur.pos + 1
        /\ Advance(cur, c).prevLine = cur.line /\ Advance(cur, c).prevCol = cur.col
    BY DEF Advance, Cursor
  <1>2. ASSUME NEW k \in Cursor, NEW p \in Nat, k.pos = IF c = Eof THEN p ELSE p + 1
        PROVE  Back(k, c) = [pos |-> p, line |-> k.prevLine, col |-> k.prevCol,
                             prevLine |-> k.prevLine, prevCol |-> k.prevCol]
    <2>. /\ k.pos \in Nat /\ k.prevLine \in Int /\ k.prevCol \in Int
         /\ (IF c = Eof THEN k.pos ELSE k.pos - 1) = p
      BY <1>2 DEF Cursor
    <2>1. Back(k, c) \in Cursor
      BY DEF Back, Cursor
    <2>2. /\ Back(k, c).pos = p /\ Back(k, c).line = k.prevLine /\ Back(k, c).col = k.prevCol
          /\ Back(k, c).prevLine = k.prevLine /\ Back(k, c).prevCol = k.prevCol
      BY <1>2 DEF Back, Cursor
    <2>. QED  BY <2>1, <2>2 DEF Cursor
  <1>3. Advance(Here, c) = Advance(cur, c)  BY DEF Advance, Here
  <1>4. Back(Advance(cur, c), c) = Here  BY <1>1, <1>2 DEF Cursor, Here
  <1>. QED  BY <1>3, <1>4

\* What a character read tells of the file.
LEMMA FetchTells ==
  ASSUME LexType, NEW c \in Chars \cup {Eof}, Fetch(c)
  PROVE  /\ text' \in Seq(Chars) /\ Len(text) =< Len(text') /\ Len(text') =< MaxLength
         /\ \A i \in 1 .. Len(text) : text'[i] = text[i]
         /\ c = Eof => text' = text /\ cur.pos = Len(text) /\ ended'
         /\ c # Eof => cur.pos + 1 \in 1 .. Len(text') /\ text'[cur.pos + 1] = c
         /\ ended => ended' /\ text' = text
  <1>. /\ text \in Seq(Chars) /\ Len(text) =< MaxLength /\ cur.pos \in Nat
       /\ cur.pos =< Len(text) /\ MaxLength \in Nat
    BY BoundsAssumption DEF LexType, Cursor
  <1>1. CASE cur.pos < Len(text) /\ c = text[cur.pos + 1] /\ UNCHANGED file
    <2>1. cur.pos + 1 \in 1 .. Len(text)  BY <1>1
    <2>2. c \in Chars  BY <1>1, <2>1
    <2>3. c # Eof  BY <2>2, EofAssumption
    <2>. QED  BY <1>1, <2>1, <2>3 DEF file
  <1>2. CASE /\ cur.pos = Len(text) /\ ~ ended /\ Len(text) < MaxLength
             /\ c \in Chars /\ text' = Append(text, c) /\ UNCHANGED ended
    <2>1. c # Eof  BY <1>2, EofAssumption
    <2>2. /\ text' \in Seq(Chars) /\ Len(text') = Len(text) + 1
          /\ \A i \in 1 .. Len(text) : text'[i] = text[i]
          /\ text'[Len(text) + 1] = c
      BY <1>2
    <2>. QED  BY <1>2, <2>1, <2>2
  <1>3. CASE cur.pos = Len(text) /\ c = Eof /\ ended' = TRUE /\ UNCHANGED text
    BY <1>3
  <1>. QED  BY <1>1, <1>2, <1>3 DEF Fetch

LEMMA Shapes ==
  ASSUME LexType, Next
  PROVE  Reading \/ List \/ Skip \/ EndComment
  <1>1. ASSUME NEW c \in Chars \cup {Eof}, SkipBlank(c)
        PROVE  Reading
    <2>1. Blank(c)  BY <1>1 DEF SkipBlank, Blank, Read
    <2>. QED  BY <2>1 DEF Reading
  <1>2. ASSUME NEW c \in Chars \cup {Eof}, Single(c) \/ OperatorStart(c) \/ Other(c)
        PROVE  Reading
    <2>1. Eof \notin Openers /\ Eof \in Special  BY DEF Eof, Openers, Pairs, Special
    <2>2. SQUOTE_MODE \in BOOLEAN /\ DQUOTE_MODE \in BOOLEAN  BY DEF LexType
    <2>3. CASE Single(c)
      <3>1. Starts(c)
        BY <2>2, <2>3 DEF Single, Starts, Read, Begin, TypeNames, modes, Eof, Blanks
      <3>. QED  BY <3>1 DEF Reading
    <2>4. CASE OperatorStart(c)
      <3>1. c \in TypeNames /\ c # Eof  BY <2>1, <2>4 DEF OperatorStart, TypeNames
      <3>2. Starts(c)
        BY <2>2, <2>4, <3>1 DEF OperatorStart, Starts, Read, Begin, modes, InToken
      <3>. QED  BY <3>2 DEF Reading
    <2>5. CASE Other(c)
      <3>1. c # Eof  BY <2>1, <2>5 DEF Other
      <3>2. Starts(c)
        BY <2>2, <2>5, <3>1 DEF Other, Starts, Read, Begin, TypeNames, modes
      <3>. QED  BY <3>2 DEF Reading
    <2>. QED  BY <1>2, <2>3, <2>4, <2>5
  <1>3. ASSUME NEW c \in Chars \cup {Eof}, WordStart(c) \/ NumberStart(c)
        PROVE  Reading
    <2>1. c # Eof  BY <1>3 DEF WordStart, NumberStart, Eof, Letters, Digits
    <2>2. cur' = Advance(cur, c)  BY <1>3, BackIsHere DEF WordStart, NumberStart
    <2>3. SQUOTE_MODE \in BOOLEAN /\ DQUOTE_MODE \in BOOLEAN  BY DEF LexType
    <2>4. Starts(c)
      BY <1>3, <2>1, <2>2, <2>3
      DEF WordStart, NumberStart, Starts, Begin, TypeNames, modes, InToken
    <2>. QED  BY <2>4 DEF Reading
  <1>4. ASSUME NEW c \in Chars \cup {Eof}, Word(c) \/ Number(c) \/ Second(c) \/ Escape(c)
        PROVE  Reading
    <2>1. tok.type \in TypeNames  BY DEF LexType, Token
    <2>2. Back(Advance(cur, c), c) = Here  BY BackIsHere
    <2>3. CASE Word(c)
      <3>1. Continues(c) \/ Stops(c)
        BY <2>1, <2>2, <2>3 DEF Word, WordType, Continues, Stops, Read, ReadAndPushBack, Take, Finish,
           TypeNames, InToken, Eof, WordChars, Letters, Digits
      <3>. QED  BY <3>1 DEF Reading
    <2>4. CASE Number(c)
      <3>1. Continues(c) \/ Stops(c)
        BY <2>1, <2>2, <2>4 DEF Number, Continues, Stops, Read, ReadAndPushBack, Take, Finish,
           TypeNames, InToken, Eof, Digits
      <3>. QED  BY <3>1 DEF Reading
    <2>5. CASE Second(c)
      <3>1. <<tok.type, c>> \in Pairs => c # Eof  BY DEF Pairs, Eof
      <3>2. "PAIR" \in TypeNames  BY DEF TypeNames
      <3>3. Continues(c) \/ Stops(c)
        BY <2>1, <2>2, <2>5, <3>1, <3>2
        DEF Second, Continues, Stops, Read, ReadAndPushBack, Take, Finish, FinishWith, InToken
      <3>. QED  BY <3>3 DEF Reading
    <2>6. CASE Escape(c)
      <3>1. Continues(c) \/ Stops(c)
        BY <2>1, <2>2, <2>6 DEF Escape, Continues, Stops, Read, ReadAndPushBack, Take, Finish,
           FinishWith, TypeNames, InToken, Eof
      <3>. QED  BY <3>1 DEF Reading
    <2>. QED  BY <1>4, <2>3, <2>4, <2>5, <2>6
  <1>5. ASSUME SingleQuote \/ DoubleQuote \/ BackSlash \/ QuotedDot
        PROVE  Reading
    <2>. PICK c : Fetch(c) /\ cur' = Advance(cur, c) /\ c # Eof
      BY <1>5, ZenonT(30) DEF SingleQuote, DoubleQuote, BackSlash, QuotedDot, Read, Eof
    <2>1. c \in Chars
      <3>1. text \in Seq(Chars) /\ cur.pos \in Nat  BY DEF LexType, Cursor
      <3>2. \A i \in 1 .. Len(text) : text[i] \in Chars  BY <3>1
      <3>. QED  BY <3>1, <3>2 DEF Fetch
    <2>2. pc = "start" /\ UNCHANGED output
      BY <1>5 DEF SingleQuote, DoubleQuote, BackSlash, QuotedDot
    <2>3. SQUOTE_MODE' \in BOOLEAN /\ DQUOTE_MODE' \in BOOLEAN
      BY <1>5 DEF SingleQuote, DoubleQuote, BackSlash, QuotedDot, modes, LexType
    <2>4. /\ \E type \in TypeNames : tok' = Begun(Advance(cur, c), type)
          /\ pc' \in InToken \cup {"returned"}
      BY <1>5, ZenonT(30) DEF SingleQuote, DoubleQuote, BackSlash, QuotedDot, Begin, TypeNames, InToken
    <2>5. Starts(c)  BY <2>2, <2>3, <2>4 DEF Starts
    <2>. QED  BY <2>1, <2>5 DEF Reading
  <1>. QED  BY <1>1, <1>2, <1>3, <1>4, <1>5 DEF Next

-----------------------------------------------------------------------------
\* The values of the state.

LEMMA AdvanceType ==
  ASSUME LexType, NEW c \in Chars \cup {Eof}, Fetch(c)
  PROVE  /\ Advance(cur, c) \in Cursor
         /\ Advance(cur, c).pos = IF c = Eof THEN cur.pos ELSE cur.pos + 1
         /\ Advance(cur, c).pos =< Len(text')
         /\ Advance(cur, c).prevLine = cur.line /\ Advance(cur, c).prevCol = cur.col
         /\ \A type \in TypeNames : Begun(Advance(cur, c), type) \in Token
  <1>. cur \in Cursor  BY DEF LexType
  <1>1. /\ Advance(cur, c) \in Cursor
        /\ Advance(cur, c).pos = IF c = Eof THEN cur.pos ELSE cur.pos + 1
        /\ Advance(cur, c).prevLine = cur.line /\ Advance(cur, c).prevCol = cur.col
    BY DEF Advance, Cursor
  <1>2. Advance(cur, c).pos =< Len(text')
    BY <1>1, FetchTells DEF LexType, Cursor
  <1>3. \A type \in TypeNames : Begun(Advance(cur, c), type) \in Token
    BY <1>1 DEF Begun, Token, Cursor
  <1>. QED  BY <1>1, <1>2, <1>3

LEMMA AddType ==
  ASSUME LexType, Add(tok)
  PROVE  /\ list' \in Seq(Token) /\ capacity' \in Nat \ {0} /\ Len(list') =< capacity'
         /\ Len(list') = Len(list) + 1 /\ list'[Len(list) + 1] = tok
         /\ \A i \in DOMAIN list : list'[i] = list[i]
         /\ DOMAIN list = 1 .. Len(list) /\ DOMAIN list' = 1 .. Len(list) + 1
  <1>. /\ list \in Seq(Token) /\ tok \in Token /\ capacity \in Nat \ {0}
       /\ Len(list) =< capacity
    BY DEF LexType
  <1>. /\ list' = Append(list, tok)
       /\ capacity' = IF Len(list) >= capacity THEN 2 * capacity ELSE capacity
    BY DEF Add
  <1>1. list' \in Seq(Token) /\ Len(list') = Len(list) + 1 /\ list'[Len(list) + 1] = tok
    OBVIOUS
  <1>2. \A i \in DOMAIN list : list'[i] = list[i]
    OBVIOUS
  <1>3. capacity' \in Nat \ {0} /\ Len(list') =< capacity'
    BY <1>1
  <1>. QED  BY <1>1, <1>2, <1>3

LEMMA TypesTell ==
  ASSUME LexType
  PROVE  /\ text \in Seq(Chars) /\ Len(text) \in Nat /\ Len(text) =< MaxLength
         /\ cur.pos \in Nat /\ cur.pos =< Len(text)
         /\ tok.type \in TypeNames /\ tok.from \in Nat /\ tok.from =< Len(text) /\ tok.to \in Nat
         /\ list \in Seq(Token) /\ Len(list) \in Nat /\ DOMAIN list = 1 .. Len(list)
         /\ \A i \in DOMAIN list : /\ list[i].type \in TypeNames
                                   /\ list[i].from \in Nat /\ list[i].to \in Nat
         /\ \A r \in comments : r.from \in Nat /\ r.to \in Nat
  <1>1. /\ text \in Seq(Chars) /\ Len(text) =< MaxLength /\ list \in Seq(Token)
        /\ tok.from =< Len(text) /\ cur.pos =< Len(text)
    BY DEF LexType
  <1>2. cur.pos \in Nat
    BY DEF LexType, Cursor
  <1>3. tok.type \in TypeNames /\ tok.from \in Nat /\ tok.to \in Nat
    BY DEF LexType, Token
  <1>4. \A i \in DOMAIN list : list[i] \in Token
    BY <1>1
  <1>5. \A i \in DOMAIN list : /\ list[i].type \in TypeNames
                              /\ list[i].from \in Nat /\ list[i].to \in Nat
    BY <1>4 DEF Token
  <1>6. \A r \in comments : r.from \in Nat /\ r.to \in Nat
    BY DEF LexType
  <1>. QED  BY <1>1, <1>2, <1>3, <1>5, <1>6

LEMMA TypesAtInit == Init => LexType
  <1>. SUFFICES ASSUME Init PROVE LexType  OBVIOUS
  <1>1. text \in Seq(Chars) /\ Len(text) = 0 /\ list \in Seq(Token) /\ Len(list) = 0
    BY DEF Init
  <1>2. cur \in Cursor /\ cur.pos = 0
    BY DEF Init, Cursor
  <1>3. tok \in Token /\ tok.from = 0
    BY DEF Init, Token, TypeNames
  <1>4. capacity \in Nat \ {0} /\ Len(list) =< capacity
    BY <1>1, BoundsAssumption DEF Init
  <1>5. /\ SQUOTE_MODE \in BOOLEAN /\ DQUOTE_MODE \in BOOLEAN /\ comment \in BOOLEAN
        /\ pc \in InToken \cup {"start", "returned", "done"}
        /\ comments \subseteq [from : Nat, to : Nat]
    BY DEF Init
  <1>. QED  BY <1>1, <1>2, <1>3, <1>4, <1>5, BoundsAssumption DEF LexType

LEMMA TypesKept == LexType /\ [Next]_vars => LexType'
  <1>. SUFFICES ASSUME LexType, [Next]_vars PROVE LexType'  OBVIOUS
  <1>1. CASE UNCHANGED vars
    BY <1>1 DEF LexType, vars, file, modes, output
  <1>2. ASSUME Reading PROVE LexType'
    <2>. PICK c \in Chars \cup {Eof} : Blank(c) \/ Starts(c) \/ Continues(c) \/ Stops(c)
      BY <1>2 DEF Reading
    <2>1. Fetch(c)  BY DEF Blank, Starts, Continues, Stops
    <2>2. /\ text' \in Seq(Chars) /\ Len(text) =< Len(text') /\ Len(text') =< MaxLength
          /\ Advance(cur, c) \in Cursor /\ Advance(cur, c).pos =< Len(text')
          /\ \A type \in TypeNames : Begun(Advance(cur, c), type) \in Token
      BY <2>1, FetchTells, AdvanceType
    <2>3. UNCHANGED output  BY DEF Blank, Starts, Continues, Stops
    <2>4. cur' \in Cursor /\ cur'.pos =< Len(text')
      <3>1. Here \in Cursor /\ Here.pos =< Len(text')
        BY <2>2 DEF Here, Cursor, LexType
      <3>. QED  BY <2>2, <3>1 DEF Blank, Starts, Continues, Stops
    <2>5. tok' \in Token /\ tok'.from =< Len(text')
      <3>1. CASE Starts(c)
        <4>1. cur.pos \in Nat /\ cur.pos =< Len(text')  BY <2>2 DEF LexType, Cursor
        <4>2. \A type : Begun(Advance(cur, c), type).from = cur.pos  BY DEF Begun
        <4>. QED  BY <3>1, <2>2, <4>1, <4>2 DEF Starts
      <3>2. ASSUME NEW type \in TypeNames, NEW n \in Nat
            PROVE  /\ [tok EXCEPT !.type = type, !.to = n] \in Token
                   /\ [tok EXCEPT !.type = type, !.to = n].from = tok.from
                   /\ [tok EXCEPT !.type = type] \in Token
                   /\ [tok EXCEPT !.type = type].from = tok.from
        BY DEF LexType, Token
      <3>3. tok \in Token /\ tok.to + 1 \in Nat /\ tok.from =< Len(text')
        <4>1. tok.from \in Nat /\ tok.to \in Nat  BY DEF LexType, Token
        <4>. QED  BY <4>1, <2>2 DEF LexType
      <3>4. CASE Blank(c)
        BY <3>4, <3>3 DEF Blank
      <3>5. CASE Continues(c) \/ Stops(c)
        BY <3>5, <3>2, <3>3 DEF Continues, Stops
      <3>. QED  BY <3>1, <3>4, <3>5
    <2>6. pc' \in InToken \cup {"start", "returned", "done"}
      BY DEF Blank, Starts, Continues, Stops
    <2>7. SQUOTE_MODE' \in BOOLEAN /\ DQUOTE_MODE' \in BOOLEAN
      BY DEF Blank, Starts, Continues, Stops, modes, LexType
    <2>. QED
      BY <2>2, <2>3, <2>4, <2>5, <2>6, <2>7 DEF LexType, output
  <1>3. CASE List
    BY <1>3, AddType DEF List, LexType, GoOn, file, modes
  <1>4. CASE Skip
    <2>1. [from |-> tok.from, to |-> MaxLength + 1] \in [from : Nat, to : Nat]
      BY BoundsAssumption DEF LexType, Token
    <2>2. comments' \subseteq [from : Nat, to : Nat]
      BY <1>4, <2>1 DEF Skip, LexType
    <2>. QED  BY <1>4, <2>2 DEF Skip, LexType, file
  <1>5. CASE EndComment
    <2>1. tok.from \in Nat  BY DEF LexType, Token
    <2>2. \A r \in [from : Nat, to : Nat] : [r EXCEPT !.to = tok.from] \in [from : Nat, to : Nat]
      BY <2>1
    <2>3. comments' \subseteq [from : Nat, to : Nat]
      BY <1>5, <2>2 DEF EndComment, LexType
    <2>. QED  BY <1>5, <2>3, AddType DEF EndComment, LexType, GoOn, file, modes
  <1>. QED  BY <1>1, <1>2, <1>3, <1>4, <1>5, Shapes

LEMMA LexTypeHolds == Spec => []LexType
  <1>. QED  BY TypesAtInit, TypesKept, PTL DEF Spec

\* The values of the lexer's state are sound in every file: the FILE's offset
\* stays within what was read, and token_list_add writes inside its array.
THEOREM LexerTypes == Spec => []TypeOK
  <1>1. LexType => TypeOK
    BY DEF LexType, TypeOK, InToken, Cursor
  <1>. QED  BY <1>1, LexTypeHolds, PTL
-----------------------------------------------------------------------------
\* Lines and columns.

NewLines(s, o) == {i \in 1 .. o : s[i] = "\n"}
LastLine(s, o) == Max({0} \cup NewLines(s, o))

\* In the text s, line l and column c are the place after offset o.
Place(s, o, l, c) == /\ l = 1 + Cardinality(NewLines(s, o))
                     /\ c = o + 1 - LastLine(s, o)
                     /\ LastLine(s, o) \in Int

PlaceInv ==
  /\ Place(text, cur.pos, cur.line, cur.col)
  /\ Place(text, tok.from, tok.line, tok.col)
  /\ \A i \in DOMAIN list : /\ list[i].from =< Len(text)
                            /\ Place(text, list[i].from, list[i].line, list[i].col)

LEMMA NewLinesNext ==
  ASSUME NEW s, NEW o \in Nat
  PROVE  /\ NewLines(s, o + 1) = IF s[o + 1] = "\n" THEN NewLines(s, o) \cup {o + 1}
                                                    ELSE NewLines(s, o)
         /\ IsFiniteSet(NewLines(s, o)) /\ o + 1 \notin NewLines(s, o)
         /\ NewLines(s, o) \subseteq 1 .. o
  <1>1. IsFiniteSet(NewLines(s, o))
    <2>1. NewLines(s, o) \in SUBSET (1 .. o) /\ IsFiniteSet(1 .. o)
      BY FS_Interval DEF NewLines
    <2>. QED  BY <2>1, FS_Subset
  <1>2. 1 .. o + 1 = (1 .. o) \cup {o + 1} /\ o + 1 \notin 1 .. o
    OBVIOUS
  <1>. QED  BY <1>1, <1>2 DEF NewLines

\* Reading a character moves the place as Advance moves the cursor.
LEMMA PlaceNext ==
  ASSUME NEW s, NEW o \in Nat, NEW l, NEW c, Place(s, o, l, c)
  PROVE  IF s[o + 1] = "\n" THEN Place(s, o + 1, l + 1, 1) ELSE Place(s, o + 1, l, c + 1)
  <1>1. CASE s[o + 1] = "\n"
    <2>1. NewLines(s, o + 1) = NewLines(s, o) \cup {o + 1}
      BY <1>1, NewLinesNext
    <2>2. /\ Cardinality(NewLines(s, o + 1)) = Cardinality(NewLines(s, o)) + 1
          /\ Cardinality(NewLines(s, o)) \in Nat
      <3>1. IsFiniteSet(NewLines(s, o)) /\ o + 1 \notin NewLines(s, o)
        BY NewLinesNext
      <3>2. Cardinality(NewLines(s, o)) \in Nat
        BY <3>1, FS_CardinalityType
      <3>3. Cardinality(NewLines(s, o) \cup {o + 1}) = Cardinality(NewLines(s, o)) + 1
        BY <3>1, FS_AddElement
      <3>. QED  BY <2>1, <3>2, <3>3
    <2>3. LastLine(s, o + 1) = o + 1
      <3>1. \A y \in {0} \cup NewLines(s, o + 1) : y \in Int /\ y =< o + 1
        <4>1. NewLines(s, o) \subseteq 1 .. o  BY NewLinesNext
        <4>. QED  BY <2>1, <4>1
      <3>2. o + 1 \in {0} \cup NewLines(s, o + 1)
        BY <2>1
      <3>3. \A x \in {0} \cup NewLines(s, o + 1) :
              (\A y \in {0} \cup NewLines(s, o + 1) : x >= y) => x = o + 1
        BY <3>1, <3>2
      <3>. QED  BY <3>1, <3>2, <3>3 DEF LastLine, Max
    <2>. QED  BY <1>1, <2>2, <2>3 DEF Place
  <1>2. CASE s[o + 1] # "\n"
    <2>1. NewLines(s, o + 1) = NewLines(s, o) /\ LastLine(s, o + 1) = LastLine(s, o)
      BY <1>2, NewLinesNext DEF LastLine
    <2>. QED  BY <1>2, <2>1 DEF Place
  <1>. QED  BY <1>1, <1>2

LEMMA PlaceGrows ==
  ASSUME NEW s, NEW u, NEW n \in Nat, \A i \in 1 .. n : u[i] = s[i],
         NEW o \in Nat, o =< n, NEW l, NEW c, Place(s, o, l, c)
  PROVE  Place(u, o, l, c)
  <1>1. NewLines(u, o) = NewLines(s, o)
    BY DEF NewLines
  <1>. QED  BY <1>1 DEF Place, LastLine

LEMMA PlaceStart ==
  ASSUME NEW s
  PROVE  Place(s, 0, 1, 1)
  <1>1. NewLines(s, 0) = {}
    BY DEF NewLines
  <1>2. Cardinality(NewLines(s, 0)) = 0
    BY <1>1, FS_EmptySet
  <1>3. LastLine(s, 0) = 0
    <2>1. \A x \in {0} : x >= 0
      OBVIOUS
    <2>. QED  BY <1>1, <2>1 DEF LastLine, Max
  <1>. QED  BY <1>2, <1>3 DEF Place

LEMMA PlacesAtInit == Init => PlaceInv
  <1>. SUFFICES ASSUME Init PROVE PlaceInv  OBVIOUS
  <1>1. cur.pos = 0 /\ cur.line = 1 /\ cur.col = 1
    BY DEF Init
  <1>2. tok.from = 0 /\ tok.line = 1 /\ tok.col = 1
    BY DEF Init
  <1>3. DOMAIN list = {}
    BY DEF Init
  <1>. QED  BY <1>1, <1>2, <1>3, PlaceStart DEF PlaceInv

LEMMA PlacesKept == LexType /\ PlaceInv /\ [Next]_vars => PlaceInv'
  <1>. SUFFICES ASSUME LexType, PlaceInv, [Next]_vars PROVE PlaceInv'  OBVIOUS
  <1>a. /\ text \in Seq(Chars) /\ Len(text) \in Nat /\ cur.pos \in Nat /\ cur.pos =< Len(text)
        /\ tok.from \in Nat /\ tok.from =< Len(text)
        /\ \A i \in DOMAIN list : list[i].from \in Nat /\ list[i].from =< Len(text)
    BY TypesTell DEF PlaceInv
  <1>1. CASE UNCHANGED vars
    BY <1>1 DEF PlaceInv, vars, file, output
  <1>2. ASSUME Reading PROVE PlaceInv'
    <2>. PICK c \in Chars \cup {Eof} : Blank(c) \/ Starts(c) \/ Continues(c) \/ Stops(c)
      BY <1>2 DEF Reading
    <2>1. Fetch(c)  BY DEF Blank, Starts, Continues, Stops
    <2>2. /\ Len(text) =< Len(text') /\ Len(text') \in Nat
          /\ \A i \in 1 .. Len(text) : text'[i] = text[i]
      <3>1. text' \in Seq(Chars)  BY <2>1, FetchTells
      <3>. QED  BY <2>1, <3>1, FetchTells
    <2>3. \A o \in Nat : \A l, k : o =< Len(text) /\ Place(text, o, l, k) => Place(text', o, l, k)
      BY <1>a, <2>2, PlaceGrows
    <2>4. /\ Place(text', cur.pos, cur.line, cur.col)
          /\ Place(text', tok.from, tok.line, tok.col)
          /\ \A i \in DOMAIN list : /\ list[i].from =< Len(text')
                                    /\ Place(text', list[i].from, list[i].line, list[i].col)
      BY <1>a, <2>2, <2>3 DEF PlaceInv
    <2>5. LET k == Advance(cur, c) IN Place(text', k.pos, k.line, k.col)
      <3>1. CASE c = Eof
        <4>1. /\ Advance(cur, c).pos = cur.pos /\ Advance(cur, c).line = cur.line
              /\ Advance(cur, c).col = cur.col
          BY <3>1 DEF Advance, Eof
        <4>. QED  BY <4>1, <2>4
      <3>2. CASE c # Eof
        <4>1. text'[cur.pos + 1] = c  BY <2>1, <3>2, FetchTells
        <4>2. IF c = "\n" THEN Place(text', cur.pos + 1, cur.line + 1, 1)
                          ELSE Place(text', cur.pos + 1, cur.line, cur.col + 1)
          BY <1>a, <2>4, <4>1, PlaceNext
        <4>. QED  BY <3>2, <4>2 DEF Advance
      <3>. QED  BY <3>1, <3>2
    <2>6. Place(text', cur'.pos, cur'.line, cur'.col)
      <3>1. Here.pos = cur.pos /\ Here.line = cur.line /\ Here.col = cur.col  BY DEF Here
      <3>. QED  BY <3>1, <2>4, <2>5 DEF Blank, Starts, Continues, Stops
    <2>7. Place(text', tok'.from, tok'.line, tok'.col)
      <3>1. CASE Starts(c)
        <4>1. \A type : LET t == Begun(Advance(cur, c), type) IN
                        t.from = cur.pos /\ t.line = cur.line /\ t.col = cur.col
          BY DEF Begun, Advance
        <4>. QED  BY <3>1, <4>1, <2>4 DEF Starts
      <3>2. CASE Blank(c)
        BY <3>2, <2>4 DEF Blank
      <3>3. CASE Continues(c) \/ Stops(c)
        <4>1. tok'.from = tok.from /\ tok'.line = tok.line /\ tok'.col = tok.col
          BY <3>3 DEF Continues, Stops, LexType, Token
        <4>. QED  BY <4>1, <2>4
      <3>. QED  BY <3>1, <3>2, <3>3
    <2>8. UNCHANGED list  BY DEF Blank, Starts, Continues, Stops, output
    <2>. QED  BY <2>4, <2>6, <2>7, <2>8 DEF PlaceInv
  <1>3. CASE List \/ EndComment
    <2>1. UNCHANGED <<text, cur, tok>> /\ Add(tok)
      BY <1>3 DEF List, EndComment, file
    <2>2. \A i \in DOMAIN list' : list'[i] = tok \/ (i \in DOMAIN list /\ list'[i] = list[i])
      BY <2>1, AddType DEF LexType
    <2>. QED  BY <1>a, <2>1, <2>2 DEF PlaceInv
  <1>4. CASE Skip
    BY <1>4 DEF Skip, PlaceInv, file
  <1>. QED  BY <1>1, <1>2, <1>3, <1>4, Shapes

\* In every file the line and column of every token are those of its first
\* character, which src/src/lexer.c says of g_line and g_col: reading ahead and
\* pushing back leave no trace in them, at line ends and at the end of the file
\* too.
THEOREM TokenPositions == Spec => []PositionsExact
  <1>1. PlaceInv => PositionsExact
    BY DEF PlaceInv, Place, PositionsExact, LineAt, ColAt, NewLines, LastLine
  <1>. QED  BY <1>1, PlacesAtInit, PlacesKept, LexTypeHolds, PTL DEF Spec
-----------------------------------------------------------------------------
\* The text and its tokens.

\* Up to here every character is accounted for; the token being built or just
\* returned stands for the rest.
Reached == IF pc \in InToken \cup {"returned"} THEN tok.from ELSE cur.pos
Covered(o) == \/ text[o] \in Blanks
              \/ \E i \in DOMAIN list : Within(o, list[i])
              \/ \E r \in comments : Within(o, r)

CoverInv ==
  /\ \A o \in 1 .. Reached : Covered(o)
  /\ pc \in InToken \cup {"returned"} => tok.from =< tok.to /\ tok.to = cur.pos
  /\ \A i \in DOMAIN list : list[i].to =< Reached
  /\ \A i, j \in DOMAIN list : i < j => list[i].to =< list[j].from
  /\ comment => \E r \in comments : r.to = MaxLength + 1 /\ r.from =< Reached

\* A token added at the end: the order stays, and its characters are covered.
LEMMA AddCovers ==
  ASSUME LexType, CoverInv, pc = "returned", Add(tok)
  PROVE  /\ \A i \in DOMAIN list' : list'[i].to =< cur.pos
         /\ \A i, j \in DOMAIN list' : i < j => list'[i].to =< list'[j].from
         /\ \A o \in 1 .. cur.pos : (\E i \in DOMAIN list' : Within(o, list'[i])) \/ o =< tok.from
         /\ \A o \in 1 .. cur.pos : (\E i \in DOMAIN list : Within(o, list[i]))
                                  => \E i \in DOMAIN list' : Within(o, list'[i])
  <1>. /\ list'[Len(list) + 1] = tok /\ \A i \in 1 .. Len(list) : list'[i] = list[i]
       /\ DOMAIN list = 1 .. Len(list) /\ DOMAIN list' = 1 .. Len(list) + 1 /\ Len(list) \in Nat
    BY AddType, TypesTell
  <1>. /\ tok.from \in Nat /\ tok.to \in Nat /\ cur.pos \in Nat
       /\ \A i \in 1 .. Len(list) : list[i].from \in Nat /\ list[i].to \in Nat
    BY TypesTell
  <1>. /\ tok.from =< tok.to /\ tok.to = cur.pos
       /\ \A i \in 1 .. Len(list) : list[i].to =< tok.from
       /\ \A i, j \in 1 .. Len(list) : i < j => list[i].to =< list[j].from
    BY DEF CoverInv, Reached
  <1>1. \A i \in DOMAIN list' : list'[i].to =< cur.pos
    OBVIOUS
  <1>2. \A i, j \in DOMAIN list' : i < j => list'[i].to =< list'[j].from
    OBVIOUS
  <1>3. ASSUME NEW o \in 1 .. cur.pos, tok.from < o
        PROVE  \E i \in DOMAIN list' : Within(o, list'[i])
    <2>1. Len(list) + 1 \in DOMAIN list' /\ Within(o, list'[Len(list) + 1])
      BY <1>3 DEF Within
    <2>. QED  BY <2>1
  <1>4. ASSUME NEW o \in 1 .. cur.pos, NEW i \in DOMAIN list, Within(o, list[i])
        PROVE  \E j \in DOMAIN list' : Within(o, list'[j])
    <2>1. i \in DOMAIN list' /\ Within(o, list'[i])
      BY <1>4
    <2>. QED  BY <2>1
  <1>. QED  BY <1>1, <1>2, <1>3, <1>4

LEMMA CoverAtInit == Init => CoverInv
  <1>. SUFFICES ASSUME Init PROVE CoverInv  OBVIOUS
  <1>1. Reached = 0 /\ DOMAIN list = {} /\ comment = FALSE /\ pc = "start"
    BY DEF Init, Reached, InToken
  <1>. QED  BY <1>1 DEF CoverInv, InToken

LEMMA CoverKept == LexType /\ CoverInv /\ [Next]_vars => CoverInv'
  <1>. SUFFICES ASSUME LexType, CoverInv, [Next]_vars PROVE CoverInv'  OBVIOUS
  <1>a. /\ Len(text) \in Nat /\ cur.pos \in Nat /\ cur.pos =< Len(text) /\ Reached \in Nat
        /\ tok.from \in Nat /\ tok.from =< Len(text) /\ tok.to \in Nat /\ Reached =< Len(text)
        /\ \A i \in DOMAIN list : list[i].from \in Nat /\ list[i].to \in Nat
        /\ \A r \in comments : r.from \in Nat /\ r.to \in Nat
        /\ MaxLength \in Nat /\ Len(text) =< MaxLength
    BY TypesTell, BoundsAssumption DEF Reached
  <1>1. CASE UNCHANGED vars
    BY <1>1 DEF CoverInv, Covered, Reached, vars, file, output
  <1>2. ASSUME Reading PROVE CoverInv'
    <2>. PICK c \in Chars \cup {Eof} : Blank(c) \/ Starts(c) \/ Continues(c) \/ Stops(c)
      BY <1>2 DEF Reading
    <2>1. Fetch(c)  BY DEF Blank, Starts, Continues, Stops
    <2>2. /\ Len(text) =< Len(text') /\ Len(text') \in Nat
          /\ \A i \in 1 .. Len(text) : text'[i] = text[i]
      <3>1. text' \in Seq(Chars)  BY <2>1, FetchTells
      <3>. QED  BY <2>1, <3>1, FetchTells
    <2>3. UNCHANGED <<list, comments, comment>>
      BY DEF Blank, Starts, Continues, Stops, output
    <2>4. \A o \in 1 .. Reached : Covered(o)'
      <3>1. ASSUME NEW o \in 1 .. Reached PROVE Covered(o)'
        <4>1. Covered(o) /\ text'[o] = text[o]
          BY <1>a, <2>2 DEF CoverInv
        <4>. QED  BY <4>1, <2>3 DEF Covered
      <3>. QED  BY <3>1
    <2>5. /\ Reached =< Reached' /\ \A o \in 1 .. Reached' : Covered(o)'
          /\ pc' \in InToken \cup {"returned"} => tok'.from =< tok'.to /\ tok'.to = cur'.pos
      <3>1. CASE Blank(c)
        <4>1. c # Eof  BY <3>1 DEF Blank, Blanks, Eof
        <4>2. /\ pc = "start" /\ pc' = "start" /\ cur'.pos = cur.pos + 1
              /\ text'[cur.pos + 1] \in Blanks
          BY <2>1, <3>1, <4>1, FetchTells, AdvanceType DEF Blank
        <4>3. Reached = cur.pos /\ Reached' = cur.pos + 1 /\ pc' \notin InToken \cup {"returned"}
          BY <4>2 DEF Reached, InToken
        <4>4. ASSUME NEW o \in 1 .. cur.pos + 1 PROVE Covered(o)'
          <5>1. CASE o = cur.pos + 1  BY <4>2, <5>1 DEF Covered
          <5>2. CASE o # cur.pos + 1  BY <1>a, <2>4, <4>3, <5>2
          <5>. QED  BY <5>1, <5>2
        <4>. QED  BY <1>a, <4>3, <4>4
      <3>2. CASE Starts(c)
        <4>1. pc = "start" /\ pc' \in InToken \cup {"returned"}
          BY <3>2 DEF Starts
        <4>2. tok'.from = cur.pos /\ tok'.to = cur'.pos
          BY <3>2 DEF Starts, Begun
        <4>3. cur.pos =< cur'.pos
          BY <1>a, <2>1, <3>2, AdvanceType DEF Starts
        <4>4. Reached = cur.pos /\ Reached' = cur.pos
          BY <4>1, <4>2 DEF Reached, InToken
        <4>. QED  BY <1>a, <2>4, <4>2, <4>3, <4>4
      <3>3. CASE Continues(c)
        <4>1. pc \in InToken /\ pc' \in InToken \cup {"returned"}
          BY <3>3 DEF Continues
        <4>2. tok'.from = tok.from /\ tok'.to = tok.to + 1
          BY <3>3 DEF Continues, LexType, Token
        <4>3. cur'.pos = cur.pos + 1
          BY <2>1, <3>3, AdvanceType DEF Continues
        <4>4. Reached = tok.from /\ Reached' = tok.from
          BY <4>1, <4>2 DEF Reached
        <4>5. tok.from =< tok.to /\ tok.to = cur.pos
          BY <4>1 DEF CoverInv
        <4>. QED  BY <1>a, <2>4, <4>2, <4>3, <4>4, <4>5
      <3>4. CASE Stops(c)
        <4>1. pc \in InToken /\ pc' \in InToken \cup {"returned"}
          BY <3>4 DEF Stops
        <4>2. tok'.from = tok.from /\ tok'.to = tok.to
          BY <3>4 DEF Stops, LexType, Token
        <4>3. cur'.pos = cur.pos
          BY <3>4 DEF Stops, Here
        <4>4. Reached = tok.from /\ Reached' = tok.from
          BY <4>1, <4>2 DEF Reached
        <4>5. tok.from =< tok.to /\ tok.to = cur.pos
          BY <4>1 DEF CoverInv
        <4>. QED  BY <1>a, <2>4, <4>2, <4>3, <4>4, <4>5
      <3>. QED  BY <3>1, <3>2, <3>3, <3>4
    <2>6. Reached' \in Nat
      <3>1. LexType'  BY TypesKept
      <3>2. tok'.from \in Nat /\ cur'.pos \in Nat  BY <3>1 DEF LexType, Token, Cursor
      <3>. QED  BY <3>2 DEF Reached
    <2>. QED
      BY <1>a, <2>3, <2>5, <2>6 DEF CoverInv
  <1>3. CASE List
    <2>1. /\ Add(tok) /\ pc = "returned" /\ ~ comment /\ UNCHANGED <<text, cur, tok, comment, comments>>
          /\ pc' \in {"start", "done"}
      BY <1>3 DEF List, Returned, GoOn, file
    <2>2. Reached = tok.from /\ Reached' = cur.pos /\ pc' \notin InToken \cup {"returned"}
      BY <2>1 DEF Reached, InToken
    <2>3. \A o \in 1 .. cur.pos : Covered(o)'
      <3>1. ASSUME NEW o \in 1 .. cur.pos PROVE Covered(o)'
        <4>1. (o =< tok.from => Covered(o)) /\ UNCHANGED <<text, comments>>
          BY <1>a, <2>1, <2>2 DEF CoverInv
        <4>. QED  BY <2>1, <4>1, AddCovers DEF Covered
      <3>. QED  BY <3>1
    <2>. QED  BY <2>1, <2>2, <2>3, AddCovers DEF CoverInv
  <1>4. CASE EndComment
    <2>1. /\ Add(tok) /\ pc = "returned" /\ ~ comment' /\ UNCHANGED <<text, cur, tok>>
          /\ pc' \in {"start", "done"}
      BY <1>4 DEF EndComment, Returned, GoOn, file
    <2>2. Reached = tok.from /\ Reached' = cur.pos /\ pc' \notin InToken \cup {"returned"}
      BY <2>1 DEF Reached, InToken
    <2>3. \A r \in comments : \A o \in 1 .. tok.from :
            Within(o, r) => \E u \in comments' : Within(o, u)
      <3>1. ASSUME NEW r \in comments, NEW o \in 1 .. tok.from, Within(o, r)
            PROVE  \E u \in comments' : Within(o, u)
        <4>. DEFINE u == IF r.to > MaxLength THEN [r EXCEPT !.to = tok.from] ELSE r
        <4>1. u \in comments'  BY <1>4 DEF EndComment
        <4>2. Within(o, u)
          <5>1. CASE r.to > MaxLength
            <6>1. r \in [from : Nat, to : Nat]  BY DEF LexType
            <6>2. u.from = r.from /\ u.to = tok.from  BY <5>1, <6>1
            <6>. QED  BY <3>1, <6>2 DEF Within
          <5>2. CASE ~ (r.to > MaxLength)
            BY <3>1, <5>2
          <5>. QED  BY <5>1, <5>2
        <4>. QED  BY <4>1, <4>2
      <3>. QED  BY <3>1
    <2>4. \A o \in 1 .. cur.pos : Covered(o)'
      <3>1. ASSUME NEW o \in 1 .. cur.pos PROVE Covered(o)'
        <4>1. (o =< tok.from => Covered(o) /\ o \in 1 .. tok.from) /\ UNCHANGED text
          BY <1>a, <2>1, <2>2 DEF CoverInv
        <4>. QED  BY <2>1, <2>3, <4>1, AddCovers DEF Covered
      <3>. QED  BY <3>1
    <2>. QED  BY <2>1, <2>2, <2>4, AddCovers DEF CoverInv
  <1>5. CASE Skip
    <2>1. /\ pc = "returned" /\ pc' = "start" /\ comment' /\ UNCHANGED <<text, cur, tok, list>>
      BY <1>5 DEF Skip, Returned, file
    <2>2. Reached = tok.from /\ Reached' = cur.pos /\ pc' \notin InToken \cup {"returned"}
          /\ tok.from =< cur.pos
      BY <2>1 DEF Reached, InToken, CoverInv
    <2>3. PICK r \in comments' : r.to = MaxLength + 1 /\ r.from \in Nat /\ r.from =< tok.from
      <3>1. CASE comment
        BY <1>a, <1>5, <2>2, <3>1 DEF Skip, CoverInv
      <3>2. CASE ~ comment
        <4>1. [from |-> tok.from, to |-> MaxLength + 1] \in comments'
          BY <1>5, <3>2 DEF Skip
        <4>. QED  BY <1>a, <4>1
      <3>. QED  BY <3>1, <3>2
    <2>4. comments \subseteq comments'
      BY <1>5 DEF Skip
    <2>5. \A o \in 1 .. cur.pos : Covered(o)'
      <3>1. ASSUME NEW o \in 1 .. cur.pos PROVE Covered(o)'
        <4>1. CASE o =< tok.from
          <5>1. Covered(o)  BY <1>a, <2>2, <4>1 DEF CoverInv
          <5>. QED  BY <2>1, <2>4, <5>1 DEF Covered
        <4>2. CASE ~ (o =< tok.from)
          <5>1. Within(o, r)  BY <1>a, <2>3, <4>2 DEF Within
          <5>. QED  BY <2>3, <5>1 DEF Covered
        <4>. QED  BY <4>1, <4>2
      <3>. QED  BY <3>1
    <2>6. /\ \A i \in DOMAIN list : list[i].to =< cur.pos
          /\ \A i, j \in DOMAIN list : i < j => list[i].to =< list[j].from
      BY <1>a, <2>2 DEF CoverInv
    <2>7. r.from =< cur.pos  BY <1>a, <2>2, <2>3
    <2>. QED  BY <2>1, <2>2, <2>3, <2>5, <2>6, <2>7 DEF CoverInv
  <1>. QED  BY <1>1, <1>2, <1>3, <1>4, <1>5, Shapes

\* In every file the tokens follow the order of the text, and every character
\* read is in a token, in a comment or blank: lexer_ungetc, a token cut short
\* and the end of the file lose none.
THEOREM TokensCoverTheFile == Spec => []NoCharacterLost
  <1>1. LexType /\ CoverInv => NoCharacterLost
    BY DEF CoverInv, NoCharacterLost, Reached, Covered, InToken
  <1>. QED  BY <1>1, CoverAtInit, CoverKept, LexTypeHolds, PTL DEF Spec
-----------------------------------------------------------------------------
\* Quotes.  The types that say something of the modes never name a token that
\* is still being built.
Marked == {"SQUOTE", "DQUOTE", "HASHTAG", "NLINE"}
Waiting(type) == pc = "returned" /\ tok.type = type

ModesInv ==
  /\ ~ (SQUOTE_MODE /\ DQUOTE_MODE)
  /\ pc \in InToken => tok.type \notin Marked
  /\ Waiting("HASHTAG") \/ Waiting("NLINE") => ~ Quoting
  /\ comment => ~ Odd(Count("SQUOTE")) /\ ~ Odd(Count("DQUOTE"))
  /\ ~ comment /\ pc # "done" =>
       /\ SQUOTE_MODE <=> ~ (Odd(Count("SQUOTE")) <=> Waiting("SQUOTE"))
       /\ DQUOTE_MODE <=> ~ (Odd(Count("DQUOTE")) <=> Waiting("DQUOTE"))

LEMMA OddNext ==
  ASSUME NEW n \in Nat
  PROVE  Odd(n + 1) <=> ~ Odd(n)
  BY DEF Odd

LEMMA CountAdd ==
  ASSUME LexType, Add(tok), NEW type
  PROVE  Odd(Count(type))' <=> ~ (Odd(Count(type)) <=> tok.type = type)
  <1>. DEFINE S == {i \in DOMAIN list : list[i].type = type}
              T == {i \in DOMAIN list' : list'[i].type = type}
  <1>1. /\ list'[Len(list) + 1] = tok /\ \A i \in 1 .. Len(list) : list'[i] = list[i]
        /\ DOMAIN list = 1 .. Len(list) /\ DOMAIN list' = 1 .. Len(list) + 1 /\ Len(list) \in Nat
    BY AddType, TypesTell
  <1>2. S \in SUBSET (1 .. Len(list)) /\ IsFiniteSet(1 .. Len(list))
    BY <1>1, FS_Interval
  <1>3. IsFiniteSet(S) /\ Len(list) + 1 \notin S
    BY <1>1, <1>2, FS_Subset
  <1>4. Cardinality(S) \in Nat
    BY <1>3, FS_CardinalityType
  <1>5. T = IF tok.type = type THEN S \cup {Len(list) + 1} ELSE S
    BY <1>1
  <1>6. Cardinality(S \cup {Len(list) + 1}) = Cardinality(S) + 1
    BY <1>3, FS_AddElement
  <1>7. Odd(Cardinality(S) + 1) <=> ~ Odd(Cardinality(S))
    BY <1>4, OddNext
  <1>8. Count(type) = Cardinality(S) /\ Count(type)' = Cardinality(T)
    BY DEF Count
  <1>9. Odd(Count(type))' <=> Odd(Cardinality(T))
    BY <1>8 DEF Odd
  <1>. HIDE DEF S, T
  <1>. QED  BY <1>5, <1>6, <1>7, <1>8, <1>9

\* A character read that does not touch the modes.
Plain == /\ pc \in InToken \cup {"start"}
         /\ pc' \in InToken \cup {"returned"}
         /\ tok'.type \notin {"SQUOTE", "DQUOTE"}
         /\ tok'.type \in {"HASHTAG", "NLINE"} => pc' \notin InToken /\ ~ Quoting
         /\ UNCHANGED <<modes, output>>

LEMMA PlainReading ==
  ASSUME LexType, ModesInv, NEW c \in Chars \cup {Eof},
         \/ Single(c) \/ WordStart(c) \/ NumberStart(c) \/ OperatorStart(c) \/ Other(c)
         \/ Word(c) \/ Number(c) \/ Second(c) \/ Escape(c) \/ BackSlash \/ QuotedDot
  PROVE  Plain
  <1>a. \A k, type : Begun(k, type).type = type
    BY DEF Begun
  <1>b. \A type, n : /\ [tok EXCEPT !.type = type, !.to = n].type = type
                     /\ [tok EXCEPT !.type = type].type = type
    BY DEF LexType, Token
  <1>1. CASE Single(c)
    BY <1>1, <1>a DEF Single, Begin, Plain, InToken
  <1>2. CASE WordStart(c) \/ NumberStart(c)
    BY <1>2, <1>a DEF WordStart, NumberStart, Begin, Plain, InToken
  <1>3. CASE OperatorStart(c)
    <2>1. c \notin Marked
      BY <1>3 DEF OperatorStart, Openers, Pairs, Marked
    <2>. QED  BY <1>3, <1>a, <2>1 DEF OperatorStart, Begin, Plain, InToken, Marked
  <1>4. CASE Other(c)
    <2>1. /\ tok'.type \in {"QSTRING", "HASHTAG", "MARK"}
          /\ tok'.type = "HASHTAG" => ~ Quoting
      BY <1>4, <1>a DEF Other, Begin
    <2>. QED  BY <1>4, <2>1 DEF Other, Begin, Plain, InToken
  <1>5. CASE BackSlash \/ QuotedDot
    BY <1>5, <1>a DEF BackSlash, QuotedDot, Begin, Plain, InToken
  <1>6. CASE Word(c) \/ Number(c) \/ Second(c) \/ Escape(c)
    <2>1. pc \in InToken
      BY <1>6 DEF Word, Number, Second, Escape, InToken
    <2>2. tok.type \notin Marked
      BY <2>1 DEF ModesInv
    <2>3. \A type : Take(type) => tok'.type = type
      BY <1>b DEF Take
    <2>4. \A type : Finish(type) \/ FinishWith(type) => tok'.type = type /\ pc' = "returned"
      BY <1>b, <2>3 DEF Finish, FinishWith
    <2>5. CASE Word(c)
      BY <2>1, <2>2, <2>3, <2>4, <2>5 DEF Word, WordType, Plain, Marked
    <2>6. CASE Number(c)
      BY <2>1, <2>2, <2>3, <2>4, <2>6 DEF Number, Plain, Marked
    <2>7. CASE Second(c)
      BY <2>1, <2>2, <2>4, <2>7 DEF Second, Plain, Marked
    <2>8. CASE Escape(c)
      BY <2>1, <2>2, <2>4, <2>8 DEF Escape, Plain, Marked
    <2>. QED  BY <1>6, <2>5, <2>6, <2>7, <2>8
  <1>. QED  BY <1>1, <1>2, <1>3, <1>4, <1>5, <1>6

LEMMA ModesAtInit == Init => ModesInv
  <1>. SUFFICES ASSUME Init PROVE ModesInv  OBVIOUS
  <1>1. \A type : Count(type) = 0
    <2>1. \A type : {i \in DOMAIN list : list[i].type = type} = {}
      BY DEF Init
    <2>. QED  BY <2>1, FS_EmptySet DEF Count
  <1>2. ~ Odd(0)
    BY DEF Odd
  <1>. QED  BY <1>1, <1>2 DEF Init, ModesInv, Waiting, InToken

LEMMA ModesKept == LexType /\ ModesInv /\ [Next]_vars => ModesInv'
  <1>. SUFFICES ASSUME LexType, ModesInv, [Next]_vars PROVE ModesInv'  OBVIOUS
  <1>a. UNCHANGED list => \A type : Odd(Count(type))' <=> Odd(Count(type))
    BY DEF Odd, Count
  <1>1. CASE UNCHANGED vars
    BY <1>1, <1>a DEF ModesInv, Waiting, Quoting, vars, modes, output
  <1>2. ASSUME NEW c \in Chars \cup {Eof}, SkipBlank(c)
        PROVE  ModesInv'
    BY <1>2, <1>a DEF SkipBlank, ModesInv, Waiting, Quoting, modes, output
  <1>3. ASSUME Plain PROVE ModesInv'
    <2>1. /\ pc # "returned" /\ pc # "done" /\ pc' # "done"
          /\ UNCHANGED <<SQUOTE_MODE, DQUOTE_MODE, comment, list>>
      BY <1>3 DEF Plain, modes, output, InToken
    <2>2. ~ Waiting("SQUOTE") /\ ~ Waiting("DQUOTE")
      BY <2>1 DEF Waiting
    <2>3. ~ Waiting("SQUOTE")' /\ ~ Waiting("DQUOTE")'
      BY <1>3 DEF Plain, Waiting
    <2>4. pc' \in InToken => tok'.type \notin Marked
      BY <1>3 DEF Plain, Marked
    <2>5. (Waiting("HASHTAG") \/ Waiting("NLINE"))' => ~ Quoting'
      BY <1>3, <2>1 DEF Plain, Waiting, Quoting
    <2>. QED  BY <1>a, <2>1, <2>2, <2>3, <2>4, <2>5 DEF ModesInv
  <1>4. CASE SingleQuote \/ DoubleQuote
    <2>a. \A k, type : Begun(k, type).type = type
      BY DEF Begun
    <2>1. pc = "start" /\ pc' = "returned" /\ UNCHANGED <<comment, list>>
      BY <1>4 DEF SingleQuote, DoubleQuote, Begin, output
    <2>2. CASE SingleQuote
      <3>1. /\ SQUOTE_MODE' = (~ SQUOTE_MODE /\ ~ DQUOTE_MODE) /\ DQUOTE_MODE' = DQUOTE_MODE
            /\ tok'.type = IF DQUOTE_MODE THEN "QSTRING" ELSE "SQUOTE"
        BY <2>2, <2>a DEF SingleQuote, Begin
      <3>. QED  BY <1>a, <2>1, <3>1 DEF ModesInv, Waiting, InToken
    <2>3. CASE DoubleQuote
      <3>1. /\ DQUOTE_MODE' = (~ DQUOTE_MODE /\ ~ SQUOTE_MODE) /\ SQUOTE_MODE' = SQUOTE_MODE
            /\ tok'.type = IF SQUOTE_MODE THEN "QSTRING" ELSE "DQUOTE"
        BY <2>3, <2>a DEF DoubleQuote, Begin
      <3>. QED  BY <1>a, <2>1, <3>1 DEF ModesInv, Waiting, InToken
    <2>. QED  BY <1>4, <2>2, <2>3
  <1>5. CASE List
    <2>1. /\ Add(tok) /\ pc = "returned" /\ pc' \in {"start", "done"}
          /\ UNCHANGED <<SQUOTE_MODE, DQUOTE_MODE>> /\ ~ comment /\ ~ comment'
      BY <1>5 DEF List, Returned, GoOn, modes
    <2>2. \A type : ~ Waiting(type)' /\ (Waiting(type) <=> tok.type = type)
      BY <2>1 DEF Waiting
    <2>. QED  BY <2>1, <2>2, CountAdd DEF ModesInv, InToken
  <1>6. CASE Skip
    <2>1. /\ pc = "returned" /\ pc' = "start" /\ comment' /\ ~ DQUOTE_MODE'
          /\ UNCHANGED <<SQUOTE_MODE, list>>
          /\ comment \/ tok.type = "HASHTAG"
      BY <1>6 DEF Skip, Returned
    <2>2. ~ Odd(Count("SQUOTE")) /\ ~ Odd(Count("DQUOTE"))
      <3>1. CASE comment  BY <3>1 DEF ModesInv
      <3>2. CASE ~ comment /\ tok.type = "HASHTAG"
        <4>1. Waiting("HASHTAG") /\ ~ Waiting("SQUOTE") /\ ~ Waiting("DQUOTE")
          BY <2>1, <3>2 DEF Waiting
        <4>. QED  BY <2>1, <3>2, <4>1 DEF ModesInv, Quoting
      <3>. QED  BY <2>1, <3>1, <3>2
    <2>. QED  BY <1>a, <2>1, <2>2 DEF ModesInv, Waiting, InToken
  <1>7. CASE EndComment
    <2>1. /\ Add(tok) /\ pc = "returned" /\ comment /\ ~ comment'
          /\ tok.type \in {"NLINE", "EOF"}
          /\ UNCHANGED <<SQUOTE_MODE, DQUOTE_MODE>>
          /\ pc' = IF tok.type = "EOF" THEN "done" ELSE "start"
      BY <1>7 DEF EndComment, Returned, LineEnds, GoOn, modes
    <2>2. ~ Odd(Count("SQUOTE"))' /\ ~ Odd(Count("DQUOTE"))'
      BY <2>1, CountAdd DEF ModesInv
    <2>3. pc' # "done" => ~ SQUOTE_MODE /\ ~ DQUOTE_MODE
      BY <2>1 DEF ModesInv, Waiting, Quoting
    <2>4. \A type : ~ Waiting(type)'
      BY <2>1 DEF Waiting
    <2>. QED  BY <2>1, <2>2, <2>3, <2>4 DEF ModesInv, InToken
  <1>. QED
    BY <1>1, <1>2, <1>3, <1>4, <1>5, <1>6, <1>7, PlainReading DEF Next

\* Between the tokens of every file the lexer is inside a string exactly when
\* the list holds its opening quote and not yet the closing one, and never
\* inside two, whatever comments and other quotes the file has.
THEOREM ModesFollowQuotes == Spec => []ModesMatchTokens
  <1>1. ModesInv => ModesMatchTokens
    BY DEF ModesInv, ModesMatchTokens, Waiting
  <1>. QED  BY <1>1, ModesAtInit, ModesKept, LexTypeHolds, PTL DEF Spec
-----------------------------------------------------------------------------
\* Where tokens end.

\* A token of this type could have gone on with the character c.
GoesOn(type, c) == \/ type = "ID" /\ c \in WordChars
                   \/ type = "INUM" /\ c \in Digits \cup {"."}
                   \/ <<type, c>> \in Pairs

\* What follows a token that ends at offset o does not continue it, now or
\* when the file has been read further.
Shut(type, o) == \/ \A c : ~ GoesOn(type, c)
                 \/ o < Len(text) /\ ~ GoesOn(type, text[o + 1])
                 \/ o = Len(text) /\ ended

\* The character a token that begins at offset o begins with.
Opens(type, o) ==
  /\ type \in Openers \cup {"ID", "INUM", "FNUM", "DOT"} => o < Len(text)
  /\ type = "ID" => text[o + 1] \in WordChars
  /\ type = "INUM" => text[o + 1] \in Digits
  /\ type \in {"FNUM", "DOT"} => text[o + 1] \in Digits \cup {"."}
  /\ type \in Openers => text[o + 1] = type

MunchInv ==
  /\ \A i \in DOMAIN list : Shut(list[i].type, list[i].to) /\ Opens(list[i].type, list[i].from)
  /\ pc = "returned" => Shut(tok.type, tok.to) /\ Opens(tok.type, tok.from)
  /\ pc = "word" => Opens("ID", tok.from)
  /\ pc = "number" => tok.type \in {"INUM", "FNUM", "DOT"} /\ Opens(tok.type, tok.from)
  /\ pc = "second" => tok.type \in Openers /\ Opens(tok.type, tok.from)

LEMMA PairsOpen == \A a, b : <<a, b>> \in Pairs => a \in Openers /\ b \in Openers
  <1>1. ASSUME NEW a, NEW b, <<a, b>> \in Pairs PROVE a \in Openers
    <2>1. <<a, b>>[1] = a  OBVIOUS
    <2>. QED  BY <1>1, <2>1 DEF Openers
  <1>2. ASSUME NEW a, NEW b, <<a, b>> \in Pairs PROVE b \in {"=", "+", "-", "&", "|"}
    BY <1>2, Zenon DEF Pairs
  <1>3. /\ <<"=", "=">> \in Pairs /\ <<"+", "=">> \in Pairs /\ <<"-", "=">> \in Pairs
        /\ <<"&", "&">> \in Pairs /\ <<"|", "|">> \in Pairs
    BY Zenon DEF Pairs
  <1>4. \A b \in {"=", "+", "-", "&", "|"} : b \in Openers
    BY <1>1, <1>3, Zenon
  <1>. QED  BY <1>1, <1>2, <1>4, Zenon

Named == {"WSPACE", "EOF", "NLINE", "word", "DOT", "INUM", "FNUM", "QSTRING", "SQUOTE",
          "DQUOTE", "BSLASH", "HASHTAG", "MARK", "ID", "PAIR", "UNLINE", "TAB", "NTERMINATOR"}

LEMMA NamesOpenNothing == Named \cap Openers = {}
  <1>. DEFINE Signs == {"=", "+", "-", "*", "/", "<", ">", "!", "%", "&", "|"}
  <1>1. \A p \in Pairs : p[1] \in Signs
    <2>1. \A a, b : <<a, b>>[1] = a
      OBVIOUS
    <2>2. ASSUME NEW p \in Pairs PROVE p[1] \in Signs
      BY <2>1, <2>2, ZenonT(40) DEF Pairs
    <2>. QED  BY <2>2
  <1>2. Named \cap Signs = {}
    BY ZenonT(40) DEF Named
  <1>. QED  BY <1>1, <1>2, Zenon DEF Openers

\* The types that end whatever follows, and those that may begin with anything.
Closed == {"WSPACE", "EOF", "NLINE", "QSTRING", "SQUOTE", "DQUOTE", "BSLASH", "HASHTAG",
           "MARK", "PAIR", "UNLINE", "TAB", "NTERMINATOR"}

LEMMA ClosedFits ==
  /\ \A type \in Closed : type \notin Openers \cup {"ID", "INUM", "FNUM", "DOT"}
  /\ \A type \in Closed \cup {"FNUM", "DOT"} : \A c : ~ GoesOn(type, c)
  <1>1. \A type \in Closed : type \notin Openers \cup {"ID", "INUM", "FNUM", "DOT"}
    BY NamesOpenNothing DEF Closed, Named
  <1>2. \A type \in {"FNUM", "DOT"} : type \notin Openers \cup {"ID", "INUM"}
    BY NamesOpenNothing DEF Named
  <1>3. \A type, c : GoesOn(type, c) => type \in Openers \cup {"ID", "INUM"}
    BY PairsOpen DEF GoesOn
  <1>. QED  BY <1>1, <1>2, <1>3

\* Reading further changes nothing about the tokens there are.
LEMMA EndsStay ==
  ASSUME LexType, NEW c \in Chars \cup {Eof}, Fetch(c)
  PROVE  \A type : \A o \in Nat : o =< Len(text) =>
           /\ Shut(type, o) => Shut(type, o)'
           /\ Opens(type, o) => Opens(type, o)'
  <1>1. /\ Len(text) \in Nat /\ Len(text') \in Nat /\ Len(text) =< Len(text')
        /\ \A i \in 1 .. Len(text) : text'[i] = text[i]
        /\ ended => ended' /\ text' = text
    <2>1. text' \in Seq(Chars)  BY FetchTells
    <2>. QED  BY <2>1, FetchTells, TypesTell
  <1>2. ASSUME NEW type, NEW o \in Nat, o =< Len(text), Shut(type, o)
        PROVE  Shut(type, o)'
    <2>1. CASE \A d : ~ GoesOn(type, d)  BY <2>1 DEF Shut
    <2>2. CASE o < Len(text) /\ ~ GoesOn(type, text[o + 1])
      <3>1. o < Len(text') /\ text'[o + 1] = text[o + 1]  BY <1>1, <2>2
      <3>. QED  BY <2>2, <3>1 DEF Shut
    <2>3. CASE o = Len(text) /\ ended  BY <1>1, <2>3 DEF Shut
    <2>. QED  BY <1>2, <2>1, <2>2, <2>3 DEF Shut
  <1>3. ASSUME NEW type, NEW o \in Nat, o =< Len(text), Opens(type, o)
        PROVE  Opens(type, o)'
    <2>1. CASE type \in Openers \cup {"ID", "INUM", "FNUM", "DOT"}
      <3>1. o < Len(text') /\ text'[o + 1] = text[o + 1]  BY <1>1, <1>3, <2>1 DEF Opens
      <3>. QED  BY <1>3, <3>1 DEF Opens
    <2>2. CASE type \notin Openers \cup {"ID", "INUM", "FNUM", "DOT"}
      BY <2>2 DEF Opens
    <2>. QED  BY <2>1, <2>2
  <1>. QED  BY <1>2, <1>3

\* The part of the invariant about the token at hand.
TokenFits ==
  /\ pc = "returned" => Shut(tok.type, tok.to) /\ Opens(tok.type, tok.from)
  /\ pc = "word" => Opens("ID", tok.from)
  /\ pc = "number" => tok.type \in {"INUM", "FNUM", "DOT"} /\ Opens(tok.type, tok.from)
  /\ pc = "second" => tok.type \in Openers /\ Opens(tok.type, tok.from)

\* A token's first character.
LEMMA BegunFits ==
  ASSUME LexType, NEW c \in Chars \cup {Eof},
         \/ Single(c) \/ WordStart(c) \/ NumberStart(c) \/ OperatorStart(c) \/ Other(c)
         \/ SingleQuote \/ DoubleQuote \/ BackSlash \/ QuotedDot
  PROVE  TokenFits'
  <1>a. \A k, type : Begun(k, type).type = type /\ Begun(k, type).from = cur.pos
    BY DEF Begun
  <1>b. \A k, type : tok' = Begun(k, type) => tok'.type = type /\ tok'.from = cur.pos
    BY <1>a
  <1>c. pc' = "returned" /\ tok'.type \in Closed => TokenFits'
    <2>1. ASSUME pc' = "returned", tok'.type \in Closed
          PROVE  (Shut(tok.type, tok.to) /\ Opens(tok.type, tok.from))'
      BY <2>1, ClosedFits DEF Shut, Opens
    <2>. QED  BY <2>1 DEF TokenFits
  <1>d. ASSUME Fetch(c), c # Eof
        PROVE  cur.pos < Len(text') /\ text'[cur.pos + 1] = c
    <2>1. text' \in Seq(Chars) /\ cur.pos + 1 \in 1 .. Len(text') /\ text'[cur.pos + 1] = c
      BY <1>d, FetchTells
    <2>. QED  BY <2>1, TypesTell
  <1>1. CASE Single(c)
    <2>1. pc' = "returned" /\ tok'.type \in Closed
      BY <1>1, <1>b DEF Single, Begin, Closed
    <2>. QED  BY <1>c, <2>1
  <1>2. CASE SingleQuote
    <2>1. pc' = "returned" /\ tok'.type \in Closed
      BY <1>2, <1>b DEF SingleQuote, Begin, Closed
    <2>. QED  BY <1>c, <2>1
  <1>3. CASE DoubleQuote
    <2>1. pc' = "returned" /\ tok'.type \in Closed
      BY <1>3, <1>b, Zenon DEF DoubleQuote, Begin, Closed
    <2>. QED  BY <1>c, <2>1
  <1>4. CASE Other(c) \/ QuotedDot
    <2>1. pc' = "returned" /\ tok'.type \in Closed
      BY <1>4, <1>b DEF Other, QuotedDot, Begin, Closed
    <2>. QED  BY <1>c, <2>1
  <1>5. CASE BackSlash
    <2>1. pc' = "escape"
      BY <1>5 DEF BackSlash, Begin
    <2>. QED  BY <2>1 DEF TokenFits
  <1>6. CASE WordStart(c)
    <2>1. Fetch(c) /\ pc' = "word" /\ tok'.from = cur.pos /\ c \in WordChars
      BY <1>6, <1>b DEF WordStart, Begin, WordChars
    <2>2. c # Eof
      BY <2>1 DEF WordChars, Letters, Digits, Eof
    <2>3. "ID" \notin Openers  BY NamesOpenNothing DEF Named
    <2>4. tok'.from < Len(text') /\ text'[tok'.from + 1] \in WordChars
      BY <1>d, <2>1, <2>2
    <2>. QED  BY <2>1, <2>3, <2>4 DEF TokenFits, Opens
  <1>7. CASE NumberStart(c)
    <2>1. /\ Fetch(c) /\ pc' = "number" /\ tok'.from = cur.pos
          /\ tok'.type = IF c = "." THEN "DOT" ELSE "INUM"
          /\ c \in Digits \cup {"."}
      BY <1>7, <1>b DEF NumberStart, Begin
    <2>2. c # Eof
      BY <2>1 DEF Digits, Eof
    <2>3. tok'.from < Len(text') /\ text'[tok'.from + 1] = c
      BY <1>d, <2>1, <2>2
    <2>4. tok'.type \notin Openers
      BY <2>1, NamesOpenNothing DEF Named
    <2>. QED  BY <2>1, <2>3, <2>4 DEF TokenFits, Opens
  <1>8. CASE OperatorStart(c)
    <2>1. /\ Fetch(c) /\ pc' = "second" /\ tok'.from = cur.pos /\ tok'.type = c /\ c \in Openers
      BY <1>8, <1>b DEF OperatorStart, Begin, Read
    <2>2. c # Eof /\ c \notin {"ID", "INUM", "FNUM", "DOT"}
      BY <2>1, NamesOpenNothing DEF Eof, Named
    <2>3. tok'.from < Len(text') /\ text'[tok'.from + 1] = c
      BY <1>d, <2>1, <2>2
    <2>. QED  BY <2>1, <2>2, <2>3 DEF TokenFits, Opens
  <1>. QED  BY <1>1, <1>2, <1>3, <1>4, <1>5, <1>6, <1>7, <1>8
\* The rest of it, up to the character that is pushed back.
LEMMA ContinuedFits ==
  ASSUME LexType, CoverInv, TokenFits, NEW c \in Chars \cup {Eof},
         Word(c) \/ Number(c) \/ Second(c) \/ Escape(c)
  PROVE  TokenFits'
  <1>. /\ pc \in InToken /\ Fetch(c)
    BY DEF Word, Number, Second, Escape, InToken, Read, ReadAndPushBack
  <1>a. \A type, n : LET t == [tok EXCEPT !.type = type]
                         u == [tok EXCEPT !.type = type, !.to = n]
                     IN  /\ t.type = type /\ t.from = tok.from /\ t.to = tok.to
                         /\ u.type = type /\ u.from = tok.from
    BY DEF LexType, Token
  <1>b. \A type : Take(type) => tok'.type = type /\ tok'.from = tok.from
    BY <1>a DEF Take
  <1>c. \A type : FinishWith(type) => tok'.type = type /\ pc' = "returned"
    BY <1>b DEF FinishWith
  <1>d. \A type : Finish(type) => /\ tok'.type = type /\ pc' = "returned"
                                  /\ tok'.from = tok.from /\ tok'.to = tok.to
    BY <1>a DEF Finish
  <1>e. pc' = "returned" /\ tok'.type \in Closed => TokenFits'
    <2>1. ASSUME pc' = "returned", tok'.type \in Closed
          PROVE  (Shut(tok.type, tok.to) /\ Opens(tok.type, tok.from))'
      BY <2>1, ClosedFits DEF Shut, Opens
    <2>. QED  BY <2>1 DEF TokenFits
  <1>f. ASSUME NEW type, Opens(type, tok.from), tok'.from = tok.from
        PROVE  Opens(type, tok.from)'
    <2>1. tok.from \in Nat /\ tok.from =< Len(text)
      BY TypesTell
    <2>2. \A o \in Nat : o =< Len(text) /\ Opens(type, o) => Opens(type, o)'
      BY EndsStay
    <2>. QED  BY <1>f, <2>1, <2>2 DEF Opens
  <1>g. ASSUME NEW type, ReadAndPushBack(c), Finish(type), c # Eof => ~ GoesOn(type, c)
        PROVE  Shut(tok.type, tok.to)'
    <2>1. tok'.type = type /\ tok'.to = cur.pos /\ cur.pos \in Nat
      BY <1>d, <1>g, TypesTell DEF CoverInv
    <2>2. text' \in Seq(Chars)
      BY FetchTells
    <2>3. CASE c = Eof
      <3>1. tok'.to = Len(text') /\ ended'
        BY <2>1, <2>3, FetchTells
      <3>. QED  BY <3>1 DEF Shut
    <2>4. CASE c # Eof
      <3>1. cur.pos < Len(text') /\ text'[cur.pos + 1] = c
        BY <2>1, <2>2, <2>4, FetchTells
      <3>. QED  BY <1>g, <2>1, <2>4, <3>1 DEF Shut
    <2>. QED  BY <2>3, <2>4
  <1>1. CASE Word(c)
    <2>1. CASE c \in WordChars
      <3>1. Take(tok.type) /\ pc = "word" /\ pc' = "word" /\ Quoting' = Quoting
        BY <1>1, <2>1 DEF Word, modes, Quoting
      <3>2. Opens("ID", tok.from) => Opens("ID", tok.from)'
        BY <1>b, <1>f, <3>1
      <3>. QED  BY <3>1, <3>2 DEF TokenFits
    <2>2. CASE c \notin WordChars
      <3>1. Finish("QSTRING") \/ Finish("ID")
        BY <1>1, <2>2 DEF Word, WordType
      <3>2. CASE Finish("QSTRING")
        BY <1>d, <1>e, <3>2 DEF Closed
      <3>3. CASE Finish("ID")
        <4>1. "ID" \notin Openers  BY NamesOpenNothing DEF Named
        <4>2. <<"ID", c>> \notin Pairs  BY <4>1, PairsOpen
        <4>3. ~ GoesOn("ID", c)  BY <2>2, <4>2 DEF GoesOn
        <4>4. ReadAndPushBack(c) /\ pc = "word"  BY <1>1, <2>2 DEF Word
        <4>5. /\ tok'.type = "ID" /\ pc' = "returned" /\ tok'.from = tok.from
              /\ Shut(tok.type, tok.to)'
          BY <1>d, <1>g, <3>3, <4>3, <4>4
        <4>6. Opens("ID", tok.from)'
          BY <1>f, <4>4, <4>5 DEF TokenFits
        <4>7. Opens(tok.type, tok.from)'
          BY <4>5, <4>6 DEF Opens
        <4>. QED  BY <4>5, <4>7 DEF TokenFits
      <3>. QED  BY <3>1, <3>2, <3>3
    <2>. QED  BY <2>1, <2>2
  <1>2. CASE Number(c)
    <2>0. /\ pc = "number" /\ tok.type \in {"INUM", "FNUM", "DOT"} /\ Opens(tok.type, tok.from)
          /\ tok.type \notin Openers /\ "FNUM" \notin Openers
      BY <1>2, NamesOpenNothing DEF Number, TokenFits, Named
    <2>1. CASE c \in Digits \/ (c = "." /\ tok.type = "INUM")
      <3>1. /\ pc' = "number" /\ tok'.from = tok.from
            /\ tok'.type = tok.type \/ tok'.type = "FNUM"
        BY <1>2, <1>b, <2>1 DEF Number, Digits
      <3>2. Opens(tok.type, tok.from) => Opens("FNUM", tok.from)
        BY <2>0 DEF Opens
      <3>3. ASSUME NEW type, tok'.type = type, Opens(type, tok.from), type \in {"INUM", "FNUM", "DOT"}
            PROVE  TokenFits'
        <4>1. Opens(type, tok.from)'  BY <1>f, <3>1, <3>3
        <4>2. Opens(tok.type, tok.from)'  BY <3>3, <4>1 DEF Opens
        <4>. QED  BY <3>1, <3>3, <4>2 DEF TokenFits
      <3>. QED  BY <2>0, <3>1, <3>2, <3>3
    <2>2. CASE ~ (c \in Digits \/ (c = "." /\ tok.type = "INUM"))
      <3>1. Finish(tok.type) /\ ReadAndPushBack(c)
        BY <1>2, <2>2 DEF Number
      <3>2. ~ GoesOn(tok.type, c)
        BY <2>0, <2>2, PairsOpen DEF GoesOn
      <3>3. /\ tok'.type = tok.type /\ pc' = "returned" /\ tok'.from = tok.from
            /\ Shut(tok.type, tok.to)'
        BY <1>d, <1>g, <3>1, <3>2
      <3>4. Opens(tok.type, tok.from)'
        BY <1>f, <2>0, <3>3 DEF Opens
      <3>. QED  BY <3>3, <3>4 DEF TokenFits
    <2>. QED  BY <2>1, <2>2
  <1>3. CASE Second(c)
    <2>0. pc = "second" /\ tok.type \in Openers /\ Opens(tok.type, tok.from)
      BY <1>3 DEF Second, TokenFits
    <2>1. CASE <<tok.type, c>> \in Pairs
      <3>1. FinishWith("PAIR")  BY <1>3, <2>1 DEF Second
      <3>. QED  BY <1>c, <1>e, <3>1 DEF Closed
    <2>2. CASE <<tok.type, c>> \notin Pairs
      <3>1. Finish(tok.type) /\ ReadAndPushBack(c)
        BY <1>3, <2>2 DEF Second
      <3>2. tok.type \notin {"ID", "INUM"}
        BY <2>0, NamesOpenNothing DEF Named
      <3>3. ~ GoesOn(tok.type, c)
        BY <2>2, <3>2 DEF GoesOn
      <3>4. /\ tok'.type = tok.type /\ pc' = "returned" /\ tok'.from = tok.from
            /\ Shut(tok.type, tok.to)'
        BY <1>d, <1>g, <3>1, <3>3
      <3>5. Opens(tok.type, tok.from)'
        BY <1>f, <2>0, <3>4 DEF Opens
      <3>. QED  BY <3>4, <3>5 DEF TokenFits
    <2>. QED  BY <2>1, <2>2
  <1>4. CASE Escape(c)
    <2>1. \E type \in Closed : Finish(type) \/ FinishWith(type)
      BY <1>4 DEF Escape, Closed
    <2>. QED  BY <1>c, <1>d, <1>e, <2>1
  <1>. QED  BY <1>1, <1>2, <1>3, <1>4

LEMMA MunchAtInit == Init => MunchInv
  <1>. SUFFICES ASSUME Init PROVE MunchInv  OBVIOUS
  <1>1. pc = "start" /\ DOMAIN list = {}
    BY DEF Init
  <1>. QED  BY <1>1 DEF MunchInv

LEMMA MunchKept == LexType /\ PlaceInv /\ CoverInv /\ MunchInv /\ [Next]_vars => MunchInv'
  <1>. SUFFICES ASSUME LexType, PlaceInv, CoverInv, MunchInv, [Next]_vars PROVE MunchInv'
    OBVIOUS
  <1>. DEFINE ListFits == \A i \in DOMAIN list : /\ Shut(list[i].type, list[i].to)
                                               /\ Opens(list[i].type, list[i].from)
  <1>1. CASE UNCHANGED vars
    BY <1>1 DEF MunchInv, Shut, Opens, Quoting, vars, file, modes, output
  <1>2. ASSUME Next PROVE TokenFits'
    <2>1. TokenFits  BY DEF MunchInv, TokenFits
    <2>2. ASSUME NEW c \in Chars \cup {Eof}, SkipBlank(c)
          PROVE  TokenFits'
      BY <2>2 DEF SkipBlank, TokenFits
    <2>3. CASE List \/ Skip \/ EndComment
      <3>1. pc' \in {"start", "done"}
        BY <2>3 DEF List, Skip, EndComment, GoOn
      <3>. QED  BY <3>1 DEF TokenFits
    <2>4. CASE SingleQuote \/ DoubleQuote \/ BackSlash \/ QuotedDot
      <3>1. Eof \in Chars \cup {Eof}  OBVIOUS
      <3>. QED  BY <2>4, <3>1, BegunFits
    <2>. QED  BY <1>2, <2>1, <2>2, <2>3, <2>4, BegunFits, ContinuedFits DEF Next
  <1>3. CASE Reading
    <2>. PICK c \in Chars \cup {Eof} : Fetch(c) /\ UNCHANGED list
      BY <1>3 DEF Reading, Blank, Starts, Continues, Stops, output
    <2>1. \A type : \A o \in Nat : o =< Len(text) =>
            /\ Shut(type, o) => Shut(type, o)'
            /\ Opens(type, o) => Opens(type, o)'
      BY EndsStay
    <2>2. \A i \in DOMAIN list : /\ list[i].from \in Nat /\ list[i].to \in Nat
                                /\ list[i].from =< Len(text) /\ list[i].to =< Len(text)
      <3>1. Reached \in Nat /\ Reached =< Len(text)  BY TypesTell DEF Reached
      <3>. QED  BY <3>1, TypesTell DEF PlaceInv, CoverInv
    <2>3. ASSUME NEW i \in DOMAIN list
          PROVE  (Shut(list[i].type, list[i].to) /\ Opens(list[i].type, list[i].from))'
      <3>1. Shut(list[i].type, list[i].to) /\ Opens(list[i].type, list[i].from)
        BY DEF MunchInv
      <3>2. \A type, o : type = list[i].type /\ o = list[i].to /\ Shut(type, o)
                     => Shut(type, o)'
        BY <2>1, <2>2
      <3>3. \A type, o : type = list[i].type /\ o = list[i].from /\ Opens(type, o)
                     => Opens(type, o)'
        BY <2>1, <2>2
      <3>. QED  BY <3>1, <3>2, <3>3 DEF Shut, Opens
    <2>4. ListFits'
      BY <2>3
    <2>. QED  BY <1>1, <1>2, <2>4 DEF MunchInv, TokenFits
  <1>4. CASE List \/ EndComment
    <2>1. UNCHANGED <<text, ended, tok>> /\ Add(tok) /\ pc = "returned"
      BY <1>4 DEF List, EndComment, Returned, file
    <2>2. \A i \in DOMAIN list' : list'[i] = tok \/ (i \in DOMAIN list /\ list'[i] = list[i])
      BY <2>1, AddType
    <2>3. ListFits'
      <3>1. ASSUME NEW i \in DOMAIN list'
            PROVE  (Shut(list[i].type, list[i].to) /\ Opens(list[i].type, list[i].from))'
        <4>1. Shut(list'[i].type, list'[i].to) /\ Opens(list'[i].type, list'[i].from)
          BY <2>1, <2>2 DEF MunchInv
        <4>. QED  BY <2>1, <4>1 DEF Shut, Opens
      <3>. QED  BY <3>1
    <2>. QED  BY <1>2, <1>4, <2>3, Zenon DEF MunchInv, TokenFits, Next
  <1>5. CASE Skip
    <2>1. UNCHANGED <<text, ended, list>>
      BY <1>5 DEF Skip, file
    <2>2. ListFits'
      BY <2>1 DEF MunchInv, Shut, Opens
    <2>. QED  BY <1>2, <1>5, <2>2, Zenon DEF MunchInv, TokenFits, Next
  <1>. QED  BY <1>1, <1>3, <1>4, <1>5, Shapes

\* No token of any file ends where it could have gone on: words, numbers and
\* operators of two characters are never split, at the end of the file or after
\* a character pushed back either.
THEOREM TokensAreMaximal == Spec => []MaximalMunch
  <1>1. ASSUME LexType, MunchInv PROVE MaximalMunch
    <2>1. ASSUME NEW i \in 2 .. Len(list), list[i - 1].to = list[i].from
          PROVE  LET t == list[i - 1].type  u == list[i].type IN
                 /\ ~ (t = "ID" /\ u \in {"ID", "INUM"})
                 /\ ~ (t = "INUM" /\ u \in {"INUM", "FNUM", "DOT"})
                 /\ <<t, u>> \notin Pairs
      <3>. DEFINE t == list[i - 1].type  u == list[i].type  o == list[i].from
      <3>1. i \in DOMAIN list /\ i - 1 \in DOMAIN list
        BY TypesTell
      <3>2. Shut(t, o) /\ Opens(u, o) /\ o \in Nat /\ Len(text) \in Nat
        BY <1>1, <2>1, <3>1, TypesTell DEF MunchInv
      <3>. HIDE DEF t, u, o
      <3>3. o < Len(text) => ~ GoesOn(t, text[o + 1])
        BY <3>2 DEF Shut
      <3>4. ~ (t = "ID" /\ u \in {"ID", "INUM"})
        BY <3>2, <3>3 DEF Opens, GoesOn, WordChars
      <3>5. ~ (t = "INUM" /\ u \in {"INUM", "FNUM", "DOT"})
        BY <3>2, <3>3 DEF Opens, GoesOn
      <3>6. <<t, u>> \notin Pairs
        BY <3>2, <3>3, PairsOpen DEF Opens, GoesOn
      <3>. QED  BY <3>4, <3>5, <3>6 DEF t, u
    <2>. QED  BY <2>1 DEF MaximalMunch
  <1>. QED
    BY <1>1, PlacesAtInit, PlacesKept, CoverAtInit, CoverKept, MunchAtInit, MunchKept,
       LexTypeHolds, PTL DEF Spec
=============================================================================
