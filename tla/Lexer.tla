-------------------------------- MODULE Lexer --------------------------------
(***************************************************************************)
(* lexer.cpp: a text to tokens.  A text is a sequence of pieces, each a    *)
(* character or a run of letters or of digits, which the scan only ever    *)
(* takes whole.                                                            *)
(* One step is one turn of the loop in lexing(), and inside a comment one  *)
(* turn of the comment's own loop.                                         *)
(***************************************************************************)
EXTENDS Naturals, Sequences, SequencesExt

VARIABLES text,
          pos,    \* the next piece to read
          mode,   \* "scan", "line" or "block" (in a comment), "end", "refused"
          tokens  \* records of: kind, text, from, to (pieces from..to-1)

lexer == <<text, pos, mode, tokens>>

EOF    == "\\0"
Blank  == {" ", "\n"}
Digit  == {"0", "1", "2", "200", "32768", "22222222", "2222222222"}
Single == {"(", ")", "{", "}", "[", "]", ";", ":", ",", "~", "?", "_"}
OperatorStart == {".", "+", "-", "*", "/", "%", "=", "!", "<", ">", "&", "|", "^"}
Other  == {"\"", "'", "\\", "@", EOF}
Letters(c) == c \notin Blank \cup Digit \cup Single \cup OperatorStart \cup Other

Peek(i) == IF i > Len(text) THEN EOF ELSE text[i]

\* Up to the first piece that is not in S, or the end of the text.
Skip(i, S) ==
  CHOOSE j \in i..(Len(text) + 1) : Peek(j) \notin S /\ \A k \in i..(j - 1) : Peek(k) \in S

\* Mutant: the rest of a name is not tested for letters.
RestWithoutLetters(c) == c \in Digit \/ c = "_"

\* isIdentFirst never sees "_": scan has returned it as a symbol before.
IsIdentRest(c) == Letters(c) \/ c \in Digit \/ c = "_"

SkipIdent(i) ==
  CHOOSE j \in i..(Len(text) + 1) :
    ~IsIdentRest(Peek(j)) /\ \A k \in i..(j - 1) : IsIdentRest(Peek(k))

Pieces(from, to) == SubSeq(text, from, to - 1)
Concat(pieces) == FoldLeft(LAMBDA s, c : s \o c, "", pieces)
Text(from, to) == Concat(Pieces(from, to))

Widths == [int    |-> {"i8", "i16", "i32", "i64", "i128", "u8", "u16", "u32", "u64", "u128"},
           float  |-> {"f16", "f32", "f64", "f128"},
           char   |-> {"c8", "c16", "c32"}]

keyword_map ==
  {"int", "float", "fixed", "char", "string", "bool", "null", "if", "else", "switch", "case",
   "for", "while", "break", "continue", "return", "func", "void", "class", "struct", "public",
   "protected", "private", "internal", "impl", "trait", "extends", "enum", "try", "catch", "new",
   "root", "const", "default", "match", "throw", "super", "this", "as", "frame", "override",
   "async", "world", "arena", "Handle", "Error", "init", "self", "by", "onDestroy"}

\* The kind of a keyword, an operator or a symbol is its text.
WordKind(word) ==
  CASE word \in keyword_map -> word
    [] \E w \in DOMAIN Widths : word \in Widths[w] -> "SIZE"
    [] word \in {"true", "false"} -> "LIT_BOOL"
    [] OTHER -> "IDENTIFIER"

-----------------------------------------------------------------------------
(* scan: what is found at i, and where it ends. *)

Found(kind, i, to) == [kind |-> kind, text |-> Text(i, to), from |-> i, to |-> to]
Refused == [kind |-> "refused"]

\* The operators of two and of three pieces, tried by hand in scan.
TwoPieces(a, b) ==
  \/ a \in {"+", "-", "%", "!", "^"} /\ b = "="
  \/ a \in {"<", ">", "&", "|", "*"} /\ b \in {a, "="}
  \/ a = "." /\ b = "."
  \/ a = "=" /\ b \in {"=", ">"}
  \/ a = "/" /\ b \in {"=", "/"}
ThreePieces(a, b, c) == a \in {"*", "<", ">"} /\ b = a /\ c = "="

\* Mutant: no operator has three pieces.
ShortOperator(i) ==
  LET to == IF TwoPieces(Peek(i), Peek(i + 1)) THEN i + 2 ELSE i + 1
  IN Found(Text(i, to), i, to)

Operator(i) ==
  LET to == IF ThreePieces(Peek(i), Peek(i + 1), Peek(i + 2)) THEN i + 3
            ELSE IF TwoPieces(Peek(i), Peek(i + 1)) THEN i + 2 ELSE i + 1
  IN Found(Text(i, to), i, to)

Word(i, to) == Found(WordKind(Text(i, to)), i, to)

\* No escapes, and a string may run over lines.
Closing(i) == {j \in i..Len(text) : text[j] = "\""}

StringLiteral(i) ==
  IF Closing(i + 1) = {} THEN Refused
  ELSE LET close == Min(Closing(i + 1))
       IN [Found("LIT_STRING", i, close + 1) EXCEPT !.text = Text(i + 1, close)]

isEscapeChar == {"'", "\"", "?", "\\", "a", "b", "f", "n", "r", "t", "v"}

CharLiteral(i) ==
  LET last == IF Peek(i + 1) = "\\" THEN i + 2 ELSE i + 1
  IN IF (last = i + 2 /\ Peek(last) \notin isEscapeChar) \/ Peek(last + 1) # "'"
     THEN Refused
     ELSE [Found("LIT_CHARACTER", i, last + 2) EXCEPT !.text = Text(i + 1, last + 1)]

\* A point followed by another one is left to the range operator.
Fraction(i) ==
  IF Peek(i) = "." /\ Peek(i + 1) # "." THEN Skip(i + 1, Digit) ELSE i

\* An exponent may have no digits.
Exponent(i) ==
  IF Peek(i) \notin {"e", "E"} THEN i
  ELSE Skip(IF Peek(i + 1) \in {"+", "-"} THEN i + 2 ELSE i + 1, Digit)

\* Mutant: the token starts where its whole part ends.
LateStart(i) ==
  LET whole == Skip(i, Digit)
      to    == Exponent(Fraction(whole))
  IN Found(IF to = whole THEN "LIT_INT" ELSE "LIT_FLOAT", whole, to)

\* The early return before ".." skips the exponent, which cannot follow there.
Number(i) ==
  LET whole == Skip(i, Digit)
      to    == Exponent(Fraction(whole))
  IN Found(IF to = whole THEN "LIT_INT" ELSE "LIT_FLOAT", i, to)

Scan(i) ==
  LET c == Peek(i)
  IN CASE c = EOF              -> [kind |-> "END", text |-> "", from |-> i, to |-> i]
       [] c \in Single         -> Found(c, i, i + 1)
       [] c \in OperatorStart  -> Operator(i)
       [] Letters(c)           -> Word(i, SkipIdent(i))
       [] c = "\""             -> StringLiteral(i)
       [] c = "'"              -> CharLiteral(i)
       [] c \in Digit          -> Number(i)
       [] c \in {"\\", "@"}    -> Refused

-----------------------------------------------------------------------------
\* skipWS, then the scan of one token.  An END is pushed only for a text that
\* ends in blanks.  A comment starts at its second character.
ScanToken ==
  /\ mode = "scan" /\ Peek(pos) # EOF
  /\ LET i        == Skip(pos, Blank)
         opens(c) == Peek(i) = "/" /\ Peek(i + 1) = c
         t        == Scan(i)
     IN CASE opens("/") -> mode' = "line" /\ pos' = i + 2 /\ UNCHANGED tokens
          [] opens("*") -> mode' = "block" /\ pos' = i + 1 /\ UNCHANGED tokens
          [] t = Refused -> mode' = "refused" /\ UNCHANGED <<pos, tokens>>
          [] OTHER -> tokens' = Append(tokens, t) /\ pos' = t.to /\ UNCHANGED mode
  /\ UNCHANGED text

\* get() does not move past the end of the text.
Get(i) == IF i > Len(text) THEN i ELSE i + 1

\* The loop waits for a newline, also at the end of the text.
LineComment ==
  /\ mode = "line"
  /\ IF Peek(pos) = "\n" THEN mode' = "scan" /\ UNCHANGED pos
                         ELSE pos' = Get(pos) /\ UNCHANGED mode
  /\ UNCHANGED <<text, tokens>>

\* Mutant: a star that does not close the comment takes the next piece with it.
BlockCommentSkips ==
  /\ mode = "block"
  /\ IF Peek(pos) = "*"
     THEN pos' = Get(Get(pos)) /\ mode' = IF Peek(Get(pos)) = "/" THEN "scan" ELSE mode
     ELSE pos' = Get(pos) /\ UNCHANGED mode
  /\ UNCHANGED <<text, tokens>>

\* The loop begins at the star that opened the comment.
BlockComment ==
  /\ mode = "block"
  /\ IF Peek(pos) = "*" /\ Peek(Get(pos)) = "/"
     THEN pos' = Get(Get(pos)) /\ mode' = "scan"
     ELSE pos' = Get(pos) /\ UNCHANGED mode
  /\ UNCHANGED <<text, tokens>>

LexingEnds ==
  /\ mode = "scan" /\ Peek(pos) = EOF
  /\ mode' = "end"
  /\ UNCHANGED <<text, pos, tokens>>

LexerInit == pos = 1 /\ mode = "scan" /\ tokens = <<>>

Lexing == ScanToken \/ LineComment \/ BlockComment \/ LexingEnds

\* The Lexer by itself, on any text.
LexerSpec == text \in Seq(STRING) /\ LexerInit /\ [][Lexing]_lexer

-----------------------------------------------------------------------------
(* Properties *)

At(i, pieces) == i + Len(pieces) - 1 <= Len(text) /\ \A k \in DOMAIN pieces : text[i + k - 1] = pieces[k]

\* A comment that nothing closes: the one way in which the scan goes on for ever.
OpenComment ==
  \/ mode = "line"  /\ \E i \in DOMAIN text : At(i, <<"/", "/">>) /\ \A j \in i..Len(text) : ~At(j, <<"\n">>)
  \/ mode = "block" /\ \E i \in DOMAIN text : At(i, <<"/", "*">>) /\ \A j \in (i + 1)..Len(text) : ~At(j, <<"*", "/">>)

\* The tokens of Token.h that are made of operator characters, and the two
\* openings of comments.
Lexemes ==
  {<<c>> : c \in OperatorStart}
    \cup {<<".", ".">>, <<"*", "*">>, <<"=", "=">>, <<"&", "&">>, <<"|", "|">>, <<"<", "<">>,
          <<">", ">">>, <<"=", ">">>, <<"/", "/">>, <<"/", "*">>}
    \cup {<<c, "=">> : c \in {"+", "-", "*", "/", "%", "^", "&", "|", "!", "<", ">"}}
    \cup {<<c, c, "=">> : c \in {"*", "<", ">"}}

\* Every token that starts with an operator character is a lexeme, and the
\* longest one that starts there (the nested tests of scan, lexer.cpp:103-289).
MaximalMunch ==
  \A t \in Range(tokens) : Peek(t.from) \in OperatorStart =>
    /\ Pieces(t.from, t.to) \in Lexemes
    /\ \A to \in (t.to + 1)..(t.from + 3) :
         to <= Len(text) + 1 => Pieces(t.from, to) \notin Lexemes

\* Nothing is lost or read twice: tokens follow one another in the text, and
\* what has been read and is in no token is blank, or follows the opening of a
\* comment with no token between (skipWS, and every get() of scan).
NothingLost ==
  /\ \A k \in DOMAIN tokens :
       /\ tokens[k].from <= tokens[k].to
       /\ tokens[k].to <= IF k = Len(tokens) THEN pos ELSE tokens[k + 1].from
  /\ \A i \in DOMAIN text : i < pos =>
       \/ text[i] \in Blank
       \/ \E t \in Range(tokens) : i \in t.from..(t.to - 1)
       \/ \E j \in 1..i : /\ At(j, <<"/", "/">>) \/ At(j, <<"/", "*">>)
                         /\ \A t \in Range(tokens) : t.to <= j \/ i < t.from

\* Every turn of a loop reads on or ends what it was doing: a scan takes no more
\* turns than this, if no comment waits at the end of the text for ever
\* (lexer.cpp:14-29, 153-171).
TurnsLeft ==
  3 * (Len(text) + 1 - pos)
    + (IF mode \in {"line", "block"} THEN 2 ELSE IF mode = "scan" THEN 1 ELSE 0)
ScanAdvances == [][TurnsLeft' < TurnsLeft /\ TurnsLeft' >= 0]_lexer
=============================================================================
