----------------------------- MODULE LexerProofs -----------------------------
(***************************************************************************)
(* The Lexer on every text, of every length and of any pieces: each        *)
(* operator is the longest that stands there, no piece is lost or read     *)
(* twice, and a scan of n pieces takes at most 3 n + 1 turns of its loops. *)
(*                                                                         *)
(* The argument is about Scan first: where the token it finds at a place   *)
(* ends (ScanSpan), and that an operator found there is the longest        *)
(* (OperatorLongest).  The invariant then says that every token is what    *)
(* Scan finds where the token starts, in a place where no comment opens.   *)
(***************************************************************************)
EXTENDS Lexer, SequenceTheorems, Minimality, TLAPS

\* One more than the place of the last piece.
Stop == Len(text) + 1

Opens(i) == Peek(i) = "/" /\ Peek(i + 1) \in {"/", "*"}
Starts == {i \in 1..Stop : Peek(i) \notin Blank /\ ~Opens(i) /\ Scan(i) # Refused}
Tokens == {Scan(i) : i \in Starts}

Ordered ==
  \A k \in DOMAIN tokens :
    /\ tokens[k].from <= tokens[k].to
    /\ tokens[k].to <= IF k = Len(tokens) THEN pos ELSE tokens[k + 1].from

\* A comment opened at j, after every token.
Commented(j) ==
  /\ At(j, <<"/", "/">>) \/ At(j, <<"/", "*">>)
  /\ \A t \in Range(tokens) : t.to <= j

Accounted(i) ==
  \/ text[i] \in Blank
  \/ \E t \in Range(tokens) : i \in t.from..(t.to - 1)
  \/ \E j \in 1..i : /\ At(j, <<"/", "/">>) \/ At(j, <<"/", "*">>)
                    /\ \A t \in Range(tokens) : t.to <= j \/ i < t.from

IInv ==
  /\ text \in Seq(STRING)
  /\ pos \in 1..Stop
  /\ mode \in {"scan", "line", "block", "end", "refused"}
  /\ tokens \in Seq(Tokens)
  /\ \A t \in Range(tokens) : t.to <= pos
  /\ Ordered
  /\ mode \in {"line", "block"} => \E j \in DOMAIN text : j < pos /\ Commented(j)
  /\ \A i \in DOMAIN text : i < pos => Accounted(i)

-----------------------------------------------------------------------------
\* The pieces before the end are those of the text, and behind it is nothing.
LEMMA PeekInText ==
  ASSUME text \in Seq(STRING), NEW i \in Nat \ {0}
  PROVE  /\ Len(text) \in Nat
         /\ i <= Len(text) => Peek(i) = text[i]
         /\ Peek(i) # EOF => i <= Len(text)
BY DEF Peek

\* Skip stops at the first piece that is not in S, at the end at the latest.
LEMMA SkipStops ==
  ASSUME text \in Seq(STRING), NEW i \in 1..Stop, NEW S, EOF \notin S
  PROVE  /\ Skip(i, S) \in i..Stop
         /\ Peek(Skip(i, S)) \notin S
         /\ \A k \in i..(Skip(i, S) - 1) : Peek(k) \in S
<1> DEFINE stops == {j \in i..Stop : Peek(j) \notin S}
<1>1. Len(text) \in Nat
  OBVIOUS
<1>2. Stop \in stops
  BY <1>1 DEF Stop, Peek
<1>3. PICK j \in stops : \A k \in stops : j <= k
  <2>1. stops \in SUBSET Nat /\ stops # {}
    BY <1>1, <1>2 DEF Stop
  <2> HIDE DEF stops
  <2> QED
    BY <2>1, LeastNumber
<1>4. /\ j \in i..(Len(text) + 1)
      /\ Peek(j) \notin S /\ \A k \in i..(j - 1) : Peek(k) \in S
  BY <1>1, <1>3 DEF Stop
<1> QED
  BY <1>4 DEF Skip, Stop

LEMMA SkipIdentStops ==
  ASSUME text \in Seq(STRING), NEW i \in 1..Stop
  PROVE  /\ SkipIdent(i) \in i..Stop
         /\ ~IsIdentRest(Peek(SkipIdent(i)))
<1> DEFINE stops == {j \in i..Stop : ~IsIdentRest(Peek(j))}
<1>1. Len(text) \in Nat
  OBVIOUS
<1>2. Stop \in stops
  <2>1. Peek(Stop) = EOF
    BY <1>1 DEF Stop, Peek
  <2>2. ~IsIdentRest(EOF)
    BY DEF IsIdentRest, Letters, Other, Digit, EOF
  <2> QED
    BY <1>1, <2>1, <2>2 DEF Stop
<1>3. PICK j \in stops : \A k \in stops : j <= k
  <2>1. stops \in SUBSET Nat /\ stops # {}
    BY <1>1, <1>2 DEF Stop
  <2> HIDE DEF stops
  <2> QED
    BY <2>1, LeastNumber
<1>4. /\ j \in i..(Len(text) + 1)
      /\ ~IsIdentRest(Peek(j)) /\ \A k \in i..(j - 1) : IsIdentRest(Peek(k))
  BY <1>1, <1>3 DEF Stop
<1> QED
  BY <1>4 DEF SkipIdent, Stop

-----------------------------------------------------------------------------
\* Where each kind of token ends.
Spans(t, i) == t.from = i /\ t.to \in (i + 1)..Stop

LEMMA FoundSpans ==
  ASSUME NEW kind, NEW i, NEW to \in (i + 1)..Stop
  PROVE  Spans(Found(kind, i, to), i)
BY DEF Spans, Found

LEMMA OperatorSpans ==
  ASSUME text \in Seq(STRING), NEW i \in 1..Stop, Peek(i) # EOF
  PROVE  Spans(Operator(i), i)
<1>1. Len(text) \in Nat /\ i <= Len(text)
  BY PeekInText DEF Stop
<1>2. /\ TwoPieces(Peek(i), Peek(i + 1)) => Peek(i + 1) # EOF
      /\ ThreePieces(Peek(i), Peek(i + 1), Peek(i + 2)) => Peek(i + 2) # EOF
  BY DEF TwoPieces, ThreePieces, EOF
<1>3. /\ Peek(i + 1) # EOF => i + 1 <= Len(text)
      /\ Peek(i + 2) # EOF => i + 2 <= Len(text)
  BY <1>1, PeekInText DEF Stop
<1> QED
  BY <1>1, <1>2, <1>3, FoundSpans DEF Operator, Stop

LEMMA WordSpans ==
  ASSUME text \in Seq(STRING), NEW i \in 1..Stop, Letters(Peek(i))
  PROVE  Spans(Word(i, SkipIdent(i)), i)
<1>1. SkipIdent(i) \in i..Stop /\ SkipIdent(i) # i
  BY SkipIdentStops DEF IsIdentRest
<1>2. Len(text) \in Nat
  OBVIOUS
<1> QED
  BY <1>1, <1>2, FoundSpans DEF Word, Stop

LEMMA StringSpans ==
  ASSUME text \in Seq(STRING), NEW i \in 1..Stop, StringLiteral(i) # Refused
  PROVE  Spans(StringLiteral(i), i)
<1>1. Len(text) \in Nat
  OBVIOUS
<1>2. Closing(i + 1) # {} /\ Closing(i + 1) \subseteq Nat
  <2>1. Closing(i + 1) # {}
    BY DEF StringLiteral
  <2>2. Closing(i + 1) \subseteq (i + 1)..Len(text)
    BY DEF Closing
  <2>3. (i + 1)..Len(text) \subseteq Nat
    BY <1>1 DEF Stop
  <2> QED
    BY <2>1, <2>2, <2>3
<1>3. PICK j \in Closing(i + 1) : \A k \in Closing(i + 1) : j <= k
  BY <1>2, LeastNumber
<1>4. Min(Closing(i + 1)) \in Closing(i + 1)
  BY <1>3 DEF Min
<1>5. Min(Closing(i + 1)) + 1 \in (i + 1)..Stop
  <2>1. Min(Closing(i + 1)) \in (i + 1)..Len(text)
    BY <1>4 DEF Closing
  <2>2. \A close \in (i + 1)..Len(text) : close + 1 \in (i + 1)..Stop
    BY <1>1 DEF Stop
  <2> QED
    BY <2>1, <2>2
<1>6. Spans(Found("LIT_STRING", i, Min(Closing(i + 1)) + 1), i)
  BY <1>5, FoundSpans
<1> QED
  BY <1>2, <1>6 DEF StringLiteral, Spans, Found

LEMMA CharSpans ==
  ASSUME text \in Seq(STRING), NEW i \in 1..Stop, CharLiteral(i) # Refused
  PROVE  Spans(CharLiteral(i), i)
<1> DEFINE last == IF Peek(i + 1) = "\\" THEN i + 2 ELSE i + 1
<1>1. Len(text) \in Nat /\ last \in Nat /\ last > i
  BY DEF Stop
<1>2. Peek(last + 1) = "'"
  BY DEF CharLiteral
<1>3. last + 1 <= Len(text)
  BY <1>1, <1>2, PeekInText DEF EOF, Stop
<1>4. Spans(Found("LIT_CHARACTER", i, last + 2), i)
  BY <1>1, <1>3, FoundSpans DEF Stop
<1> QED
  BY <1>4 DEF CharLiteral, Spans, Found

LEMMA NumberSpans ==
  ASSUME text \in Seq(STRING), NEW i \in 1..Stop, Peek(i) \in Digit
  PROVE  Spans(Number(i), i)
<1> DEFINE whole == Skip(i, Digit)
<1>1. Len(text) \in Nat /\ EOF \notin Digit
  BY DEF EOF, Digit
<1>2. whole \in (i + 1)..Stop
  BY <1>1, SkipStops DEF Stop
<1>3. Fraction(whole) \in whole..Stop
  <2>1. CASE Peek(whole) = "." /\ Peek(whole + 1) # "."
    <3>1. whole + 1 \in 1..Stop
      BY <1>1, <1>2, <2>1, PeekInText DEF EOF, Stop
    <3> QED
      BY <1>1, <1>2, <2>1, <3>1, SkipStops DEF Fraction, Stop
  <2>2. CASE ~(Peek(whole) = "." /\ Peek(whole + 1) # ".")
    BY <1>1, <1>2, <2>2 DEF Fraction, Stop
  <2> QED
    BY <2>1, <2>2
<1>4. ASSUME NEW j \in whole..Stop PROVE Exponent(j) \in j..Stop
  <2> DEFINE from == IF Peek(j + 1) \in {"+", "-"} THEN j + 2 ELSE j + 1
  <2>1. CASE Peek(j) \notin {"e", "E"}
    BY <1>1, <1>2, <2>1 DEF Exponent, Stop
  <2>2. CASE Peek(j) \in {"e", "E"}
    <3>1. from \in 1..Stop /\ from \in j..Stop
      BY <1>1, <1>2, <2>2, PeekInText DEF EOF, Stop
    <3>2. Skip(from, Digit) \in from..Stop
      BY <1>1, <3>1, SkipStops
    <3> QED
      BY <1>1, <1>2, <2>2, <3>1, <3>2 DEF Exponent, Stop
  <2> QED
    BY <2>1, <2>2
<1>5. Exponent(Fraction(whole)) \in (i + 1)..Stop
  BY <1>1, <1>2, <1>3, <1>4 DEF Stop
<1> QED
  BY <1>5, FoundSpans DEF Number

\* What Scan finds starts where it looked, and takes at least one piece if
\* there is one.
LEMMA ScanSpan ==
  ASSUME text \in Seq(STRING), NEW i \in 1..Stop, Scan(i) # Refused,
         Peek(i) \notin Blank
  PROVE  /\ Scan(i).from = i
         /\ Scan(i).to \in i..Stop
         /\ Peek(i) # EOF => Scan(i).to \in (i + 1)..Stop
<1> DEFINE c == Peek(i)
<1>1. Len(text) \in Nat
  OBVIOUS
<1>2. CASE c = EOF
  <2>1. Scan(i) = [kind |-> "END", text |-> "", from |-> i, to |-> i]
    BY <1>2 DEF Scan, Letters, Digit, Other, Single, OperatorStart, Blank, EOF
  <2>2. Scan(i).from = i /\ Scan(i).to = i
    <3>1. \A kind, string :
            LET t == [kind |-> kind, text |-> string, from |-> i, to |-> i]
            IN  t.from = i /\ t.to = i
      OBVIOUS
    <3> QED
      BY <2>1, <3>1, Zenon
  <2>3. i \in i..Stop
    BY <1>1 DEF Stop
  <2> QED
    BY <1>2, <2>2, <2>3
<1>3. CASE c \in Single
  <2>1. Scan(i) = Found(c, i, i + 1) /\ c # EOF
    BY <1>3 DEF Scan, Letters, Digit, Other, Single, OperatorStart, Blank, EOF
  <2>2. Spans(Found(c, i, i + 1), i)
    BY <1>1, <2>1, PeekInText, FoundSpans DEF Stop
  <2> QED
    BY <1>1, <2>1, <2>2 DEF Spans, Stop
<1>4. CASE c \in OperatorStart
  <2>1. Scan(i) = Operator(i) /\ c # EOF
    BY <1>4 DEF Scan, Letters, Digit, Other, Single, OperatorStart, Blank, EOF
  <2> QED
    BY <1>1, <2>1, OperatorSpans DEF Spans, Stop
<1>5. CASE Letters(c)
  <2>1. Scan(i) = Word(i, SkipIdent(i))
    BY <1>5 DEF Scan, Letters, Digit, Other, Single, OperatorStart, Blank, EOF
  <2> QED
    BY <1>1, <1>5, <2>1, WordSpans DEF Spans, Stop
<1>6. CASE c = "\""
  <2>1. Scan(i) = StringLiteral(i)
    BY <1>6 DEF Scan, Letters, Digit, Other, Single, OperatorStart, Blank, EOF
  <2> QED
    BY <1>1, <2>1, StringSpans DEF Spans, Stop
<1>7. CASE c = "'"
  <2>1. Scan(i) = CharLiteral(i)
    BY <1>7 DEF Scan, Letters, Digit, Other, Single, OperatorStart, Blank, EOF
  <2> QED
    BY <1>1, <2>1, CharSpans DEF Spans, Stop
<1>8. CASE c \in Digit
  <2>1. Scan(i) = Number(i)
    BY <1>8 DEF Scan, Letters, Digit, Other, Single, OperatorStart, Blank, EOF
  <2> QED
    BY <1>1, <1>8, <2>1, NumberSpans DEF Spans, Stop
<1>9. CASE c \in {"\\", "@"}
  BY <1>9 DEF Scan, Letters, Digit, Other, Single, OperatorStart, Blank, EOF
<1> QED
  BY <1>2, <1>3, <1>4, <1>5, <1>6, <1>7, <1>8, <1>9 DEF Letters, Other

-----------------------------------------------------------------------------
\* What the two tests say of lexemes, whatever the pieces.
LEMMA LexemeTable ==
  ASSUME NEW a \in OperatorStart, NEW b, NEW c
  PROVE  /\ <<a>> \in Lexemes
         /\ <<a, b>> \in Lexemes <=> TwoPieces(a, b) \/ (a = "/" /\ b = "*")
         /\ <<a, b, c>> \in Lexemes <=> ThreePieces(a, b, c)
         /\ ThreePieces(a, b, c) => TwoPieces(a, b)
<1>1. <<a>> \in Lexemes
  BY DEF Lexemes
<1>2. <<a, b>> \in Lexemes <=> TwoPieces(a, b) \/ (a = "/" /\ b = "*")
  BY DEF Lexemes, OperatorStart, TwoPieces
<1>3. <<a, b, c>> \in Lexemes <=> ThreePieces(a, b, c)
  BY DEF Lexemes, OperatorStart, ThreePieces
<1>4. ThreePieces(a, b, c) => TwoPieces(a, b)
  BY DEF ThreePieces, TwoPieces
<1> QED
  BY <1>1, <1>2, <1>3, <1>4

LEMMA PiecesAre ==
  ASSUME text \in Seq(STRING), NEW i \in Nat \ {0}
  PROVE  /\ i + 1 <= Stop => Pieces(i, i + 1) = <<Peek(i)>>
         /\ i + 2 <= Stop => Pieces(i, i + 2) = <<Peek(i), Peek(i + 1)>>
         /\ i + 3 <= Stop => Pieces(i, i + 3) = <<Peek(i), Peek(i + 1), Peek(i + 2)>>
<1>1. Len(text) \in Nat
  OBVIOUS
<1>2. ASSUME NEW n \in 1..3, i + n <= Stop
      PROVE  /\ Pieces(i, i + n) \in Seq(STRING) /\ Len(Pieces(i, i + n)) = n
             /\ \A k \in 1..n : Pieces(i, i + n)[k] = Peek(i + k - 1)
  <2>1. \A k \in i..(i + n - 1) : text[k] \in STRING /\ Peek(k) = text[k]
    BY <1>1, <1>2 DEF Stop, Peek
  <2>2. /\ i \in Int /\ i + n - 1 \in Int /\ i <= i + n - 1
        /\ (i + n - 1) - i + 1 = n /\ Pieces(i, i + n) = SubSeq(text, i, i + n - 1)
    BY DEF Pieces
  <2>3. ASSUME NEW j \in Int, i <= j, \A k \in i..j : text[k] \in STRING
        PROVE  /\ SubSeq(text, i, j) \in Seq(STRING)
               /\ Len(SubSeq(text, i, j)) = j - i + 1
               /\ \A k \in 1..(j - i + 1) : SubSeq(text, i, j)[k] = text[i + k - 1]
    BY <2>3, SubSeqProperties
  <2>4. /\ Pieces(i, i + n) \in Seq(STRING) /\ Len(Pieces(i, i + n)) = n
        /\ \A k \in 1..n : Pieces(i, i + n)[k] = text[i + k - 1]
    BY <2>1, <2>2, <2>3
  <2> QED
    BY <2>1, <2>4
<1>3. ASSUME i + 1 <= Stop PROVE Pieces(i, i + 1) = <<Peek(i)>>
  BY <1>2, <1>3
<1>4. ASSUME i + 2 <= Stop PROVE Pieces(i, i + 2) = <<Peek(i), Peek(i + 1)>>
  BY <1>2, <1>4
<1>5. ASSUME i + 3 <= Stop
      PROVE  Pieces(i, i + 3) = <<Peek(i), Peek(i + 1), Peek(i + 2)>>
  BY <1>2, <1>5
<1> QED
  BY <1>3, <1>4, <1>5

\* An operator that does not open a comment is a lexeme, and the longest.
LEMMA OperatorLongest ==
  ASSUME text \in Seq(STRING), NEW i \in 1..Stop, Peek(i) \in OperatorStart, ~Opens(i)
  PROVE  LET t == Operator(i)
         IN  /\ Pieces(i, t.to) \in Lexemes
             /\ \A to \in (t.to + 1)..(i + 3) :
                  to <= Stop => Pieces(i, to) \notin Lexemes
<1> DEFINE a == Peek(i)
           b == Peek(i + 1)
           c == Peek(i + 2)
<1>1. Len(text) \in Nat /\ i \in Nat \ {0} /\ Stop \in Nat
  BY DEF Stop
<1>2. Operator(i).to \in (i + 1)..Stop
  BY OperatorSpans DEF Spans, OperatorStart, EOF
<1>3. Operator(i).to = IF ThreePieces(a, b, c) THEN i + 3
                       ELSE IF TwoPieces(a, b) THEN i + 2 ELSE i + 1
  BY DEF Operator, Found
<1>4. /\ <<a>> \in Lexemes
      /\ <<a, b>> \in Lexemes <=> TwoPieces(a, b)
      /\ <<a, b, c>> \in Lexemes <=> ThreePieces(a, b, c)
      /\ ThreePieces(a, b, c) => TwoPieces(a, b)
  BY LexemeTable DEF Opens
<1>5. /\ i + 1 <= Stop => Pieces(i, i + 1) = <<a>>
      /\ i + 2 <= Stop => Pieces(i, i + 2) = <<a, b>>
      /\ i + 3 <= Stop => Pieces(i, i + 3) = <<a, b, c>>
  BY <1>1, PiecesAre
<1>6. Pieces(i, Operator(i).to) \in Lexemes
  BY <1>1, <1>2, <1>3, <1>4, <1>5
<1>7. ASSUME NEW to \in (Operator(i).to + 1)..(i + 3), to <= Stop
      PROVE  Pieces(i, to) \notin Lexemes
  <2>1. to = i + 2 \/ to = i + 3
    BY <1>1, <1>2, <1>7
  <2> QED
    BY <1>1, <1>3, <1>4, <1>5, <1>7, <2>1
<1> QED
  BY <1>6, <1>7

-----------------------------------------------------------------------------
LEMMA RangeAppend ==
  ASSUME NEW S, NEW s \in Seq(S), NEW e \in S
  PROVE  /\ Append(s, e) \in Seq(S)
         /\ Range(Append(s, e)) = Range(s) \cup {e}
         /\ Len(Append(s, e)) = Len(s) + 1 /\ Append(s, e)[Len(s) + 1] = e
         /\ \A k \in 1..Len(s) : Append(s, e)[k] = s[k]
         /\ DOMAIN s = 1..Len(s) /\ DOMAIN Append(s, e) = 1..(Len(s) + 1)
         /\ Len(s) \in Nat
<1>1. /\ Append(s, e) \in Seq(S) /\ Len(s) \in Nat
      /\ Len(Append(s, e)) = Len(s) + 1 /\ Append(s, e)[Len(s) + 1] = e
      /\ \A k \in 1..Len(s) : Append(s, e)[k] = s[k]
      /\ DOMAIN s = 1..Len(s) /\ DOMAIN Append(s, e) = 1..(Len(s) + 1)
  BY AppendProperties
<1>2. Range(Append(s, e)) = Range(s) \cup {e}
  BY <1>1 DEF Range
<1> QED
  BY <1>1, <1>2

\* The text stays, and with it what Scan finds.
LEMMA TokensStay == UNCHANGED text => Tokens' = Tokens /\ Stop' = Stop
<1> SUFFICES ASSUME UNCHANGED text PROVE Tokens' = Tokens /\ Stop' = Stop
  OBVIOUS
<1>1. /\ \A i : Peek(i)' = Peek(i)
      /\ \A i, j : Text(i, j)' = Text(i, j)
      /\ \A i : Closing(i)' = Closing(i)
      /\ Stop' = Stop
  <2>1. \A i : Peek(i)' = Peek(i)
    BY DEF Peek
  <2>2. \A i, j : Text(i, j)' = Text(i, j)
    BY DEF Text, Pieces
  <2>3. \A i : Closing(i)' = Closing(i)
    BY DEF Closing
  <2>4. Stop' = Stop
    BY DEF Stop
  <2> QED
    BY <2>1, <2>2, <2>3, <2>4
<1>2. \A kind, i, j : Found(kind, i, j)' = Found(kind, i, j)
  BY <1>1 DEF Found
<1>3. \A i, S : Skip(i, S)' = Skip(i, S)
  BY <1>1 DEF Skip, Stop
<1>4. \A i : SkipIdent(i)' = SkipIdent(i)
  BY <1>1 DEF SkipIdent, Stop
<1>5. \A i, j : Word(i, j)' = Word(i, j)
  BY <1>1, <1>2 DEF Word
<1>6. \A i : Operator(i)' = Operator(i)
  BY <1>1, <1>2 DEF Operator
<1>7. \A i : StringLiteral(i)' = StringLiteral(i)
  BY <1>1, <1>2 DEF StringLiteral
<1>8. \A i : CharLiteral(i)' = CharLiteral(i)
  BY <1>1, <1>2 DEF CharLiteral
<1>9. \A i : Number(i)' = Number(i)
  BY <1>1, <1>2, <1>3 DEF Number, Fraction, Exponent
<1>10. \A i : Scan(i)' = Scan(i)
  BY <1>1, <1>2, <1>4, <1>5, <1>6, <1>7, <1>8, <1>9 DEF Scan
<1> QED
  BY <1>1, <1>10 DEF Tokens, Starts, Opens

\* What each token of a state that satisfies the invariant is.
LEMMA TokenSpans ==
  ASSUME IInv, NEW t \in Range(tokens)
  PROVE  /\ t.from \in 1..Stop /\ ~Opens(t.from) /\ t = Scan(t.from)
         /\ t.to \in t.from..pos
<1>1. t \in Tokens /\ t.to <= pos
  BY DEF IInv, Range
<1>2. PICK i \in Starts : t = Scan(i)
  BY <1>1 DEF Tokens
<1>3. t.from = i /\ t.to \in i..Stop
  BY <1>2, ScanSpan DEF Starts, IInv
<1> QED
  BY <1>1, <1>2, <1>3 DEF Starts, IInv, Stop

\* A token is pushed: it starts behind blanks, and the next is looked for
\* where it ends.
LEMMA PushInv ==
  ASSUME IInv, mode = "scan", NEW i \in Starts, i \in pos..Stop, Peek(i) \notin Blank,
         \A k \in pos..(i - 1) : text[k] \in Blank,
         tokens' = Append(tokens, Scan(i)), pos' = Scan(i).to, UNCHANGED <<mode, text>>
  PROVE  IInv'
<1> DEFINE t == Scan(i)
<1>1. /\ text \in Seq(STRING) /\ tokens \in Seq(Tokens) /\ t \in Tokens
      /\ pos \in 1..Stop /\ Stop \in Nat
  BY DEF IInv, Tokens, Stop
<1>2. t.from = i /\ t.to \in i..Stop /\ i \in Nat
  BY <1>1, ScanSpan DEF Starts
<1>3. /\ tokens' \in Seq(Tokens) /\ Range(tokens') = Range(tokens) \cup {t}
      /\ Len(tokens') = Len(tokens) + 1 /\ tokens'[Len(tokens) + 1] = t
      /\ \A k \in 1..Len(tokens) : tokens'[k] = tokens[k]
      /\ DOMAIN tokens = 1..Len(tokens) /\ DOMAIN tokens' = 1..(Len(tokens) + 1)
      /\ Len(tokens) \in Nat
  BY <1>1, RangeAppend
<1> HIDE DEF t
<1>4. \A u \in Range(tokens) : u.to \in Nat /\ u.to <= pos
  BY <1>1, TokenSpans
<1>5. /\ pos' = t.to /\ pos' \in 1..Stop /\ pos <= i /\ pos <= pos'
      /\ \A u \in Range(tokens') : u.to <= pos'
  BY <1>1, <1>2, <1>3, <1>4 DEF t
<1>6. Ordered'
  <2> SUFFICES ASSUME NEW k \in DOMAIN tokens'
               PROVE  /\ tokens'[k].from <= tokens'[k].to
                      /\ tokens'[k].to <= IF k = Len(tokens') THEN pos' ELSE tokens'[k + 1].from
    BY DEF Ordered
  <2>1. CASE k = Len(tokens) + 1
    BY <1>2, <1>3, <1>5, <2>1
  <2>2. CASE k = Len(tokens)
    <3>1. /\ tokens[k].from <= tokens[k].to /\ tokens[k].to <= pos
          /\ tokens[k] \in Range(tokens)
      BY <1>3, <2>2 DEF IInv, Ordered, Range
    <3>2. tokens'[k] = tokens[k] /\ tokens'[k + 1] = t /\ k # Len(tokens')
      <4>0. /\ k \in 1..(Len(tokens) + 1) /\ Len(tokens) \in Nat
            /\ Len(tokens') = Len(tokens) + 1
        BY <1>3
      <4>1. k \in 1..Len(tokens) /\ k # Len(tokens')
        BY <4>0, <2>2
      <4>2. tokens'[k + 1] = t
        BY <1>3, <2>2
      <4> QED
        BY <1>3, <4>1, <4>2
    <3>3. tokens[k].to <= i
      BY <1>1, <1>2, <1>4, <1>5, <3>1
    <3> QED
      BY <1>2, <3>1, <3>2, <3>3
  <2>3. CASE k < Len(tokens)
    <3>1. /\ k \in DOMAIN tokens /\ k # Len(tokens) /\ k # Len(tokens')
          /\ tokens'[k] = tokens[k] /\ tokens'[k + 1] = tokens[k + 1]
      BY <1>3, <2>3
    <3> QED
      BY <3>1 DEF IInv, Ordered
  <2> QED
    BY <1>3, <2>1, <2>2, <2>3
<1>7. ASSUME NEW k \in DOMAIN text, k < pos' PROVE Accounted(k)'
  <2>1. CASE k < pos
    <3>1. Accounted(k)
      BY <1>1, <1>5, <2>1 DEF IInv
    <3>2. k < t.from
      BY <1>1, <1>2, <1>5, <2>1
    <3> QED
      BY <1>3, <3>1, <3>2 DEF Accounted, At
  <2>2. CASE k \in pos..(i - 1)
    BY <2>2 DEF Accounted
  <2>3. CASE k \in i..(t.to - 1)
    BY <1>2, <1>3, <2>3 DEF Accounted
  <2> QED
    <3>1. k \in Nat /\ k < t.to
      BY <1>1, <1>5, <1>7
    <3> QED
      BY <1>1, <1>2, <1>5, <2>1, <2>2, <2>3, <3>1
<1>8. Tokens' = Tokens
  BY TokensStay
<1> QED
  BY <1>1, <1>3, <1>5, <1>6, <1>7, <1>8 DEF IInv, Stop
-----------------------------------------------------------------------------
\* A step that pushes no token, and reads blanks or within a comment.
LEMMA ReadInv ==
  ASSUME IInv, UNCHANGED <<text, tokens>>,
         mode' \in {"scan", "line", "block", "end", "refused"}, pos' \in pos..Stop,
         mode' \in {"line", "block"} => \E j \in DOMAIN text : j < pos' /\ Commented(j),
         \A k \in DOMAIN text : pos <= k /\ k < pos' => Accounted(k)
  PROVE  IInv'
<1>1. /\ text \in Seq(STRING) /\ tokens \in Seq(Tokens) /\ pos \in 1..Stop /\ Stop \in Nat
      /\ DOMAIN tokens = 1..Len(tokens) /\ Len(tokens) \in Nat
      /\ pos' \in 1..Stop /\ pos <= pos' /\ pos' \in Nat
  <2>1. /\ text \in Seq(STRING) /\ tokens \in Seq(Tokens) /\ pos \in 1..Stop /\ Stop \in Nat
        /\ DOMAIN tokens = 1..Len(tokens) /\ Len(tokens) \in Nat
    BY DEF IInv, Stop
  <2> QED
    BY <2>1
<1>2. Tokens' = Tokens /\ Stop' = Stop
  BY TokensStay
<1>3. \A t \in Range(tokens) : t.to \in Nat /\ t.to <= pos
  BY <1>1, TokenSpans
<1>4. \A t \in Range(tokens) : t.to <= pos'
  BY <1>1, <1>3
<1>5. Ordered'
  <2> SUFFICES ASSUME NEW k \in DOMAIN tokens
               PROVE  /\ tokens[k].from <= tokens[k].to
                      /\ tokens[k].to <= IF k = Len(tokens) THEN pos' ELSE tokens[k + 1].from
    BY DEF Ordered
  <2>1. tokens[k] \in Range(tokens)
    BY DEF Range
  <2> QED
    BY <1>4, <2>1 DEF IInv, Ordered
<1>6. \A j : Commented(j)' <=> Commented(j)
  BY DEF Commented, At
<1>7. \A k \in DOMAIN text : k < pos' => Accounted(k)'
  <2>1. \A k \in DOMAIN text : k < pos \/ pos <= k
    BY <1>1
  <2>2. \A k : Accounted(k)' <=> Accounted(k)
    BY DEF Accounted, At
  <2> QED
    BY <2>1, <2>2 DEF IInv
<1> QED
  BY <1>1, <1>2, <1>4, <1>5, <1>6, <1>7 DEF IInv

\* All that follows the opening of a comment is accounted for.
LEMMA CommentedAccounted ==
  ASSUME NEW j \in Nat \ {0}, Commented(j), NEW i \in Nat, j <= i
  PROVE  Accounted(i)
BY DEF Commented, Accounted

LEMMA InitIInv ==
  ASSUME text \in Seq(STRING), LexerInit
  PROVE  IInv
<1>1. Len(text) \in Nat
  OBVIOUS
<1>2. tokens \in Seq(Tokens) /\ DOMAIN tokens = {} /\ Range(tokens) = {}
  BY DEF LexerInit, Range
<1> QED
  BY <1>1, <1>2 DEF IInv, LexerInit, Ordered, Stop

\* Where the scan of a token begins.
LEMMA BlanksSkipped ==
  ASSUME IInv, mode = "scan", Peek(pos) # EOF
  PROVE  LET i == Skip(pos, Blank)
         IN  /\ i \in pos..Stop /\ i \in 1..Stop /\ Peek(i) \notin Blank
             /\ \A k \in pos..(i - 1) : text[k] \in Blank
             /\ i = pos => Peek(i) # EOF
<1> DEFINE i == Skip(pos, Blank)
<1>1. text \in Seq(STRING) /\ pos \in 1..Stop /\ Len(text) \in Nat
  BY DEF IInv
<1>2. /\ i \in pos..Stop /\ Peek(i) \notin Blank
      /\ \A k \in pos..(i - 1) : Peek(k) \in Blank
  BY <1>1, SkipStops DEF Blank, EOF
<1> HIDE DEF i
<1>3. ASSUME NEW k \in pos..(i - 1) PROVE text[k] \in Blank
  BY <1>1, <1>2, <1>3, PeekInText DEF Stop
<1> QED
  BY <1>1, <1>2, <1>3 DEF i, Stop

\* A slash is always a token, also where it opens a comment.
LEMMA NotRefused == ASSUME NEW i, Peek(i) = "/" PROVE Scan(i) # Refused
<1>1. Scan(i) = Operator(i)
  BY DEF Scan, Letters, Digit, Other, Single, OperatorStart, Blank, EOF
<1>2. \A t, from, to : Found(t, from, to) # Refused
  BY DEF Found, Refused
<1> QED
  BY <1>1, <1>2 DEF Operator

\* What ScanToken does, one case at a time.
LEMMA ScanTokenCases ==
  ASSUME ScanToken
  PROVE  LET i == Skip(pos, Blank)
         IN  /\ mode = "scan" /\ Peek(pos) # EOF /\ text' = text
             /\ \/ /\ Peek(i) = "/" /\ Peek(i + 1) = "/" /\ tokens' = tokens
                   /\ mode' = "line" /\ pos' = i + 2
                \/ /\ Peek(i) = "/" /\ Peek(i + 1) = "*" /\ tokens' = tokens
                   /\ mode' = "block" /\ pos' = i + 1
                \/ ~Opens(i) /\ mode' = "refused" /\ pos' = pos /\ tokens' = tokens
                \/ /\ ~Opens(i) /\ Scan(i) # Refused /\ mode' = mode
                   /\ tokens' = Append(tokens, Scan(i)) /\ pos' = Scan(i).to
<1> DEFINE i == Skip(pos, Blank)
<1>1. mode = "scan" /\ Peek(pos) # EOF /\ text' = text
  BY DEF ScanToken
<1>2. CASE Peek(i) = "/" /\ Peek(i + 1) = "/"
  <2>1. Peek(i + 1) # "*" /\ Scan(i) # Refused
    BY <1>2, NotRefused
  <2>2. mode' = "line" /\ pos' = i + 2 /\ tokens' = tokens
    BY <1>2, <2>1, Zenon DEF ScanToken
  <2> QED
    BY <1>1, <1>2, <2>2
<1>3. CASE Peek(i) = "/" /\ Peek(i + 1) = "*"
  <2>1. Peek(i + 1) # "/" /\ Scan(i) # Refused
    BY <1>3, NotRefused
  <2>2. mode' = "block" /\ pos' = i + 1 /\ tokens' = tokens
    BY <1>3, <2>1, Zenon DEF ScanToken
  <2> QED
    BY <1>1, <1>3, <2>2
<1>4. CASE ~Opens(i)
  <2>1. ~(Peek(i) = "/" /\ Peek(i + 1) = "/") /\ ~(Peek(i) = "/" /\ Peek(i + 1) = "*")
    BY <1>4 DEF Opens
  <2>2. CASE Scan(i) = Refused
    BY <1>1, <1>4, <2>1, <2>2, Zenon DEF ScanToken
  <2>3. CASE Scan(i) # Refused
    BY <1>1, <1>4, <2>1, <2>3, Zenon DEF ScanToken
  <2> QED
    BY <2>2, <2>3
<1> QED
  BY <1>2, <1>3, <1>4 DEF Opens

\* A comment opens.
LEMMA OpenInv ==
  ASSUME IInv, mode = "scan", NEW i \in 1..Stop, i \in pos..Stop,
         \A k \in pos..(i - 1) : text[k] \in Blank,
         At(i, <<"/", "/">>) \/ At(i, <<"/", "*">>),
         mode' \in {"line", "block"}, pos' \in (i + 1)..Stop, UNCHANGED <<text, tokens>>
  PROVE  IInv'
<1>1. pos \in 1..Stop /\ Stop \in Nat /\ i \in Nat \ {0} /\ pos <= i
  BY DEF IInv, Stop
<1>2. Commented(i)
  <2>1. \A t \in Range(tokens) : t.to <= i
    BY <1>1, TokenSpans
  <2> QED
    BY <2>1 DEF Commented
<1>3. ASSUME NEW k \in DOMAIN text, pos <= k, k < pos' PROVE Accounted(k)
  <2>0. k \in Nat
    BY DEF IInv
  <2>1. CASE k < i
    BY <1>1, <1>3, <2>0, <2>1 DEF Accounted
  <2>2. CASE i <= k
    BY <1>1, <1>2, <2>0, <2>2, CommentedAccounted
  <2> QED
    BY <1>1, <2>0, <2>1, <2>2
<1>4. i \in DOMAIN text /\ i < pos' /\ pos' \in pos..Stop
  <2>1. pos' \in Nat /\ i + 1 <= pos' /\ pos' <= Stop
    BY <1>1
  <2> QED
    BY <1>1, <2>1 DEF IInv, Stop
<1> QED
  BY <1>2, <1>3, <1>4, ReadInv

LEMMA NextIInv == IInv /\ [Lexing]_lexer => IInv'
<1> SUFFICES ASSUME IInv, [Lexing]_lexer PROVE IInv'
  OBVIOUS
<1>1. /\ text \in Seq(STRING) /\ pos \in 1..Stop /\ Len(text) \in Nat
      /\ Stop = Len(text) + 1
  BY DEF IInv, Stop
<1>2. CASE ScanToken
  <2> DEFINE i == Skip(pos, Blank)
  <2>1. /\ i \in pos..Stop /\ i \in 1..Stop /\ Peek(i) \notin Blank
        /\ \A k \in pos..(i - 1) : text[k] \in Blank
        /\ mode = "scan" /\ text' = text
    BY <1>2, ScanTokenCases, BlanksSkipped
  <2>2. ASSUME NEW c \in {"/", "*"}, Peek(i) = "/" /\ Peek(i + 1) = c
        PROVE  At(i, <<"/", c>>) /\ i + 2 <= Stop
    <3>1. i + 1 <= Len(text) /\ text[i] = "/" /\ text[i + 1] = c
      BY <1>1, <2>1, <2>2 DEF EOF, Peek
    <3> QED
      BY <1>1, <2>1, <3>1 DEF At
  <2>3. CASE /\ Peek(i) = "/" /\ Peek(i + 1) = "/" /\ tokens' = tokens
             /\ mode' = "line" /\ pos' = i + 2
    BY <1>1, <2>1, <2>2, <2>3, OpenInv
  <2>4. CASE /\ Peek(i) = "/" /\ Peek(i + 1) = "*" /\ tokens' = tokens
             /\ mode' = "block" /\ pos' = i + 1
    <3>1. At(i, <<"/", "*">>) /\ i + 1 <= Stop /\ pos' \in (i + 1)..Stop
      BY <1>1, <2>1, <2>2, <2>4
    <3> QED
      BY <2>1, <2>4, <3>1, OpenInv
  <2>5. CASE ~Opens(i) /\ mode' = "refused" /\ pos' = pos /\ tokens' = tokens
    BY <1>1, <2>1, <2>5, ReadInv
  <2>6. CASE /\ ~Opens(i) /\ Scan(i) # Refused /\ mode' = mode
             /\ tokens' = Append(tokens, Scan(i)) /\ pos' = Scan(i).to
    <3>1. i \in Starts
      BY <2>1, <2>6 DEF Starts
    <3> QED
      BY <2>1, <2>6, <3>1, PushInv
  <2> QED
    BY <1>2, <2>3, <2>4, <2>5, <2>6, ScanTokenCases
<1>3. CASE mode \in {"line", "block"} /\ pos' \in pos..Stop /\ UNCHANGED <<text, tokens>>
           /\ mode' \in {mode, "scan"}
  <2>1. PICK j \in DOMAIN text : j < pos /\ Commented(j)
    BY <1>3 DEF IInv
  <2>2. \A k \in DOMAIN text : pos <= k => Accounted(k)
    BY <1>1, <2>1, CommentedAccounted
  <2>3. j < pos'
    <3>1. pos' \in Nat /\ pos <= pos'
      BY <1>1, <1>3
    <3> QED
      BY <1>1, <2>1, <3>1
  <2> QED
    BY <1>3, <2>1, <2>2, <2>3, ReadInv
<1>4. CASE LineComment
  <2>1. pos' \in pos..Stop
    BY <1>1, <1>4 DEF LineComment, Get
  <2> QED
    BY <1>3, <1>4, <2>1 DEF LineComment
<1>5. CASE BlockComment
  <2>1. pos' \in pos..Stop
    BY <1>1, <1>5 DEF BlockComment, Get
  <2> QED
    BY <1>3, <1>5, <2>1 DEF BlockComment
<1>6. CASE LexingEnds
  BY <1>1, <1>6, ReadInv DEF LexingEnds
<1>7. CASE UNCHANGED lexer
  BY <1>1, <1>7, ReadInv DEF lexer, IInv
<1> QED
  BY <1>2, <1>4, <1>5, <1>6, <1>7 DEF Lexing

LEMMA Invariant == LexerSpec => []IInv
<1>1. text \in Seq(STRING) /\ LexerInit => IInv
  BY InitIInv
<1> QED
  BY <1>1, NextIInv, PTL DEF LexerSpec

-----------------------------------------------------------------------------
\* Each operator that is pushed is a token of the language, and the longest
\* that stands there (the nested tests of scan, lexer.cpp:103-289).
THEOREM LongestOperators == LexerSpec => []MaximalMunch
<1>1. ASSUME IInv PROVE MaximalMunch
  <2> SUFFICES ASSUME NEW t \in Range(tokens), Peek(t.from) \in OperatorStart
               PROVE  /\ Pieces(t.from, t.to) \in Lexemes
                      /\ \A to \in (t.to + 1)..(t.from + 3) :
                           to <= Len(text) + 1 => Pieces(t.from, to) \notin Lexemes
    BY DEF MaximalMunch
  <2>1. t.from \in 1..Stop /\ ~Opens(t.from) /\ t = Scan(t.from)
    BY <1>1, TokenSpans
  <2>2. Scan(t.from) = Operator(t.from)
    BY DEF Scan, Letters, Digit, Other, Single, OperatorStart, Blank, EOF
  <2>3. t = Operator(t.from) /\ text \in Seq(STRING)
    BY <1>1, <2>1, <2>2 DEF IInv
  <2> QED
    BY <2>1, <2>3, OperatorLongest DEF Stop
<1> QED
  BY <1>1, Invariant, PTL

\* Whatever the text, each of its pieces up to the place of the scan is in one
\* token, is blank or belongs to a comment, and the tokens stand in the order
\* of the text (skipWS and every get() of scan, lexer.cpp:31-61, 103-422).
THEOREM NoPieceLost == LexerSpec => []NothingLost
<1>1. IInv => NothingLost
  BY DEF IInv, NothingLost, Ordered, Accounted
<1> QED
  BY <1>1, Invariant, PTL

\* No turn of the loops of the Lexer leaves everything as it was, but for a
\* comment that waits at the end of the text: every other scan ends, within
\* 3 n + 1 turns for n pieces (lexer.cpp:14-29, 153-171).
THEOREM ScanAlwaysAdvances == LexerSpec => ScanAdvances
<1>1. ASSUME IInv, Lexing, lexer' # lexer PROVE TurnsLeft' < TurnsLeft /\ TurnsLeft' >= 0
  <2> DEFINE weight(m) == IF m \in {"line", "block"} THEN 2 ELSE IF m = "scan" THEN 1 ELSE 0
             turns(p, m) == 3 * (Len(text) + 1 - p) + weight(m)
  <2>1. /\ text \in Seq(STRING) /\ pos \in 1..Stop /\ Len(text) \in Nat
        /\ Stop = Len(text) + 1
    BY <1>1 DEF IInv, Stop
  <2>2. IInv'
    BY <1>1, NextIInv
  <2>3. text' = text
    BY <1>1 DEF Lexing, ScanToken, LineComment, BlockComment, LexingEnds
  <2>4. pos' \in 1..Stop
    BY <2>2, <2>3 DEF IInv, Stop
  <2>5. \/ pos' > pos /\ weight(mode') <= weight(mode) + 1
        \/ pos' = pos /\ weight(mode') < weight(mode)
    <3>1. CASE ScanToken
      <4> DEFINE i == Skip(pos, Blank)
      <4>1. /\ i \in pos..Stop /\ i \in 1..Stop /\ Peek(i) \notin Blank
            /\ i = pos => Peek(i) # EOF
            /\ mode = "scan"
        BY <1>1, <3>1, ScanTokenCases, BlanksSkipped
      <4>2. CASE mode' \in {"line", "block"} /\ pos' \in {i + 1, i + 2}
        BY <2>1, <4>1, <4>2
      <4>3. CASE mode' = "refused" /\ pos' = pos
        BY <4>1, <4>3
      <4>4. CASE mode' = mode /\ Scan(i) # Refused /\ pos' = Scan(i).to
        <5>1. pos' \in i..Stop /\ (i = pos => pos' \in (i + 1)..Stop)
          BY <2>1, <4>1, <4>4, ScanSpan
        <5> QED
          BY <2>1, <4>1, <4>4, <5>1
      <4> QED
        BY <3>1, <4>2, <4>3, <4>4, ScanTokenCases
    <3>2. CASE LineComment
      BY <1>1, <2>1, <3>2 DEF LineComment, Get, lexer
    <3>3. CASE BlockComment
      BY <1>1, <2>1, <3>3 DEF BlockComment, Get, lexer
    <3>4. CASE LexingEnds
      BY <3>4 DEF LexingEnds
    <3> QED
      BY <1>1, <3>1, <3>2, <3>3, <3>4 DEF Lexing
  <2>6. TurnsLeft = turns(pos, mode) /\ TurnsLeft' = turns(pos', mode')
    BY <2>3 DEF TurnsLeft
  <2>7. \A m : weight(m) \in 0..2
    OBVIOUS
  <2> HIDE DEF weight
  <2>8. ASSUME NEW p \in 1..Stop, NEW q \in 1..Stop, NEW m, NEW n,
               \/ q > p /\ weight(n) <= weight(m) + 1
               \/ q = p /\ weight(n) < weight(m)
        PROVE  turns(q, n) < turns(p, m) /\ turns(q, n) >= 0
    BY <2>1, <2>7, <2>8
  <2> HIDE DEF turns
  <2> QED
    BY <2>1, <2>4, <2>5, <2>6, <2>8
<1>2. IInv /\ [Lexing]_lexer => [TurnsLeft' < TurnsLeft /\ TurnsLeft' >= 0]_lexer
  BY <1>1
<1> QED
  BY <1>2, Invariant, PTL DEF LexerSpec, ScanAdvances

=============================================================================
