--------------------------- MODULE ScannerProofs ----------------------------
(***************************************************************************)
(* For every text: the scanner's variables keep their types, so that no    *)
(* look-ahead leaves the text.  Its tokens are the lexemes it takes, which *)
(* are those of the grammar unless the text has one it departs from, and   *)
(* it reports an error for the malformed texts only.                       *)
(***************************************************************************)
EXTENDS ScannerProps, Induction, SequenceTheorems

\* The lexeme the scanner takes at position i, where the grammar has Lexeme(t, i):
\* a // comment goes on up to the next nl, an operator has one character or is one
\* of the pairs.
Taken(t, i) ==
  IF LineCommentOpens(t, i) THEN Gap(Stretch(t, i, Char \ {"nl"}), 0)
  ELSE IF t[i] \in OperatorChar /\ ~ CommentOpens(t, i)
  THEN Plain("operators", i,
         IF i < Len(t) /\ <<t[i], t[i + 1]>> \in Pairs THEN i + 1 ELSE i)
  ELSE Lexeme(t, i)

TakenOf(t) == [i \in DOMAIN t |-> Taken(t, i)]

\* All characters from lo to hi are of cs.
Only(t, lo, hi, cs) == \A k \in lo..hi : t[k] \in cs

\* What the loop of each mode has found of the lexeme it is in, from start on to
\* the character at.
InIdentifier(t, s, a) ==
  s < a /\ t[s + 1] \in Letter /\ Only(t, s + 1, a, Letter \union Digit)

InOctal(t, s, a) ==
  /\ 1 <= s /\ s <= a /\ s < Len(t)
  /\ t[s] = "0" /\ t[s + 1] \in Octal /\ Only(t, s + 1, a, Octal)

InNumber(t, s, a) ==
  s < a /\ t[s + 1] \in Digit \ {"0"} /\ Only(t, s + 1, a, Digit)

\* w is the last digit before the point.
InFraction(t, s, a, digits, w) ==
  /\ s < w /\ w < a /\ InNumber(t, s, w)
  /\ t[w + 1] = "." /\ Only(t, w + 2, a, Digit)
  /\ digits <=> w + 1 < a

InString(t, s, a) ==
  /\ 1 <= s /\ s <= a /\ t[s] = "quote"
  /\ Escapes(t, s, a + 1) % 2 = 0
  /\ \A j \in Closings(t, s) : a < j

InCppComment(t, s, a) ==
  /\ s < a /\ s + 2 <= Len(t) /\ t[s + 1] = "/" /\ t[s + 2] = "/"
  /\ Only(t, s + 1, a, Char \ {"nl"})

InCComment(t, s, a) ==
  /\ s + 2 <= a /\ t[s + 1] = "/" /\ t[s + 2] = "*"
  /\ \A j \in CommentEnds(t, s + 1) : a + 1 < j

InMode ==
  /\ mode = "identifier" => InIdentifier(text, start, at)
  /\ mode = "octal"      => InOctal(text, start, at)
  /\ mode = "number"     => InNumber(text, start, at)
  /\ mode = "fraction"   => \E w \in 0..Len(text) : InFraction(text, start, at, fraction, w)
  /\ mode = "string"     => InString(text, start, at)
  /\ mode = "cppComment" => InCppComment(text, start, at)
  /\ mode = "cComment"   => InCComment(text, start, at)
  /\ mode = "done"       => at = Len(text)

\* How many characters stand before the lexeme the scanner is in.
Begin ==
  IF mode \in {"octal", "string"} THEN start - 1
  ELSE IF mode \in {"parse", "done"} THEN at ELSE start

\* Reading the text lexeme by lexeme comes to its first b characters with these
\* lines and tokens.
Reached(t, b, n, toks) ==
  \E k \in 0..b :
    Readings(t, TakenOf(t))[k] = [next |-> b + 1, line |-> n, tokens |-> toks, ok |-> TRUE]

Failed(t) == \E k \in 0..Len(t) : ~ Readings(t, TakenOf(t))[k].ok

AsRead == IF errors = 0 THEN Reached(text, Begin, line, tokens) ELSE Failed(text)

\* The inductive invariant.
ScannerInv == TypeOK /\ InMode /\ AsRead

-----------------------------------------------------------------------------
(***************************************************************************)
(* The operators of the grammar.                                           *)
(***************************************************************************)
\* The greatest of some integers is the one that bounds them.
LEMMA MaxIs ==
  ASSUME NEW T, T \subseteq Int, NEW n \in T, \A m \in T : m <= n
  PROVE  Max(T) = n
<1>1. \A x \in T : (\A y \in T : x >= y) => x = n
  OBVIOUS
<1>2. \A y \in T : n >= y
  OBVIOUS
<1> HIDE DEF Max
<1>3. QED
  BY <1>1, <1>2 DEF Max

\* The least of some integers is the one that bounds them.
LEMMA MinIs ==
  ASSUME NEW T, T \subseteq Int, NEW n \in T, \A m \in T : n <= m
  PROVE  Min(T) = n
<1>1. \A x \in T : (\A y \in T : x <= y) => x = n
  OBVIOUS
<1>2. QED
  BY <1>1 DEF Min

\* A stretch ends where a character of another kind, or the end, comes.
LEMMA StretchIs ==
  ASSUME NEW t \in Seq(Char), NEW cs, NEW i \in 1..(Len(t) + 1),
         NEW e \in (i - 1)..Len(t), Only(t, i, e, cs), ~ Has(t, e + 1, cs)
  PROVE  Stretch(t, i, cs) = e
<1> DEFINE T == {i - 1} \union {j \in i..Len(t) : \A k \in i..j : t[k] \in cs}
<1>1. Len(t) \in Nat
  BY LenProperties
<1>2. T \subseteq Int /\ e \in T
  BY <1>1 DEF Only
<1>3. ASSUME NEW j \in T, ~ (j <= e)
      PROVE  FALSE
  <2>1. j \in i..Len(t) /\ e + 1 \in i..j
    BY <1>1, <1>3
  <2>2. t[e + 1] \in cs /\ e + 1 <= Len(t)
    BY <1>1, <2>1
  <2>3. QED
    BY <2>2 DEF Has
<1>4. \A j \in T : j <= e
  BY <1>3
<1> HIDE DEF T
<1>5. Max(T) = e
  BY <1>2, <1>4, MaxIs
<1>6. QED
  BY <1>5 DEF Stretch, T

\* A stretch is among the characters of the text.
LEMMA StretchFacts ==
  ASSUME NEW t \in Seq(Char), NEW cs, NEW i \in 1..(Len(t) + 1)
  PROVE  Stretch(t, i, cs) \in (i - 1)..Len(t)
<1> DEFINE T == {i - 1} \union {j \in i..Len(t) : \A k \in i..j : t[k] \in cs}
<1>1. Len(t) \in Nat
  BY LenProperties
<1>2. T \subseteq (i - 1)..Len(t) /\ T # {}
  BY <1>1
<1>3. T \subseteq Int /\ \A m \in T : m <= Len(t)
  BY <1>1, <1>2
<1> DEFINE b == Len(t)
<1> HIDE DEF T
<1>4. \E n \in T : \A m \in T : m <= n
  <2>1. b \in Int /\ \A m \in T : m <= b
    BY <1>1, <1>3
  <2> HIDE DEF b
  <2>2. QED
    BY <1>2, <1>3, <2>1, GreatestElement
<1>5. PICK n \in T : \A m \in T : m <= n
  BY <1>4
<1>6. Max(T) = n
  BY <1>3, <1>5, MaxIs
<1>7. QED
  BY <1>2, <1>6 DEF Stretch, T

\* A stretch that begins has only characters of its kind, and all of them.
LEMMA StretchAll ==
  ASSUME NEW t \in Seq(Char), NEW cs, NEW i \in 1..Len(t), t[i] \in cs
  PROVE  /\ Stretch(t, i, cs) \in i..Len(t)
         /\ Only(t, i, Stretch(t, i, cs), cs)
         /\ ~ Has(t, Stretch(t, i, cs) + 1, cs)
<1> DEFINE T == {i - 1} \union {j \in i..Len(t) : \A k \in i..j : t[k] \in cs}
           b == Len(t)
<1>1. Len(t) \in Nat
  BY LenProperties
<1>2. T \subseteq Int /\ i \in T /\ b \in Int /\ \A m \in T : m <= b
  BY <1>1
<1>3. \E n \in T : \A m \in T : m <= n
  <2> HIDE DEF T, b
  <2>1. QED
    BY <1>2, GreatestElement
<1>4. PICK n \in T : \A m \in T : m <= n
  BY <1>3
<1>5. n >= i /\ n \in i..Len(t) /\ Only(t, i, n, cs)
  BY <1>1, <1>2, <1>4 DEF Only
<1>6. ~ Has(t, n + 1, cs)
  <2> SUFFICES ASSUME Has(t, n + 1, cs) PROVE FALSE
    OBVIOUS
  <2>1. n + 1 \in i..Len(t) /\ t[n + 1] \in cs
    BY <1>1, <1>5 DEF Has
  <2>2. \A k \in i..(n + 1) : k \in i..n \/ k = n + 1
    BY <1>5
  <2>3. n + 1 \in T
    BY <1>5, <2>1, <2>2 DEF Only
  <2>4. QED
    BY <1>4, <1>5, <2>3
<1>7. Max(T) = n
  <2> HIDE DEF T
  <2>1. QED
    BY <1>2, <1>4, MaxIs
<1>8. QED
  BY <1>5, <1>6, <1>7 DEF Stretch

\* One more character at the end of a literal is one more `\` or ends their row.
LEMMA EscapesNext ==
  ASSUME NEW t, NEW i \in Nat, NEW j \in Nat, i < j
  PROVE  /\ Escapes(t, i, j) \in Nat
         /\ Escapes(t, i, j + 1) =
              IF t[j] = "escape" THEN Escapes(t, i, j) + 1 ELSE 0
<1> DEFINE T(m) == {i} \union {k \in (i + 1)..(m - 1) : t[k] # "escape"}
<1>1. /\ T(j) \subseteq Int /\ T(j) # {} /\ \A m \in T(j) : m <= j - 1
      /\ j - 1 \in Int
  OBVIOUS
<1>2. t[j] = "escape" => T(j + 1) = T(j)
  OBVIOUS
<1>3. /\ T(j + 1) \subseteq Int
      /\ t[j] # "escape" => j \in T(j + 1) /\ \A m \in T(j + 1) : m <= j
  OBVIOUS
<1>4. Escapes(t, i, j) = j - 1 - Max(T(j)) /\ Escapes(t, i, j + 1) = j - Max(T(j + 1))
  BY DEF Escapes
<1> HIDE DEF T
<1>5. PICK n \in T(j) : \A m \in T(j) : m <= n
  BY <1>1, GreatestElement
<1>6. Max(T(j)) = n /\ n \in Int /\ n <= j - 1
  BY <1>1, <1>5, MaxIs
<1>7. t[j] # "escape" => Max(T(j + 1)) = j
  BY <1>3, MaxIs
<1>8. QED
  BY <1>2, <1>4, <1>6, <1>7

\* No `\` stands between the opening quote and the character after it.
LEMMA EscapesFirst ==
  ASSUME NEW t, NEW i \in Nat
  PROVE  Escapes(t, i, i + 1) = 0
<1> DEFINE T == {i} \union {k \in (i + 1)..((i + 1) - 1) : t[k] # "escape"}
<1>1. T \subseteq Int /\ i \in T /\ \A m \in T : m <= i
  OBVIOUS
<1> HIDE DEF T
<1>2. Max(T) = i
  BY <1>1, MaxIs
<1>3. QED
  BY <1>2 DEF Escapes, T

\* A lexeme has a kind and a place in the text.
IsLexeme(t, i, x) ==
  /\ x.kind \in Kind \union {"gap", "malformed"}
  /\ x.first \in Nat /\ x.last \in Nat /\ x.breaks \in Nat
  /\ x.kind # "malformed" => x.end \in i..Len(t)

\* Those that end where they end in the text, and the malformed one, are.
LEMMA MadeLexemes ==
  ASSUME NEW t, NEW i \in Nat
  PROVE  /\ \A k \in Kind, f \in Nat, e \in i..Len(t) : IsLexeme(t, i, Plain(k, f, e))
         /\ \A e \in i..Len(t), n \in Nat : IsLexeme(t, i, Gap(e, n))
         /\ IsLexeme(t, i, Malformed)
BY DEF IsLexeme, Plain, Gap, Malformed

\* The first closing quote is in the text.
LEMMA ClosingFacts ==
  ASSUME NEW t \in Seq(Char), NEW i \in Nat, Closings(t, i) # {}
  PROVE  /\ Min(Closings(t, i)) \in Closings(t, i)
         /\ Min(Closings(t, i)) \in (i + 1)..Len(t)
         /\ \A j \in Closings(t, i) : Min(Closings(t, i)) <= j
<1> DEFINE T == Closings(t, i)
           b == i + 1
<1>1. T \subseteq (i + 1)..Len(t) /\ Len(t) \in Nat
  BY LenProperties DEF Closings
<1>2. T \subseteq Int /\ b \in Int /\ \A m \in T : b <= m
  BY <1>1
<1> HIDE DEF T, b
<1>3. T # {}
  BY DEF T
<1>4. PICK n \in T : \A m \in T : n <= m
  BY <1>2, <1>3, SmallestElement
<1>5. Min(T) = n
  BY <1>2, <1>4, MinIs
<1>6. QED
  BY <1>1, <1>4, <1>5 DEF T

\* So is the first end of a comment.
LEMMA CommentEndFacts ==
  ASSUME NEW t \in Seq(Char), NEW i \in Nat, CommentEnds(t, i) # {}
  PROVE  /\ Min(CommentEnds(t, i)) \in CommentEnds(t, i)
         /\ Min(CommentEnds(t, i)) \in (i + 3)..Len(t)
         /\ \A j \in CommentEnds(t, i) : Min(CommentEnds(t, i)) <= j
<1> DEFINE T == CommentEnds(t, i)
           b == i + 3
<1>1. T \subseteq (i + 3)..Len(t) /\ Len(t) \in Nat
  BY LenProperties DEF CommentEnds
<1>2. T \subseteq Int /\ b \in Int /\ \A m \in T : b <= m
  BY <1>1
<1> HIDE DEF T, b
<1>3. T # {}
  BY DEF T
<1>4. PICK n \in T : \A m \in T : n <= m
  BY <1>2, <1>3, SmallestElement
<1>5. Min(T) = n
  BY <1>2, <1>4, MinIs
<1>6. QED
  BY <1>1, <1>4, <1>5 DEF T

\* A position that begins no comment and no operator.
Simple(t, i) == t[i] \notin OperatorChar

\* The lexeme is told by the character it begins with, a comment's by two.
LEMMA LexemeIs ==
  ASSUME NEW t, NEW i
  PROVE  /\ t[i] \in Blank => Simple(t, i) /\ Lexeme(t, i) = Gap(i, 0)
         /\ t[i] = "nl" => Simple(t, i) /\ Lexeme(t, i) = Gap(i, 1)
         /\ t[i] = "cr" =>
              /\ Simple(t, i)
              /\ Lexeme(t, i) = Gap(IF Has(t, i + 1, {"nl"}) THEN i + 1 ELSE i, 1)
         /\ t[i] \in Letter =>
              /\ Simple(t, i)
              /\ Lexeme(t, i) =
                   Plain("identifier", i, Stretch(t, i, Letter \union Digit))
         /\ t[i] = "0" => Simple(t, i) /\ Lexeme(t, i) = OctalOrZero(t, i)
         /\ t[i] \in Digit \ {"0"} => Simple(t, i) /\ Lexeme(t, i) = Decimal(t, i)
         /\ t[i] = "quote" => Simple(t, i) /\ Lexeme(t, i) = StringLiteral(t, i)
         /\ t[i] \in Punctuation =>
              Simple(t, i) /\ Lexeme(t, i) = Plain("punctuation", i, i)
<1>1. t[i] \in Blank \union Letter \union Digit \union Punctuation \union {"nl", "cr", "quote"}
        => Simple(t, i)
  BY DEF Simple, OperatorChar, Operator, Letter, Blank, Digit, Octal, Punctuation
<1>2. t[i] \in Blank => Lexeme(t, i) = Gap(i, 0)
  BY DEF Lexeme, Letter, Blank, Digit, Octal, Punctuation, LineCommentOpens, CommentOpens
<1>3. t[i] = "nl" => Lexeme(t, i) = Gap(i, 1)
  BY DEF Lexeme, Letter, Blank, Digit, Octal, Punctuation, LineCommentOpens, CommentOpens
<1>4. t[i] = "cr" =>
        Lexeme(t, i) = Gap(IF Has(t, i + 1, {"nl"}) THEN i + 1 ELSE i, 1)
  BY DEF Lexeme, Letter, Blank, Digit, Octal, Punctuation, LineCommentOpens, CommentOpens
<1>5. t[i] \in Letter =>
        Lexeme(t, i) = Plain("identifier", i, Stretch(t, i, Letter \union Digit))
  BY DEF Lexeme, Letter, Blank, Digit, Octal, Punctuation, LineCommentOpens, CommentOpens
<1>6. t[i] = "0" => Lexeme(t, i) = OctalOrZero(t, i) /\ t[i] \in Digit
  BY DEF Lexeme, Letter, Blank, Digit, Octal, Punctuation, LineCommentOpens, CommentOpens
<1>7. t[i] \in Digit \ {"0"} => Lexeme(t, i) = Decimal(t, i)
  BY DEF Lexeme, Letter, Blank, Digit, Octal, Punctuation, LineCommentOpens, CommentOpens
<1>8. t[i] = "quote" => Lexeme(t, i) = StringLiteral(t, i)
  BY DEF Lexeme, Letter, Blank, Digit, Octal, Punctuation, LineCommentOpens, CommentOpens
<1>9. t[i] \in Punctuation => Lexeme(t, i) = Plain("punctuation", i, i)
  BY DEF Lexeme, Letter, Blank, Digit, Octal, Punctuation, LineCommentOpens, CommentOpens
<1>10. QED
  BY <1>1, <1>2, <1>3, <1>4, <1>5, <1>6, <1>7, <1>8, <1>9

\* So are comments and operators.
LEMMA SlashLexemeIs ==
  ASSUME NEW t, NEW i, t[i] \in OperatorChar
  PROVE  /\ LineCommentOpens(t, i) => ~ CommentOpens(t, i) /\ Lexeme(t, i) = LineComment(t, i)
         /\ CommentOpens(t, i) => ~ LineCommentOpens(t, i) /\ Lexeme(t, i) = Comment(t, i)
         /\ ~ LineCommentOpens(t, i) /\ ~ CommentOpens(t, i) =>
              Lexeme(t, i) = Plain("operators", i, Max(OperatorEnds(t, i)))
<1>1. ~ (LineCommentOpens(t, i) /\ CommentOpens(t, i))
  BY DEF LineCommentOpens, CommentOpens, Has
<1>2. /\ t[i] \notin Blank \union Letter \union Digit \union Punctuation
      /\ t[i] \notin {"nl", "cr", "quote", "0"}
  BY DEF OperatorChar, Operator, Letter, Blank, Digit, Octal, Punctuation
<1> HIDE DEF OperatorChar, Blank, Letter, Digit, Punctuation
<1>3. QED
  BY <1>1, <1>2 DEF Lexeme

\* What the scanner takes, by the same characters.
LEMMA TakenIs ==
  ASSUME NEW t, NEW i
  PROVE  /\ t[i] \in Blank => Taken(t, i) = Gap(i, 0)
         /\ t[i] = "nl" => Taken(t, i) = Gap(i, 1)
         /\ t[i] = "cr" =>
              Taken(t, i) = Gap(IF Has(t, i + 1, {"nl"}) THEN i + 1 ELSE i, 1)
         /\ t[i] \in Letter =>
              Taken(t, i) = Plain("identifier", i, Stretch(t, i, Letter \union Digit))
         /\ t[i] = "0" => Taken(t, i) = OctalOrZero(t, i)
         /\ t[i] \in Digit \ {"0"} => Taken(t, i) = Decimal(t, i)
         /\ t[i] = "quote" => Taken(t, i) = StringLiteral(t, i)
         /\ t[i] \in Punctuation => Taken(t, i) = Plain("punctuation", i, i)
         /\ LineCommentOpens(t, i) => Taken(t, i) = Gap(Stretch(t, i, Char \ {"nl"}), 0)
         /\ CommentOpens(t, i) => Taken(t, i) = Comment(t, i)
         /\ t[i] \in OperatorChar /\ ~ LineCommentOpens(t, i) /\ ~ CommentOpens(t, i) =>
              Taken(t, i) = Plain("operators", i,
                IF i < Len(t) /\ <<t[i], t[i + 1]>> \in Pairs THEN i + 1 ELSE i)
<1>1. Simple(t, i) => Taken(t, i) = Lexeme(t, i)
  BY DEF Simple, Taken, LineCommentOpens, OperatorChar
<1>2. LineCommentOpens(t, i) \/ CommentOpens(t, i) => t[i] \in OperatorChar
  BY DEF LineCommentOpens, CommentOpens, OperatorChar
<1>3. LineCommentOpens(t, i) => Taken(t, i) = Gap(Stretch(t, i, Char \ {"nl"}), 0)
  BY DEF Taken
<1>4. CommentOpens(t, i) => Taken(t, i) = Comment(t, i)
  BY <1>2, SlashLexemeIs DEF Taken
<1>5. t[i] \in OperatorChar /\ ~ LineCommentOpens(t, i) /\ ~ CommentOpens(t, i) =>
        Taken(t, i) = Plain("operators", i,
          IF i < Len(t) /\ <<t[i], t[i + 1]>> \in Pairs THEN i + 1 ELSE i)
  BY DEF Taken
<1>6. QED
  BY <1>1, <1>3, <1>4, <1>5, LexemeIs

\* An operator ends where its characters do.
LEMMA OperatorEndIs ==
  ASSUME NEW t \in Seq(Char), NEW i \in 1..Len(t), t[i] \in OperatorChar,
         ~ LineCommentOpens(t, i), ~ CommentOpens(t, i)
  PROVE  /\ Max(OperatorEnds(t, i)) \in i..Len(t)
         /\ Max(OperatorEnds(t, i)) \in OperatorEnds(t, i)
         /\ \A j \in OperatorEnds(t, i) : j <= Max(OperatorEnds(t, i))
<1> DEFINE T == OperatorEnds(t, i)
           b == Len(t)
<1>1. Len(t) \in Nat
  BY LenProperties
<1>2. T \subseteq i..Len(t) /\ T \subseteq Int /\ b \in Int /\ \A m \in T : m <= b
  BY <1>1 DEF OperatorEnds
<1>3. i \in T
  <2>1. i \in i..Len(t) /\ \A k \in i..i : k = i
    BY <1>1
  <2>2. QED
    BY <2>1 DEF OperatorEnds
<1> HIDE DEF T, b
<1>4. PICK n \in T : \A m \in T : m <= n
  BY <1>2, <1>3, GreatestElement
<1>5. Max(T) = n
  BY <1>2, <1>4, MaxIs
<1>6. QED
  BY <1>2, <1>4, <1>5 DEF T

\* Every character begins a lexeme, of the grammar and of the scanner.
LEMMA LexemeFacts ==
  ASSUME NEW t \in Seq(Char), NEW i \in 1..Len(t)
  PROVE  IsLexeme(t, i, Lexeme(t, i)) /\ IsLexeme(t, i, Taken(t, i))
<1>1. Len(t) \in Nat /\ i \in Nat /\ i \in i..Len(t)
  BY LenProperties
<1>2. /\ \A k \in Kind, f \in Nat, e \in i..Len(t) : IsLexeme(t, i, Plain(k, f, e))
      /\ \A e \in i..Len(t), n \in Nat : IsLexeme(t, i, Gap(e, n))
      /\ IsLexeme(t, i, Malformed)
  BY <1>1, MadeLexemes
<1>3. \A cs : t[i] \in cs => Stretch(t, i, cs) \in i..Len(t)
  BY StretchAll
<1>4. IsLexeme(t, i, Decimal(t, i)) \/ t[i] \notin Digit
  <2> SUFFICES ASSUME t[i] \in Digit PROVE IsLexeme(t, i, Decimal(t, i))
    OBVIOUS
  <2> DEFINE w == Stretch(t, i, Digit)
  <2>1. w \in i..Len(t)
    BY <1>3
  <2>2. Has(t, w + 2, Digit) => Stretch(t, w + 2, Digit) \in i..Len(t)
    <3> SUFFICES ASSUME Has(t, w + 2, Digit)
                 PROVE  Stretch(t, w + 2, Digit) \in i..Len(t)
      OBVIOUS
    <3> DEFINE v == w + 2
    <3>1. v \in 1..(Len(t) + 1) /\ i <= v - 1
      BY <1>1, <2>1 DEF Has
    <3>2. Stretch(t, v, Digit) \in (v - 1)..Len(t)
      <4> HIDE DEF v
      <4>1. QED
        BY <3>1, StretchFacts
    <3>3. QED
      BY <1>1, <3>1, <3>2
  <2>3. "decimalLiteral" \in Kind
    BY DEF Kind
  <2>4. QED
    BY <1>1, <1>2, <2>1, <2>2, <2>3 DEF Decimal
<1>5. IsLexeme(t, i, OctalOrZero(t, i))
  <2> DEFINE v == i + 1
  <2>1. v \in 1..(Len(t) + 1) /\ i = v - 1
    BY <1>1
  <2>2. Stretch(t, v, Octal) \in (v - 1)..Len(t)
    <3> HIDE DEF v
    <3>1. QED
      BY <2>1, StretchFacts
  <2>3. Stretch(t, i + 1, Octal) \in i..Len(t)
    BY <2>1, <2>2
  <2>4. "decimalLiteral" \in Kind
    BY DEF Kind
  <2>5. QED
    BY <1>1, <1>2, <2>3, <2>4 DEF OctalOrZero
<1>6. IsLexeme(t, i, StringLiteral(t, i))
  <2>1. CASE Closings(t, i) = {}
    BY <1>2, <2>1 DEF StringLiteral
  <2>2. CASE Closings(t, i) # {}
    <3> DEFINE e == Min(Closings(t, i))
    <3>1. e \in (i + 1)..Len(t)
      BY <1>1, <2>2, ClosingFacts
    <3> HIDE DEF e
    <3>2. StringLiteral(t, i) =
            [kind |-> "stringLiteral", first |-> i + 1, last |-> e - 1,
             end |-> e, breaks |-> 0]
      BY <2>2 DEF StringLiteral, Plain, e
    <3>3. QED
      BY <1>1, <3>1, <3>2 DEF IsLexeme, Kind
  <2>3. QED
    BY <2>1, <2>2
<1>7. IsLexeme(t, i, Comment(t, i))
  <2>1. CASE CommentEnds(t, i) = {}
    BY <1>2, <2>1 DEF Comment
  <2>2. CASE CommentEnds(t, i) # {}
    BY <1>1, <1>2, <2>2, CommentEndFacts DEF Comment
  <2>3. QED
    BY <2>1, <2>2
<1>8. t[i] \in Letter => IsLexeme(t, i, Plain("identifier", i, Stretch(t, i, Letter \union Digit)))
  BY <1>1, <1>2, <1>3 DEF Kind
<1>9. t[i] = "/" => IsLexeme(t, i, Gap(Stretch(t, i, Char \ {"nl"}), 0))
  <2>1. "/" \in Char \ {"nl"}
    BY DEF Char
  <2>2. QED
    BY <1>1, <1>2, <1>3, <2>1
<1>10. IsLexeme(t, i, Plain("punctuation", i, i))
  BY <1>1, <1>2 DEF Kind
<1>11. IsLexeme(t, i, Plain("operators", i,
           IF i < Len(t) /\ <<t[i], t[i + 1]>> \in Pairs THEN i + 1 ELSE i))
  BY <1>1, <1>2 DEF Kind
<1>12. IsLexeme(t, i, Gap(IF Has(t, i + 1, {"nl"}) THEN i + 1 ELSE i, 1))
  BY <1>1, <1>2 DEF Has
<1>13. IsLexeme(t, i, Gap(i, 0)) /\ IsLexeme(t, i, Gap(i, 1))
  BY <1>1, <1>2
<1>14. LineCommentOpens(t, i) => IsLexeme(t, i, LineComment(t, i))
  <2> SUFFICES ASSUME LineCommentOpens(t, i) PROVE IsLexeme(t, i, LineComment(t, i))
    OBVIOUS
  <2> DEFINE w == Stretch(t, i, Char \ {"nl", "cr"})
  <2>1. "/" \in Char \ {"nl", "cr"}
    BY DEF Char
  <2>2. w \in i..Len(t)
    BY <1>3, <2>1 DEF LineCommentOpens
  <2> HIDE DEF w
  <2>3. (IF Has(t, w + 1, {"cr"}) /\ Has(t, w + 2, {"nl"}) THEN w + 1 ELSE w) \in i..Len(t)
    BY <1>1, <2>2 DEF Has
  <2>4. QED
    BY <1>2, <2>3 DEF LineComment, w
<1>15. ASSUME t[i] \in OperatorChar, ~ LineCommentOpens(t, i), ~ CommentOpens(t, i)
       PROVE  IsLexeme(t, i, Plain("operators", i, Max(OperatorEnds(t, i))))
  BY <1>1, <1>2, <1>15, OperatorEndIs DEF Kind
<1>16. CASE t[i] \in OperatorChar
  <2>1. IsLexeme(t, i, Lexeme(t, i))
    BY <1>7, <1>14, <1>15, <1>16, SlashLexemeIs
  <2>2. LineCommentOpens(t, i) => t[i] = "/"
    BY DEF LineCommentOpens
  <2>3. IsLexeme(t, i, Taken(t, i))
    BY <1>7, <1>9, <1>11, <1>16, <2>2, TakenIs
  <2>4. QED
    BY <2>1, <2>3
<1>17. CASE t[i] \notin OperatorChar
  <2>1. t[i] \in Char
    BY ElementOfSeq
  <2>2. \/ t[i] \in Blank \/ t[i] = "nl" \/ t[i] = "cr" \/ t[i] \in Letter
        \/ t[i] = "0" \/ t[i] \in Digit \ {"0"} \/ t[i] = "quote" \/ t[i] \in Punctuation
    BY <1>17, <2>1 DEF Char, OperatorChar
  <2>3. IsLexeme(t, i, Lexeme(t, i))
    BY <1>4, <1>5, <1>6, <1>8, <1>10, <1>12, <1>13, <2>2, LexemeIs
  <2>4. IsLexeme(t, i, Taken(t, i))
    BY <1>4, <1>5, <1>6, <1>8, <1>10, <1>12, <1>13, <2>2, TakenIs
  <2>5. QED
    BY <2>3, <2>4
<1>18. QED
  BY <1>16, <1>17

\* Where the grammar's lexeme does not depart from it, the scanner takes that.
LEMMA TakesTheLexeme ==
  ASSUME NEW t \in Seq(Char), NEW i \in 1..Len(t), ~ Departs(t, i)
  PROVE  Taken(t, i) = Lexeme(t, i)
<1>1. Len(t) \in Nat /\ i \in Nat
  BY LenProperties
<1>2. CASE LineCommentOpens(t, i)
  <2> DEFINE cs == Char \ {"nl", "cr"}
             w  == Stretch(t, i, cs)
             e  == IF Has(t, w + 1, {"cr"}) /\ Has(t, w + 2, {"nl"}) THEN w + 1 ELSE w
  <2>1. t[i] \in OperatorChar /\ t[i] \in cs
    BY <1>2 DEF LineCommentOpens, OperatorChar, Char
  <2>2. Lexeme(t, i) = Gap(e, 0)
    BY <1>2, <2>1, SlashLexemeIs DEF LineComment
  <2>3. w \in i..Len(t) /\ Only(t, i, w, cs) /\ ~ Has(t, w + 1, cs)
    <3> HIDE DEF cs
    <3>1. QED
      BY <2>1, StretchAll
  <2>4. ~ Has(t, e + 1, {"cr"})
    <3>1. Lexeme(t, i).end = e
      BY <2>2 DEF Gap
    <3>2. QED
      BY <1>2, <3>1 DEF Departs
  <2> HIDE DEF w
  <2>5. e \in i..Len(t) /\ Only(t, i, e, Char \ {"nl"}) /\ ~ Has(t, e + 1, Char \ {"nl"})
    <3>1. CASE Has(t, w + 1, {"cr"}) /\ Has(t, w + 2, {"nl"})
      BY <1>1, <2>3, <3>1 DEF Has, Only, Char
    <3>2. CASE ~ (Has(t, w + 1, {"cr"}) /\ Has(t, w + 2, {"nl"}))
      <4>1. e = w
        BY <3>2
      <4>2. QED
        BY <1>1, <2>3, <2>4, <4>1 DEF Has, Only
    <3>3. QED
      BY <3>1, <3>2
  <2> HIDE DEF e
  <2>6. Stretch(t, i, Char \ {"nl"}) = e
    <3> DEFINE ds == Char \ {"nl"}
    <3>1. i \in 1..(Len(t) + 1) /\ e \in (i - 1)..Len(t)
      BY <1>1, <2>5
    <3> HIDE DEF ds
    <3>2. Stretch(t, i, ds) = e
      BY <2>5, <3>1, StretchIs DEF ds
    <3>3. QED
      BY <3>2 DEF ds
  <2>7. QED
    BY <1>2, <2>2, <2>6, TakenIs
<1>3. CASE t[i] \in OperatorChar /\ ~ LineCommentOpens(t, i) /\ ~ CommentOpens(t, i)
  <2> DEFINE T == OperatorEnds(t, i)
             e == Max(T)
             two == i < Len(t) /\ <<t[i], t[i + 1]>> \in Pairs
  <2>1. e \in i..Len(t) /\ e \in T /\ \A j \in T : j <= e
    BY <1>3, OperatorEndIs
  <2>2. Lexeme(t, i) = Plain("operators", i, e)
    BY <1>3, SlashLexemeIs
  <2>3. e # i => e = i + 1 /\ <<t[i], t[i + 1]>> \in Pairs
    <3>1. Lexeme(t, i).kind = "operators" /\ Lexeme(t, i).end = e
      BY <2>2 DEF Plain
    <3>2. QED
      BY <3>1 DEF Departs
  <2>4. two => i + 1 \in T
    <3> SUFFICES ASSUME two PROVE i + 1 \in T
      OBVIOUS
    <3>1. t[i + 1] \in OperatorChar /\ t[i + 1] # "/"
      BY DEF Pairs, OperatorChar, Operator
    <3>2. ~ LineCommentOpens(t, i + 1) /\ ~ CommentOpens(t, i + 1)
      BY <3>1 DEF LineCommentOpens, CommentOpens
    <3>3. i + 1 \in i..Len(t) /\ \A k \in i..(i + 1) : k = i \/ k = i + 1
      BY <1>1
    <3>4. QED
      BY <1>3, <3>1, <3>2, <3>3 DEF OperatorEnds
  <2> HIDE DEF T, e
  <2>5. e = IF two THEN i + 1 ELSE i
    BY <1>1, <2>1, <2>3, <2>4
  <2>6. QED
    BY <1>3, <2>2, <2>5, TakenIs
<1>4. CASE CommentOpens(t, i)
  <2>1. t[i] \in OperatorChar
    BY <1>4 DEF CommentOpens, OperatorChar
  <2>2. QED
    BY <1>4, <2>1, TakenIs, SlashLexemeIs
<1>5. CASE t[i] \notin OperatorChar
  <2>1. ~ LineCommentOpens(t, i)
    BY <1>5 DEF LineCommentOpens, OperatorChar
  <2>2. QED
    BY <1>5, <2>1 DEF Taken
<1>6. QED
  BY <1>2, <1>3, <1>4, <1>5

-----------------------------------------------------------------------------
(***************************************************************************)
(* Reading a text lexeme by lexeme.                                        *)
(***************************************************************************)
ReadingsOf(t) ==
  [next : 1..(Len(t) + 1), line : Nat, tokens : Seq(Token), ok : BOOLEAN]

\* xs has a lexeme for every position of t.
LexemesOf(t, xs) == \A i \in 1..Len(t) : IsLexeme(t, i, xs[i])

\* At every position the grammar has a lexeme, and the scanner takes one.
LEMMA BothAreLexemes ==
  ASSUME NEW t \in Seq(Char)
  PROVE  /\ LexemesOf(t, Lexemes(t)) /\ LexemesOf(t, TakenOf(t))
         /\ \A i \in 1..Len(t) : Lexemes(t)[i] = Lexeme(t, i) /\ TakenOf(t)[i] = Taken(t, i)
<1>1. DOMAIN t = 1..Len(t)
  BY LenProperties
<1>2. \A i \in 1..Len(t) : Lexemes(t)[i] = Lexeme(t, i) /\ TakenOf(t)[i] = Taken(t, i)
  BY <1>1 DEF Lexemes, TakenOf
<1>3. QED
  BY <1>2, LexemeFacts DEF LexemesOf

\* A token more.
LEMMA OneMoreToken ==
  ASSUME NEW toks \in Seq(Token), NEW k \in Kind, NEW f \in Nat, NEW l \in Nat,
         NEW n \in Nat
  PROVE  Append(toks, [kind |-> k, first |-> f, last |-> l, line |-> n]) \in Seq(Token)
<1>1. [kind |-> k, first |-> f, last |-> l, line |-> n] \in Token
  BY DEF Token
<1>2. QED
  BY <1>1, AppendProperties

\* A lexeme more.
LEMMA AfterFacts ==
  ASSUME NEW t \in Seq(Char), NEW xs, LexemesOf(t, xs), NEW r \in ReadingsOf(t)
  PROVE  After(t, xs, r) \in ReadingsOf(t)
<1> DEFINE x == xs[r.next]
<1>1. Len(t) \in Nat /\ r.next \in 1..(Len(t) + 1) /\ r.line \in Nat
      /\ r.tokens \in Seq(Token)
  BY LenProperties DEF ReadingsOf
<1>2. CASE ~ r.ok \/ r.next > Len(t)
  BY <1>2 DEF After
<1>3. CASE r.ok /\ ~ (r.next > Len(t))
  <2>1. IsLexeme(t, r.next, x)
    BY <1>1, <1>3 DEF LexemesOf
  <2> HIDE DEF x
  <2>2. CASE x.kind = "malformed"
    <3>1. After(t, xs, r) = [r EXCEPT !.ok = FALSE]
      BY <1>3, <2>2 DEF After, x
    <3>2. QED
      BY <3>1 DEF ReadingsOf
  <2>3. CASE x.kind # "malformed"
    <3> DEFINE ts == IF x.kind = "gap" THEN r.tokens
                     ELSE Append(r.tokens, [kind |-> x.kind, first |-> x.first,
                                            last |-> x.last, line |-> r.line])
    <3>1. After(t, xs, r) = [next |-> x.end + 1, line |-> r.line + x.breaks,
                         tokens |-> ts, ok |-> TRUE]
      BY <1>3, <2>3 DEF After, x
    <3>2. ts \in Seq(Token)
      <4>1. CASE x.kind = "gap"
        BY <1>1, <4>1
      <4>2. CASE x.kind \in Kind
        <5>1. x.kind # "gap"
          BY <4>2 DEF Kind
        <5>2. QED
          BY <1>1, <2>1, <4>2, <5>1, OneMoreToken DEF IsLexeme
      <4>3. QED
        BY <2>1, <2>3, <4>1, <4>2 DEF IsLexeme
    <3>3. x.end + 1 \in 1..(Len(t) + 1) /\ r.line + x.breaks \in Nat
      BY <1>1, <2>1, <2>3 DEF IsLexeme
    <3> HIDE DEF ts
    <3>4. QED
      BY <3>1, <3>2, <3>3 DEF ReadingsOf
  <2>4. QED
    BY <2>2, <2>3
<1>4. QED
  BY <1>2, <1>3

\* The readings are what their recursive definition says.
LEMMA ReadingsAre ==
  ASSUME NEW t \in Seq(Char), NEW xs, LexemesOf(t, xs)
  PROVE  /\ Readings(t, xs)[0] = Opening
         /\ \A k \in Nat : /\ Readings(t, xs)[k] \in ReadingsOf(t)
                           /\ Readings(t, xs)[k + 1] = After(t, xs, Readings(t, xs)[k])
<1> DEFINE S == ReadingsOf(t)
           g == [r \in S |-> After(t, xs, r)]
<1>1. Opening \in S
  BY LenProperties, EmptySeq DEF Opening, ReadingsOf
<1>2. g \in [S -> S]
  BY AfterFacts
<1>3. PICK f : Iterated(f, S, Opening, g)
  <2> HIDE DEF S, g
  <2>1. QED
    BY <1>1, <1>2, PrimitiveRecursion
<1>4. f = [n \in Nat |-> IF n = 0 THEN Opening ELSE After(t, xs, f[n - 1])]
  <2>1. \A n \in Nat : n # 0 => n - 1 \in Nat
    OBVIOUS
  <2>2. \A n \in Nat : n # 0 => g[f[n - 1]] = After(t, xs, f[n - 1])
    BY <1>3, <2>1 DEF Iterated
  <2> HIDE DEF S, g
  <2>3. QED
    BY <1>3, <2>2 DEF Iterated
<1> HIDE DEF g
<1> DEFINE R == Readings(t, xs)
<1>5. R = [n \in Nat |-> IF n = 0 THEN Opening ELSE After(t, xs, R[n - 1])]
  BY <1>4 DEF Readings
<1> HIDE DEF R
<1>6. R[0] = Opening
  BY <1>5
<1>7. \A k \in Nat : R[k + 1] = After(t, xs, R[k])
  <2>1. ASSUME NEW k \in Nat
        PROVE  R[k + 1] = After(t, xs, R[(k + 1) - 1])
    BY <1>5
  <2>2. \A k \in Nat : (k + 1) - 1 = k
    OBVIOUS
  <2>3. QED
    BY <2>1, <2>2
<1>8. \A k \in Nat : R[k] \in S
  <2> DEFINE Ks == {k \in Nat : R[k] \in S}
  <2>1. 0 \in Ks
    BY <1>1, <1>6
  <2>2. ASSUME NEW k \in Nat, k \in Ks
        PROVE  k + 1 \in Ks
    <3>1. R[k] \in S /\ R[k + 1] = After(t, xs, R[k])
      BY <2>2, <1>7
    <3>2. After(t, xs, R[k]) \in S
      BY <3>1, AfterFacts
    <3>3. QED
      BY <3>1, <3>2
  <2> HIDE DEF Ks
  <2>3. Nat \subseteq Ks
    BY <2>1, <2>2, NatInductionInSets
  <2>4. QED
    BY <2>3 DEF Ks
<1>9. QED
  BY <1>6, <1>7, <1>8 DEF R

\* At the end of the text, and after a malformed lexeme, reading stays.
LEMMA ReadingStays ==
  ASSUME NEW t \in Seq(Char), NEW xs, LexemesOf(t, xs), NEW k \in 0..Len(t),
         ~ Readings(t, xs)[k].ok \/ Readings(t, xs)[k].next > Len(t)
  PROVE  Readings(t, xs)[Len(t)] = Readings(t, xs)[k]
<1> DEFINE R == Readings(t, xs)
           Ns == {n \in Nat : R[k + n] = R[k]}
<1>1. /\ \A n \in Nat : R[n + 1] = After(t, xs, R[n])
      /\ ~ R[k].ok \/ R[k].next > Len(t)
      /\ k \in Nat /\ Len(t) \in Nat
  <2>1. \A n \in Nat : R[n + 1] = After(t, xs, R[n])
    BY ReadingsAre
  <2>2. ~ R[k].ok \/ R[k].next > Len(t)
    OBVIOUS
  <2>3. Len(t) \in Nat
    BY LenProperties
  <2>4. k \in Nat
    BY <2>3
  <2>5. QED
    BY <2>1, <2>2, <2>3, <2>4
<1> HIDE DEF R
<1>2. After(t, xs, R[k]) = R[k]
  BY <1>1 DEF After
<1>3. 0 \in Ns
  BY <1>1
<1>4. ASSUME NEW n \in Nat, n \in Ns
      PROVE  n + 1 \in Ns
  <2>1. R[k + n] = R[k] /\ k + n \in Nat
    BY <1>1, <1>4
  <2>2. R[(k + n) + 1] = After(t, xs, R[k + n])
    BY <1>1, <2>1
  <2>3. (k + n) + 1 = k + (n + 1)
    BY <1>1
  <2>4. QED
    BY <1>2, <2>1, <2>2, <2>3
<1> HIDE DEF Ns
<1>5. Nat \subseteq Ns
  BY <1>3, <1>4, NatInductionInSets
<1>6. Len(t) - k \in Nat /\ k + (Len(t) - k) = Len(t)
  BY <1>1
<1>7. R[k + (Len(t) - k)] = R[k]
  BY <1>5, <1>6 DEF Ns
<1>8. QED
  BY <1>6, <1>7 DEF R

\* Two readings are the same as long as they read the same lexemes.
LEMMA SameReading ==
  ASSUME NEW t \in Seq(Char), NEW xs, LexemesOf(t, xs), NEW ys, LexemesOf(t, ys),
         \A n \in 0..Len(t) : LET r == Readings(t, xs)[n]
                              IN r.ok /\ r.next <= Len(t) => ys[r.next] = xs[r.next]
  PROVE  \A n \in 0..Len(t) : Readings(t, ys)[n] = Readings(t, xs)[n]
<1> DEFINE R == Readings(t, xs)
           S == Readings(t, ys)
           Ns == {n \in Nat : n <= Len(t) => S[n] = R[n]}
<1>1. Len(t) \in Nat
  BY LenProperties
<1>2. /\ R[0] = Opening /\ S[0] = Opening
      /\ \A n \in Nat : /\ R[n] \in ReadingsOf(t)
                        /\ R[n + 1] = After(t, xs, R[n])
                        /\ S[n + 1] = After(t, ys, S[n])
  BY ReadingsAre
<1>3. \A n \in 0..Len(t) : R[n].ok /\ R[n].next <= Len(t) => ys[R[n].next] = xs[R[n].next]
  OBVIOUS
<1> HIDE DEF R, S
<1>4. 0 \in Ns
  BY <1>2
<1>5. ASSUME NEW n \in Nat, n \in Ns
      PROVE  n + 1 \in Ns
  <2> SUFFICES ASSUME n + 1 <= Len(t) PROVE S[n + 1] = R[n + 1]
    OBVIOUS
  <2>1. n \in 0..Len(t) /\ S[n] = R[n]
    BY <1>1, <1>5
  <2>2. R[n].next \in 1..(Len(t) + 1)
    BY <1>2 DEF ReadingsOf
  <2>3. CASE R[n].ok /\ R[n].next <= Len(t)
    <3> DEFINE r == R[n]
    <3>1. ys[r.next] = xs[r.next]
      BY <1>3, <2>1, <2>3
    <3>2. R[n + 1] = After(t, xs, r) /\ S[n + 1] = After(t, ys, r)
      BY <1>2, <2>1
    <3> HIDE DEF r
    <3>3. After(t, xs, r) = After(t, ys, r)
      BY <3>1 DEF After
    <3>4. QED
      BY <3>2, <3>3
  <2>4. CASE ~ R[n].ok \/ R[n].next > Len(t)
    BY <1>2, <2>1, <2>4 DEF After
  <2>5. QED
    BY <1>1, <2>2, <2>3, <2>4
<1> HIDE DEF Ns
<1>6. Nat \subseteq Ns
  BY <1>4, <1>5, NatInductionInSets
<1>7. QED
  BY <1>1, <1>6 DEF Ns, R, S

\* A text without a lexeme the scanner departs from is read the same by both.
LEMMA ReadAsDocumented ==
  ASSUME NEW t \in Seq(Char), AsDocumented(t)
  PROVE  Readings(t, TakenOf(t))[Len(t)] = Readings(t, Lexemes(t))[Len(t)]
<1> DEFINE xs == Lexemes(t)
           ys == TakenOf(t)
<1>1. Len(t) \in Nat
  BY LenProperties
<1>2. LexemesOf(t, xs) /\ LexemesOf(t, ys)
  BY BothAreLexemes
<1>3. ASSUME NEW n \in 0..Len(t), Readings(t, xs)[n].ok, Readings(t, xs)[n].next <= Len(t)
      PROVE  ys[Readings(t, xs)[n].next] = xs[Readings(t, xs)[n].next]
  <2> DEFINE i == Readings(t, xs)[n].next
  <2>1. n \in Nat
    BY <1>1
  <2>2. Readings(t, xs)[n] \in ReadingsOf(t)
    <3> HIDE DEF xs
    <3>1. QED
      BY <1>2, <2>1, ReadingsAre
  <2>3. i \in 1..Len(t)
    BY <1>1, <1>3, <2>2 DEF ReadingsOf
  <2>4. ~ Departs(t, i)
    BY <1>3 DEF AsDocumented
  <2> HIDE DEF i
  <2>5. ys[i] = xs[i]
    BY <2>3, <2>4, BothAreLexemes, TakesTheLexeme
  <2>6. QED
    BY <2>5 DEF i
<1> HIDE DEF xs, ys
<1>4. \A n \in 0..Len(t) : Readings(t, ys)[n] = Readings(t, xs)[n]
  BY <1>2, <1>3, SameReading
<1>5. QED
  BY <1>1, <1>4 DEF xs, ys

\* One lexeme more of a text that was read up to its first b characters.
LEMMA ReachedNext ==
  ASSUME NEW t \in Seq(Char), NEW b \in 0..(Len(t) - 1), NEW n, NEW toks,
         Reached(t, b, n, toks), Taken(t, b + 1).kind # "malformed"
  PROVE  Reached(t, Taken(t, b + 1).end, n + Taken(t, b + 1).breaks,
                 IF Taken(t, b + 1).kind = "gap" THEN toks
                 ELSE Append(toks, [kind |-> Taken(t, b + 1).kind,
                                    first |-> Taken(t, b + 1).first,
                                    last |-> Taken(t, b + 1).last, line |-> n]))
<1> DEFINE ys == TakenOf(t)
           R == Readings(t, ys)
           x == Taken(t, b + 1)
           e == x.end
           ts == IF x.kind = "gap" THEN toks
                 ELSE Append(toks, [kind |-> x.kind, first |-> x.first,
                                    last |-> x.last, line |-> n])
<1>1. PICK k \in 0..b :
        R[k] = [next |-> b + 1, line |-> n, tokens |-> toks, ok |-> TRUE]
  BY DEF Reached
<1>2. Len(t) \in Nat /\ k \in Nat /\ ~ (b + 1 > Len(t)) /\ b + 1 \in 1..Len(t)
  BY LenProperties
<1>3. R[k + 1] = After(t, ys, R[k]) /\ ys[b + 1] = Taken(t, b + 1)
  BY <1>2, BothAreLexemes, ReadingsAre
<1>4. e \in (b + 1)..Len(t)
  BY <1>2, LexemeFacts DEF IsLexeme
<1> HIDE DEF R
<1>5. R[k].ok /\ R[k].next = b + 1 /\ R[k].line = n /\ R[k].tokens = toks
  BY <1>1
<1>6. After(t, ys, R[k]) =
        [next |-> e + 1, line |-> n + x.breaks, tokens |-> ts, ok |-> TRUE]
  <2>1. ys[R[k].next] = x
    BY <1>3, <1>5
  <2>2. ~ (R[k].next > Len(t))
    BY <1>2, <1>5
  <2>3. x.kind # "malformed"
    OBVIOUS
  <2> HIDE DEF x
  <2>4. QED
    BY <1>5, <2>1, <2>2, <2>3 DEF After
<1>7. k + 1 \in 0..e
  BY <1>1, <1>2, <1>4
<1> HIDE DEF x, e, ts
<1>8. Reached(t, e, n + x.breaks, ts)
  BY <1>3, <1>6, <1>7 DEF Reached, R
<1>9. QED
  BY <1>8 DEF x, e, ts

\* A malformed lexeme ends the reading.
LEMMA ReachedMalformed ==
  ASSUME NEW t \in Seq(Char), NEW b \in 0..(Len(t) - 1), NEW n, NEW toks,
         Reached(t, b, n, toks), Taken(t, b + 1).kind = "malformed"
  PROVE  Failed(t)
<1> DEFINE ys == TakenOf(t)
           R == Readings(t, ys)
<1>1. PICK k \in 0..b :
        R[k] = [next |-> b + 1, line |-> n, tokens |-> toks, ok |-> TRUE]
  BY DEF Reached
<1>2. Len(t) \in Nat /\ k \in Nat /\ ~ (b + 1 > Len(t)) /\ k + 1 \in 0..Len(t)
      /\ b + 1 \in 1..Len(t)
  BY LenProperties
<1>3. R[k + 1] = After(t, ys, R[k]) /\ ys[b + 1] = Taken(t, b + 1)
  BY <1>2, BothAreLexemes, ReadingsAre
<1> HIDE DEF R
<1>4. R[k].ok /\ R[k].next = b + 1
  BY <1>1
<1>5. After(t, ys, R[k]) = [R[k] EXCEPT !.ok = FALSE]
  <2>1. ys[R[k].next] = Taken(t, b + 1)
    BY <1>3, <1>4
  <2>2. ~ (R[k].next > Len(t))
    BY <1>2, <1>4
  <2>3. QED
    BY <1>4, <2>1, <2>2 DEF After
<1>6. R[k] \in [next : {b + 1}, line : {n}, tokens : {toks}, ok : {TRUE}]
  BY <1>1
<1>7. ~ R[k + 1].ok
  BY <1>3, <1>5, <1>6
<1>8. QED
  BY <1>2, <1>7 DEF Failed, R

-----------------------------------------------------------------------------
(***************************************************************************)
(* The lexeme each loop ends.                                              *)
(***************************************************************************)
\* Letters and digits up to another character are an identifier.
LEMMA IdentifierIs ==
  ASSUME NEW t \in Seq(Char), NEW s \in Nat, NEW a \in 0..Len(t),
         InIdentifier(t, s, a), ~ Has(t, a + 1, Letter \union Digit)
  PROVE  Taken(t, s + 1) = Plain("identifier", s + 1, a)
<1> DEFINE i == s + 1
           cs == Letter \union Digit
<1>1. Len(t) \in Nat /\ i \in 1..(Len(t) + 1) /\ a \in (i - 1)..Len(t)
  BY LenProperties DEF InIdentifier
<1>2. Only(t, i, a, cs) /\ t[i] \in Letter
  BY DEF InIdentifier
<1>3. Stretch(t, i, cs) = a
  <2> HIDE DEF i, cs
  <2>1. QED
    BY <1>1, <1>2, StretchIs DEF cs
<1> HIDE DEF i
<1>4. Taken(t, i) = Plain("identifier", i, a)
  BY <1>2, <1>3, TakenIs
<1>5. QED
  BY <1>4 DEF i

\* A 0 and octal digits up to another character are a literal, unless that one
\* is a digit.
LEMMA OctalIs ==
  ASSUME NEW t \in Seq(Char), NEW s \in Nat, NEW a \in 0..Len(t),
         InOctal(t, s, a), ~ Has(t, a + 1, Octal)
  PROVE  Taken(t, s) = IF Has(t, a + 1, Digit) THEN Malformed
                        ELSE Plain("decimalLiteral", s + 1, a)
<1> DEFINE i == s + 1
<1>1. Len(t) \in Nat /\ i \in 1..(Len(t) + 1) /\ a \in (i - 1)..Len(t) /\ t[s] = "0"
  BY LenProperties DEF InOctal
<1>2. Only(t, i, a, Octal) /\ t[i] \in Octal
  BY DEF InOctal
<1>3. Stretch(t, i, Octal) = a
  <2> HIDE DEF i
  <2>1. QED
    BY <1>1, <1>2, StretchIs
<1>4. a # s
  BY <1>1, <1>2 DEF Has, InOctal
<1>5. Taken(t, s) = OctalOrZero(t, s)
  BY <1>1, TakenIs
<1>6. QED
  BY <1>3, <1>4, <1>5 DEF OctalOrZero

\* A 0 no digit follows is a literal.
LEMMA ZeroIs ==
  ASSUME NEW t \in Seq(Char), NEW i \in 1..Len(t), t[i] = "0", ~ Has(t, i + 1, Octal)
  PROVE  Taken(t, i) = IF Has(t, i + 1, Digit) THEN Malformed
                        ELSE Plain("decimalLiteral", i, i)
<1> DEFINE j == i + 1
           cs == Octal
<1>1. Len(t) \in Nat /\ j \in 1..(Len(t) + 1) /\ i \in (j - 1)..Len(t)
      /\ i + 1 = j
  BY LenProperties
<1>2. Only(t, j, i, cs)
  BY <1>1 DEF Only
<1>3. Stretch(t, j, cs) = i
  <2> HIDE DEF j
  <2>1. QED
    BY <1>1, <1>2, StretchIs
<1>4. Taken(t, i) = OctalOrZero(t, i)
  BY TakenIs
<1>5. QED
  BY <1>3, <1>4 DEF OctalOrZero

\* Another digit begins a decimal literal.
LEMMA DecimalIs ==
  ASSUME NEW t, NEW i, t[i] \in Digit \ {"0"}
  PROVE  Taken(t, i) = Decimal(t, i)
BY TakenIs

\* Its digits are all that come.
LEMMA WholePartIs ==
  ASSUME NEW t \in Seq(Char), NEW s \in Nat, NEW a \in 0..Len(t),
         InNumber(t, s, a), ~ Has(t, a + 1, Digit)
  PROVE  Taken(t, s + 1) = Decimal(t, s + 1) /\ Stretch(t, s + 1, Digit) = a
<1> DEFINE i == s + 1
<1>1. Len(t) \in Nat /\ i \in 1..(Len(t) + 1) /\ a \in (i - 1)..Len(t)
  BY LenProperties DEF InNumber
<1>2. Only(t, i, a, Digit) /\ t[i] \in Digit \ {"0"}
  BY DEF InNumber
<1> HIDE DEF i
<1>3. Stretch(t, i, Digit) = a
  BY <1>1, <1>2, StretchIs
<1>4. Taken(t, i) = Decimal(t, i)
  BY <1>2, DecimalIs
<1>5. QED
  BY <1>3, <1>4 DEF i

\* Without a point behind them they are the literal.
LEMMA NumberIs ==
  ASSUME NEW t \in Seq(Char), NEW s \in Nat, NEW a \in 0..Len(t),
         InNumber(t, s, a), ~ Has(t, a + 1, Digit), ~ Has(t, a + 1, {"."})
  PROVE  Taken(t, s + 1) = Plain("decimalLiteral", s + 1, a)
BY WholePartIs DEF Decimal

\* A literal with a point that ends the text has the point if it has a digit
\* after it.
LEMMA FractionIs ==
  ASSUME NEW t \in Seq(Char), NEW s \in Nat, NEW digits \in BOOLEAN,
         NEW w \in 0..Len(t), InFraction(t, s, Len(t), digits, w)
  PROVE  Taken(t, s + 1) =
           Plain("decimalLiteral", s + 1, IF digits THEN Len(t) ELSE w)
<1> DEFINE j == w + 2
           n == Len(t)
<1>1. n \in Nat /\ w \in Nat /\ w < n /\ InNumber(t, s, w) /\ t[w + 1] = "."
      /\ Only(t, j, n, Digit) /\ (digits <=> w + 1 < n)
  BY LenProperties DEF InFraction
<1>2. ~ Has(t, w + 1, Digit) /\ Has(t, w + 1, {"."})
  BY <1>1 DEF Has, Digit, Octal
<1>3. Taken(t, s + 1) = Decimal(t, s + 1) /\ Stretch(t, s + 1, Digit) = w
  BY <1>1, <1>2, WholePartIs
<1>4. Has(t, j, Digit) <=> digits
  BY <1>1 DEF Has, Only
<1>5. digits => Stretch(t, j, Digit) = n
  <2>1. j \in 1..(Len(t) + 1) /\ n \in (j - 1)..Len(t) /\ ~ Has(t, n + 1, Digit)
    BY <1>1 DEF Has
  <2> HIDE DEF j, n
  <2>2. QED
    BY <1>1, <2>1, StretchIs
<1>6. QED
  BY <1>2, <1>3, <1>4, <1>5 DEF Decimal

\* A literal's closing quote is the first closing one.
LEMMA StringIs ==
  ASSUME NEW t \in Seq(Char), NEW s \in Nat, NEW a \in 0..Len(t),
         InString(t, s, a), Has(t, a + 1, {"quote"})
  PROVE  Taken(t, s) = [kind |-> "stringLiteral", first |-> s + 1, last |-> a,
                         end |-> a + 1, breaks |-> 0]
<1> DEFINE T == Closings(t, s)
           e == a + 1
<1>1. Len(t) \in Nat /\ T \subseteq Int /\ e \in T /\ (\A j \in T : e <= j)
      /\ e - 1 = a
  BY LenProperties DEF Closings, InString, Has
<1> HIDE DEF T, e
<1>2. Min(T) = e
  BY <1>1, MinIs
<1>3. StringLiteral(t, s) = [Plain("stringLiteral", s + 1, a) EXCEPT !.end = e]
  BY <1>1, <1>2 DEF StringLiteral, T
<1>4. Taken(t, s) = StringLiteral(t, s)
  BY TakenIs DEF InString
<1>5. QED
  BY <1>3, <1>4 DEF Plain, e

\* Without a closing quote a literal is malformed.
LEMMA StringMalformed ==
  ASSUME NEW t, NEW s, NEW a, InString(t, s, a), Closings(t, s) = {}
  PROVE  Taken(t, s) = Malformed
BY TakenIs DEF InString, StringLiteral

\* A comment of // ends before the next line break.
LEMMA CppCommentIs ==
  ASSUME NEW t \in Seq(Char), NEW s \in Nat, NEW a \in 0..Len(t),
         InCppComment(t, s, a), ~ Has(t, a + 1, Char \ {"nl"})
  PROVE  Taken(t, s + 1) = Gap(a, 0)
<1> DEFINE i == s + 1
           cs == Char \ {"nl"}
<1>1. Len(t) \in Nat /\ i \in 1..(Len(t) + 1) /\ a \in (i - 1)..Len(t)
      /\ i + 1 <= Len(t)
  BY LenProperties DEF InCppComment
<1>2. Only(t, i, a, cs) /\ t[i] = "/" /\ t[s + 2] = "/" /\ s + 2 = i + 1
  BY DEF InCppComment
<1>3. Stretch(t, i, cs) = a
  <2> HIDE DEF i, cs
  <2>1. QED
    BY <1>1, <1>2, StretchIs DEF cs
<1>4. Has(t, i + 1, {"/"}) /\ ~ Has(t, i + 1, {"*"})
  BY <1>1, <1>2 DEF Has
<1> HIDE DEF i
<1>5. Taken(t, i) = Gap(a, 0)
  BY <1>2, <1>3, <1>4, TakenIs DEF LineCommentOpens, cs
<1>6. QED
  BY <1>5 DEF i

\* What begins with / and * is a comment or malformed.
LEMMA CommentIs ==
  ASSUME NEW t \in Seq(Char), NEW s \in Nat, NEW a \in 0..Len(t),
         InCComment(t, s, a)
  PROVE  Taken(t, s + 1) = Comment(t, s + 1)
<1> DEFINE i == s + 1
<1>1. t[i] = "/" /\ t[i + 1] = "*" /\ i + 1 <= Len(t)
  BY LenProperties DEF InCComment
<1>2. Has(t, i + 1, {"*"}) /\ ~ Has(t, i + 1, {"/"})
  BY <1>1 DEF Has
<1> HIDE DEF i
<1>3. Taken(t, i) = Comment(t, i)
  BY <1>1, <1>2, TakenIs DEF CommentOpens
<1>4. QED
  BY <1>3 DEF i

\* A comment ends with the first * and /.
LEMMA CCommentIs ==
  ASSUME NEW t \in Seq(Char), NEW s \in Nat, NEW a \in 0..Len(t),
         InCComment(t, s, a), Has(t, a + 1, {"*"}), Has(t, a + 2, {"/"})
  PROVE  Taken(t, s + 1) = Gap(a + 2, 0)
<1> DEFINE T == CommentEnds(t, s + 1)
           e == a + 2
<1>1. Len(t) \in Nat /\ T \subseteq Int /\ e \in T /\ (\A j \in T : e <= j)
  BY LenProperties DEF CommentEnds, InCComment, Has
<1> HIDE DEF T, e
<1>2. Min(T) = e
  BY <1>1, MinIs
<1>3. Comment(t, s + 1) = Gap(e, 0)
  BY <1>1, <1>2 DEF Comment, T
<1>4. QED
  BY <1>3, CommentIs DEF e

\* A comment without an end is malformed.
LEMMA CCommentMalformed ==
  ASSUME NEW t \in Seq(Char), NEW s \in Nat, NEW a \in 0..Len(t),
         InCComment(t, s, a), a + 1 >= Len(t)
  PROVE  Taken(t, s + 1) = Malformed
<1>1. Len(t) \in Nat /\ CommentEnds(t, s + 1) \subseteq 1..Len(t)
  BY LenProperties DEF CommentEnds
<1>2. CommentEnds(t, s + 1) = {}
  BY <1>1 DEF InCComment
<1>3. QED
  BY <1>2, CommentIs DEF Comment

-----------------------------------------------------------------------------
(***************************************************************************)
(* The steps.                                                              *)
(***************************************************************************)
\* What the invariant says of the numbers.
LEMMA Numbers ==
  ASSUME ScannerInv
  PROVE  /\ text \in Texts /\ text \in Seq(Char) /\ Len(text) \in Nat
         /\ at \in 0..Len(text) /\ at \in Nat /\ at <= Len(text)
         /\ start \in 0..Len(text) /\ start \in Nat
         /\ line \in Nat /\ errors \in Nat /\ tokens \in Seq(Token)
         /\ fraction \in BOOLEAN /\ mode \in Mode
BY SourceFiles, LenProperties DEF ScannerInv, TypeOK

\* A new loop is entered for the lexeme that begins here.
LEMMA EnterStep ==
  ASSUME ScannerInv, text' = text, mode = "parse",
         NEW m \in Mode, NEW from \in 0..Len(text), NEW n \in Int, Enter(m, from, n),
         at + n \in 0..Len(text), Begin' = at, InMode'
  PROVE  ScannerInv'
<1>1. Begin = at
  BY DEF Begin
<1>2. /\ at' = at + n /\ mode' = m /\ start' = from /\ fraction' = FALSE
      /\ tokens' = tokens /\ line' = line /\ errors' = errors
  BY DEF Enter
<1>3. TypeOK'
  BY <1>2 DEF ScannerInv, TypeOK
<1>4. AsRead'
  BY <1>1, <1>2 DEF ScannerInv, AsRead
<1>5. QED
  BY <1>3, <1>4 DEF ScannerInv

\* A loop goes on in its lexeme.
LEMMA LoopStep ==
  ASSUME ScannerInv, text' = text, at' \in 0..Len(text), fraction' \in BOOLEAN,
         UNCHANGED <<mode, start, tokens, line, errors>>, mode # "parse", mode # "done",
         InMode'
  PROVE  ScannerInv'
<1>1. Begin' = Begin
  BY DEF Begin
<1>2. TypeOK'
  BY DEF ScannerInv, TypeOK
<1>3. AsRead'
  BY <1>1 DEF ScannerInv, AsRead
<1>4. QED
  BY <1>2, <1>3 DEF ScannerInv

\* A token is pushed for the lexeme the scanner is in.
LEMMA TokenStep ==
  ASSUME ScannerInv, text' = text, NEW k \in Kind, NEW f \in Nat, NEW l \in Nat,
         NEW e \in 0..Len(text), Begin \in 0..(Len(text) - 1),
         Emit(k, f, l), at' = e, mode' = "parse",
         UNCHANGED <<start, fraction, line, errors>>,
         Taken(text, Begin + 1) =
           [kind |-> k, first |-> f, last |-> l, end |-> e, breaks |-> 0]
  PROVE  ScannerInv'
<1>1. Begin' = e /\ InMode'
  BY DEF Begin, InMode
<1>2. tokens' = Append(tokens, [kind |-> k, first |-> f, last |-> l, line |-> line])
  BY DEF Emit
<1>3. TypeOK'
  <2>1. tokens' \in Seq(Token)
    BY <1>2, Numbers, OneMoreToken
  <2>2. QED
    BY <2>1 DEF ScannerInv, TypeOK, Mode
<1>4. ASSUME errors = 0
      PROVE  Reached(text, e, line, tokens')
  <2> DEFINE x == Taken(text, Begin + 1)
             b == Begin
  <2>1. Reached(text, b, line, tokens)
    BY <1>4 DEF ScannerInv, AsRead
  <2>2. /\ x.kind = k /\ x.first = f /\ x.last = l /\ x.end = e /\ x.breaks = 0
        /\ k # "malformed" /\ k # "gap"
    BY DEF Kind
  <2>3. /\ line + 0 = line
        /\ text \in Seq(Char)
    BY Numbers
  <2>4. Reached(text, x.end, line + x.breaks,
                IF x.kind = "gap" THEN tokens
                ELSE Append(tokens, [kind |-> x.kind, first |-> x.first,
                                     last |-> x.last, line |-> line]))
    BY <2>1, <2>2, <2>3, ReachedNext
  <2> HIDE DEF x
  <2>5. QED
    BY <1>2, <2>2, <2>3, <2>4
<1>5. AsRead'
  BY <1>1, <1>4 DEF ScannerInv, AsRead
<1>6. QED
  BY <1>1, <1>3, <1>5 DEF ScannerInv

\* A blank, a line break or a comment ends.
LEMMA GapStep ==
  ASSUME ScannerInv, text' = text, NEW e \in 0..Len(text), NEW n \in Nat,
         Begin \in 0..(Len(text) - 1),
         at' = e, line' = line + n, mode' = "parse",
         UNCHANGED <<start, fraction, tokens, errors>>,
         Taken(text, Begin + 1) = Gap(e, n)
  PROVE  ScannerInv'
<1>1. Begin' = e /\ InMode'
  BY DEF Begin, InMode
<1>2. TypeOK'
  BY Numbers DEF ScannerInv, TypeOK, Mode
<1>3. ASSUME errors = 0
      PROVE  Reached(text, e, line + n, tokens)
  <2> DEFINE x == Taken(text, Begin + 1)
             b == Begin
  <2>1. Reached(text, b, line, tokens)
    BY <1>3 DEF ScannerInv, AsRead
  <2>2. x.kind = "gap" /\ x.end = e /\ x.breaks = n
    BY DEF Gap
  <2>3. text \in Seq(Char)
    BY Numbers
  <2>4. Reached(text, x.end, line + x.breaks,
                IF x.kind = "gap" THEN tokens
                ELSE Append(tokens, [kind |-> x.kind, first |-> x.first,
                                     last |-> x.last, line |-> line]))
    BY <2>1, <2>2, <2>3, ReachedNext
  <2> HIDE DEF x
  <2>5. QED
    BY <2>2, <2>4
<1>4. AsRead'
  BY <1>1, <1>3 DEF ScannerInv, AsRead
<1>5. QED
  BY <1>1, <1>2, <1>4 DEF ScannerInv

\* An error is reported for a malformed lexeme, with a token or without.
LEMMA ErrorStep ==
  ASSUME ScannerInv, text' = text, at' \in 0..Len(text), mode' = "parse",
         tokens' \in Seq(Token), errors' = errors + 1,
         Begin \in 0..(Len(text) - 1),
         UNCHANGED <<start, fraction, line>>,
         Taken(text, Begin + 1) = Malformed
  PROVE  ScannerInv'
<1>1. InMode'
  BY DEF InMode
<1>2. TypeOK'
  BY Numbers DEF ScannerInv, TypeOK, Mode
<1>3. Failed(text)
  <2> DEFINE b == Begin
  <2>1. CASE errors = 0
    <3>1. Reached(text, b, line, tokens)
      BY <2>1 DEF ScannerInv, AsRead
    <3>2. Taken(text, b + 1).kind = "malformed"
      BY DEF Malformed
    <3>3. QED
      BY <3>1, <3>2, Numbers, ReachedMalformed
  <2>2. CASE errors # 0
    BY <2>2 DEF ScannerInv, AsRead
  <2>3. QED
    BY <2>1, <2>2
<1>4. errors' # 0
  BY Numbers
<1>5. AsRead'
  BY <1>3, <1>4 DEF AsRead
<1>6. QED
  BY <1>1, <1>2, <1>5 DEF ScannerInv

\* A character ahead is one the grammar has.
LEMMA AheadHas ==
  ASSUME ScannerInv
  PROVE  /\ \A cs : Ahead(0, cs) <=> Has(text, at + 1, cs)
         /\ \A cs : Ahead(1, cs) <=> Has(text, at + 2, cs)
         /\ More(0) <=> at < Len(text)
         /\ More(1) <=> at + 1 < Len(text)
BY Numbers DEF Ahead, Has, More

\* The main loop is where a lexeme begins.
LEMMA AtLexeme ==
  ASSUME ScannerInv, mode = "parse", NEW cs, Ahead(0, cs)
  PROVE  /\ Begin = at /\ Begin \in 0..(Len(text) - 1)
         /\ at + 1 \in 1..Len(text)
         /\ text[at + 1] \in cs
BY Numbers, AheadHas DEF Begin, Has

\* Blanks and characters no case names.
LEMMA BlanksStep ==
  ASSUME ScannerInv, text' = text, mode = "parse", Blanks
  PROVE  ScannerInv'
<1>1. /\ Begin = at /\ Begin \in 0..(Len(text) - 1)
      /\ at + 1 \in 1..Len(text) /\ text[at + 1] \in Blank
  BY AtLexeme DEF Blanks
<1>2. Taken(text, at + 1) = Gap(at + 1, 0)
  BY <1>1, TakenIs
<1>3. /\ at' = at + 1 /\ line' = line + 0 /\ mode' = "parse"
      /\ UNCHANGED <<start, fraction, tokens, errors>>
  BY Numbers DEF Blanks, Skip
<1> DEFINE e == at + 1
           n == 0
<1>4. e \in 0..Len(text) /\ n \in Nat
  BY <1>1
<1> HIDE DEF e, n
<1>5. at' = e /\ line' = line + n /\ Taken(text, Begin + 1) = Gap(e, n)
  BY <1>1, <1>2, <1>3 DEF e, n
<1>6. QED
  BY <1>1, <1>3, <1>4, <1>5, GapStep

\* Line breaks, of one character or of two.
LEMMA LineBreakStep ==
  ASSUME ScannerInv, text' = text, mode = "parse", LineBreak
  PROVE  ScannerInv'
<1>1. /\ Begin = at /\ Begin \in 0..(Len(text) - 1)
      /\ at + 1 \in 1..Len(text) /\ text[at + 1] \in {"nl", "cr"}
  BY AtLexeme DEF LineBreak
<1> DEFINE e == IF text[at + 1] = "cr" /\ Has(text, at + 2, {"nl"})
                THEN at + 2 ELSE at + 1
           n == 1
<1>2. e \in 0..Len(text) /\ n \in Nat
  BY <1>1, Numbers DEF Has
<1>3. Taken(text, at + 1) = Gap(e, n)
  <2>1. (at + 1) + 1 = at + 2
    BY Numbers
  <2>2. QED
    BY <1>1, <2>1, TakenIs
<1>4. at' = e /\ line' = line + n
  BY <1>1, Numbers, AheadHas DEF LineBreak, Break, Has
<1>5. mode' = "parse" /\ UNCHANGED <<start, fraction, tokens, errors>>
  BY DEF LineBreak, Break
<1> HIDE DEF e, n
<1>6. QED
  BY <1>1, <1>2, <1>3, <1>4, <1>5, GapStep

\* Words, numbers and strings are begun.
LEMMA BeginWordStep ==
  ASSUME ScannerInv, text' = text, mode = "parse", BeginWord
  PROVE  ScannerInv'
<1>1. CASE Ahead(0, Letter) /\ Enter("identifier", at, 1)
  <2>1. /\ at + 1 \in 1..Len(text) /\ text[at + 1] \in Letter
    BY <1>1, AtLexeme
  <2>2. /\ at' = at + 1 /\ mode' = "identifier" /\ start' = at
    BY <1>1 DEF Enter
  <2>3. InIdentifier(text, at, at + 1)
    BY <2>1, Numbers DEF InIdentifier, Only
  <2>4. InMode' /\ Begin' = at
    BY <2>2, <2>3 DEF InMode, Begin
  <2>5. "identifier" \in Mode /\ 1 \in Int /\ at + 1 \in 0..Len(text)
    BY <2>1 DEF Mode
  <2>6. QED
    BY <1>1, <2>4, <2>5, Numbers, EnterStep
<1>2. CASE Ahead(0, Digit \ {"0"}) /\ Enter("number", at, 1)
  <2>1. /\ at + 1 \in 1..Len(text) /\ text[at + 1] \in Digit \ {"0"}
    BY <1>2, AtLexeme
  <2>2. /\ at' = at + 1 /\ mode' = "number" /\ start' = at
    BY <1>2 DEF Enter
  <2>3. InNumber(text, at, at + 1)
    BY <2>1, Numbers DEF InNumber, Only
  <2>4. InMode' /\ Begin' = at
    BY <2>2, <2>3 DEF InMode, Begin
  <2>5. "number" \in Mode /\ 1 \in Int /\ at + 1 \in 0..Len(text)
    BY <2>1 DEF Mode
  <2>6. QED
    BY <1>2, <2>4, <2>5, Numbers, EnterStep
<1>3. CASE Ahead(0, {"quote"}) /\ Enter("string", at + 1, 1)
  <2> DEFINE s == at + 1
  <2>1. /\ s \in 1..Len(text) /\ text[s] = "quote" /\ s \in Nat
    BY <1>3, AtLexeme
  <2>2. /\ at' = s /\ mode' = "string" /\ start' = s
    BY <1>3 DEF Enter
  <2>3. InString(text, s, s)
    <3> HIDE DEF s
    <3>1. Escapes(text, s, s + 1) = 0
      BY <2>1, EscapesFirst
    <3>2. Closings(text, s) \subseteq (s + 1)..Len(text)
      BY DEF Closings
    <3>3. QED
      BY <2>1, <3>1, <3>2, Numbers DEF InString
  <2>4. InMode' /\ Begin' = at
    BY <2>1, <2>2, <2>3, Numbers DEF InMode, Begin
  <2>5. "string" \in Mode /\ 1 \in Int /\ at + 1 \in 0..Len(text)
    BY <2>1 DEF Mode
  <2>6. QED
    BY <1>3, <2>4, <2>5, Numbers, EnterStep
<1>4. QED
  BY <1>1, <1>2, <1>3 DEF BeginWord

\* A 0: an octal literal, an error or a literal of one character.
LEMMA ZeroStep ==
  ASSUME ScannerInv, text' = text, mode = "parse", Zero
  PROVE  ScannerInv'
<1>1. /\ Begin = at /\ Begin \in 0..(Len(text) - 1)
      /\ at + 1 \in 1..Len(text) /\ text[at + 1] = "0"
  BY AtLexeme DEF Zero
<1>2. CASE Ahead(1, Octal)
  <2> DEFINE s == at + 1
  <2>1. Has(text, s + 1, Octal) /\ s \in 1..Len(text) /\ s \in Nat
    BY <1>1, <1>2, AheadHas, Numbers DEF Has
  <2>2. Enter("octal", at + 1, 1)
    BY <1>2 DEF Zero
  <2>3. /\ at' = s /\ mode' = "octal" /\ start' = s
    BY <2>2 DEF Enter
  <2>4. InOctal(text, s, s)
    BY <1>1, <2>1, Numbers DEF InOctal, Has, Only
  <2>5. InMode' /\ Begin' = at
    BY <2>1, <2>3, <2>4, Numbers DEF InMode, Begin
  <2>6. "octal" \in Mode /\ 1 \in Int /\ at + 1 \in 0..Len(text)
    BY <1>1 DEF Mode
  <2>7. QED
    BY <2>2, <2>5, <2>6, Numbers, EnterStep
<1>3. CASE ~ Ahead(1, Octal) /\ Ahead(1, Digit)
  <2> DEFINE i == at + 1
  <2>1. ~ Has(text, i + 1, Octal) /\ Has(text, i + 1, Digit)
    BY <1>3, AheadHas, Numbers DEF Has
  <2>2. Taken(text, Begin + 1) = Malformed
    <3>1. text \in Seq(Char) /\ i \in 1..Len(text) /\ text[i] = "0"
      BY <1>1, Numbers
    <3> HIDE DEF i
    <3>2. Taken(text, i) = Malformed
      BY <2>1, <3>1, ZeroIs
    <3>3. QED
      BY <1>1, <3>2 DEF i
  <2>3. Report(1)
    BY <1>3 DEF Zero
  <2>4. /\ at' \in 0..Len(text) /\ mode' = "parse" /\ tokens' \in Seq(Token)
        /\ errors' = errors + 1 /\ UNCHANGED <<start, fraction, line>>
    BY <1>1, <2>3, Numbers DEF Report, Leave
  <2>5. QED
    BY <1>1, <2>2, <2>4, ErrorStep
<1>4. CASE ~ Ahead(1, Octal) /\ ~ Ahead(1, Digit)
  <2> DEFINE i == at + 1
             k == "decimalLiteral"
  <2>1. ~ Has(text, i + 1, Octal) /\ ~ Has(text, i + 1, Digit)
    BY <1>4, AheadHas, Numbers DEF Has
  <2>2. text \in Seq(Char) /\ i \in 1..Len(text) /\ text[i] = "0" /\ i \in Nat
        /\ i \in 0..Len(text) /\ k \in Kind
    BY <1>1, Numbers DEF Kind
  <2>3. Taken(text, Begin + 1) =
          [kind |-> k, first |-> i, last |-> i, end |-> i, breaks |-> 0]
    <3> HIDE DEF i
    <3>1. Taken(text, i) = Plain(k, i, i)
      BY <2>1, <2>2, ZeroIs
    <3>2. QED
      BY <1>1, <3>1 DEF i, Plain
  <2>4. Push(k, i, 1)
    BY <1>4 DEF Zero
  <2>5. /\ Emit(k, i, i) /\ at' = i /\ mode' = "parse"
        /\ UNCHANGED <<start, fraction, line, errors>>
    BY <2>4 DEF Push, Leave
  <2> HIDE DEF i, k
  <2>6. QED
    BY <1>1, <2>2, <2>3, <2>5, TokenStep
<1>5. QED
  BY <1>2, <1>3, <1>4

\* A slash: a comment of either form or an operator.
LEMMA SlashStep ==
  ASSUME ScannerInv, text' = text, mode = "parse", Slash
  PROVE  ScannerInv'
<1>1. /\ Begin = at /\ Begin \in 0..(Len(text) - 1)
      /\ at + 1 \in 1..Len(text) /\ text[at + 1] = "/"
  BY AtLexeme DEF Slash
<1>2. CASE Ahead(1, {"/"})
  <2>1. Has(text, at + 2, {"/"})
    BY <1>2, AheadHas
  <2>2. Enter("cppComment", at, 1)
    BY <1>2 DEF Slash
  <2>3. /\ at' = at + 1 /\ mode' = "cppComment" /\ start' = at
    BY <2>2 DEF Enter
  <2>4. InCppComment(text, at, at + 1)
    BY <1>1, <2>1, Numbers DEF InCppComment, Has, Only, Char
  <2>5. InMode' /\ Begin' = at
    BY <2>3, <2>4 DEF InMode, Begin
  <2>6. "cppComment" \in Mode /\ 1 \in Int /\ at + 1 \in 0..Len(text)
    BY <1>1 DEF Mode
  <2>7. QED
    BY <2>2, <2>5, <2>6, Numbers, EnterStep
<1>3. CASE ~ Ahead(1, {"/"}) /\ Ahead(1, {"*"})
  <2>1. Has(text, at + 2, {"*"})
    BY <1>3, AheadHas
  <2>2. Enter("cComment", at, 2)
    BY <1>3 DEF Slash
  <2>3. /\ at' = at + 2 /\ mode' = "cComment" /\ start' = at
    BY <2>2 DEF Enter
  <2>4. InCComment(text, at, at + 2)
    <3>1. CommentEnds(text, at + 1) \subseteq (at + 4)..Len(text)
      BY Numbers DEF CommentEnds
    <3>2. QED
      BY <1>1, <2>1, <3>1, Numbers DEF InCComment, Has
  <2>5. InMode' /\ Begin' = at
    BY <2>3, <2>4 DEF InMode, Begin
  <2>6. "cComment" \in Mode /\ 2 \in Int /\ at + 2 \in 0..Len(text)
    BY <1>1, <2>1, Numbers DEF Mode, Has
  <2>7. QED
    BY <2>2, <2>5, <2>6, Numbers, EnterStep
<1>4. CASE ~ Ahead(1, {"/"}) /\ ~ Ahead(1, {"*"})
  <2> DEFINE i == at + 1
             k == "operators"
  <2>1. ~ Has(text, i + 1, {"/"}) /\ ~ Has(text, i + 1, {"*"})
    BY <1>4, AheadHas, Numbers DEF Has
  <2>2. i \in 1..Len(text) /\ text[i] = "/" /\ i \in Nat
        /\ i \in 0..Len(text) /\ k \in Kind
    BY <1>1, Numbers DEF Kind
  <2>3. Taken(text, Begin + 1) =
          [kind |-> k, first |-> i, last |-> i, end |-> i, breaks |-> 0]
    <3> HIDE DEF i
    <3>1. <<text[i], text[i + 1]>> \notin Pairs
      BY <2>2 DEF Pairs
    <3>2. Taken(text, i) = Plain(k, i, i)
      BY <2>1, <2>2, <3>1, TakenIs DEF LineCommentOpens, CommentOpens, OperatorChar
    <3>3. QED
      BY <1>1, <3>2 DEF i, Plain
  <2>4. Push(k, i, 1)
    BY <1>4 DEF Slash
  <2>5. /\ Emit(k, i, i) /\ at' = i /\ mode' = "parse"
        /\ UNCHANGED <<start, fraction, line, errors>>
    BY <2>4 DEF Push, Leave
  <2> HIDE DEF i, k
  <2>6. QED
    BY <1>1, <2>2, <2>3, <2>5, TokenStep
<1>5. QED
  BY <1>2, <1>3, <1>4

\* Operators of one character or of two.
LEMMA OperatorsStep ==
  ASSUME ScannerInv, text' = text, mode = "parse", Operators
  PROVE  ScannerInv'
<1> DEFINE i == at + 1
           k == "operators"
           two == i < Len(text) /\ <<text[i], text[i + 1]>> \in Pairs
           e == IF two THEN i + 1 ELSE i
<1>1. /\ Begin = at /\ Begin \in 0..(Len(text) - 1)
      /\ i \in 1..Len(text) /\ text[i] \in Operator \union {"*"}
  BY AtLexeme DEF Operators
<1>2. i \in Nat /\ e \in Nat /\ e \in 0..Len(text) /\ k \in Kind
  BY <1>1, Numbers DEF Kind
<1>3. Taken(text, i) = Plain(k, i, e)
  BY <1>1, TakenIs DEF LineCommentOpens, CommentOpens, OperatorChar, Operator
<1>4. Push(k, i, IF two THEN 2 ELSE 1)
  <2>1. /\ More(1) <=> i < Len(text)
        /\ i + 1 = at + 2
    BY AheadHas, Numbers
  <2>2. QED
    BY <2>1 DEF Operators
<1>5. /\ Emit(k, i, e) /\ at' = e /\ mode' = "parse"
      /\ UNCHANGED <<start, fraction, line, errors>>
  <2>1. at + (IF two THEN 2 ELSE 1) = e
    BY Numbers
  <2>2. QED
    BY <1>4, <2>1 DEF Push, Leave
<1>6. Taken(text, Begin + 1) =
        [kind |-> k, first |-> i, last |-> e, end |-> e, breaks |-> 0]
  BY <1>1, <1>3 DEF Plain
<1> HIDE DEF i, k, e
<1>7. QED
  BY <1>1, <1>2, <1>5, <1>6, TokenStep

\* Punctuation.
LEMMA PunctuationsStep ==
  ASSUME ScannerInv, text' = text, mode = "parse", Punctuations
  PROVE  ScannerInv'
<1> DEFINE i == at + 1
           k == "punctuation"
<1>1. /\ Begin = at /\ Begin \in 0..(Len(text) - 1)
      /\ i \in 1..Len(text) /\ text[i] \in Punctuation
  BY AtLexeme DEF Punctuations
<1>2. i \in Nat /\ i \in 0..Len(text) /\ k \in Kind
  BY <1>1, Numbers DEF Kind
<1>3. Taken(text, i) = Plain(k, i, i)
  BY <1>1, TakenIs
<1>4. /\ Emit(k, i, i) /\ at' = i /\ mode' = "parse"
      /\ UNCHANGED <<start, fraction, line, errors>>
  BY DEF Punctuations, Push, Leave
<1>5. Taken(text, Begin + 1) =
        [kind |-> k, first |-> i, last |-> i, end |-> i, breaks |-> 0]
  BY <1>1, <1>3 DEF Plain
<1> HIDE DEF i, k
<1>6. QED
  BY <1>1, <1>2, <1>4, <1>5, TokenStep

\* The end of the file.
LEMMA ParseStep ==
  ASSUME ScannerInv, text' = text, Parse
  PROVE  ScannerInv'
<1>1. mode = "parse"
  BY DEF Parse
<1>2. ASSUME ~ More(0), mode' = "done",
             UNCHANGED <<at, start, fraction, tokens, line, errors>>
      PROVE  ScannerInv'
  <2>1. at = Len(text)
    BY <1>2, Numbers, AheadHas
  <2>2. InMode' /\ Begin' = at /\ Begin = at
    BY <1>1, <1>2, <2>1 DEF InMode, Begin
  <2>3. TypeOK'
    BY <1>2 DEF ScannerInv, TypeOK, Mode
  <2>4. AsRead'
    BY <1>2, <2>2 DEF ScannerInv, AsRead
  <2>5. QED
    BY <2>2, <2>3, <2>4 DEF ScannerInv
<1>3. QED
  BY <1>1, <1>2, BlanksStep, LineBreakStep, BeginWordStep, ZeroStep, SlashStep,
     OperatorsStep, PunctuationsStep DEF Parse

\* Letters and digits go on, or the word ends.
LEMMA IdentifierStep ==
  ASSUME ScannerInv, text' = text, ParseIdentifier
  PROVE  ScannerInv'
<1> DEFINE cs == Letter \union Digit
           k == "identifier"
           i == start + 1
<1>1. mode = "identifier" /\ InIdentifier(text, start, at)
  BY DEF ParseIdentifier, ScannerInv, InMode
<1>2. CASE Ahead(0, cs)
  <2>1. Has(text, at + 1, cs)
    BY <1>2, AheadHas
  <2>2. at' = at + 1 /\ UNCHANGED <<mode, start, fraction, tokens, line, errors>>
    BY <1>2 DEF ParseIdentifier, Skip
  <2>3. InIdentifier(text, start, at + 1)
    BY <1>1, <2>1, Numbers DEF InIdentifier, Has, Only
  <2>4. InMode'
    BY <1>1, <2>2, <2>3 DEF InMode
  <2>5. at' \in 0..Len(text) /\ fraction' \in BOOLEAN
    BY <2>1, <2>2, Numbers DEF Has
  <2>6. QED
    BY <1>1, <2>2, <2>4, <2>5, LoopStep
<1>3. CASE ~ Ahead(0, cs)
  <2>1. ~ Has(text, at + 1, cs)
    BY <1>3, AheadHas
  <2>2. Taken(text, start + 1) = Plain(k, i, at)
    BY <1>1, <2>1, Numbers, IdentifierIs
  <2>3. Begin = start /\ Begin \in 0..(Len(text) - 1) /\ i \in Nat /\ k \in Kind
    BY <1>1, Numbers DEF Begin, InIdentifier, Kind
  <2>4. Push(k, i, 0)
    BY <1>3 DEF ParseIdentifier
  <2>5. /\ Emit(k, i, at) /\ at' = at /\ mode' = "parse"
        /\ UNCHANGED <<start, fraction, line, errors>>
    <3>1. at + 0 = at
      BY Numbers
    <3>2. QED
      BY <2>4, <3>1 DEF Push, Leave
  <2>6. Taken(text, Begin + 1) =
          [kind |-> k, first |-> i, last |-> at, end |-> at, breaks |-> 0]
    BY <2>2, <2>3 DEF Plain
  <2> HIDE DEF i, k
  <2>7. QED
    BY <2>3, <2>5, <2>6, Numbers, TokenStep
<1>4. QED
  BY <1>2, <1>3

\* Octal digits go on, the literal ends, or another digit is an error.
LEMMA OctalStep ==
  ASSUME ScannerInv, text' = text, ParseOctal
  PROVE  ScannerInv'
<1> DEFINE k == "decimalLiteral"
           i == start + 1
<1>1. mode = "octal" /\ InOctal(text, start, at)
  BY DEF ParseOctal, ScannerInv, InMode
<1>2. CASE Ahead(0, Octal)
  <2>1. Has(text, at + 1, Octal)
    BY <1>2, AheadHas
  <2>2. at' = at + 1 /\ UNCHANGED <<mode, start, fraction, tokens, line, errors>>
    BY <1>2 DEF ParseOctal, Skip
  <2>3. InOctal(text, start, at + 1)
    BY <1>1, <2>1, Numbers DEF InOctal, Has, Only
  <2>4. InMode'
    BY <1>1, <2>2, <2>3 DEF InMode
  <2>5. at' \in 0..Len(text) /\ fraction' \in BOOLEAN
    BY <2>1, <2>2, Numbers DEF Has
  <2>6. QED
    BY <1>1, <2>2, <2>4, <2>5, LoopStep
<1>3. CASE ~ Ahead(0, Octal)
  <2>1. ~ Has(text, at + 1, Octal)
    BY <1>3, AheadHas
  <2>2. Taken(text, start) = IF Has(text, at + 1, Digit) THEN Malformed
                              ELSE Plain(k, i, at)
    BY <1>1, <2>1, Numbers, OctalIs
  <2>3. /\ Begin + 1 = start /\ Begin \in 0..(Len(text) - 1) /\ i \in Nat
        /\ k \in Kind
    BY <1>1, Numbers DEF Begin, InOctal, Kind
  <2>4. /\ Emit(k, i, at) /\ at' = at /\ mode' = "parse"
        /\ UNCHANGED <<start, fraction, line>>
        /\ errors' = IF Has(text, at + 1, Digit) THEN errors + 1 ELSE errors
    BY <1>3, Numbers, AheadHas DEF ParseOctal, Leave
  <2> HIDE DEF i, k
  <2>5. CASE Has(text, at + 1, Digit)
    <3>1. tokens' \in Seq(Token)
      BY <2>3, <2>4, Numbers, OneMoreToken DEF Emit
    <3>2. Taken(text, Begin + 1) = Malformed
      BY <2>2, <2>3, <2>5
    <3>3. QED
      BY <2>3, <2>4, <2>5, <3>1, <3>2, Numbers, ErrorStep
  <2>6. CASE ~ Has(text, at + 1, Digit)
    <3>1. Taken(text, Begin + 1) =
            [kind |-> k, first |-> i, last |-> at, end |-> at, breaks |-> 0]
      BY <2>2, <2>3, <2>6 DEF Plain
    <3>2. QED
      BY <2>3, <2>4, <2>6, <3>1, Numbers, TokenStep
  <2>7. QED
    BY <2>5, <2>6
<1>4. QED
  BY <1>2, <1>3

\* Digits go on, a point follows, or the literal ends.
LEMMA NumberStep ==
  ASSUME ScannerInv, text' = text, ParseNumber
  PROVE  ScannerInv'
<1> DEFINE k == "decimalLiteral"
           i == start + 1
<1>1. mode = "number" /\ InNumber(text, start, at)
  BY DEF ParseNumber, ScannerInv, InMode
<1>2. CASE Ahead(0, Digit)
  <2>1. Has(text, at + 1, Digit)
    BY <1>2, AheadHas
  <2>2. at' = at + 1 /\ UNCHANGED <<mode, start, fraction, tokens, line, errors>>
    BY <1>2 DEF ParseNumber, Skip
  <2>3. InNumber(text, start, at + 1)
    BY <1>1, <2>1, Numbers DEF InNumber, Has, Only
  <2>4. InMode'
    BY <1>1, <2>2, <2>3 DEF InMode
  <2>5. at' \in 0..Len(text) /\ fraction' \in BOOLEAN
    BY <2>1, <2>2, Numbers DEF Has
  <2>6. QED
    BY <1>1, <2>2, <2>4, <2>5, LoopStep
<1>3. CASE ~ Ahead(0, Digit) /\ Ahead(0, {"."})
  <2>1. Has(text, at + 1, {"."})
    BY <1>3, AheadHas
  <2>2. /\ mode' = "fraction" /\ start' = start /\ at' = at + 1 /\ fraction' = FALSE
        /\ UNCHANGED <<tokens, line, errors>>
    BY <1>3 DEF ParseNumber, Enter
  <2>3. InFraction(text, start, at + 1, FALSE, at)
    BY <1>1, <2>1, Numbers DEF InFraction, InNumber, Has, Only
  <2>4. InMode'
    BY <2>2, <2>3, Numbers DEF InMode
  <2>5. Begin' = Begin
    BY <1>1, <2>2 DEF Begin
  <2>6. TypeOK'
    <3>1. mode' \in Mode
      BY <2>2 DEF Mode
    <3>2. at' \in 0..Len(text)
      BY <2>1, <2>2, Numbers DEF Has
    <3>3. QED
      BY <2>2, <3>1, <3>2 DEF ScannerInv, TypeOK
  <2>7. AsRead'
    BY <2>2, <2>5 DEF ScannerInv, AsRead
  <2>8. QED
    BY <2>4, <2>6, <2>7 DEF ScannerInv
<1>4. CASE ~ Ahead(0, Digit) /\ ~ Ahead(0, {"."})
  <2>1. ~ Has(text, at + 1, Digit) /\ ~ Has(text, at + 1, {"."})
    BY <1>4, AheadHas
  <2>2. Taken(text, start + 1) = Plain(k, i, at)
    BY <1>1, <2>1, Numbers, NumberIs
  <2>3. Begin = start /\ Begin \in 0..(Len(text) - 1) /\ i \in Nat /\ k \in Kind
    BY <1>1, Numbers DEF Begin, InNumber, Kind
  <2>4. Push(k, i, 0)
    BY <1>4 DEF ParseNumber
  <2>5. /\ Emit(k, i, at) /\ at' = at /\ mode' = "parse"
        /\ UNCHANGED <<start, fraction, line, errors>>
    <3>1. at + 0 = at
      BY Numbers
    <3>2. QED
      BY <2>4, <3>1 DEF Push, Leave
  <2>6. Taken(text, Begin + 1) =
          [kind |-> k, first |-> i, last |-> at, end |-> at, breaks |-> 0]
    BY <2>2, <2>3 DEF Plain
  <2> HIDE DEF i, k
  <2>7. QED
    BY <2>3, <2>5, <2>6, Numbers, TokenStep
<1>5. QED
  BY <1>2, <1>3, <1>4

\* Digits after the point go on, another character stays for ever, or the file
\* ends and with it the literal.
LEMMA FractionStep ==
  ASSUME ScannerInv, text' = text, ParseFraction
  PROVE  ScannerInv'
<1> DEFINE k == "decimalLiteral"
           i == start + 1
<1>1. mode = "fraction"
  BY DEF ParseFraction
<1>2. PICK w \in 0..Len(text) : InFraction(text, start, at, fraction, w)
  BY <1>1 DEF ScannerInv, InMode
<1>3. CASE Ahead(0, Digit)
  <2>1. Has(text, at + 1, Digit)
    BY <1>3, AheadHas
  <2>2. at' = at + 1 /\ fraction' = TRUE /\ UNCHANGED <<mode, start, tokens, line, errors>>
    BY <1>3 DEF ParseFraction
  <2>3. InFraction(text, start, at + 1, TRUE, w)
    BY <1>2, <2>1, Numbers DEF InFraction, Has, Only
  <2>4. InMode'
    BY <1>1, <2>2, <2>3 DEF InMode
  <2>5. at' \in 0..Len(text) /\ fraction' \in BOOLEAN
    BY <2>1, <2>2, Numbers DEF Has
  <2>6. QED
    BY <1>1, <2>2, <2>4, <2>5, LoopStep
<1>4. CASE ~ Ahead(0, Digit) /\ More(0)
  <2>1. at' = at /\ UNCHANGED <<mode, start, fraction, tokens, line, errors>>
    BY <1>4, Numbers DEF ParseFraction, Skip
  <2>2. InMode'
    BY <1>1, <1>2, <2>1 DEF InMode
  <2>3. QED
    BY <1>1, <2>1, <2>2, Numbers, LoopStep
<1>5. CASE ~ Ahead(0, Digit) /\ ~ More(0)
  <2> DEFINE e == IF fraction THEN at ELSE w
  <2>1. at = Len(text)
    BY <1>5, Numbers, AheadHas
  <2>2. Taken(text, start + 1) = Plain(k, i, e)
    BY <1>2, <2>1, Numbers, FractionIs
  <2>3. /\ Begin = start /\ Begin \in 0..(Len(text) - 1) /\ i \in Nat /\ k \in Kind
        /\ e \in 0..Len(text) /\ e \in Nat
        /\ e = at + (IF fraction THEN 0 ELSE -1)
    BY <1>1, <1>2, <2>1, Numbers DEF Begin, InFraction, Kind
  <2>4. Push(k, i, IF fraction THEN 0 ELSE -1)
    BY <1>5 DEF ParseFraction
  <2>5. /\ Emit(k, i, e) /\ at' = e /\ mode' = "parse"
        /\ UNCHANGED <<start, fraction, line, errors>>
    BY <2>3, <2>4 DEF Push, Leave
  <2>6. Taken(text, Begin + 1) =
          [kind |-> k, first |-> i, last |-> e, end |-> e, breaks |-> 0]
    BY <2>2, <2>3 DEF Plain
  <2> HIDE DEF i, k, e
  <2>7. QED
    BY <2>3, <2>5, <2>6, TokenStep
<1>6. QED
  BY <1>3, <1>4, <1>5

\* One character more, none of which closes the literal, in a string.
LEMMA StringGoesOn ==
  ASSUME ScannerInv, mode = "string", Has(text, at + 1, Char),
         text[at + 1] # "quote", text[at + 1] # "escape"
  PROVE  InString(text, start, at + 1)
<1> DEFINE j == at + 1
           Esc(m) == Escapes(text, start, m)
<1>1. InString(text, start, at) /\ j \in Nat /\ start < j /\ start \in Nat
  BY Numbers DEF ScannerInv, InMode, InString
<1>2. Esc(j + 1) = 0
  BY <1>1, EscapesNext
<1>3. j \notin Closings(text, start)
  BY DEF Closings
<1>4. \A m \in Closings(text, start) : at + 1 < m
  <2>1. \A m \in Closings(text, start) : at < m /\ m \in Int /\ m # at + 1
    BY <1>1, <1>3, Numbers DEF InString, Closings
  <2>2. QED
    BY <2>1, Numbers
<1>5. QED
  BY <1>1, <1>2, <1>4 DEF InString

\* A `\` and the character after it: neither closes the literal.
LEMMA EscapedCharacter ==
  ASSUME ScannerInv, mode = "string", Has(text, at + 1, {"escape"}), at + 1 < Len(text)
  PROVE  InString(text, start, at + 2)
<1> DEFINE j == at + 1
           n == at + 2
           Esc(m) == Escapes(text, start, m)
<1>1. /\ InString(text, start, at) /\ j \in Nat /\ start < j /\ start \in Nat
      /\ n \in Nat /\ start < n /\ n = j + 1 /\ text[j] = "escape"
  BY Numbers DEF ScannerInv, InMode, InString, Has
<1>2. Esc(j) \in Nat /\ Esc(j) % 2 = 0
  BY <1>1, EscapesNext DEF InString
<1> HIDE DEF j, n
<1>3. Esc(n) = Esc(j) + 1
  BY <1>1, EscapesNext
<1>4. Esc(n + 1) = IF text[n] = "escape" THEN Esc(n) + 1 ELSE 0
  BY <1>1, EscapesNext
<1> HIDE DEF Esc
<1>5. Esc(n) % 2 = 1 /\ Esc(n + 1) % 2 = 0
  BY <1>2, <1>3, <1>4
<1>6. j \notin Closings(text, start) /\ n \notin Closings(text, start)
  BY <1>1, <1>5 DEF Closings, Esc
<1>7. \A m \in Closings(text, start) : at + 2 < m
  <2>1. \A m \in Closings(text, start) : at < m /\ m \in Int /\ m # at + 1 /\ m # at + 2
    BY <1>1, <1>6, Numbers DEF InString, Closings, j, n
  <2>2. QED
    BY <2>1, Numbers
<1>8. Escapes(text, start, at + 2 + 1) % 2 = 0
  <2>1. at + 2 + 1 = n + 1
    BY DEF n
  <2>2. QED
    BY <1>5, <2>1 DEF Esc
<1>9. QED
  BY <1>1, <1>7, <1>8, Numbers DEF InString

\* At the end of the text, or with a `\` as the last character, nothing closes
\* the literal.
LEMMA NothingCloses ==
  ASSUME ScannerInv, mode = "string",
         at = Len(text) \/ (at + 1 = Len(text) /\ text[at + 1] = "escape")
  PROVE  Taken(text, start) = Malformed
<1>1. InString(text, start, at)
  BY DEF ScannerInv, InMode
<1>2. \A j \in Closings(text, start) :
        at < j /\ j \in Int /\ j <= Len(text) /\ text[j] = "quote"
  BY <1>1, Numbers DEF InString, Closings
<1>3. Closings(text, start) = {}
  BY <1>2, Numbers
<1>4. QED
  BY <1>1, <1>3, StringMalformed

\* A string literal.
LEMMA StringStep ==
  ASSUME ScannerInv, text' = text, ParseString
  PROVE  ScannerInv'
<1> DEFINE k == "stringLiteral"
           i == start + 1
<1>1. mode = "string" /\ InString(text, start, at)
  BY DEF ParseString, ScannerInv, InMode
<1>2. Begin + 1 = start /\ Begin \in Nat
  BY <1>1, Numbers DEF Begin, InString
<1>3. start <= Len(text) /\ Begin \in 0..(Len(text) - 1)
  BY <1>2, Numbers
<1>4. CASE Ahead(0, {"escape"}) /\ More(1)
  <2>1. InString(text, start, at + 2) /\ at + 1 < Len(text)
    BY <1>1, <1>4, AheadHas, EscapedCharacter
  <2>2. at' = at + 2 /\ UNCHANGED <<mode, start, fraction, tokens, line, errors>>
    BY <1>4 DEF ParseString, Skip
  <2>3. InMode'
    BY <1>1, <2>1, <2>2 DEF InMode
  <2>4. at' \in 0..Len(text) /\ fraction' \in BOOLEAN
    BY <2>1, <2>2, Numbers
  <2>5. QED
    BY <1>1, <2>2, <2>3, <2>4, LoopStep
<1>5. CASE Ahead(0, {"escape"}) /\ ~ More(1)
  <2>1. at + 1 = Len(text) /\ text[at + 1] = "escape"
    BY <1>5, AheadHas, Numbers DEF Has
  <2>2. Taken(text, Begin + 1) = Malformed
    BY <1>1, <1>2, <2>1, NothingCloses
  <2>3. /\ at' \in 0..Len(text) /\ mode' = "parse" /\ tokens' \in Seq(Token)
        /\ errors' = errors + 1 /\ UNCHANGED <<start, fraction, line>>
    BY <1>5, <2>1, Numbers DEF ParseString, Report, Leave
  <2>4. QED
    BY <1>3, <2>2, <2>3, ErrorStep
<1>6. CASE ~ Ahead(0, {"escape"}) /\ Ahead(0, {"quote"})
  <2> DEFINE e == at + 1
  <2>1. Has(text, at + 1, {"quote"})
    BY <1>6, AheadHas
  <2>2. Taken(text, Begin + 1) =
          [kind |-> k, first |-> i, last |-> at, end |-> e, breaks |-> 0]
    BY <1>1, <1>2, <2>1, Numbers, StringIs
  <2>3. /\ Emit(k, i, at) /\ at' = e /\ mode' = "parse"
        /\ UNCHANGED <<start, fraction, line, errors>>
    BY <1>6 DEF ParseString, Leave
  <2>4. i \in Nat /\ e \in 0..Len(text) /\ k \in Kind
    BY <2>1, Numbers DEF Has, Kind
  <2> HIDE DEF i, k, e
  <2>5. QED
    BY <1>3, <2>2, <2>3, <2>4, Numbers, TokenStep
<1>7. CASE ~ Ahead(0, {"escape"}) /\ ~ Ahead(0, {"quote"}) /\ More(0)
  <2>1. at < Len(text) /\ text[at + 1] # "escape" /\ text[at + 1] # "quote"
    BY <1>7, AheadHas, Numbers DEF Has
  <2>2. Has(text, at + 1, Char)
    BY <2>1, Numbers, ElementOfSeq DEF Has
  <2>3. InString(text, start, at + 1)
    BY <1>1, <2>1, <2>2, StringGoesOn
  <2>4. at' = at + 1 /\ UNCHANGED <<mode, start, fraction, tokens, line, errors>>
    BY <1>7 DEF ParseString, Skip
  <2>5. InMode'
    BY <1>1, <2>3, <2>4 DEF InMode
  <2>6. at' \in 0..Len(text) /\ fraction' \in BOOLEAN
    BY <2>1, <2>4, Numbers
  <2>7. QED
    BY <1>1, <2>4, <2>5, <2>6, LoopStep
<1>8. CASE ~ Ahead(0, {"escape"}) /\ ~ Ahead(0, {"quote"}) /\ ~ More(0)
  <2>1. at = Len(text)
    BY <1>8, AheadHas, Numbers
  <2>2. Taken(text, Begin + 1) = Malformed
    BY <1>1, <1>2, <2>1, NothingCloses
  <2>3. /\ at' \in 0..Len(text) /\ mode' = "parse" /\ tokens' \in Seq(Token)
        /\ errors' = errors + 1 /\ UNCHANGED <<start, fraction, line>>
    BY <1>8, <2>1, Numbers DEF ParseString, Report, Leave
  <2>4. QED
    BY <1>3, <2>2, <2>3, ErrorStep
<1>9. QED
  BY <1>4, <1>5, <1>6, <1>7, <1>8

\* A comment up to the end of its line.
LEMMA CppCommentStep ==
  ASSUME ScannerInv, text' = text, ParseCppComment
  PROVE  ScannerInv'
<1>1. mode = "cppComment" /\ InCppComment(text, start, at)
  BY DEF ParseCppComment, ScannerInv, InMode
<1>2. Begin = start /\ Begin \in 0..(Len(text) - 1)
  BY <1>1, Numbers DEF Begin, InCppComment
<1>3. CASE More(0) /\ ~ Ahead(0, {"nl"})
  <2>1. at < Len(text) /\ text[at + 1] # "nl"
    BY <1>3, AheadHas, Numbers DEF Has
  <2>2. text[at + 1] \in Char
    BY <2>1, Numbers, ElementOfSeq
  <2>3. InCppComment(text, start, at + 1)
    BY <1>1, <2>1, <2>2, Numbers DEF InCppComment, Only
  <2>4. at' = at + 1 /\ UNCHANGED <<mode, start, fraction, tokens, line, errors>>
    BY <1>3 DEF ParseCppComment, Skip
  <2>5. InMode'
    BY <1>1, <2>3, <2>4 DEF InMode
  <2>6. at' \in 0..Len(text) /\ fraction' \in BOOLEAN
    BY <2>1, <2>4, Numbers
  <2>7. QED
    BY <1>1, <2>4, <2>5, <2>6, LoopStep
<1>4. CASE ~ (More(0) /\ ~ Ahead(0, {"nl"}))
  <2> DEFINE n == 0
  <2>1. ~ Has(text, at + 1, Char \ {"nl"})
    BY <1>4, AheadHas, Numbers DEF Has
  <2>2. Taken(text, start + 1) = Gap(at, 0)
    BY <1>1, <2>1, Numbers, CppCommentIs
  <2>3. /\ at' = at /\ line' = line + n /\ mode' = "parse" /\ n \in Nat
        /\ UNCHANGED <<start, fraction, tokens, errors>>
    BY <1>4, Numbers DEF ParseCppComment, Leave
  <2>4. Taken(text, Begin + 1) = Gap(at, n)
    BY <1>2, <2>2
  <2> HIDE DEF n
  <2>5. QED
    BY <1>2, <2>3, <2>4, Numbers, GapStep
<1>5. QED
  BY <1>3, <1>4

\* A comment up to its end.
LEMMA CCommentStep ==
  ASSUME ScannerInv, text' = text, ParseCComment
  PROVE  ScannerInv'
<1>1. mode = "cComment" /\ InCComment(text, start, at)
  BY DEF ParseCComment, ScannerInv, InMode
<1>2. Begin = start /\ Begin \in 0..(Len(text) - 1)
  BY <1>1, Numbers DEF Begin, InCComment
<1>3. CASE ~ More(1)
  <2>1. at + 1 >= Len(text)
    BY <1>3, AheadHas, Numbers
  <2>2. Taken(text, Begin + 1) = Malformed
    BY <1>1, <1>2, <2>1, Numbers, CCommentMalformed
  <2>3. /\ at' \in 0..Len(text) /\ mode' = "parse" /\ tokens' \in Seq(Token)
        /\ errors' = errors + 1 /\ UNCHANGED <<start, fraction, line>>
    BY <1>3, Numbers DEF ParseCComment, Report, Leave
  <2>4. QED
    BY <1>2, <2>2, <2>3, ErrorStep
<1>4. CASE More(1) /\ Ahead(0, {"*"}) /\ Ahead(1, {"/"})
  <2> DEFINE n == 0
             e == at + 2
  <2>1. Has(text, at + 1, {"*"}) /\ Has(text, at + 2, {"/"})
    BY <1>4, AheadHas
  <2>2. Taken(text, start + 1) = Gap(at + 2, 0)
    BY <1>1, <2>1, Numbers, CCommentIs
  <2>3. /\ at' = e /\ line' = line + n /\ mode' = "parse" /\ n \in Nat
        /\ UNCHANGED <<start, fraction, tokens, errors>>
    BY <1>4, Numbers DEF ParseCComment, Leave
  <2>4. e \in 0..Len(text) /\ Taken(text, Begin + 1) = Gap(e, n)
    BY <1>2, <2>1, <2>2, Numbers DEF Has
  <2> HIDE DEF n, e
  <2>5. QED
    BY <1>2, <2>3, <2>4, Numbers, GapStep
<1>5. CASE More(1) /\ ~ (Ahead(0, {"*"}) /\ Ahead(1, {"/"}))
  <2>1. at + 1 < Len(text)
    BY <1>5, AheadHas
  <2>2. ~ (text[at + 1] = "*" /\ text[at + 2] = "/")
    BY <1>5, <2>1, AheadHas, Numbers DEF Has
  <2>3. InCComment(text, start, at + 1)
    <3>1. \A j \in CommentEnds(text, start + 1) : at + 1 < j /\ j \in Int
      BY <1>1, Numbers DEF InCComment, CommentEnds
    <3>2. at + 2 \notin CommentEnds(text, start + 1)
      <4>1. (at + 2) - 1 = at + 1
        BY Numbers
      <4>2. QED
        BY <2>2, <4>1 DEF CommentEnds
    <3>3. \A j \in CommentEnds(text, start + 1) : (at + 1) + 1 < j
      BY <3>1, <3>2, Numbers
    <3>4. QED
      BY <1>1, <3>3, Numbers DEF InCComment
  <2>4. at' = at + 1 /\ UNCHANGED <<mode, start, fraction, tokens, line, errors>>
    BY <1>5 DEF ParseCComment, Skip
  <2>5. InMode'
    BY <1>1, <2>3, <2>4 DEF InMode
  <2>6. at' \in 0..Len(text) /\ fraction' \in BOOLEAN
    BY <2>1, <2>4, Numbers
  <2>7. QED
    BY <1>1, <2>4, <2>5, <2>6, LoopStep
<1>6. QED
  BY <1>3, <1>4, <1>5

-----------------------------------------------------------------------------
(***************************************************************************)
(* The theorems.                                                           *)
(***************************************************************************)
\* Nothing has been read at first.
LEMMA InitScanner == Init => ScannerInv
<1> SUFFICES ASSUME Init PROVE ScannerInv
  OBVIOUS
<1>1. text \in Seq(Char) /\ Len(text) \in Nat
  BY SourceFiles, LenProperties DEF Init
<1>2. TypeOK
  <2>1. text \in Texts /\ mode \in Mode /\ tokens \in Seq(Token)
    BY EmptySeq DEF Init, Mode
  <2>2. at \in 0..Len(text) /\ start \in 0..Len(text)
    BY <1>1 DEF Init
  <2>3. fraction \in BOOLEAN /\ line \in Nat /\ errors \in Nat
    BY DEF Init
  <2>4. QED
    BY <2>1, <2>2, <2>3 DEF TypeOK
<1>3. InMode
  BY DEF Init, InMode
<1>4. Reached(text, 0, 0, <<>>)
  BY <1>1, BothAreLexemes, ReadingsAre DEF Reached, Opening
<1>5. AsRead
  BY <1>4 DEF Init, AsRead, Begin
<1>6. QED
  BY <1>2, <1>3, <1>5 DEF ScannerInv

\* Every turn of every loop keeps the invariant.
LEMMA NextScanner == ScannerInv /\ [Next]_vars => ScannerInv'
<1> SUFFICES ASSUME ScannerInv, [Next]_vars PROVE ScannerInv'
  OBVIOUS
<1>1. CASE UNCHANGED vars
  BY <1>1 DEF vars, ScannerInv, TypeOK, InMode, AsRead, Begin
<1>2. CASE Next
  BY <1>2, ParseStep, IdentifierStep, OctalStep, NumberStep, FractionStep,
     StringStep, CppCommentStep, CCommentStep DEF Next
<1>3. QED
  BY <1>1, <1>2

\* In every state of every run over any texts the scanner is where reading the text
\* lexeme by lexeme (the grammar's lexemes but for the two it departs from) has come
\* to, or both have found the text malformed.
THEOREM ScannerFollowsGrammar == Spec => []ScannerInv
<1>1. QED
  BY InitScanner, NextScanner, PTL DEF Spec

\* The iterator never leaves the file: no look-ahead skips its end.
THEOREM ScannerTypes == Spec => []TypeOK
<1>1. ScannerInv => TypeOK
  BY DEF ScannerInv
<1>2. QED
  BY <1>1, ScannerFollowsGrammar, PTL

\* At the end the reading of the text is complete.
LEMMA ReadToTheEnd ==
  ASSUME ScannerInv, mode = "done", AsDocumented(text)
  PROVE  IF errors = 0 THEN WellFormed(text) /\ GrammarTokens(text) = tokens
                       ELSE ~ WellFormed(text)
<1>1. text \in Seq(Char) /\ Len(text) \in Nat /\ at = Len(text)
  BY Numbers DEF ScannerInv, InMode
<1>2. CASE errors = 0
  <2>1. PICK k \in 0..Len(text) :
          Readings(text, TakenOf(text))[k] = [next |-> Len(text) + 1, line |-> line,
                               tokens |-> tokens, ok |-> TRUE]
    BY <1>1, <1>2 DEF ScannerInv, AsRead, Reached, Begin
  <2>2. Readings(text, TakenOf(text))[Len(text)] = Readings(text, TakenOf(text))[k]
    BY <1>1, <2>1, BothAreLexemes, ReadingStays
  <2>3. QED
    BY <1>1, <1>2, <2>1, <2>2, ReadAsDocumented DEF WellFormed, GrammarTokens
<1>3. CASE errors # 0
  <2>1. PICK k \in 0..Len(text) : ~ Readings(text, TakenOf(text))[k].ok
    BY <1>3 DEF ScannerInv, AsRead, Failed
  <2>2. Readings(text, TakenOf(text))[Len(text)] = Readings(text, TakenOf(text))[k]
    BY <1>1, <2>1, BothAreLexemes, ReadingStays
  <2>3. QED
    BY <1>1, <1>3, <2>1, <2>2, ReadAsDocumented DEF WellFormed
<1>4. QED
  BY <1>2, <1>3

\* Of the texts it reads as documented the scanner reports an error for exactly those
\* with a malformed lexeme.
THEOREM ErrorsAreMalformedTexts == Spec => []MalformedReported
<1>1. ScannerInv => MalformedReported
  BY ReadToTheEnd, Numbers DEF MalformedReported
<1>2. QED
  BY <1>1, ScannerFollowsGrammar, PTL

\* The tokens of a text it reads as documented and finds no error in are the lexemes
\* of the grammar, each with the line it begins in.
THEOREM TokensAreTheLexemes == Spec => []TokensAreLexemes
<1>1. ScannerInv => TokensAreLexemes
  BY ReadToTheEnd DEF TokensAreLexemes
<1>2. QED
  BY <1>1, ScannerFollowsGrammar, PTL
=============================================================================
