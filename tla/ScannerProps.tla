---------------------------- MODULE ScannerProps ----------------------------
(***************************************************************************)
(* What the scanner promises: it ends, and its tokens are the lexemes of   *)
(* the lexical grammar of docs/grammar.md, wherever it follows that.  The  *)
(* grammar is stated here without loops: a lexeme is the longest, or the   *)
(* shortest, stretch of characters of a form.                              *)
(***************************************************************************)
EXTENDS Scanner

\* The end of the longest stretch of characters of cs from position i on, i - 1
\* if there is none.
Stretch(t, i, cs) ==
  Max({i - 1} \union {j \in i..Len(t) : \A k \in i..j : t[k] \in cs})

\* Is there one of cs at position i?
Has(t, i, cs) == i <= Len(t) /\ t[i] \in cs

\* A lexeme: its token if it has one, the last of its characters, the line breaks
\* it stands for.
Plain(kind, first, last) ==
  [kind |-> kind, first |-> first, last |-> last, end |-> last, breaks |-> 0]
Gap(last, breaks) ==
  [kind |-> "gap", first |-> 1, last |-> 0, end |-> last, breaks |-> breaks]
Malformed == [kind |-> "malformed", first |-> 1, last |-> 0, end |-> 0, breaks |-> 0]

\* Digits, then possibly a point and digits.
Decimal(t, i) ==
  LET whole == Stretch(t, i, Digit)
  IN Plain("decimalLiteral", i,
       IF Has(t, whole + 1, {"."}) /\ Has(t, whole + 2, Digit)
       THEN Stretch(t, whole + 2, Digit) ELSE whole)

\* The token of an octal literal leaves its leading 0 out.
OctalOrZero(t, i) ==
  LET last == Stretch(t, i + 1, Octal)
  IN IF Has(t, last + 1, Digit) THEN Malformed
     ELSE Plain("decimalLiteral", IF last = i THEN i ELSE i + 1, last)

\* How many `\` stand directly before position j of a literal whose opening quote
\* is at i.
Escapes(t, i, j) ==
  j - 1 - Max({i} \union {k \in (i + 1)..(j - 1) : t[k] # "escape"})

\* The closing quote is the first one an even number of `\` stands before.
Closings(t, i) ==
  {j \in (i + 1)..Len(t) : t[j] = "quote" /\ Escapes(t, i, j) % 2 = 0}

StringLiteral(t, i) ==
  IF Closings(t, i) = {} THEN Malformed
  ELSE LET end == Min(Closings(t, i))
       IN [Plain("stringLiteral", i + 1, end - 1) EXCEPT !.end = end]

CommentEnds(t, i) == {j \in (i + 3)..Len(t) : t[j - 1] = "*" /\ t[j] = "/"}

Comment(t, i) ==
  IF CommentEnds(t, i) = {} THEN Malformed ELSE Gap(Min(CommentEnds(t, i)), 0)

\* A comment of // ends before the next line break, which is nl, cr or both
\* (grammar.md:36,40); the cr of both is counted to the comment, the nl breaks.
LineComment(t, i) ==
  LET last == Stretch(t, i, Char \ {"nl", "cr"})
  IN Gap(IF Has(t, last + 1, {"cr"}) /\ Has(t, last + 2, {"nl"}) THEN last + 1 ELSE last, 0)

LineCommentOpens(t, i) == t[i] = "/" /\ Has(t, i + 1, {"/"})
CommentOpens(t, i)     == t[i] = "/" /\ Has(t, i + 1, {"*"})

\* An operator is as long as its characters come (grammar.md:85), a comment
\* excepted.
OperatorChar == Operator \union {"/", "*"}

OperatorEnds(t, i) ==
  {j \in i..Len(t) : \A k \in i..j : /\ t[k] \in OperatorChar
                                     /\ ~ LineCommentOpens(t, k)
                                     /\ ~ CommentOpens(t, k)}

Lexeme(t, i) ==
  CASE t[i] \in Blank        -> Gap(i, 0)
    [] t[i] = "nl"           -> Gap(i, 1)
    [] t[i] = "cr"           -> Gap(IF Has(t, i + 1, {"nl"}) THEN i + 1 ELSE i, 1)
    [] t[i] \in Letter       -> Plain("identifier", i, Stretch(t, i, Letter \union Digit))
    [] t[i] = "0"            -> OctalOrZero(t, i)
    [] t[i] \in Digit \ {"0"} -> Decimal(t, i)
    [] t[i] = "quote"        -> StringLiteral(t, i)
    [] t[i] \in Punctuation  -> Plain("punctuation", i, i)
    [] LineCommentOpens(t, i) -> LineComment(t, i)
    [] CommentOpens(t, i)     -> Comment(t, i)
    [] OTHER                  -> Plain("operators", i, Max(OperatorEnds(t, i)))

Lexemes(t) == [i \in DOMAIN t |-> Lexeme(t, i)]

\* A text is read lexeme by lexeme, xs[i] being the one at position i, up to the
\* first malformed one: where the next one begins, its line, and the tokens so far.
Opening == [next |-> 1, line |-> 0, tokens |-> <<>>, ok |-> TRUE]

After(t, xs, r) ==
  LET x == xs[r.next]
  IN IF ~ r.ok \/ r.next > Len(t) THEN r
     ELSE IF x.kind = "malformed" THEN [r EXCEPT !.ok = FALSE]
     ELSE [next   |-> x.end + 1,
           line   |-> r.line + x.breaks,
           tokens |-> IF x.kind = "gap" THEN r.tokens
                      ELSE Append(r.tokens, [kind |-> x.kind, first |-> x.first,
                                             last |-> x.last, line |-> r.line]),
           ok     |-> TRUE]

Readings(t, xs) ==
  LET reading[n \in Nat] == IF n = 0 THEN Opening ELSE After(t, xs, reading[n - 1])
  IN reading

\* A lexeme has a character at least, so as many lexemes as characters are all.
WellFormed(t)    == Readings(t, Lexemes(t))[Len(t)].ok
GrammarTokens(t) == Readings(t, Lexemes(t))[Len(t)].tokens

\* Two lexemes the scanner does not read as they are documented: a // comment that
\* ends at a cr alone (lexparser.cpp:335 goes on up to the next nl), and an operator
\* of several characters that is none of the pairs (read as several operators).
Departs(t, i) ==
  LET x == Lexeme(t, i)
  IN \/ LineCommentOpens(t, i) /\ Has(t, x.end + 1, {"cr"})
     \/ /\ x.kind = "operators" /\ x.end # i
        /\ x.end = i + 1 => <<t[i], t[i + 1]>> \notin Pairs

\* The texts without such lexemes.
AsDocumented(t) ==
  \A n \in 0..Len(t) :
    LET r == Readings(t, Lexemes(t))[n]
    IN r.ok /\ r.next <= Len(t) => ~ Departs(t, r.next)

-----------------------------------------------------------------------------
\* For texts the scanner reads as documented it reports an error exactly if they
\* have a malformed lexeme, so the compiler stops for those and only those.
MalformedReported ==
  mode = "done" /\ AsDocumented(text) => (errors > 0 <=> ~ WellFormed(text))

\* The tokens of such a text without an error are its lexemes: every character is
\* in the longest token it can be in, or in a blank or a comment, and every line
\* break outside strings and comments counts once, that of a // comment included.
TokensAreLexemes ==
  mode = "done" /\ errors = 0 /\ AsDocumented(text) => tokens = GrammarTokens(text)

\* The scanner comes to the end of every file.
Terminates == <>(mode = "done")
=============================================================================
