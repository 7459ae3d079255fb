------------------------------ MODULE Scanner -------------------------------
(***************************************************************************)
(* LexParser (lexparser.cpp): its main loop and the loops of its parse     *)
(* functions, one step per iteration.  A text is a sequence of characters, *)
(* a character one representative of those the scanner does not tell       *)
(* apart.                                                                  *)
(***************************************************************************)
EXTENDS Integers, SequencesExt

CONSTANT Texts     (* the source files                                     *)

Letter == {"a"}                 \* a-z, A-Z, _
Octal  == {"0", "1"}
Digit  == Octal \union {"8"}

\* What makes an operator of two characters; "!" stands for !, < and > too.
Pairs == {<<"=", "=">>, <<"!", "=">>, <<"&", "&">>}

Operator    == {"+", "=", "!", "&"}
Punctuation == {"(", "."}
Blank       == {" ", "escape"}  \* skipped: blanks, and what no case names

Char == Letter \union Digit \union Operator \union Punctuation \union Blank
          \union {"nl", "cr", "/", "*", "quote"}

ASSUME SourceFiles == Texts \subseteq Seq(Char)

VARIABLES
  text,      (* SourceFile::content                                        *)
  at,        (* the characters consumed: iterator - content.begin()        *)
  mode,      (* the loop the scanner is in                                 *)
  start,     (* startAt                                                    *)
  fraction,  (* parseNumberLiteral's hasFraction                           *)
  tokens,    (* SourceFile::tokens                                         *)
  line,      (* lineNumber                                                 *)
  errors     (* how many errors it has reported                            *)

vars == <<text, at, mode, start, fraction, tokens, line, errors>>

Mode == {"parse", "identifier", "octal", "number", "fraction", "string",
         "cppComment", "cComment", "done"}

\* The token's rawValue is text[first..last]. Keywords, nil and the booleans are
\* identifiers here.
Kind  == {"identifier", "decimalLiteral", "stringLiteral", "operators", "punctuation"}
Token == [kind : Kind, first : Nat, last : Nat, line : Nat]

TypeOK ==
  /\ text \in Texts
  /\ at \in 0..Len(text)
  /\ mode \in Mode
  /\ start \in 0..Len(text)
  /\ fraction \in BOOLEAN
  /\ tokens \in Seq(Token)
  /\ line \in Nat
  /\ errors \in Nat

Init ==
  /\ text \in Texts
  /\ at = 0
  /\ mode = "parse"
  /\ start = 0
  /\ fraction = FALSE
  /\ tokens = <<>>
  /\ line = 0
  /\ errors = 0

-----------------------------------------------------------------------------
\* iterator + i != endIterator, and the character there is one of cs.
More(i)      == at + i < Len(text)
Ahead(i, cs) == More(i) /\ text[at + i + 1] \in cs

Skip(n) == /\ at' = at + n
           /\ UNCHANGED <<mode, start, fraction, tokens, line, errors>>

Break(n) == /\ at' = at + n
            /\ line' = line + 1
            /\ UNCHANGED <<mode, start, fraction, tokens, errors>>

\* Go to the loop of a parse function.
Enter(m, from, n) ==
  /\ mode' = m
  /\ start' = from
  /\ at' = at + n
  /\ fraction' = FALSE
  /\ UNCHANGED <<tokens, line, errors>>

\* Back to the main loop.
Leave(n) ==
  /\ at' = at + n
  /\ mode' = "parse"
  /\ UNCHANGED <<start, fraction, line>>

Emit(kind, first, last) ==
  tokens' = Append(tokens, [kind |-> kind, first |-> first, last |-> last,
                            line |-> line])

\* The token of the characters from first to where the iterator is after n more.
Push(kind, first, n) ==
  /\ Emit(kind, first, at + n)
  /\ Leave(n)
  /\ UNCHANGED errors

Report(n) ==
  /\ errors' = errors + 1
  /\ Leave(n)
  /\ UNCHANGED tokens

-----------------------------------------------------------------------------
Blanks == Ahead(0, Blank) /\ Skip(1)

LineBreakTwice == Ahead(0, {"nl", "cr"}) /\ Break(1)             \* mutant

\* "\r\n" is one line break.
LineBreak == \/ Ahead(0, {"nl"}) /\ Break(1)
             \/ Ahead(0, {"cr"}) /\ Break(IF Ahead(1, {"nl"}) THEN 2 ELSE 1)

BeginWord == \/ Ahead(0, Letter) /\ Enter("identifier", at, 1)
             \/ Ahead(0, Digit \ {"0"}) /\ Enter("number", at, 1)
             \/ Ahead(0, {"quote"}) /\ Enter("string", at + 1, 1)

Zero ==
  /\ Ahead(0, {"0"})
  /\ IF Ahead(1, Octal) THEN Enter("octal", at + 1, 1)
     ELSE IF Ahead(1, Digit) THEN Report(1)
     ELSE Push("decimalLiteral", at + 1, 1)

SlashKeepsStar ==                                               \* mutant
  /\ Ahead(0, {"/"})
  /\ IF Ahead(1, {"/"}) THEN Enter("cppComment", at, 1)
     ELSE IF Ahead(1, {"*"}) THEN Enter("cComment", at, 1)
     ELSE Push("operators", at + 1, 1)

Slash ==
  /\ Ahead(0, {"/"})
  /\ IF Ahead(1, {"/"}) THEN Enter("cppComment", at, 1)
     ELSE IF Ahead(1, {"*"}) THEN Enter("cComment", at, 2)
     ELSE Push("operators", at + 1, 1)

\* pushOperator for the pairs, parseOperator for single characters.
Operators ==
  /\ Ahead(0, Operator \union {"*"})
  /\ Push("operators", at + 1,
          IF More(1) /\ <<text[at + 1], text[at + 2]>> \in Pairs THEN 2 ELSE 1)

Punctuations == Ahead(0, Punctuation) /\ Push("punctuation", at + 1, 1)

Parse ==
  /\ mode = "parse"
  /\ \/ Blanks \/ LineBreak \/ BeginWord \/ Zero \/ Slash
     \/ Operators \/ Punctuations
     \/ /\ ~ More(0)
        /\ mode' = "done"
        /\ UNCHANGED <<at, start, fraction, tokens, line, errors>>

-----------------------------------------------------------------------------
ParseIdentifier ==
  /\ mode = "identifier"
  /\ IF Ahead(0, Letter \union Digit) THEN Skip(1)
                                      ELSE Push("identifier", start + 1, 0)

ParseOctal ==
  /\ mode = "octal"
  /\ IF Ahead(0, Octal) THEN Skip(1)
     ELSE /\ Emit("decimalLiteral", start + 1, at)
          /\ Leave(0)
          /\ errors' = IF Ahead(0, Digit) THEN errors + 1 ELSE errors

ParseNumber ==
  /\ mode = "number"
  /\ IF Ahead(0, Digit) THEN Skip(1)
     ELSE IF Ahead(0, {"."}) THEN Enter("fraction", start, 1)
     ELSE Push("decimalLiteral", start + 1, 0)

\* The `break` in the default case leaves the switch only: on any other character
\* the loop steps forth and back for ever.
ParseFraction ==
  /\ mode = "fraction"
  /\ IF Ahead(0, Digit)
     THEN /\ fraction' = TRUE
          /\ at' = at + 1
          /\ UNCHANGED <<mode, start, tokens, line, errors>>
     ELSE IF More(0) THEN Skip(0)
     ELSE Push("decimalLiteral", start + 1, IF fraction THEN 0 ELSE -1)

ParseStringPastEnd ==                                           \* mutant
  /\ mode = "string"
  /\ IF Ahead(0, {"escape"}) THEN Skip(2)
     ELSE IF Ahead(0, {"quote"})
     THEN /\ Emit("stringLiteral", start + 1, at)
          /\ Leave(1)
          /\ UNCHANGED errors
     ELSE IF More(0) THEN Skip(1) ELSE Report(0)

ParseString ==
  /\ mode = "string"
  /\ IF Ahead(0, {"escape"})
     THEN IF More(1) THEN Skip(2) ELSE Report(1)
     ELSE IF Ahead(0, {"quote"})
     THEN /\ Emit("stringLiteral", start + 1, at)
          /\ Leave(1)
          /\ UNCHANGED errors
     ELSE IF More(0) THEN Skip(1) ELSE Report(0)

\* A line break after the comment is the main loop's.
ParseCppComment ==
  /\ mode = "cppComment"
  /\ IF More(0) /\ ~ Ahead(0, {"nl"}) THEN Skip(1)
     ELSE Leave(0) /\ UNCHANGED <<tokens, errors>>

ParseCCommentStuck ==                                           \* mutant
  /\ mode = "cComment"
  /\ IF ~ More(1) THEN Report(0)
     ELSE IF Ahead(0, {"*"}) /\ Ahead(1, {"/"})
     THEN Leave(2) /\ UNCHANGED <<tokens, errors>>
     ELSE ~ Ahead(0, {"*"}) /\ Skip(1)

\* The last character of the file is left for the main loop.
ParseCComment ==
  /\ mode = "cComment"
  /\ IF ~ More(1) THEN Report(0)
     ELSE IF Ahead(0, {"*"}) /\ Ahead(1, {"/"})
     THEN Leave(2) /\ UNCHANGED <<tokens, errors>>
     ELSE Skip(1)

Next ==
  /\ UNCHANGED text
  /\ \/ Parse
     \/ ParseIdentifier \/ ParseOctal \/ ParseNumber \/ ParseFraction
     \/ ParseString \/ ParseCppComment \/ ParseCComment

\* One thread runs the loops.
Spec == Init /\ [][Next]_vars /\ WF_vars(Next)
=============================================================================
