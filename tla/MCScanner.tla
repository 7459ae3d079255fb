----------------------------- MODULE MCScanner ------------------------------
(***************************************************************************)
(* All texts of three characters, and longer ones over the characters of   *)
(* numbers, of strings and of comments.                                    *)
(***************************************************************************)
EXTENDS ScannerProps

TextsOver(cs, n) == UNION {[1..k -> cs] : k \in 0..n}

\* A decimal literal with a fraction that is not the end of the file: digits of a
\* literal, a point, any digits, another character.
Fractional(t) ==
  \E i, j \in DOMAIN t :
    /\ i + 1 < j
    /\ t[i] \in Digit
    /\ t[i + 1] = "."
    /\ \A k \in (i + 2)..(j - 1) : t[k] \in Digit
    /\ t[j] \notin Digit

NumberTexts  == TextsOver({"0", "1", "8", ".", "a"}, 5)
StringTexts  == TextsOver({"quote", "escape", "a", "nl"}, 5)
CommentTexts == TextsOver({"/", "*", "nl", "cr", "a"}, 5)

PlainTexts ==
  {t \in TextsOver(Char, 3) \union NumberTexts \union StringTexts \union CommentTexts :
     ~ Fractional(t)}

FractionTexts == TextsOver({"1", ".", "a"}, 3)
=============================================================================
