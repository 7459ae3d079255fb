------------------------------ MODULE MCParser ------------------------------
(***************************************************************************)
(* Texts by the part of the grammar they are about.                        *)
(***************************************************************************)
EXTENDS ParserProps

Texts(begin, tokens, length) == [begin |-> begin, tokens |-> tokens, length |-> length]

Expressions ==
  {Texts(<<>>, {"id", "op", "=", "?", "(", ")", ",", ":"}, 5),
   Texts(<<"id", "(">>, {"id", ":", ",", ")", "("}, 9),
   Texts(<<"[">>, {"id", "[", "]", ",", ":"}, 6),
   Texts(<<"[", "id", ":", "id", ",">>, {"id", ":", ",", "]"}, 10),
   Texts(<<>>, {"id", "literal", "self", ".", "!", "op"}, 4)}

Statements ==
  {Texts(<<>>, {"id", "if", "else", "{", "}", "return", "while"}, 5),
   Texts(<<"if", "id", "{", "}", "else">>, {"id", "if", "{", "}", "else"}, 9),
   Texts(<<"while", "id", "{">>, {"id", "if", "return", "}", "init"}, 7),
   Texts(<<"for", "id">>, {"id", ":", "in", "{", "}"}, 7)}

Declarations ==
  {Texts(<<>>, {"id", "func", "init", "class", "(", ")", "{", "}"}, 4),
   Texts(<<"class", "id", "{">>, {"init", "(", ")", "{", "}", "var", "id", "import", "string"}, 8),
   Texts(<<"func", "id", "(">>, {"id", ":", ",", ")", "{", "}"}, 9),
   Texts(<<"let", "id">>, {"id", ":", "[", "]", "?", "="}, 7),
   Texts(<<>>, {"let", "var", "for", "id", "="}, 4),
   Texts(<<>>, {"import", "string", "literal", "id", "init"}, 4)}

PassTexts == Expressions \union Statements \union Declarations

\* Ifs that are not complete.
IfTexts == {Texts(<<>>, {"id", "if", "return"}, 3)}
=============================================================================
