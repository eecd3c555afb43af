------------------------------ MODULE MCLexer -------------------------------
(* Buffers for Lexer: all texts of bounded length over a few alphabets,    *)
(* each rich in one of the lexer's hard cases.                             *)
EXTENDS Lexers

Texts(prefix, alphabet, n) ==
  {prefix \o t : t \in UNION {[1 .. m -> alphabet] : m \in 0 .. n}}

Quoted   == Texts(<<"\"">>, {"\"", "'", "\\", "a", LF}, 4)
Escapes  == Texts(<<"\"">>, {"\"", "\\", LF, CR, "2", "9"}, 5)
Brackets == Texts(<<"[">>, {"[", "]", "=", LF, CR, "\\"}, 5)
Comments == Texts(<<"-", "-", "[">>, {"[", "]", "=", LF, "a"}, 5)
Numerals == Texts(<<>>, {"0", "1", "x", "e", "a", "z", "_", ".", "-", NUL, " "}, 4)
Blank    == Texts(<<>>, {LF, CR, " ", "-", "a", "e"}, 5)
Symbols  == Texts(<<>>, {"=", "<", ".", "[", "0", "-", ";"}, 4)

MCInputs == Quoted \cup Escapes \cup Brackets \cup Comments \cup Numerals
              \cup Blank \cup Symbols

MCKeywords == {<<"a", "e">>}
=============================================================================
