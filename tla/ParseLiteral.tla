---------------------------- MODULE ParseLiteral ----------------------------
(***************************************************************************)
(* The characters that the front end tells apart, and parseString of       *)
(* parse_literal.zig, which turns the raw text of a string token into its  *)
(* value.  A character is a member of a small alphabet in which every      *)
(* class of the switches in lex.zig and parse_literal.zig has a member.    *)
(***************************************************************************)
EXTENDS Integers, Sequences, SequencesExt

LF == "\n"
CR == "\r"
NUL == "NUL"
LineEnds == {LF, CR}
Blanks   == {" "}
Digits   == {"0", "1", "2", "9"}
HexAlpha == {"a", "e"}
Letters  == HexAlpha \cup {"x", "z"}
NameChars == Letters \cup Digits \cup {"_"}
Quotes   == {"\"", "'"}
Compound == {">", "<", "~", "="}
Chars == LineEnds \cup Blanks \cup NameChars \cup Quotes \cup Compound
           \cup {NUL, "-", "+", ".", "[", "]", "\\", ";"}

DigitValue == [c \in Digits |-> CASE c = "0" -> 0 [] c = "1" -> 1
                                  [] c = "2" -> 2 [] c = "9" -> 9]

(* The number of `=' between the brackets that open a long string. *)
Separators(raw) ==
  CHOOSE n \in 0 .. Len(raw) :
    raw[n + 2] # "=" /\ \A i \in 1 .. n : raw[i + 1] = "="

DelimLen(raw) == IF raw[1] = "[" THEN 2 + Separators(raw) ELSE 1

(* What is between the delimiters, without the line ending that directly   *)
(* follows the opening bracket of a long string.                           *)
Body(raw) ==
  LET d    == DelimLen(raw)
      skip == IF raw[1] = "[" /\ raw[d + 1] \in LineEnds THEN 1 ELSE 0
  IN  SubSeq(raw, d + 1 + skip, Len(raw) - d)

(* The loop of parseString: where it is, the digits of an escape, what it  *)
(* has written, and whether a byte has overflowed.                         *)
ParseStart == [at |-> "normal", n |-> 0, i |-> 0, written |-> <<>>, ok |-> TRUE]

Write(s, c) == [s EXCEPT !.at = "normal", !.written = Append(@, c)]

Normal(s, c) ==
  IF c = "\\" THEN [s EXCEPT !.at = "escaped"]
  ELSE Write(s, IF c = CR THEN LF ELSE c)

Escaped(s, c) ==
  IF c \in Digits
    THEN [s EXCEPT !.at = "escaped_numerals", !.n = DigitValue[c], !.i = 1]
  ELSE IF c \in LineEnds
    THEN [Write(s, LF) EXCEPT !.at = "escaped_line_endings"]
  ELSE Write(s, IF c = "a" THEN "BEL" ELSE c)

(* string_escape_n is a u8. *)
EscapedNumerals(s, c) ==
  LET n == 10 * s.n + DigitValue[c]
      t == [s EXCEPT !.n = n, !.i = @ + 1, !.ok = @ /\ n <= 255]
  IN  IF c \notin Digits THEN Normal(Write(s, s.n), c)
      ELSE IF t.i = 3 THEN Write(t, n) ELSE t

EscapedPairTwice(s, c) == Normal(s, c)
EscapedLineEndings(s, c) ==
  IF c \in LineEnds THEN [s EXCEPT !.at = "normal"] ELSE Normal(s, c)

ParseStep(s, c) ==
  CASE s.at = "normal"               -> Normal(s, c)
    [] s.at = "escaped"              -> Escaped(s, c)
    [] s.at = "escaped_numerals"     -> EscapedNumerals(s, c)
    [] s.at = "escaped_line_endings" -> EscapedLineEndings(s, c)

(* A string that ends right after a backslash is unreachable code. *)
ParseString(raw) ==
  LET s == FoldLeft(ParseStep, ParseStart, Body(raw))
  IN  CASE s.at = "escaped"          -> [s EXCEPT !.ok = FALSE]
        [] s.at = "escaped_numerals" -> Write(s, s.n)
        [] OTHER                     -> s
=============================================================================
