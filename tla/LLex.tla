-------------------------------- MODULE LLex --------------------------------
(***************************************************************************)
(* llex.c, the lexer of the reference Lua 5.1, which lex.zig ports and is  *)
(* tested against.  It is written as operators on its LexState `ls':       *)
(*    z, pos   the input, and how much of it is before `current'           *)
(*    line     linenumber                                                  *)
(*    buff     the text saved of the token being read                      *)
(*    token    what llex returns, and seminfo the value of a string        *)
(*    st       the error that luaX_lexerror has thrown, or "ok"            *)
(*                                                                         *)
(* A numeral's value is its text: luaO_str2d only says whether it has one. *)
(* Left out: locales (trydecpoint), which the C locale never needs, and    *)
(* the limit of MAX_SIZET / 2 on a token.                                  *)
(***************************************************************************)
EXTENDS ParseLiteral, FiniteSets

CONSTANTS
  Reserved,            (* luaX_tokens: the reserved words                  *)
  MAX_INT              (* llimits.h: the limit on linenumber               *)

EOZ == "EOZ"
current(ls) == IF ls.pos < Len(ls.z) THEN ls.z[ls.pos + 1] ELSE EOZ
currIsNewline(ls) == current(ls) \in LineEnds

luaX_setinput(z) ==
  [z |-> z, pos |-> 0, line |-> 1, buff |-> <<>>, token |-> "", seminfo |-> <<>>, st |-> "ok"]
next(ls) == [ls EXCEPT !.pos = @ + 1]
save(ls, c) == [ls EXCEPT !.buff = Append(@, c)]
save_and_next(ls) == next(save(ls, current(ls)))
resetbuffer(ls) == [ls EXCEPT !.buff = <<>>]
luaX_lexerror(ls, why) == [ls EXCEPT !.st = why]
Token(ls, id) == [ls EXCEPT !.token = id]

inclinenumber(ls0) ==
  LET one == next(ls0)
      two == IF currIsNewline(one) /\ current(one) # current(ls0) THEN next(one) ELSE one
      ls == [two EXCEPT !.line = @ + 1]
  IN  IF ls.line >= MAX_INT THEN luaX_lexerror(ls, "ChunkHasTooManyLines") ELSE ls

(* strchr also finds the NUL that ends the set. *)
found(ls, set) == current(ls) \in set \cup {NUL}
check_next(ls, set) == IF found(ls, set) THEN save_and_next(ls) ELSE ls

RECURSIVE SaveWhile(_, _)
SaveWhile(ls, set) == IF current(ls) \in set THEN SaveWhile(save_and_next(ls), set) ELSE ls

-----------------------------------------------------------------------------
(* Numerals.                                                               *)

(* strtod and, for hexadecimals, strtoul read up to the first NUL. *)
CString(s) ==
  LET nuls == {i \in DOMAIN s : s[i] = NUL}
  IN  IF nuls = {} THEN s ELSE SubSeq(s, 1, (CHOOSE i \in nuls : \A j \in nuls : i <= j) - 1)
IsMantissa(s) ==
  /\ \E i \in DOMAIN s : s[i] \in Digits
  /\ \A i \in DOMAIN s : s[i] \in Digits \cup {"."}
  /\ Cardinality({i \in DOMAIN s : s[i] = "."}) <= 1
IsExponent(s) ==
  \E sign \in {0, 1} :
    /\ Len(s) > sign /\ (sign = 1 => s[1] \in {"+", "-"})
    /\ \A i \in sign + 1 .. Len(s) : s[i] \in Digits
IsHexadecimal(s) ==
  /\ Len(s) > 2 /\ s[1] = "0" /\ s[2] = "x"
  /\ \A i \in 3 .. Len(s) : s[i] \in Digits \cup HexAlpha
luaO_str2d(text) ==
  LET s == CString(text)
  IN  \/ IsMantissa(s) \/ IsHexadecimal(s)
      \/ \E e \in DOMAIN s : /\ s[e] = "e" /\ IsMantissa(SubSeq(s, 1, e - 1))
                             /\ IsExponent(SubSeq(s, e + 1, Len(s)))

read_numeral(ls0) ==
  LET mantissa == SaveWhile(ls0, Digits \cup {"."})
      exponent == IF found(mantissa, {"e"})
                    THEN check_next(save_and_next(mantissa), {"+", "-"}) ELSE mantissa
      ls == SaveWhile(exponent, NameChars)
  IN  IF luaO_str2d(ls.buff) THEN Token(ls, "number") ELSE luaX_lexerror(ls, "MalformedNumber")

-----------------------------------------------------------------------------
(* Strings.                                                                *)

(* The number of `=' of a bracket, or less than 0 if it is none. *)
skip_sep(ls) == SaveWhile(save_and_next(ls), {"="})
sep(ls0) ==
  LET ls == skip_sep(ls0)
      count == ls.pos - ls0.pos - 1
  IN  IF current(ls) = current(ls0) THEN count ELSE -count - 1

(* The loop of read_long_string; LUA_COMPAT_LSTR is 1. *)
RECURSIVE LongRest(_, _, _)
LongRest(ls, n, isstring) ==
  LET c == current(ls)
  IN  IF ls.st # "ok" THEN ls
      ELSE CASE c = EOZ -> luaX_lexerror(ls, IF isstring THEN "UnfinishedLongString" ELSE "UnfinishedLongComment")
        [] c = "[" -> IF sep(ls) # n THEN LongRest(skip_sep(ls), n, isstring)
                      ELSE IF n = 0 THEN luaX_lexerror(ls, "nesting")
                      ELSE LongRest(save_and_next(skip_sep(ls)), n, isstring)
        [] c = "]" -> IF sep(ls) = n THEN save_and_next(skip_sep(ls))
                      ELSE LongRest(skip_sep(ls), n, isstring)
        [] c \in LineEnds -> LET line == inclinenumber(save(ls, LF))
                             IN  LongRest(IF isstring THEN line ELSE resetbuffer(line), n, isstring)
        [] OTHER -> LongRest(IF isstring THEN save_and_next(ls) ELSE next(ls), n, isstring)

read_long_string(ls0, n, isstring) ==
  LET open == save_and_next(ls0)
      ls == LongRest(IF currIsNewline(open) THEN inclinenumber(open) ELSE open, n, isstring)
  IN  IF ~isstring \/ ls.st # "ok" THEN ls
      ELSE [ls EXCEPT !.seminfo = SubSeq(ls.buff, 3 + n, Len(ls.buff) - (2 + n))]

(* \ddd: up to three digits. *)
RECURSIVE Ddd(_, _, _)
Ddd(ls, i, c) ==
  IF i < 3 /\ current(ls) \in Digits THEN Ddd(next(ls), i + 1, 10 * c + DigitValue[current(ls)])
  ELSE IF c > 255 THEN luaX_lexerror(ls, "EscapeSequenceTooLarge") ELSE save(ls, c)

RECURSIVE StringRest(_, _)
StringRest(ls, del) ==
  LET c == current(ls)
      esc == next(ls)
      e == current(esc)
  IN  IF ls.st # "ok" THEN ls
      ELSE CASE c = del -> save_and_next(ls)
        [] c \in LineEnds \cup {EOZ} -> luaX_lexerror(ls, "UnfinishedString")
        [] c = "\\" ->
             StringRest(CASE e = "a" -> next(save(esc, "BEL"))
                          [] e \in LineEnds -> inclinenumber(save(esc, LF))
                          [] e = EOZ -> esc
                          [] e \in Digits -> Ddd(esc, 0, 0)
                          [] OTHER -> save_and_next(esc), del)
        [] OTHER -> StringRest(save_and_next(ls), del)

read_string(ls0, del) ==
  LET ls == StringRest(save_and_next(ls0), del)
  IN  IF ls.st # "ok" THEN ls ELSE [ls EXCEPT !.seminfo = SubSeq(ls.buff, 2, Len(ls.buff) - 1)]

-----------------------------------------------------------------------------
(* llex: the next token.                                                   *)

RECURSIVE SkipLine(_)
SkipLine(ls) == IF currIsNewline(ls) \/ current(ls) = EOZ THEN ls ELSE SkipLine(next(ls))
Compare(ls) == IF current(ls) = "=" THEN Token(next(ls), "compare") ELSE Token(ls, "single_char")
Dots(ls) ==
  IF found(ls, {"."})
    THEN IF found(save_and_next(ls), {"."}) THEN Token(next(next(ls)), "ellipsis") ELSE Token(next(ls), "concat")
    ELSE IF current(ls) \in Digits THEN read_numeral(ls) ELSE Token(ls, "single_char")
Bracket(ls) ==
  IF sep(ls) >= 0 THEN Token(read_long_string(skip_sep(ls), sep(ls), TRUE), "string")
  ELSE IF sep(ls) = -1 THEN Token(skip_sep(ls), "single_char")
  ELSE luaX_lexerror(skip_sep(ls), "InvalidLongStringDelimiter")
(* After `--'. *)
Comment(ls) ==
  IF current(ls) # "[" THEN SkipLine(ls)
  ELSE IF sep(ls) >= 0 THEN resetbuffer(read_long_string(resetbuffer(skip_sep(ls)), sep(ls), FALSE))
  ELSE SkipLine(resetbuffer(skip_sep(ls)))
Word(ls0) ==
  LET ls == SaveWhile(ls0, NameChars)
  IN  Token(ls, IF ls.buff \in Reserved THEN "keyword" ELSE "name")

RECURSIVE Lex(_)
Lex(ls) ==
  LET c == current(ls)
  IN  IF ls.st # "ok" THEN ls
      ELSE CASE c \in LineEnds -> Lex(inclinenumber(ls))
        [] c \in Blanks -> Lex(next(ls))
        [] c = "-" -> IF current(next(ls)) = "-" THEN Lex(Comment(next(next(ls)))) ELSE Token(next(ls), "single_char")
        [] c = "[" -> Bracket(ls)
        [] c \in Compound -> Compare(next(ls))
        [] c \in Quotes -> Token(read_string(ls, c), "string")
        [] c = "." -> Dots(save_and_next(ls))
        [] c = EOZ -> Token(ls, "eof")
        [] c \in Digits -> read_numeral(ls)
        [] c \in Letters \cup {"_"} -> Word(ls)
        [] OTHER -> Token(next(ls), "single_char")
llex(ls) == Lex([resetbuffer(ls) EXCEPT !.seminfo = <<>>])
=============================================================================
