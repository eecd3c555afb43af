------------------------------- MODULE Lexers -------------------------------
(***************************************************************************)
(* lex.zig beside llex.c: the corpora of test/fuzzed_lex.zig and           *)
(* test/fuzzed_strings.zig hold what llex.c makes of thousands of texts,   *)
(* and the tests demand the same of lex.zig and parse_literal.zig.         *)
(***************************************************************************)
EXTENDS Lexer

R == INSTANCE LLex WITH Reserved <- Keywords, MAX_INT <- MaxLines

(* All that llex returns, one call after the other: tokens, then <eof> or  *)
(* an error.                                                               *)
RECURSIVE ReferenceFrom(_)
ReferenceFrom(ls) ==
  LET t == R!llex(ls)
  IN  IF t.st # "ok" THEN <<t>> ELSE IF t.token = "eof" THEN <<t>> ELSE <<t>> \o ReferenceFrom(t)
Reference == ReferenceFrom(R!luaX_setinput(buffer))

(* What lex.zig is compared with once it is done.                          *)
Expected == IF Done THEN {Reference} ELSE {}

(* Two differences are known.  lex.zig accepts the nesting of [[ (a TODO   *)
(* at lex.zig:276, which the fuzz tests step over), and numerals that      *)
(* luaO_str2d rejects: after 0x it asks for no digit unless the text ends  *)
(* there, and it takes any numeral that begins with 0 for the 0 of 0x.     *)
(* The k-th result departs when it is the first of either kind.            *)
Odd(k) == tokens[k].id = "number" /\ ~R!luaO_str2d(Text(tokens[k].start, tokens[k].end))
Departs(k, ref) == \/ k <= Len(tokens) /\ Odd(k)
                   \/ k <= Len(ref) /\ ref[k].st = "nesting"
Departures(ref) == {k \in 1 .. Len(tokens) + 1 : Departs(k, ref)}

(* The tokens before the first departure. *)
Compared(ref) ==
  LET off == Departures(ref) IN IF off = {} THEN Len(tokens) ELSE Min(off) - 1

(* How the comparison ends: at a departure llex.c reports its error and    *)
(* lex.zig goes on; otherwise both report the same error on the same line, *)
(* or none.                                                                *)
EndsAlike(ref) ==
  IF Departures(ref) # {}
    THEN Len(ref) = Compared(ref) + 1 /\ Last(ref).st \in {"nesting", "MalformedNumber"}
    ELSE IF error = NoError THEN Len(ref) = Len(tokens)
    ELSE Len(ref) = Len(tokens) + 1 /\ Last(ref).st = error /\ Last(ref).line = line_number

(* lex.zig finds the same tokens as llex.c in every text, with the same    *)
(* ends and line numbers, and stops at the same error on the same line,    *)
(* the NULs that check_next takes for any character included; but for two  *)
(* kinds of token, and not before them: where llex.c calls a numeral       *)
(* malformed or [[ nested, lex.zig may accept it.  lex.zig also stops at a *)
(* limit of its own, on the length of a token.                             *)
SameTokens ==
  \A ref \in Expected :
    /\ Compared(ref) <= Len(ref)
    /\ \A i \in 1 .. Compared(ref) : /\ tokens[i].id = ref[i].token
                                    /\ tokens[i].end = ref[i].pos
                                    /\ tokens[i].line = ref[i].line
    /\ error # "LexicalElementTooLong" => EndsAlike(ref)

(* parseString gives a quoted string that the lexer has accepted the value *)
(* that read_string does, and fails on none: no \ddd overflows its byte,   *)
(* no escape is cut off, and every escaped line ending is one \n.  It is   *)
(* about the strings before the first departure.                           *)
SameStrings ==
  \A ref \in Expected : \A i \in Strings \cap (1 .. Compared(ref)) :
    LET parsed == ParseString(Raw(i))
    IN  Raw(i)[1] \in Quotes => parsed.ok /\ parsed.written = ref[i].seminfo

(* The claim of lex.zig:15-17, "it maintains 1:1 compatibility with when   *)
(* Lua's lexer errors by validating strings/numbers at lex-time in the     *)
(* same way that Lua's lexer parses them": a text is in error here exactly *)
(* when it is in error there.  The code breaks it.                         *)
SameErrors == \A ref \in Expected : error = NoError <=> Last(ref).st = "ok"
=============================================================================
