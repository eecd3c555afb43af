------------------------------- MODULE Lexer --------------------------------
(***************************************************************************)
(* The lexer of lex.zig: Lexer.next is a state machine that reads the      *)
(* buffer one character at a time, with two places where it reads a        *)
(* character again.  An action here is one turn of its loop; a parser that *)
(* wants all tokens calls next again as soon as it has returned one, until *)
(* it gets eof or an error.                                                *)
(*                                                                         *)
(* `index' counts from 0, as in the code; Chars stands for the bytes.      *)
(*                                                                         *)
(* As in GC, a definition placed before another with the same parameters   *)
(* and named for what it gets wrong is a deliberately faulty variant.      *)
(***************************************************************************)
EXTENDS ParseLiteral

CONSTANTS
  Inputs,              (* the buffers to read                              *)
  Keywords,            (* the names that are keywords                      *)
  CheckNextBug,        (* check_next_bug_compat                            *)
  MaxLines,            (* max_lines                                        *)
  MaxElement           (* max_lexical_element_size                         *)

ASSUME InputAssumption == /\ Inputs \subseteq Seq(Chars)
                          /\ Keywords \subseteq Seq(Chars)
ASSUME FlagAssumption == CheckNextBug \in BOOLEAN
ASSUME LimitAssumption == MaxLines \in Nat \ {0, 1} /\ MaxElement \in Nat \ {0}

VARIABLES
  buffer, index, line_number,  (* the Lexer                                *)
  scan,                        (* the locals of next                       *)
  tokens,                      (* what next has returned so far            *)
  error                        (* error_context, or NoError                *)

vars == <<buffer, index, line_number, scan, tokens, error>>

None == -1   (* a last_line_ending_index that is null *)

(* A call of next begins at i. *)
NewScan(i) ==
  [state |-> "start", start |-> i, delim |-> NUL, level |-> 0, expected |-> 0,
   escape_n |-> 0, escape_i |-> 0, escape_ending |-> NUL, last_ending |-> None,
   is_float |-> FALSE, first |-> NUL, signed |-> FALSE, null_term |-> FALSE]

NoError == "none"

Init ==
  /\ buffer \in Inputs
  /\ index = 0 /\ line_number = 1
  /\ scan = NewScan(0)
  /\ tokens = <<>> /\ error = NoError

-----------------------------------------------------------------------------
(* What a turn of the loop may do.                                         *)

C == buffer[index + 1]
Text(from, to) == SubSeq(buffer, from + 1, to)

Done == error # NoError \/ (tokens # <<>> /\ tokens[Len(tokens)].id = "eof")

(* The loop goes round in state q, and the token is not too long yet. *)
In(q) == /\ ~Done /\ index < Len(buffer)
         /\ index - scan.start < MaxElement
         /\ scan.state \in q

(* Go on with the next character, or with this one again. *)
Advance(s) ==
  scan' = s /\ index' = index + 1 /\ UNCHANGED <<buffer, line_number, tokens, error>>
Again(s) ==
  scan' = s /\ UNCHANGED <<buffer, index, line_number, tokens, error>>

To(q) == [scan EXCEPT !.state = q]

(* Return a token that starts and ends at the given places. *)
EmitFrom(id, start, end) ==
  /\ tokens' = Append(tokens, [id |-> id, start |-> start, end |-> end,
                               line |-> line_number])
  /\ index' = end /\ scan' = NewScan(end)
  /\ UNCHANGED <<buffer, line_number, error>>
Emit(id, end) == EmitFrom(id, scan.start, end)

(* reportLexError, reportLexErrorInc. *)
FailAt(err, i) ==
  /\ error' = err /\ index' = i
  /\ UNCHANGED <<buffer, line_number, scan, tokens>>
Fail(err) == FailAt(err, index)
FailInc(err) == FailAt(err, index + 1)

(* currentIndexFormsLineEndingPair. *)
FormsPair ==
  /\ scan.last_ending # None
  /\ scan.last_ending = index - 1
  /\ buffer[scan.last_ending + 1] # C

(* incrementLineNumber, and on with the locals s. *)
EndLine(s) ==
  LET line == IF FormsPair THEN line_number ELSE line_number + 1
  IN  /\ line_number' = line
      /\ IF line >= MaxLines
           THEN error' = "ChunkHasTooManyLines" /\ UNCHANGED <<index, scan>>
           ELSE /\ index' = index + 1
                /\ scan' = [s EXCEPT !.last_ending = IF FormsPair THEN None ELSE index]
                /\ UNCHANGED error
      /\ UNCHANGED <<buffer, tokens>>

TooLong ==
  /\ ~Done /\ index < Len(buffer)
  /\ index - scan.start >= MaxElement
  /\ Fail("LexicalElementTooLong")

-----------------------------------------------------------------------------
(* One action for each state of next.                                      *)

(* Skip the character: the token starts after it. *)
Skipped(q) == [scan EXCEPT !.state = q, !.start = index + 1]

Start ==
  /\ In({"start"})
  /\ \/ C \in LineEnds /\ EndLine(Skipped("start"))
     \/ C \in Blanks /\ Advance(Skipped("start"))
     \/ C = "-" /\ Advance(To("dash"))
     \/ C \in Letters \cup {"_"} /\ Advance(To("identifier"))
     \/ C \in Digits /\ Advance([To("number") EXCEPT !.first = C])
     \/ C \in Quotes /\ Advance([To("string_literal") EXCEPT !.delim = C])
     \/ C = "." /\ Advance(To("dot"))
     \/ C \in Compound /\ Advance(To("compound_equal"))
     \/ C = "[" /\ Advance([To("long_string_start") EXCEPT !.expected = 0])
     \/ /\ C \notin LineEnds \cup Blanks \cup NameChars \cup Quotes \cup Compound
                      \cup {"-", ".", "["}
        /\ Emit("single_char", index + 1)

NameId == IF Text(scan.start, index) \in Keywords THEN "keyword" ELSE "name"

Identifier ==
  /\ In({"identifier"})
  /\ IF C \in NameChars THEN Advance(scan) ELSE Emit(NameId, index)

StringLiteral ==
  /\ In({"string_literal"})
  /\ \/ C = "\\" /\ Advance([To("string_literal_backslash") EXCEPT
                               !.escape_i = 0, !.escape_n = 0])
     \/ C = scan.delim /\ Emit("string", index + 1)
     \/ C \in LineEnds /\ Fail("UnfinishedString")
     \/ C \notin LineEnds \cup {"\\", scan.delim} /\ Advance(scan)

(* After a backslash: up to three digits, a line ending, or one character. *)
EscapeDigit ==
  LET n == 10 * scan.escape_n + DigitValue[C]
      s == [scan EXCEPT !.escape_n = n, !.escape_i = @ + 1]
  IN  IF s.escape_i < 3 THEN Advance(s)
      ELSE IF n > 255 THEN FailInc("EscapeSequenceTooLarge")
      ELSE Advance([s EXCEPT !.state = "string_literal"])

StringBackslash ==
  /\ In({"string_literal_backslash"})
  /\ \/ C \in Digits /\ EscapeDigit
     \/ C \in LineEnds /\ scan.escape_i > 0 /\ Fail("UnfinishedString")
     \/ /\ C \in LineEnds /\ scan.escape_i = 0
        /\ EndLine([To("string_literal_backslash_line_endings") EXCEPT
                      !.escape_ending = C])
     \/ /\ C \notin Digits \cup LineEnds
        /\ IF scan.escape_i > 0 THEN Again(To("string_literal"))
           ELSE Advance(To("string_literal"))

StaysInEscape ==
  /\ In({"string_literal_backslash_line_endings"})
  /\ \/ C \in LineEnds /\ C = scan.escape_ending /\ Fail("UnfinishedString")
     \/ C \in LineEnds /\ C # scan.escape_ending /\ EndLine(To("string_literal"))
     \/ C \notin LineEnds /\ Again(scan)

StringBackslashLineEndings ==
  /\ In({"string_literal_backslash_line_endings"})
  /\ \/ C \in LineEnds /\ C = scan.escape_ending /\ Fail("UnfinishedString")
     \/ C \in LineEnds /\ C # scan.escape_ending /\ EndLine(To("string_literal"))
     \/ C \notin LineEnds /\ Again(To("string_literal"))

Dash ==
  /\ In({"dash"})
  /\ IF C = "-" THEN Advance(To("comment_start")) ELSE Emit("single_char", index)

CommentStart ==
  /\ In({"comment_start"})
  /\ \/ C = "[" /\ Advance([To("long_comment_start") EXCEPT !.expected = 0])
     \/ C \in LineEnds /\ EndLine(Skipped("start"))
     \/ C \notin LineEnds \cup {"["} /\ Advance(To("short_comment"))

(* Between the two brackets that open a long string or comment. *)
LongStart ==
  /\ In({"long_string_start", "long_comment_start"})
  /\ LET comment == scan.state = "long_comment_start"
     IN  \/ C = "=" /\ Advance([scan EXCEPT !.expected = @ + 1])
         \/ C = "[" /\ Advance(To(IF comment THEN "long_comment" ELSE "long_string"))
         \/ comment /\ C \in LineEnds /\ EndLine(Skipped("start"))
         \/ /\ comment /\ C \notin LineEnds \cup {"=", "["}
            /\ Advance(To("short_comment"))
         \/ /\ ~comment /\ C \notin {"=", "["}
            /\ IF scan.expected > 0 THEN Fail("InvalidLongStringDelimiter")
               ELSE Emit("single_char", index)

LongText ==
  /\ In({"long_string", "long_comment"})
  /\ \/ C = "]" /\ Advance([To(IF scan.state = "long_comment"
                                 THEN "long_comment_possible_end"
                                 ELSE "long_string_possible_end") EXCEPT !.level = 0])
     \/ C \in LineEnds /\ EndLine(scan)
     \/ C \notin LineEnds \cup {"]"} /\ Advance(scan)

(* After a `]' that may begin the closing bracket. *)
CloseAtLeast ==
  /\ In({"long_string_possible_end", "long_comment_possible_end"})
  /\ LET comment == scan.state = "long_comment_possible_end"
         back == To(IF comment THEN "long_comment" ELSE "long_string")
     IN  \/ /\ C = "]" /\ scan.level <= scan.expected
            /\ IF comment THEN Advance(Skipped("start")) ELSE Emit("string", index + 1)
         \/ C = "]" /\ scan.level > scan.expected /\ Advance([scan EXCEPT !.level = 0])
         \/ C = "=" /\ Advance([scan EXCEPT !.level = @ + 1])
         \/ C \in LineEnds /\ EndLine(back)
         \/ C \notin LineEnds \cup {"=", "]"} /\ Advance(back)

LongPossibleEnd ==
  /\ In({"long_string_possible_end", "long_comment_possible_end"})
  /\ LET comment == scan.state = "long_comment_possible_end"
         back == To(IF comment THEN "long_comment" ELSE "long_string")
     IN  \/ /\ C = "]" /\ scan.level = scan.expected
            /\ IF comment THEN Advance(Skipped("start")) ELSE Emit("string", index + 1)
         \/ C = "]" /\ scan.level # scan.expected /\ Advance([scan EXCEPT !.level = 0])
         \/ C = "=" /\ Advance([scan EXCEPT !.level = @ + 1])
         \/ C \in LineEnds /\ EndLine(back)
         \/ C \notin LineEnds \cup {"=", "]"} /\ Advance(back)

ShortComment ==
  /\ In({"short_comment"})
  /\ IF C \in LineEnds THEN EndLine(Skipped("start")) ELSE Advance(scan)

(* With check_next_bug_compat a NUL counts as the character looked for. *)
OrNul(S) == IF CheckNextBug THEN S \cup {NUL} ELSE S

Dot ==
  /\ In({"dot"})
  /\ \/ C \in OrNul({"."}) /\ Advance(To("concat"))
     \/ C \in Digits /\ Advance([To("number") EXCEPT !.first = ".", !.is_float = TRUE])
     \/ C \notin OrNul({"."}) \cup Digits /\ Emit("single_char", index)

Concat ==
  /\ In({"concat"})
  /\ IF C \in OrNul({"."}) THEN Emit("ellipsis", index + 1) ELSE Emit("concat", index)

Number ==
  /\ In({"number"})
  /\ \/ C \in Digits /\ Advance(scan)
     \/ C = "." /\ IF scan.is_float THEN FailInc("MalformedNumber")
                   ELSE Advance([scan EXCEPT !.is_float = TRUE])
     \/ C = "x" /\ IF scan.first # "0" THEN FailInc("MalformedNumber")
                   ELSE Advance(To("number_hex_start"))
     \/ C = "e" /\ Advance([To("number_exponent_start") EXCEPT !.signed = FALSE])
     \/ C \in NameChars \ (Digits \cup {"x", "e"}) /\ FailInc("MalformedNumber")
     \/ C \in OrNul({}) /\ Advance([To("number_exponent_start") EXCEPT
                                      !.signed = FALSE, !.null_term = TRUE])
     \/ C \notin OrNul(NameChars \cup {"."}) /\ Emit("number", index)

NumberHex ==
  /\ In({"number_hex_start", "number_hex"})
  /\ \/ C \in Digits \cup HexAlpha /\ Advance(To("number_hex"))
     \/ C \in NameChars \ (Digits \cup HexAlpha) /\ FailInc("MalformedNumber")
     \/ C \notin NameChars /\ Emit("number", index)

(* A numeral that has met a NUL takes anything for its exponent. *)
TakesAnything == CheckNextBug /\ scan.null_term

NumberExponentStart ==
  /\ In({"number_exponent_start"})
  /\ \/ /\ TakesAnything
        /\ IF C \in NameChars \cup {NUL, "-", "+"}
             THEN Advance(To("number_exponent")) ELSE Emit("number", index)
     \/ /\ ~TakesAnything
        /\ \/ C \in Digits /\ Advance(To("number_exponent"))
           \/ C \in {"-", "+"} /\ IF scan.signed THEN FailInc("MalformedNumber")
                                  ELSE Advance([scan EXCEPT !.signed = TRUE])
           \/ C \notin Digits \cup {"-", "+"} /\ FailInc("MalformedNumber")

NumberExponent ==
  /\ In({"number_exponent"})
  /\ \/ C \in Digits /\ Advance(scan)
     \/ C \in NameChars \ Digits /\ IF TakesAnything THEN Advance(scan)
                                     ELSE Fail("MalformedNumber")
     \/ C \notin NameChars /\ Emit("number", index)

CompoundEqual ==
  /\ In({"compound_equal"})
  /\ IF C = "=" THEN Emit("compare", index + 1) ELSE Emit("single_char", index)

(* The buffer ends: what has been read is a token, nothing, or unfinished. *)
EndOfBuffer ==
  /\ ~Done /\ index = Len(buffer)
  /\ LET q == scan.state
     IN  \/ q = "start" /\ Emit("eof", index)
         \/ q = "identifier" /\ Emit(NameId, index)
         \/ q \in {"dot", "dash", "compound_equal"} /\ Emit("single_char", index)
         \/ q = "concat" /\ Emit("concat", index)
         \/ q \in {"number_exponent", "number_hex", "number"} /\ Emit("number", index)
         \/ /\ q \in {"comment_start", "short_comment", "long_comment_start"}
            /\ EmitFrom("eof", index, index)
         \/ /\ q = "long_string_start"
            /\ IF scan.expected > 0 THEN Fail("InvalidLongStringDelimiter")
               ELSE Emit("single_char", index)
         \/ /\ q \in {"long_comment_possible_end", "long_comment"}
            /\ Fail("UnfinishedLongComment")
         \/ /\ q \in {"long_string_possible_end", "long_string"}
            /\ Fail("UnfinishedLongString")
         \/ /\ q \in {"string_literal", "string_literal_backslash",
                      "string_literal_backslash_line_endings"}
            /\ Fail("UnfinishedString")
         \/ /\ q \in {"number_hex_start", "number_exponent_start"}
            /\ IF TakesAnything THEN Emit("number", index)
               ELSE Fail("MalformedNumber")

Next ==
  \/ Start \/ Identifier
  \/ StringLiteral \/ StringBackslash \/ StringBackslashLineEndings
  \/ Dash \/ CommentStart \/ ShortComment
  \/ LongStart \/ LongText \/ LongPossibleEnd
  \/ Dot \/ Concat \/ CompoundEqual
  \/ Number \/ NumberHex \/ NumberExponentStart \/ NumberExponent
  \/ TooLong \/ EndOfBuffer

(* The loop of next runs, and the parser asks for the next token.          *)
Spec == Init /\ [][Next]_vars /\ WF_vars(Next)

-----------------------------------------------------------------------------
(* The string tokens and their text.                                      *)

Strings == {k \in 1 .. Len(tokens) : tokens[k].id = "string"}
Raw(k) == Text(tokens[k].start, tokens[k].end)

(* The whole buffer is read: next always returns, although it sometimes    *)
(* reads a character again, and the last call returns eof or an error.     *)
LexingEnds == <>Done
=============================================================================
