-------------------------------- MODULE Lexer --------------------------------
(***************************************************************************)
(* The lexer, src/lexer.cpp: the grammar of tokens as combinators, run to  *)
(* a list of raw tokens, then a pass that drops blanks and comments,       *)
(* classifies numbers and words, and decodes and joins string literals.    *)
(*                                                                         *)
(* The text is a sequence of characters, one of each class the code tells  *)
(* apart (the letters are few but have their real meaning in escapes and   *)
(* numbers); a decoded string is a sequence of bytes.                      *)
(***************************************************************************)
EXTENDS Combinators, TLC

CONSTANTS
    Letters,        \* and the underscore
    Chars,          \* [character -> its byte], every character of the text
    KeywordTexts,   \* words that are keywords, as sequences of characters
    Texts           \* candidate texts

VARIABLES
    source,         \* the text
    lexer_phase,    \* "scan", "build", "done", "failed"
    raws,           \* raw tokens: [cat, from, to], in the text after the byte order mark
    remaining,      \* where the token stream stopped
    at,             \* raw tokens built
    built,          \* [kind, from, to, value], in the source
    error           \* [off, why]

lexer_vars == <<source, lexer_phase, raws, remaining, at, built, error>>

-----------------------------------------------------------------------------
(* Character classes                                                       *)

Whitespace == {" ", "nl"}
OctalDigits == {"0", "1"}
DecimalDigits == OctalDigits \cup {"8"}
HexDigits == DecimalDigits \cup {"a", "d", "e", "f"}
hex_value == [c \in HexDigits |->
    CASE c = "0" -> 0 [] c = "1" -> 1 [] c = "8" -> 8 [] c = "a" -> 10 [] c = "d" -> 13 [] c = "e" -> 14 [] c = "f" -> 15]
SimpleEscapes == [c \in {"a", "f", "n", "\\", "'", "\""} |->
    CASE c = "a" -> 7 [] c = "f" -> 12 [] c = "n" -> 10 [] OTHER -> Chars[c]]
Symbols == {";", ".", "/", "-", "+"}
LettersOrDigits == Letters \cup DecimalDigits
All == DOMAIN Chars

-----------------------------------------------------------------------------
(* The grammar of tokens                                                   *)

identifier == seq(<<one(Letters), take_while(LettersOrDigits)>>)
digit_point_or_exp ==
    alt(<<one(DecimalDigits), one({"."}), seq(<<one({"e"}), opt(one({"+", "-"}))>>), one(Letters)>>)
numeric_literal == seq(<<opt(tag(<<".">>)), one(DecimalDigits), many(digit_point_or_exp)>>)

Hex(n) == [i \in 1 .. n |-> one(HexDigits)]
simple_escape_seq == seq(<<tag(<<"\\">>), one(DOMAIN SimpleEscapes)>>)
hex_escape_seq == seq(<<tag(<<"\\", "x">>), one(HexDigits), opt(one(HexDigits))>>)
octal_escape_seq ==
    seq(<<tag(<<"\\">>), one(OctalDigits), opt(one(OctalDigits)), opt(one(OctalDigits))>>)
unicode_escape_seq ==
    alt(<<seq(<<tag(<<"\\", "u">>)>> \o Hex(4)), seq(<<tag(<<"\\", "U">>)>> \o Hex(8))>>)
rune_escape_seq == alt(<<simple_escape_seq, hex_escape_seq, octal_escape_seq, unicode_escape_seq>>)
string_body_char(q) == recognize(alt(<<one(All \ {q, "nl", "nul", "\\"}), rune_escape_seq>>))
quoted_string(q) == seq(<<tag(<<q>>), cut(seq(<<many(string_body_char(q)), tag(<<q>>)>>))>>)
string_literal == alt(<<quoted_string("\""), quoted_string("'")>>)

line_comment == seq(<<tag(<<"/", "/">>), take_while(All \ {"nl", "nul"})>>)
block_comment == seq(<<tag(<<"/", "*">>), cut(seq(<<take_until(<<"*", "/">>), tag(<<"*", "/">>)>>))>>)
comment == alt(<<line_comment, block_comment>>)

raw(cat, p) == map(cat, recognize(p))
token ==
    alt(<<raw("Whitespace", take_while1(Whitespace)), raw("Comment", comment), raw("StringLit", string_literal),
          raw("Numeric", numeric_literal), raw("Ident", identifier), raw("Symbol", one(Symbols))>>)
token_stream == many(token)

NoGrammar == <<>>       \* the lexer does not recurse

-----------------------------------------------------------------------------
(* Numbers                                                                 *)

decimal_exponent == seq(<<one({"e"}), opt(one({"+", "-"})), take_while1(DecimalDigits)>>)

decimal_literal == alt(<<tag(<<"0">>), seq(<<one(DecimalDigits \ {"0"}), take_while(DecimalDigits)>>)>>)
hex_literal == seq(<<tag(<<"0">>), one({"x"}), take_while1(HexDigits)>>)
octal_literal == seq(<<tag(<<"0">>), take_while1(OctalDigits)>>)

int_literal == alt(<<hex_literal, octal_literal, decimal_literal>>)
float_literal ==
    alt(<<seq(<<take_while1(DecimalDigits), tag(<<".">>), take_while(DecimalDigits), opt(decimal_exponent)>>),
          seq(<<take_while1(DecimalDigits), decimal_exponent>>),
          seq(<<tag(<<".">>), take_while1(DecimalDigits), opt(decimal_exponent)>>)>>)

classify_numeric(text) ==
    IF all_consuming(NoGrammar, int_literal, text).ok THEN "IntLiteral"
    ELSE IF all_consuming(NoGrammar, float_literal, text).ok THEN "FloatLiteral" ELSE "none"

-----------------------------------------------------------------------------
(* Strings                                                                 *)

append_utf8(cp) ==
    LET cont(shift) == 128 + ((cp \div 2^shift) % 64)
    IN  CASE cp <= 127 -> <<cp>>
          [] cp > 127 /\ cp <= 2047 -> <<192 + cp \div 64, cont(0)>>
          [] cp > 2047 /\ cp <= 65535 -> <<224 + cp \div 4096, cont(6), cont(0)>>
          [] OTHER -> <<240 + cp \div 262144, cont(12), cont(6), cont(0)>>

\* The number written by the digits text[i .. j - 1].
Digits(text, i, j, base) ==
    LET n[l \in (i - 1) .. (j - 1)] == IF l = i - 1 THEN 0 ELSE n[l - 1] * base + hex_value[text[l]]
    IN  n[j - 1]

\* The end of a stretch of at most `most` characters of K from i.
DigitsEnd(text, i, K, most) ==
    CHOOSE j \in i .. (i + most) :
        /\ \A l \in i .. (j - 1) : l <= Len(text) /\ text[l] \in K
        /\ j = i + most \/ j > Len(text) \/ text[j] \notin K

\* \u and \U: the digits are taken on trust, only the value is looked at.
append_unicode_escape(text, i, digits) ==
    LET j == IF i + digits - 1 <= Len(text) THEN i + digits ELSE Len(text) + 1
        cp == Digits(text, i, j, 16)
    IN  IF cp > 1114111 \/ (cp >= 55296 /\ cp <= 57343) THEN [ok |-> FALSE, at |-> j]
        ELSE [ok |-> TRUE, at |-> j, bytes |-> append_utf8(cp)]

\* Mutant: an octal escape of two digits at most.
MaxOctalEscapeDigitsTwo == 2

MaxOctalEscapeDigits == 3
MaxHexEscapeDigits == 2

\* One escape, i at the backslash.
decode_escape(text, i) ==
    LET e == text[i + 1]
        hex == DigitsEnd(text, i + 2, HexDigits, MaxHexEscapeDigits)
        octal == DigitsEnd(text, i + 1, OctalDigits, MaxOctalEscapeDigits)
    IN  IF e \in DOMAIN SimpleEscapes THEN [ok |-> TRUE, at |-> i + 2, bytes |-> <<SimpleEscapes[e]>>]
        ELSE CASE e = "u" -> append_unicode_escape(text, i + 2, 4)
               [] e = "U" -> append_unicode_escape(text, i + 2, 8)
               [] e = "x" -> [ok |-> TRUE, at |-> hex, bytes |-> <<Digits(text, i + 2, hex, 16) % 256>>]
               [] OTHER -> [ok |-> TRUE, at |-> octal, bytes |-> <<Digits(text, i + 1, octal, 8) % 256>>]

\* The literal text[from .. to - 1], quotes included: its pieces [from, to, bytes], or the
\* backslash of the first escape that is wrong.
decode_string(text, from, to) ==
    LET span == SubSeq(text, 1, to - 1)
        piece[i \in (from + 1) .. to] ==
            IF i >= to - 1 THEN <<>>
            ELSE LET e == IF text[i] = "\\" THEN decode_escape(span, i)
                          ELSE [ok |-> TRUE, at |-> i + 1, bytes |-> <<Chars[text[i]]>>]
                 IN  IF ~e.ok THEN <<[bad |-> i]>>
                     ELSE <<[from |-> i, to |-> e.at, bytes |-> e.bytes]>>
                          \o (IF e.at > to THEN <<>> ELSE piece[e.at])
    IN  piece[from + 1]

Bad(pieces) == pieces # <<>> /\ "bad" \in DOMAIN pieces[Len(pieces)]

-----------------------------------------------------------------------------
(* lex                                                                     *)

ByteOrderMark == <<"EF", "BB", "BF">>
Start == IF IsPrefix(ByteOrderMark, source) THEN 3 ELSE 0
Text == SubSeq(source, Start + 1, Len(source))
Piece(t) == SubSeq(Text, t.from, t.to - 1)

\* Mutant: the byte order mark is forgotten.
OffsetNoMark(off) == off

\* An offset in the text, as one in the source.
Offset(off) == off + Start

Fail(off, why) == lexer_phase' = "failed" /\ error' = [off |-> Offset(off), why |-> why]

\* The whole token stream; a literal or a comment that is not closed is an error here.
Scan ==
    /\ lexer_phase = "scan"
    /\ LET r == Run(NoGrammar, token_stream, Text, 1, 0)
       IN  IF ~r.ok THEN Fail(r.off, r.why) /\ UNCHANGED <<raws, remaining>>
           ELSE /\ raws' = [i \in DOMAIN r.val |->
                              [cat |-> r.val[i].node, from |-> r.val[i].kid[1], to |-> r.val[i].kid[2]]]
                /\ remaining' = r.at
                /\ lexer_phase' = "build" /\ UNCHANGED error
    /\ UNCHANGED <<source, at, built>>

NextRaw == raws[at + 1]
Push(kind, value) == built' = Append(built, [kind |-> kind, from |-> NextRaw.from, to |-> NextRaw.to, value |-> value])
Building(cat) == lexer_phase = "build" /\ at < Len(raws) /\ NextRaw.cat = cat

\* validate_comment: where the comment has a NUL, or 0.
NulIn(t) == LET nuls == {i \in t.from .. (t.to - 1) : Text[i] = "nul"}
            IN  IF nuls = {} THEN 0 ELSE CHOOSE i \in nuls : \A j \in nuls : i <= j

SkipBlank ==
    /\ Building("Whitespace")
    /\ at' = at + 1
    /\ UNCHANGED <<source, lexer_phase, raws, remaining, built, error>>

SkipComment ==
    /\ Building("Comment")
    /\ IF NulIn(NextRaw) # 0 THEN Fail(NulIn(NextRaw) - 1, "nul") /\ UNCHANGED at
       ELSE at' = at + 1 /\ UNCHANGED <<lexer_phase, error>>
    /\ UNCHANGED <<source, raws, remaining, built>>

keyword_or_identifier(text) == IF text \in KeywordTexts THEN "Keyword" ELSE "Identifier"

BuildWord ==
    /\ Building("Ident")
    /\ Push(keyword_or_identifier(Piece(NextRaw)), <<>>)
    /\ at' = at + 1
    /\ UNCHANGED <<source, lexer_phase, raws, remaining, error>>

BuildSymbol ==
    /\ Building("Symbol")
    /\ Push(Text[NextRaw.from], <<>>)
    /\ at' = at + 1
    /\ UNCHANGED <<source, lexer_phase, raws, remaining, error>>

BuildNumber ==
    /\ Building("Numeric")
    /\ LET kind == classify_numeric(Piece(NextRaw))
       IN  IF kind = "none" THEN Fail(NextRaw.from - 1, "number") /\ UNCHANGED <<at, built>>
           ELSE Push(kind, <<>>) /\ at' = at + 1 /\ UNCHANGED <<lexer_phase, error>>
    /\ UNCHANGED <<source, raws, remaining>>

\* Mutant: only literals that touch are joined.
RunEndTouching(i) ==
    CHOOSE j \in i .. Len(raws) :
        /\ \A l \in i .. j : raws[l].cat = "StringLit"
        /\ j = Len(raws) \/ raws[j + 1].cat # "StringLit"

\* The last literal of the run of literals that starts with raw token i.
RunEnd(i) ==
    CHOOSE j \in i .. Len(raws) :
        /\ \A l \in i .. j : raws[l].cat \in {"StringLit", "Whitespace", "Comment"}
        /\ raws[j].cat = "StringLit"
        /\ \A l \in (j + 1) .. Len(raws) :
              raws[l].cat = "StringLit" =>
                  \E m \in (j + 1) .. l : raws[m].cat \notin {"StringLit", "Whitespace", "Comment"}

\* What comes after the run: the blanks and comments up to the next token belong to it.
AfterRun(i) ==
    LET j == RunEnd(i)
        far == {l \in (j + 1) .. Len(raws) : raws[l].cat \notin {"Whitespace", "Comment"}}
    IN  IF far = {} THEN Len(raws) + 1 ELSE CHOOSE l \in far : \A m \in far : l <= m

\* append_string_token: the literals of the run are decoded into one token; the comments
\* between and after them are checked on the way.
BuildString ==
    /\ Building("StringLit")
    /\ LET i == at + 1
           parts == [l \in i .. (AfterRun(i) - 1) |->
                       IF raws[l].cat = "StringLit" THEN decode_string(Text, raws[l].from, raws[l].to) ELSE <<>>]
           wrong == {l \in DOMAIN parts : Bad(parts[l]) \/ (raws[l].cat = "Comment" /\ NulIn(raws[l]) # 0)}
           first == CHOOSE l \in wrong : \A m \in wrong : l <= m
           bytes(p) == FlattenSeq([l \in DOMAIN p |-> p[l].bytes])
           value[l \in (i - 1) .. (AfterRun(i) - 1)] == IF l < i THEN <<>> ELSE value[l - 1] \o bytes(parts[l])
       IN  IF wrong # {}
           THEN /\ IF raws[first].cat = "Comment" THEN Fail(NulIn(raws[first]) - 1, "nul")
                   ELSE Fail(parts[first][Len(parts[first])].bad - 1, "escape")
                /\ UNCHANGED <<at, built>>
           ELSE /\ built' = Append(built, [kind |-> "StringLiteral", from |-> raws[i].from, to |-> raws[RunEnd(i)].to,
                                             value |-> value[AfterRun(i) - 1]])
                /\ at' = AfterRun(i) - 1
                /\ UNCHANGED <<lexer_phase, error>>
    /\ UNCHANGED <<source, raws, remaining>>

\* What the token stream could not read is an error, but only once all before it is fine.
Finish ==
    /\ lexer_phase = "build" /\ at = Len(raws)
    /\ IF remaining <= Len(Text) THEN Fail(remaining - 1, "character")
       ELSE lexer_phase' = "done" /\ UNCHANGED error
    /\ UNCHANGED <<source, raws, remaining, at, built>>

LexerInit ==
    /\ source \in Texts
    /\ lexer_phase = "scan" /\ raws = <<>> /\ remaining = 1 /\ at = 0 /\ built = <<>> /\ error = <<>>

LexerNext ==
    \/ Scan \/ SkipBlank \/ SkipComment \/ BuildWord \/ BuildSymbol \/ BuildNumber \/ BuildString \/ Finish

LexerSpec == LexerInit /\ [][LexerNext]_lexer_vars

-----------------------------------------------------------------------------
(* Properties                                                              *)

Trivia == many(alt(<<take_while1(Whitespace), comment>>))
Gap(i) ==
    SubSeq(Text, IF i = 0 THEN 1 ELSE built[i].to, IF i = Len(built) THEN Len(Text) ELSE built[i + 1].from - 1)

\* Every character is in exactly one token or in a blank or a comment between two; a word or a
\* number is never cut in two, and literals with nothing but blanks and comments between them
\* have become one. A number has its kind, or is refused, as the grammar of numbers has it: the
\* order in which the forms are tried does not matter.
TokensTileTheText ==
    /\ lexer_phase \in {"build", "done", "failed"} =>
        \A i \in {i \in 1 .. Len(raws) : raws[i].cat = "Numeric"} :
            LET p == Piece(raws[i])
            IN  /\ (classify_numeric(p) = "IntLiteral") <=> Derives(NoGrammar, int_literal, p, 0)
                /\ (classify_numeric(p) = "FloatLiteral") <=> Derives(NoGrammar, float_literal, p, 0)
    /\ lexer_phase = "done" =>
        /\ \A i \in 1 .. (Len(built) - 1) : built[i].to <= built[i + 1].from
        /\ \A i \in 0 .. Len(built) : Derives(NoGrammar, Trivia, Gap(i), 0)
        /\ \A i \in 1 .. (Len(built) - 1) :
              /\ built[i].kind = "StringLiteral" => built[i + 1].kind # "StringLiteral"
              /\ built[i].kind \in {"Identifier", "Keyword", "IntLiteral", "FloatLiteral"} =>
                    Text[built[i].to] \notin LettersOrDigits

\* UTF-8 read back: the code point of a sequence of bytes, or -1.
CodePoint(b) ==
    LET cont(i) == b[i] - 128
        conts == \A i \in 2 .. Len(b) : b[i] \in 128 .. 191
    IN  CASE Len(b) = 1 /\ b[1] < 128 -> b[1]
          [] Len(b) = 2 /\ b[1] \in 194 .. 223 /\ conts -> (b[1] - 192) * 64 + cont(2)
          [] Len(b) = 3 /\ b[1] \in 224 .. 239 /\ conts -> (b[1] - 224) * 4096 + cont(2) * 64 + cont(3)
          [] Len(b) = 4 /\ b[1] \in 240 .. 244 /\ conts ->
                (b[1] - 240) * 262144 + cont(2) * 4096 + cont(3) * 64 + cont(4)
          [] OTHER -> -1

\* The decoder, which takes the literal on trust, agrees with the grammar that recognised it:
\* it finds the same characters and escapes, so it never runs over the closing quote, and a
\* unicode escape becomes the UTF-8 of the number it writes.
DecoderMatchesTheGrammar ==
    \A i \in {i \in DOMAIN raws : raws[i].cat = "StringLit"} :
        LET t == raws[i]
            pieces == decode_string(Text, t.from, t.to)
            body == Run(NoGrammar, many(string_body_char(Text[t.from])), Text, t.from + 1, 0)
        IN  ~Bad(pieces) =>
                /\ [l \in DOMAIN pieces |-> <<pieces[l].from, pieces[l].to>>] = body.val
                /\ \A l \in DOMAIN pieces :
                      (pieces[l].to - pieces[l].from >= 2 /\ Text[pieces[l].from + 1] \in {"u", "U"}) =>
                          CodePoint(pieces[l].bytes) = Digits(Text, pieces[l].from + 2, pieces[l].to, 16)

\* What may stand under the position of an error.
Culprits(why) ==
    CASE why \in {"input", "unterminated"} -> {"\\", "nl", "nul"}
      [] why = "nul" -> {"nul"}
      [] why = "escape" -> {"\\"}
      [] why = "number" -> DecimalDigits \cup {"."}
      [] why = "character" -> All \ (Whitespace \cup LettersOrDigits \cup Symbols)

\* An error is in the source, byte order mark counted: at its end, which something open did not
\* reach, or at a character that is to blame; and what stands before it could have gone on.
LexErrorsAreWhereTheyAre ==
    lexer_phase = "failed" =>
        /\ error.off \in Start .. Len(source)
        /\ error.off = Len(source) \/ source[error.off + 1] \in Culprits(error.why)
        /\ error.off = Len(source) => error.why \in {"input", "unterminated"}
        /\ Viable(NoGrammar, token_stream, SubSeq(source, Start + 1, error.off))
=============================================================================
