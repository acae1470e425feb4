------------------------------ MODULE MCSyntax ------------------------------
(* From text to tokens, and from tokens to files. The two calls share a run:  *)
(* the initial state says which of them is made, and on what; the other one   *)
(* is "idle".                                                                 *)
EXTENDS Lexer, Parser

VARIABLE part
vars == <<part, lexer_vars, parser_vars>>

-----------------------------------------------------------------------------
(* Texts of a few characters from alphabets for numbers, strings, comments   *)
(* and what stands between them.                                             *)

MCLetters == {"a", "d", "e", "f", "x", "u", "U", "n"}
Rest == {" ", "nl", "nul", "0", "1", "8", ".", "+", "-", "/", "*", ";", "@", "\"", "'", "\\", "EF", "BB", "BF"}
MCChars == [c \in MCLetters \cup Rest |->
    CASE c = "a" -> 97 [] c = "\\" -> 92 [] c = "\"" -> 34 [] c = "'" -> 39 [] OTHER -> 1]
UpTo(K, n) == UNION {[1 .. l -> K] : l \in 0 .. n}
MCKeywords == {<<"a">>}
Q == <<"\"">>

Numbers == UpTo({"0", "1", "8", ".", "e", "x", "+", "a"}, 4)
Strings == {q \o <<"\\">> \o b \o c : b \in UpTo({"\\", "x", "0", "a", "8", "@"}, 4), q \in {Q, <<"'">>}, c \in {Q, <<>>}}
Unicode ==
    {Q \o <<"\\", "u">> \o d \o <<"f">> \o c : d \in [1 .. 4 -> {"0", "d", "8", "f"}], c \in {Q, <<>>}}
    \cup {Q \o <<"\\", "U", "0", "0">> \o d \o <<"0", "1", "f">> \o Q : d \in [1 .. 3 -> {"0", "1", "d", "8"}]}
Comments == UpTo({"/", "*", "nl", "nul", "a", "\""}, 5)
Mixed == UpTo({"a", "0", ".", ";", "@", " ", "\""}, 4)
Joined ==
    {Q \o <<"a">> \o Q \o b \o Q \o c \o Q \o d :
        b \in {<<>>, <<" ">>, <<"/", "/", "nl">>, <<"/", "*", "nul", "*", "/", " ">>, <<";">>, <<"a">>},
        c \in {<<>>, <<"\\", "0", "1", "8">>, <<"\\", "u", "d", "8", "0", "0">>},
        d \in {<<>>, <<" ", "/", "*", "nul", "*", "/">>, <<";">>, <<"a">>}}
Marked == {ByteOrderMark \o t : t \in UpTo({"a", "8", "0", "\"", "\\", "@"}, 3) \cup Joined}
MCTexts == Numbers \cup Strings \cup Unicode \cup Comments \cup Mixed \cup Joined \cup Marked

-----------------------------------------------------------------------------
(* Small files that between them use every production, and each of them with *)
(* one token replaced, removed or added.                                     *)

S == <<"syntax", "=", "str", ";">>
Msg(body) == <<"message", "id", "{">> \o body \o <<"}">>
F == <<"int32", "id", "=", "num", ";">>
Group(body) == <<"group", "id", "=", "num", "{">> \o body \o <<"}">>

Bases ==
    {S \o <<"import", "public", "str", ";", "package", "id", ".", "id", ";">>,
     <<"edition", "=", "str", ";", "service", "id", "{", "id", "{", "}", "}", "local", "enum", "id", "{", "}">>,
     <<"option", "(", ".", "id", ")", ".", "id", "=", "{", "id", ":", "-", "num", ",", "id", "<", ">", "}", ";">>,
     <<"option", "id", "=", "[", "id", ",", "flt", "]", ";", "option", "id", "=", "-", "inf", ";">>,
     <<"option", "id", "=", "{", "[", "id", "/", "id", "]", "[", "str", "]", "}", ";">>,
     <<"export">> \o Msg(<<"optional", ".", "id", ".", "id", "id", "=", "num", "[", "id", "=", "str", "]", ";">>),
     Msg(<<"map", "<", "int32", ",", "id", ">", "id", "=", "num", "[", "]", ";">>),
     Msg(<<"oneof", "id", "{">> \o Group(F) \o <<"}">>),
     Msg(<<"oneof", "id", "{", "option", "id", "=", "id", ";">> \o F \o <<"}">>),
     Msg(<<"reserved", "num", "to", "max", ",", "-", "num", ";", "reserved", "str", ",", "id", ";">>),
     Msg(<<"extensions", "num", "to", "num", "[", "id", "=", "num", "]", ";">> \o F),
     Msg(<<"extend", ".", "id", "{", "repeated">> \o Group(<<>>) \o F \o <<"}">>),
     <<"extend", "id", "{", "option", "id", "=", "num", ";">> \o Group(F) \o <<"}">>,
     Msg(<<"repeated">> \o Group(F) \o Msg(<<>>) \o <<";">>),
     Msg(<<"enum", "id", "{", "id", "=", "-", "num", ";", "reserved", "-", "num", ",", "num", "to", "max", ";", "}">>),
     <<"enum", "id", "{", "option", "id", "=", "num", ";", "id", "=", "num", "[", "id", "=", "num", "]", ";", ";", "}">>,
     Msg(Msg(<<"local", "id", "=", "num", ";", "option", "id", "=", "num", ";">>)),
     Msg(Msg(Msg(<<>>))), Msg(Msg(Msg(Msg(<<>>)))), Msg(Msg(Msg(<<"option", "id", "=", "id", ";">>))),
     Msg(<<"option", "id", "=", "{", "id", "{", "id", "{", "}", "}", "}", ";">>),
     Msg(<<"optional", "message", "id", "=", "num", ";", "option", "id", "=", "[", "[", "]", ",", "num", "]", ";">>)}

SomeKinds == {"id", "num", "str", "-", "=", ";", ",", ".", "{", "}", "[", "]", "<", "message", "enum", "group",
          "option", "reserved", "extensions", "optional", "local", "map", "syntax"}

Replaced(s) == {[s EXCEPT ![i] = x] : i \in DOMAIN s, x \in SomeKinds}
Inserted == {"id", "=", ";", ",", "[", "{", "}", "message", "group", "reserved", "optional", "option"}
Removed(s) == {SubSeq(s, 1, i - 1) \o SubSeq(s, i + 1, Len(s)) : i \in DOMAIN s}
Added(s) == {SubSeq(s, 1, i) \o <<x>> \o SubSeq(s, i + 1, Len(s)) : i \in 0 .. Len(s), x \in Inserted}
CutOff(s) == {SubSeq(s, 1, i) : i \in DOMAIN s}

\* Numbers up to and past the widths, in a few of the files.
MCFiles ==
    {[tokens |-> t, mag |-> 1] :
        t \in UNION {Replaced(s) \cup Removed(s) \cup Added(s) \cup CutOff(s) : s \in Bases}}
    \cup {[tokens |-> s, mag |-> m] : s \in Bases, m \in 0 .. 2^(Bits64 + 1)}
    \cup {[tokens |-> <<"option", "id", "=">> \o sign \o <<"num", ";">>, mag |-> m] :
             sign \in {<<>>, <<"-">>, <<"+">>}, m \in 0 .. 2^(Bits64 + 1)}

\* Options and enum values as they are in most files, beside an empty list of options, an enum
\* value named `reserved`, and messages nested as deep as the guard allows and one deeper.
Plain(files) == {[tokens |-> s, mag |-> 1] : s \in files}
EnumWith(name) == <<"enum", "id", "{", name, "=", "num", ";", "}">>
FieldWith(options) == Msg(<<"int32", "id", "=", "num">> \o options \o <<";">>)
OptionFiles == Plain({FieldWith(<<>>), FieldWith(<<"[", "id", "=", "num", "]">>), FieldWith(<<"[", "]">>)})
EnumFiles == Plain({EnumWith("id"), EnumWith("reserved"), Msg(EnumWith("optional"))})
NestedFiles == Plain({Msg(<<>>), Msg(Msg(Msg(<<>>))), Msg(Msg(Msg(Msg(<<>>))))})

-----------------------------------------------------------------------------
(* The run                                                                   *)

LexerIdle ==
    /\ lexer_phase = "idle" /\ source = <<>> /\ raws = <<>> /\ remaining = 1 /\ at = 0
    /\ built = <<>> /\ error = <<>>
ParserIdle == phase = "idle" /\ tokens = <<>> /\ mag = 0 /\ parsed = <<>> /\ report = <<>>

Init ==
    \/ part = "lexer" /\ LexerInit /\ ParserIdle
    \/ part = "parser" /\ ParserInit /\ LexerIdle

Next ==
    /\ UNCHANGED part
    /\ \/ part = "lexer" /\ LexerNext /\ UNCHANGED parser_vars
       \/ part = "parser" /\ ParserNext /\ UNCHANGED lexer_vars

Spec == Init /\ [][Next]_vars
=============================================================================
