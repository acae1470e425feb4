-------------------------------- MODULE Parser --------------------------------
(***************************************************************************)
(* The schema parser, src/parser.cpp: the grammar of .proto files as       *)
(* combinator expressions, the depth guard, the assembly of the tree, and  *)
(* parse_source of the import resolver, which turns the token index of an  *)
(* error into a position in the file.                                      *)
(*                                                                         *)
(* A token is its kind. Identifiers are all "id", the scalar type names    *)
(* are "int32", a name in the tree is the position of its token; the       *)
(* number literals of a file all have the magnitude `mag`. Words of 64 and *)
(* 32 bits are scaled down to Bits64 and Bits32.                           *)
(***************************************************************************)
EXTENDS Combinators, TLC

CONSTANTS
    MaxParseDepth,  \* kMaxParseDepth
    Bits64, Bits32,
    MaxFieldNumber, \* kMaxMessageFieldNumber, what `max` means in a message
    MaxEnumNumber,  \* kMaxEnumNumber, what it means in an enum
    Inputs          \* candidate inputs: [tokens, mag]

VARIABLES
    tokens,         \* the kinds of the tokens of the file
    mag,            \* the magnitude of its number literals
    phase,          \* "parse", "report", "done"
    parsed,         \* what parse_file returned
    report          \* what parse_source returned

parser_vars == <<tokens, mag, phase, parsed, report>>

-----------------------------------------------------------------------------
(* Token matchers and the grammar of values and options                    *)

Keywords == {"syntax", "edition", "package", "import", "public", "weak", "option", "export", "local",
             "message", "enum", "service", "extend", "extensions", "group", "oneof", "required",
             "optional", "repeated", "reserved", "map", "to", "max", "inf"}
Labels == {"required", "optional", "repeated"}

k(kind) == one({kind})
Names == {"id", "int32"} \cup Keywords
name_token == one(Names)
number_token == one({"num", "flt", "inf"})

List(p, s) == seq(<<p, many(preceded(k(s), p))>>)
qualified_ident == List(name_token, ".")
type_name == seq(<<opt(k(".")), qualified_ident>>)

field_name ==
    alt(<<name_token,
          seq(<<k("["), qualified_ident, opt(preceded(k("/"), qualified_ident)), k("]")>>)>>)
option_name_component == alt(<<name_token, seq(<<k("("), opt(k(".")), qualified_ident, k(")")>>)>>)
parse_option_name == List(option_name_component, ".")

parse_scalar ==
    alt(<<map("number", seq(<<opt(one({"-", "+"})), number_token>>)), map("string", k("str")),
          map("name", name_token)>>)
parse_field_value ==
    alt(<<preceded(k(":"), nt("value")), map("literal", nt("message_literal")), map("list", nt("list_literal"))>>)
parse_message_field == seq(<<field_name, parse_field_value>>)
literal_body == many(seq(<<parse_message_field, opt(one({",", ";"}))>>))

parse_message_literal ==
    deeper(MaxParseDepth, alt(<<delimited(k("{"), literal_body, cut(k("}"))),
                                delimited(k("<"), literal_body, cut(k(">")))>>))
parse_list_literal ==
    deeper(MaxParseDepth, delimited(k("["), separated_list(nt("value"), k(",")), cut(k("]"))))
parse_value ==
    alt(<<map("literal", nt("message_literal")), map("list", nt("list_literal")), parse_scalar>>)

compact_option == map("option", seq(<<parse_option_name, cut(k("=")), cut(nt("value"))>>))
parse_compact_options == delimited(k("["), separated_list(compact_option, k(",")), cut(k("]")))
parse_option_decl ==
    map("option", delimited(k("option"),
                            seq(<<cut(parse_option_name), cut(k("=")), cut(nt("value"))>>), cut(k(";"))))

-----------------------------------------------------------------------------
(* Enums, fields, messages                                                 *)

signed_int == seq(<<opt(k("-")), k("num")>>)
reserved_range ==
    seq(<<signed_int, opt(preceded(k("to"), alt(<<map("max", k("max")), map("int", signed_int)>>)))>>)
reserved_name == one({"str"} \cup Names)
parse_reserved ==
    delimited(k("reserved"), alt(<<map("ranges", List(reserved_range, ",")), map("names", List(reserved_name, ","))>>),
              cut(k(";")))

Options == opt(nt("compact_options"))
enum_value_decl ==
    map("value", seq(<<name_token, cut(k("=")), cut(signed_int), Options, cut(k(";"))>>))
visibility_modifier == opt(one({"export", "local"}))
EmptyDecl == map("empty", k(";"))
enum_element == alt(<<parse_option_decl, map("reserved", parse_reserved), enum_value_decl, EmptyDecl>>)
parse_enum ==
    map("enum", seq(<<visibility_modifier, k("enum"), cut(name_token), cut(k("{")),
                      many(nt("enum_element")), cut(k("}"))>>))

field_number == k("num")
Number == preceded(cut(k("=")), cut(field_number))
cardinality == one(Labels)
NoLabel == opt(one({}))
oneof_field ==
    map("field", seq(<<NoLabel, type_name, name_token, Number, Options, cut(k(";"))>>))
parse_field ==
    map("field", seq(<<opt(cardinality), type_name, name_token, Number, Options, cut(k(";"))>>))
parse_map_field ==
    map("map", seq(<<preceded(seq(<<k("map"), cut(k("<"))>>), cut(type_name)),
                     preceded(cut(k(",")), cut(type_name)), preceded(cut(k(">")), cut(name_token)),
                     Number, Options, cut(k(";"))>>))

Body == delimited(cut(k("{")), nt("message_body"), cut(k("}")))
parse_group ==
    map("group", seq(<<opt(cardinality), preceded(k("group"), cut(name_token)), Number, Options, Body>>))
oneof_element == refuse(Labels, alt(<<parse_option_decl, nt("group"), oneof_field>>))
parse_oneof ==
    map("oneof", seq(<<k("oneof"), cut(name_token), cut(k("{")), many(nt("oneof_element")), cut(k("}"))>>))
extension_range ==
    map("extensions", seq(<<preceded(k("extensions"), List(reserved_range, ",")), Options, cut(k(";"))>>))
extend_element == alt(<<nt("group"), parse_field>>)
parse_extend ==
    map("extend", seq(<<preceded(k("extend"), cut(type_name)),
                        delimited(cut(k("{")), many(nt("extend_element")), cut(k("}")))>>))
parse_message ==
    map("message", seq(<<visibility_modifier, k("message"), cut(name_token), Body>>))

KeywordLed ==
    <<parse_option_decl, parse_map_field, parse_oneof, map("reserved", parse_reserved), extension_range,
      parse_extend, nt("message"), parse_enum>>

\* Mutant: fields are tried before groups.
message_elementFieldFirst == alt(KeywordLed \o <<parse_field, nt("group"), EmptyDecl>>)

\* The declarations that begin with a keyword first: a field takes any keyword for its type.
message_element == alt(KeywordLed \o <<nt("group"), parse_field, EmptyDecl>>)

message_body == deeper(MaxParseDepth, many(nt("message_element")))

-----------------------------------------------------------------------------
(* Files                                                                   *)

import_decl ==
    map("import", seq(<<preceded(k("import"), opt(one({"weak", "public", "option"}))), cut(k("str")), cut(k(";"))>>))
package_decl == map("package", seq(<<preceded(k("package"), cut(qualified_ident)), cut(k(";"))>>))
balanced_braces == balanced("{", "}")
service_decl == map("service", seq(<<k("service"), cut(name_token), cut(balanced_braces)>>))
Declares(kw) == seq(<<preceded(k(kw), cut(k("="))), cut(k("str")), cut(k(";"))>>)
syntax_decl == alt(<<map("syntax", Declares("syntax")), map("edition", Declares("edition"))>>)
file_element ==
    alt(<<parse_option_decl, import_decl, package_decl, service_decl, parse_extend, nt("message"),
          parse_enum, EmptyDecl>>)

Grammar ==
    [value |-> parse_value, message_literal |-> parse_message_literal, list_literal |-> parse_list_literal,
     compact_options |-> parse_compact_options, enum_element |-> enum_element, group |-> parse_group,
     oneof_element |-> oneof_element, extend_element |-> extend_element, message |-> parse_message,
     message_element |-> message_element, message_body |-> message_body]

-----------------------------------------------------------------------------
(* Values of literals                                                      *)

\* OptionValue of an integer literal: 64 bits, or a double beyond them.
make_int(m, negative) ==
    IF m >= 2^Bits64 \/ (negative /\ m > 2^(Bits64 - 1)) THEN [type |-> "double", v |-> IF negative THEN -m ELSE m]
    ELSE IF negative THEN [type |-> "int64", v |-> -m] ELSE [type |-> "uint64", v |-> m]

interpret_number(sign, kind) ==
    IF kind = "num" THEN make_int(mag, sign = "-") ELSE [type |-> "double", v |-> 0]

\* The number of a field, an enum value or a range: out of range it wraps (a literal that is
\* out of 64 bits reads as 0), but it is an int32 in any case.
parse_int32(m, negative) ==
    LET read == IF m >= 2^Bits64 THEN 0 ELSE m
        word == (IF negative THEN 2^Bits64 - read ELSE read) % 2^Bits32
    IN  IF word >= 2^(Bits32 - 1) THEN word - 2^Bits32 ELSE word

Int32(t) == parse_int32(mag, t[1] # <<>>)

-----------------------------------------------------------------------------
(* The tree                                                                *)

Collect(F(_), es) == FlattenSeq([i \in DOMAIN es |-> F(es[i])])
Each(f, F(_), es) == Collect(LAMBDA e : IF e.node = f THEN <<F(e.kid)>> ELSE <<>>, es)

Value(t) ==
    IF t.node # "number" THEN [type |-> t.node, v |-> 0]
    ELSE interpret_number(IF t.kid[1] = <<>> THEN "" ELSE tokens[t.kid[1][1]], tokens[t.kid[2]])
Option(t) == Value(t[3])
OptionsIn(o) == IF o = <<>> THEN <<>> ELSE [i \in DOMAIN o[1] |-> Option(o[1][i].kid)]
Ranges(t, max) ==
    [i \in 1 .. (1 + Len(t[2])) |->
        LET r == IF i = 1 THEN t[1] ELSE t[2][i - 1]
        IN  <<Int32(r[1]), IF r[2] = <<>> THEN Int32(r[1])
                         ELSE IF r[2][1].node = "max" THEN max ELSE Int32(r[2][1].kid)>>]
Reserved(t, max) == IF t.node = "names" THEN <<>> ELSE Ranges(t.kid, max)

Field(t) ==
    [name |-> t[3], label |-> t[1] # <<>>, number |-> parse_int32(mag, FALSE), options |-> OptionsIn(t[5]),
     group |-> FALSE]
MapField(t) == [name |-> t[3], number |-> parse_int32(mag, FALSE), options |-> OptionsIn(t[5])]

\* A group is a field and a message of the same name.
GroupField(t) ==
    [name |-> t[2], label |-> t[1] # <<>>, number |-> parse_int32(mag, FALSE), options |-> OptionsIn(t[4]),
     group |-> TRUE]

assemble_enum(t) ==
    [name |-> t[3],
     values |-> Each("value", LAMBDA v : [name |-> v[1], number |-> Int32(v[3]), options |-> OptionsIn(v[4])], t[5]),
     options |-> Each("option", Option, t[5]),
     reserved |-> Each("reserved", LAMBDA r : Reserved(r, MaxEnumNumber), t[5])]

\* Fields and groups in the order they are written.
FieldsOf(es) ==
    Collect(LAMBDA e : CASE e.node = "field" -> <<Field(e.kid)>> [] e.node = "group" -> <<GroupField(e.kid)>>
                         [] OTHER -> <<>>, es)

assemble_oneof(t) == [name |-> t[2], fields |-> FieldsOf(t[4]), options |-> Each("option", Option, t[4])]
ExtendNode(t) == [fields |-> FieldsOf(t[2])]

RECURSIVE assemble_message(_, _)

\* Mutant: the groups of a oneof are forgotten.
MessagesOfNoOneof(es) ==
    Collect(LAMBDA e :
        CASE e.node = "message" -> <<assemble_message(e.kid[3], e.kid[4])>>
          [] e.node = "group" -> <<assemble_message(e.kid[2], e.kid[5])>>
          [] e.node = "extend" -> Each("group", LAMBDA g : assemble_message(g[2], g[5]), e.kid[2])
          [] OTHER -> <<>>, es)

\* The messages of a scope: neither a oneof nor an extend is one, the messages of their groups
\* belong to the scope around them.
MessagesOf(es) ==
    Collect(LAMBDA e :
        CASE e.node = "message" -> <<assemble_message(e.kid[3], e.kid[4])>>
          [] e.node = "group" -> <<assemble_message(e.kid[2], e.kid[5])>>
          [] e.node = "oneof" -> Each("group", LAMBDA g : assemble_message(g[2], g[5]), e.kid[4])
          [] e.node = "extend" -> Each("group", LAMBDA g : assemble_message(g[2], g[5]), e.kid[2])
          [] OTHER -> <<>>, es)

assemble_message(name, es) ==
    [name |-> name, fields |-> FieldsOf(es), maps |-> Each("map", MapField, es),
     oneofs |-> Each("oneof", assemble_oneof, es), enums |-> Each("enum", assemble_enum, es),
     messages |-> MessagesOf(es), extends |-> Each("extend", ExtendNode, es),
     reserved |-> Each("reserved", LAMBDA r : Reserved(r, MaxFieldNumber), es),
     extensions |-> Each("extensions", LAMBDA x : [ranges |-> Ranges(x[1], MaxFieldNumber), options |-> OptionsIn(x[2])], es),
     options |-> Each("option", Option, es)]

\* apply_file_element, for every element; the last package wins. Services are dropped.
FileNode(level, es) ==
    [level |-> level, imports |-> Len(Each("import", LAMBDA t : t, es)),
     package |-> LET ps == Each("package", LAMBDA t : t[1], es) IN IF ps = <<>> THEN 0 ELSE ps[Len(ps)][1],
     messages |-> MessagesOf(es), enums |-> Each("enum", assemble_enum, es),
     extends |-> Each("extend", ExtendNode, es), options |-> Each("option", Option, es)]

\* A file that declares nothing is proto2; a declaration that is begun has to be right.
parse_file(in) ==
    LET syntax == Run(Grammar, syntax_decl, in, 1, 0)
        rest == IF syntax.ok THEN syntax.at ELSE 1
        body == Run(Grammar, many(file_element), in, rest, 0)
    IN  IF ~syntax.ok /\ syntax.fatal THEN syntax
        ELSE IF ~body.ok THEN Lift(body, rest - 1)
        ELSE [ok |-> TRUE, at |-> body.at,
              file |-> FileNode(IF syntax.ok THEN syntax.val.node ELSE "proto2", body.val),
              skipped |-> UNION {{l \in 1 .. Len(in) : s[1] <= l /\ l <= s[2]} :
                                    s \in ToSet(Each("service", LAMBDA t : t[3], body.val))}]

-----------------------------------------------------------------------------
(* parse_source                                                            *)

\* Where a token starts, and where the file ends: a token and a blank take Width bytes.
Width == 3
ByteOffset(t) == Width * (t - 1)
SourceSize == Width * Len(tokens)

Parse ==
    /\ phase = "parse"
    /\ parsed' = parse_file(tokens)
    /\ phase' = "report"
    /\ UNCHANGED <<tokens, mag, report>>

\* An index past the last token is the end of the file.
Position(off) == IF off < Len(tokens) THEN ByteOffset(off + 1) ELSE SourceSize

Report ==
    /\ phase = "report"
    /\ report' = IF ~parsed.ok THEN [ok |-> FALSE, byte |-> Position(parsed.off), why |-> parsed.why]
                 ELSE IF parsed.at <= Len(tokens)
                      THEN [ok |-> FALSE, byte |-> ByteOffset(parsed.at), why |-> "trailing"]
                 ELSE [ok |-> TRUE]
    /\ phase' = "done"
    /\ UNCHANGED <<tokens, mag, parsed>>

ParserInit ==
    /\ \E i \in Inputs : tokens = i.tokens /\ mag = i.mag
    /\ phase = "parse" /\ parsed = <<>> /\ report = <<>>

ParserNext == Parse \/ Report
ParserSpec == ParserInit /\ [][ParserNext]_parser_vars

-----------------------------------------------------------------------------
(* The language the comments of parser.cpp describe                        *)

Unlabelled == oneof_field
Labelled == map("field", seq(<<cardinality, type_name, name_token, Number, Options, cut(k(";"))>>))
Starts(K) == {<<x>> : x \in K}
GroupsAreNotFields == {<<l, "group">> : l \in Labels}
VisibleDeclarations == {"export", "local"} \X {"message", "enum"}

\* What the type of a field without a label may not begin with.
NotTypes == {"option", "map", "oneof", "extend", "message", "enum", "group"} \cup Labels

\* CompactOptions = "[" Option { "," Option } "]"
CompactOptions == delimited(k("["), List(compact_option, ","), k("]"))

\* "`option`/`reserved` are matched before a bare value so those keywords aren't mistaken for
\* value names."
EnumElement(keywords) ==
    alt(<<parse_option_decl, map("reserved", parse_reserved), EmptyDecl, but(enum_value_decl, Starts(keywords))>>)

\* The same productions as alternatives in any order, with the ambiguities between declarations
\* and fields whose type is a keyword settled by subtraction: a TypeName is any name, which
\* leaves `extensions` and `reserved.x` for types. Nesting is limited, "a pathologically nested
\* schema fails cleanly instead of overflowing the stack".
Language ==
    [Grammar EXCEPT
        !.compact_options = CompactOptions,
        !.message_element = alt(KeywordLed \o
            <<nt("group"), EmptyDecl, but(Labelled, GroupsAreNotFields),
              but(Unlabelled, Starts(NotTypes) \cup VisibleDeclarations \cup ({"reserved"} \X Names))>>),
        !.oneof_element = refuse(Labels, alt(<<parse_option_decl, nt("group"),
            but(Unlabelled, Starts({"option", "group"}))>>)),
        !.extend_element = alt(<<nt("group"), but(Labelled, GroupsAreNotFields),
            but(Unlabelled, Starts({"group"} \cup Labels))>>),
        !.enum_element = EnumElement({"option", "reserved"})]
File == seq(<<opt(syntax_decl), many(file_element)>>)

(* Where the code is more permissive than that: a list of options may be     *)
(* empty, and `reserved` may be the name of an enum value.                   *)

WithEmptyOptions == [Language EXCEPT !.compact_options = parse_compact_options]
WithReservedValues == [Language EXCEPT !.enum_element = EnumElement({"option"})]
Permitted == [WithEmptyOptions EXCEPT !.enum_element = WithReservedValues.enum_element]

\* The same file without these two: `[]` behind a number is left out, and a name `reserved`
\* that is given a value is replaced by an identifier.
EmptyOptionsAt(t) ==
    /\ t \in 2 .. (Len(tokens) - 1)
    /\ tokens[t - 1] \in {"num", "max"} /\ tokens[t] = "[" /\ tokens[t + 1] = "]"
Rewritten(t) ==
    IF EmptyOptionsAt(t) \/ EmptyOptionsAt(t - 1) THEN <<>>
    ELSE IF tokens[t] = "reserved" /\ t < Len(tokens) /\ tokens[t + 1] = "=" THEN <<"id">>
    ELSE <<tokens[t]>>
InTheLanguage == Derives(Language, File, FlattenSeq([t \in DOMAIN tokens |-> Rewritten(t)]), 0)

Accepted == phase = "done" /\ report.ok

-----------------------------------------------------------------------------
(* Properties                                                              *)

\* The parser accepts the documented language: no order of the alternatives and no `cut` keeps a
\* file out, as long as it is nested one level less than the guard allows (at the last level
\* even a scalar value is too deep: the guard of an aggregate is taken before the token is
\* looked at). And it accepts nothing else, nothing nested deeper either, but for the two
\* departures of Permitted: what it accepts is a file of the language once these are taken out.
AcceptsTheLanguage ==
    phase = "done" =>
        /\ report.ok => InTheLanguage
        /\ Derives(Language, File, tokens, 1) => report.ok

\* How many brackets are open before token t.
OpenAt(t) ==
    Cardinality({l \in 1 .. (t - 1) : tokens[l] \in {"{", "[", "<"}})
    - Cardinality({l \in 1 .. (t - 1) : tokens[l] \in {"}", "]", ">"}})

\* An error is reported at a token up to which the file could still have become one that is
\* accepted, or at its end: never beyond the mistake and never outside the file; and not before the end of
\* a declaration that was still good, unless it is an error of depth, which stands inside as
\* many brackets as the guard allows. (Nested offsets are relative; each combinator lifts those
\* of its parts.)
ErrorsAreWhereTheyAre ==
    (phase = "done" /\ ~report.ok) =>
        \E t \in 1 .. (Len(tokens) + 1) :
            /\ report.byte = Width * (t - 1)
            /\ Viable(Permitted, File, SubSeq(tokens, 1, t - 1))
            /\ IF report.why = "deep" THEN OpenAt(t) >= MaxParseDepth
               ELSE ~\E l \in t .. Len(tokens) :
                        tokens[l] \in {";", "}"} /\ Viable(Permitted, File, SubSeq(tokens, 1, l))

RECURSIVE Within(_)
Within(ms) == ms \o Collect(LAMBDA m : Within(m.messages), ms)

Sum(F(_), s) == FoldSeq(LAMBDA e, n : F(e) + n, 0, s)
Declared(fs) == Sum(LAMBDA f : 1 + Len(f.options), fs)
InEnum(e) == Len(e.options) + Declared(e.values)
InMessage(m) ==
    Declared(m.fields) + Declared(m.maps) + Sum(LAMBDA o : Declared(o.fields) + Len(o.options), m.oneofs)
    + Sum(InEnum, m.enums) + Sum(LAMBDA x : Declared(x.fields), m.extends)
    + Sum(LAMBDA x : Len(x.options), m.extensions) + Len(m.options)
InFile(f) ==
    (IF f.level = "proto2" THEN 0 ELSE 1) + Sum(InMessage, Within(f.messages)) + Sum(InEnum, f.enums)
    + Sum(LAMBDA x : Declared(x.fields), f.extends) + Len(f.options)

\* Nothing that was declared is lost and nothing is there twice: every `=` of the file, outside
\* of services, is the `=` of exactly one field, enum value, option or syntax declaration.
EveryDeclarationKept ==
    Accepted => InFile(parsed.file) = Cardinality({t \in DOMAIN tokens : tokens[t] = "=" /\ t \notin parsed.skipped})

GroupsIn(fs) == SelectSeq(fs, LAMBDA f : f.group)
GroupFields(m) == GroupsIn(m.fields \o Collect(LAMBDA o : o.fields, m.oneofs) \o Collect(LAMBDA x : x.fields, m.extends))

\* The message of a group is in the same scope as its field, found by its name, wherever the
\* field stands: in the message, a oneof of it or an extend in it.
GroupsBesideTheirFields ==
    Accepted =>
        /\ \A m \in ToSet(Within(parsed.file.messages)) : \A f \in ToSet(GroupFields(m)) :
              Cardinality({i \in DOMAIN m.messages : m.messages[i].name = f.name}) = 1
        /\ \A x \in ToSet(parsed.file.extends) : \A f \in ToSet(GroupsIn(x.fields)) :
              Cardinality({i \in DOMAIN parsed.file.messages : parsed.file.messages[i].name = f.name}) = 1

Fits32(n) == -(2^(Bits32 - 1)) <= n /\ n < 2^(Bits32 - 1)
NumbersIn(m) == {f.number : f \in ToSet(m.fields \o m.maps)}
    \cup UNION {UNION {ToSet(r) : r \in ToSet(x)} : x \in ToSet(m.reserved)}
    \cup UNION {{v.number : v \in ToSet(e.values)} : e \in ToSet(m.enums)}
    \cup UNION {UNION {UNION {ToSet(r) : r \in ToSet(x)} : x \in ToSet(e.reserved)} : e \in ToSet(m.enums)}

\* A number that fits is the number that was written, and one that does not fit is still a
\* number of the type: an int32 for fields, values and ranges; for options, the 64-bit integer
\* if it is one and otherwise a double, the most negative integer included.
NumbersAsWritten ==
    Accepted =>
        /\ \A m \in ToSet(Within(parsed.file.messages)) : \A n \in NumbersIn(m) :
              /\ Fits32(n)
              /\ Fits32(mag) => n \in {mag, -mag, MaxFieldNumber, MaxEnumNumber}
              /\ (n = -mag /\ mag \in 1 .. (2^(Bits32 - 1) - 1)) => \E t \in DOMAIN tokens : tokens[t] = "-"
        /\ \A v \in {o \in ToSet(parsed.file.options) : o.type \in {"uint64", "int64"}} :
              /\ v.v \in {mag, -mag}
              /\ v.type = "uint64" => v.v \in 0 .. (2^Bits64 - 1)
              /\ v.type = "int64" => v.v \in -(2^(Bits64 - 1)) .. (2^(Bits64 - 1) - 1)
        /\ \A v \in {o \in ToSet(parsed.file.options) : o.type = "double" /\ o.v # 0} :
              v.v \notin (-(2^(Bits64 - 1)) .. (2^Bits64 - 1))

\* The tree is the file: no declaration is lost or there twice, the message of a group is
\* beside its field, and every number is the one that was written.
TreeIsTheFile == EveryDeclarationKept /\ GroupsBesideTheirFields /\ NumbersAsWritten

-----------------------------------------------------------------------------
(* What comments and documents say of the parser, and the code does not keep. *)

\* parser.cpp:1033, CompactOptions = "[" Option { "," Option } "]": the brackets are not empty.
OptionListsHaveOptions == Accepted => Derives(WithReservedValues, File, tokens, 0)

EnumsOf(f) == f.enums \o Collect(LAMBDA m : m.enums, Within(f.messages))

\* parser.cpp:477, "`option`/`reserved` are matched before a bare value so those keywords aren't
\* mistaken for value names."
KeywordsAreNotValueNames ==
    Accepted =>
        \A e \in ToSet(EnumsOf(parsed.file)) : \A v \in ToSet(e.values) : tokens[v.name] \notin {"option", "reserved"}

\* The language without a limit on nesting.
Unlimited == [Language EXCEPT !.message_literal = @.p, !.list_literal = @.p, !.message_body = @.p]

\* architecture.md:1231, "The schema parser's recursion (over trusted nested .proto
\* declarations) is unbounded": no file is refused for its nesting.
NestingIsUnbounded == phase = "done" /\ Derives(Unlimited, File, tokens, 0) => report.ok

=============================================================================
