----------------------------- MODULE MCSemantics -----------------------------
(* The passes over parsed files: types are resolved, features and options    *)
(* interpreted, C++ names chosen. They share a run: the initial state says    *)
(* which pass it is and what it is given; the others are idle.                *)
EXTENDS TypeResolver, Analyze, Naming

VARIABLE part
vars == <<part, resolve_vars, analyze_vars, naming_vars>>

-----------------------------------------------------------------------------
(* Types: three files, a base, one between that may re-export it, and a user. *)

Ref(abs, path) == [absolute |-> abs, path |-> path]
Field(ref, n) == [scalar |-> FALSE, type |-> ref, number |-> n]
ScalarField(n) == [scalar |-> TRUE, type |-> Ref(FALSE, <<>>), number |-> n]
MapField(ref, ok) == [scalar |-> FALSE, type |-> ref, number |-> 1, integral_key |-> ok]
T(kind, name, parent) ==
    [kind |-> kind, name |-> name, parent |-> parent, fields |-> <<>>, maps |-> <<>>, extends |-> <<>>]
Ext(ref, fields) == [extendee |-> ref, fields |-> fields]
Imp(f, kind) == [file |-> f, kind |-> kind]

Refs == {Ref(FALSE, <<"M">>), Ref(FALSE, <<"N">>), Ref(FALSE, <<"M", "N">>),
         Ref(TRUE, <<"p", "M">>), Ref(TRUE, <<"p", "q", "M">>)}

Base == {[package |-> <<"p">>, imports |-> <<>>, extends |-> x,
          types |-> <<T("message", "M", 0), T("message", "N", 1), T("enum", "E", 1)>>] :
            x \in {<<>>, <<Ext(Ref(FALSE, <<"M">>), <<ScalarField(7)>>)>>}}

Middle ==
    {[package |-> p, imports |-> i, extends |-> <<>>, types |-> t] :
        p \in {<<"p">>, <<"p", "q">>},
        i \in {<<>>, <<Imp(1, "public")>>, <<Imp(1, "standard")>>},
        t \in {<<T("message", "N", 0)>>, <<T("enum", "M", 0)>>}}

Users(f, r) ==
    {<<[T("message", "U", 0) EXCEPT !.fields = <<ScalarField(1), f>>], T("message", "N", 1)>>,
     <<[T("message", "U", 0) EXCEPT !.maps = <<MapField(f.type, TRUE)>>, !.fields = <<f>>],
       [T("message", "V", 1) EXCEPT !.maps = <<MapField(f.type, f.number = 1)>>], T("enum", "V", 1)>>,
     <<[T("message", "U", 0) EXCEPT
          !.extends = <<Ext(r, <<ScalarField(7), f>>)>>], T("message", "V", 1),
       [T("message", "M", 1) EXCEPT !.fields = <<Field(r, 2)>>]>>}

ImportKinds == {"standard", "public", "weak", "option"}

User ==
    {[package |-> p, imports |-> i, extends |-> <<>>, types |-> t] :
        p \in {<<"p", "q">>, <<>>},
        i \in {<<>>, <<Imp(1, "standard")>>} \cup {<<Imp(2, k)>> : k \in ImportKinds}
              \cup {<<Imp(2, "option"), Imp(1, "weak")>>, <<Imp(1, "standard"), Imp(2, "standard")>>},
        t \in UNION {Users(f, r) : f \in {Field(x, 1) : x \in Refs}, r \in Refs}}
    \cup {[package |-> <<"p">>, imports |-> <<Imp(2, "standard"), Imp(1, "standard")>>,
           extends |-> x, types |-> <<>>] :
            x \in UNION {{<<Ext(r, <<ScalarField(7)>>)>>,
                          <<Ext(r, <<ScalarField(8)>>), Ext(r, <<ScalarField(8)>>)>>,
                          <<Ext(r, <<ScalarField(8)>>), Ext(Ref(TRUE, <<"p", "M">>), <<Field(r, 8)>>)>>}
                         : r \in Refs}}

MCImporters == {<<b, m, u>> : b \in Base, m \in Middle, u \in User}

\* A chain of public imports of every length, with side entrances.
ChainFile(i) == [package |-> <<"c">>, imports |-> i, extends |-> <<>>, types |-> <<>>]
Kinds(s) == {<<>>} \cup {<<Imp(f, k)>> : f \in s, k \in {"public", "standard", "option"}}
MCChains ==
    {<<ChainFile(<<>>), ChainFile(a), ChainFile(b \o c), ChainFile(d \o e)>> :
        a \in Kinds({1}), b \in Kinds({1, 2}), c \in Kinds({1, 2}), d \in Kinds({1, 2, 3}), e \in Kinds({1, 2, 3})}
MCFileSets == MCImporters \cup MCChains

-----------------------------------------------------------------------------
(* Features: an imported file, and one that nests a message, a oneof and     *)
(* enums, with options at every level.                                       *)

Set(name, value) == [features |-> TRUE, name |-> name, value |-> value]
Plain(name, value) == [features |-> FALSE, name |-> name, value |-> value]

MCNode(kind, depth, options) ==
    [kind |-> kind, depth |-> depth, options |-> options, type |-> "", label |-> "",
     group |-> FALSE, member |-> FALSE]
FieldNode(depth, options, type, label) ==
    [MCNode("field", depth, options) EXCEPT !.type = type, !.label = label]

Outer == {<<>>, <<Set("field_presence", "implicit"), Set("enum_type", "closed")>>,
          <<Set("repeated_field_encoding", "expanded"), Set("message_encoding", "delimited")>>,
          <<Plain("message_set_wire_format", "true")>>}
Inner == {<<>>, <<Set("field_presence", "required"), Set("enum_type", "closed"),
                  Set("enum_type", "unknown"), Set("enum_type", "open")>>,
          <<Set("enum_type", "open"), Set("field_presence", "explicit"), Set("enum_type", "closed")>>}
Own == {<<>>, <<Plain("packed", "false"), Set("repeated_field_encoding", "packed")>>,
        <<Set("repeated_field_encoding", "expanded"), Plain("packed", "true"), Plain("packed", "false")>>,
        <<Set("field_presence", "implicit"), Set("other", "packed")>>}

FileNodes(outer, inner, f) ==
    <<MCNode("message", 1, outer), [f EXCEPT !.depth = 2],
      MCNode("message", 2, inner), MCNode("enum", 3, <<>>), [f EXCEPT !.depth = 3],
      MCNode("enum", 2, <<>>),
      MCNode("oneof", 2, inner), [FieldNode(3, f.options, f.type, "") EXCEPT !.member = TRUE],
      MCNode("extend", 1, <<>>), [f EXCEPT !.depth = 2, !.group = f.type = "message"],
      MCNode("enum", 1, inner)>>

MCFields == {FieldNode(0, o, t, l) : o \in Own, t \in {"int32", "string", "message", "enum"},
                             l \in {"", "optional", "repeated", "required"}}
MCFile(syntax, edition, options, nodes) ==
    [syntax |-> syntax, edition |-> edition, options |-> options, nodes |-> nodes]

Syntaxes == {<<"proto2", "">>, <<"proto3", "">>, <<"edition", "2023">>}
Imported == {MCFile(s[1], s[2], o, <<FieldNode(1, <<>>, t, "")>>) :
                s \in {<<"proto3", "">>, <<"edition", "2024">>, <<"edition", "2030">>},
                o \in {<<Set("field_presence", "implicit")>>}, t \in {"message", "missing"}}
MCAnalyzed ==
    {<<b, MCFile(s[1], s[2], o, FileNodes(m, i, f))>> :
        b \in {MCFile("edition", "2024", <<Set("field_presence", "implicit")>>, <<FieldNode(1, <<>>, "message", "")>>)},
        s \in Syntaxes, o \in Outer, m \in Outer, i \in Inner, f \in MCFields}
    \cup {<<b, MCFile("edition", e, <<>>, FileNodes(<<>>, <<>>, FieldNode(0, <<>>, t, "")))>> :
            b \in Imported, e \in {"2023", "2030"}, t \in {"int32", "missing"}}

-----------------------------------------------------------------------------
(* Names: three files of packages that C++ may not tell apart, with types    *)
(* whose names clash once they are escaped.                                  *)

N(w, u) == [w |-> w, u |-> u]
Nd(kind, name, parent) == [kind |-> kind, name |-> name, parent |-> parent]
MCWords == <<"EOF", "M", "RP_M", "__x", "_x", "class", "decode", "p", "rapidproto", "rp_x">>

Names == {N("M", 0), N("decode", 0), N("decode", 1), N("decode", 2), N("rp_x", 0), N("rp_x", 1)}
P == N("p", 0)

\* The members of the first type of the first file.
Insides(own) ==
    {<<>>,
     <<Nd("enum", N("decode", 0), 1), Nd("message", N("decode", 1), 1), Nd("field", own, 1)>>,
     <<Nd("field", N("decode", 0), 1), Nd("message", own, 1), Nd("field", Plus(own, 1), 1),
       Nd("enum", N("M", 0), 3), Nd("enum", own, 3)>>}

FirstFiles ==
    {[package |-> <<P>>, nodes |-> <<Nd("message", n, 0)>> \o i \o <<Nd("enum", m, 0)>>] :
        n \in Names, m \in Names, i \in UNION {Insides(x) : x \in Names}}
Sensible(f) ==
    /\ f.nodes[1].name # f.nodes[Len(f.nodes)].name
    /\ Len(f.nodes) = 2 \/ SubSeq(f.nodes, 2, Len(f.nodes) - 1) \in Insides(f.nodes[1].name)
Others(packages, names) ==
    {[package |-> p, nodes |-> <<Nd(k, n, 0), Nd("enum", N("M", 0), 0)>>] :
        p \in packages, n \in names, k \in {"message", "enum"}}
    \cup {[package |-> p, nodes |-> <<>>] : p \in packages}

AllFqns(s) == UNION {{<<i, t>> : t \in DOMAIN s[i].nodes} : i \in DOMAIN s}
Unique(s) ==
    \A x, y \in AllFqns(s) : x # y => NodeFqn(s[x[1]], x[2]) # NodeFqn(s[y[1]], y[2])

MCPackages ==
    {s \in {<<a, b, c>> : a \in {f \in FirstFiles : Sensible(f)},
                          b \in Others({<<P>>, <<P, N("decode", 0)>>}, {N("decode", 1), N("rp_x", 1), N("decode", 0)}),
                          c \in Others({<<P, N("decode", 1), N("rp_x", 0)>>, <<P, N("decode", 1)>>}, {N("rp_x", 0)})} :
        Unique(s)}
OneFile == <<[package |-> <<P>>, nodes |-> <<Nd("message", N("EOF", 0), 0), Nd("field", N("class", 0), 1)>>]>>
MCPrefixes == UNION {[1 .. n -> {N(MCWords[i], u) : i \in DOMAIN MCWords, u \in 0 .. 1}] : n \in 0 .. 2}
MCNamed ==
    {[files |-> f, prefix |-> <<P>>] : f \in MCPackages}
    \cup {[files |-> OneFile, prefix |-> p] : p \in MCPrefixes}

-----------------------------------------------------------------------------
(* The run                                                                   *)

ResolveIdle ==
    /\ phase = "idle" /\ files = <<>> /\ current = 0 /\ work = <<>> /\ m_symbols = <<>>
    /\ imports_left = <<>> /\ closure = <<>> /\ visible = {} /\ extensions = {} /\ bound = {}
    /\ error = ""
AnalyzeIdle ==
    /\ analyzed = <<>> /\ pass = 0 /\ at = 0 /\ pos = 0 /\ scopes = <<>> /\ attr = <<>>
    /\ warnings = <<>> /\ analyze_error = ""
NamingIdle ==
    /\ naming_phase = "idle" /\ prefix = <<P>> /\ named = <<>> /\ run = 0 /\ named_files = 0
    /\ todo = {} /\ blocked = {} /\ taken = <<>> /\ claimed = <<>> /\ unnamed = <<>>
    /\ local = <<>> /\ absolute = <<>> /\ earlier = <<>>

Init ==
    \/ part = "types" /\ ResolveInit /\ AnalyzeIdle /\ NamingIdle
    \/ part = "features" /\ AnalyzeInit /\ ResolveIdle /\ NamingIdle
    \/ part = "names" /\ NamingInit /\ ResolveIdle /\ AnalyzeIdle

Next ==
    /\ UNCHANGED part
    /\ \/ part = "types" /\ ResolveNext /\ UNCHANGED <<analyze_vars, naming_vars>>
       \/ part = "features" /\ AnalyzeNext /\ UNCHANGED <<resolve_vars, naming_vars>>
       \/ part = "names" /\ NamingNext /\ UNCHANGED <<resolve_vars, analyze_vars>>

Spec == Init /\ [][Next]_vars
=============================================================================
