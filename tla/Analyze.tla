------------------------------- MODULE Analyze -------------------------------
(***************************************************************************)
(* analyze() of src/resolve.cpp: the passes that settle how a field is     *)
(* decoded.  The parser gives every field the defaults of its syntax       *)
(* (src/parser.cpp); resolve_features (src/features.cpp) replaces them by  *)
(* the inherited features of an edition, resolve_types corrects them for   *)
(* what a type turns out to be, interpret_options (src/interpret.cpp)      *)
(* applies [packed].  Each pass walks every file; an error ends all.       *)
(*                                                                         *)
(* A file is the list of its nodes in the order of the text, a node inside *)
(* another one level deeper.  The scope a node inherits is a by-value      *)
(* parameter of the recursive walk: `scopes` is the stack of them, the     *)
(* file's first.                                                           *)
(***************************************************************************)
EXTENDS Integers, Sequences, FiniteSets, SequencesExt

CONSTANTS
    AnalyzedSets,       \* candidate file sets, sequences of files in dependency order
    kKnownEditions

VARIABLES
    analyzed,           \* the input
    pass,               \* index into Passes, 4 at the end
    at,                 \* the file under way
    pos,                \* the node under way; 0 before the file is entered
    scopes,             \* the features in force, by depth
    attr,               \* file -> node -> the decode-relevant attributes
    warnings,           \* the messages warned about: <<file, node>>
    analyze_error

analyze_vars == <<analyzed, pass, at, pos, scopes, attr, warnings, analyze_error>>

-----------------------------------------------------------------------------
(* The parser                                                              *)

is_packable_scalar(type) == type = "int32"

default_repeated_encoding(type, syntax) ==
    IF ~is_packable_scalar(type) \/ syntax = "proto2" THEN "expanded" ELSE "packed"

\* build_field, oneof_field, parse_group and assemble_enum: what a node is given at first.
build_field(n, syntax) ==
    [presence |-> IF n.member THEN "explicit"
                  ELSE IF n.label = "required" THEN "required"
                  ELSE IF n.label = "" /\ syntax = "proto3" THEN "implicit" ELSE "explicit",
     repeated_encoding |-> IF n.label = "repeated" THEN default_repeated_encoding(n.type, syntax)
                           ELSE "expanded",
     message_encoding |-> IF n.group THEN "delimited" ELSE "length_prefixed",
     openness |-> IF syntax = "proto2" THEN "closed" ELSE "open"]

-----------------------------------------------------------------------------
(* Features                                                                *)

edition_defaults ==
    [field_presence |-> "explicit", enum_type |-> "open",
     message_encoding |-> "length_prefixed", repeated_field_encoding |-> "packed"]

\* apply_one_feature; a name or a value that is not known changes nothing.
apply_one_feature(f, v, out) ==
    IF f \in DOMAIN out /\ v # "unknown" THEN [out EXCEPT ![f] = v] ELSE out

\* Later options override earlier ones.  The settings of an aggregate are listed one by one.
apply_features(options, out) ==
    LET s == SelectSeq(options, LAMBDA o : o.features)
        r[i \in 0 .. Len(s)] ==
            IF i = 0 THEN out ELSE apply_one_feature(s[i].name, s[i].value, r[i - 1])
    IN  r[Len(s)]

\* resolve_field and resolve_enum of the feature pass, under the scope s of the node itself.
WithFeatures(n, a, s) ==
    IF n.kind = "enum" THEN [a EXCEPT !.openness = s.enum_type]
    ELSE [a EXCEPT
            !.presence = IF n.member THEN @ ELSE s.field_presence,
            !.message_encoding = IF n.group THEN @ ELSE s.message_encoding,
            !.repeated_encoding = IF n.label = "repeated" /\ is_packable_scalar(n.type)
                                  THEN s.repeated_field_encoding ELSE @]

-----------------------------------------------------------------------------
(* Types and options                                                       *)

UserType(n) == n.type \in {"message", "enum"}

\* The corrections of resolve_field of the type pass.
WithType(n, a) ==
    [a EXCEPT
        !.presence = IF n.type = "message" /\ @ = "implicit" THEN "explicit" ELSE @,
        !.repeated_encoding = IF n.label = "repeated" /\ UserType(n) THEN "expanded" ELSE @]

\* find_option: the first plain option of that name.
find_option(options, name) ==
    LET i == {i \in DOMAIN options : ~options[i].features /\ options[i].name = name}
    IN  IF i = {} THEN "" ELSE options[CHOOSE j \in i : \A k \in i : j <= k].value

\* interpret_field, as far as it is about encoding.
WithOptions(n, a) ==
    LET packed == find_option(n.options, "packed")
    IN  IF n.label = "repeated" /\ is_packable_scalar(n.type) /\ packed \in {"true", "false"}
        THEN [a EXCEPT !.repeated_encoding = IF packed = "true" THEN "packed" ELSE "expanded"]
        ELSE a

-----------------------------------------------------------------------------
(* The passes                                                              *)

\* Mutant: the features last.
PassesFeaturesLast == <<"types", "interpret", "features">>

Passes == <<"features", "types", "interpret">>

File == analyzed[at]
Node == File.nodes[pos]
Running(p) == pass <= 3 /\ analyze_error = "" /\ Passes[pass] = p

Inherited(n) == scopes[n.depth]

Refused(f) == f.syntax = "edition" /\ f.edition \notin kKnownEditions

\* resolve_features of a file: an edition without known defaults is refused, and a file
\* that is no edition is passed over.
EnterFeatures ==
    /\ Running("features") /\ pos = 0
    /\ IF Refused(File)
       THEN analyze_error' = "unknown edition" /\ UNCHANGED <<pos, scopes>>
       ELSE /\ pos' = IF File.syntax = "edition" THEN 1 ELSE Len(File.nodes) + 1
            /\ scopes' = <<apply_features(File.options, edition_defaults)>>
            /\ UNCHANGED analyze_error
    /\ UNCHANGED <<analyzed, pass, at, attr, warnings>>

EnterOther ==
    /\ pass <= 3 /\ analyze_error = "" /\ Passes[pass] # "features" /\ pos = 0
    /\ pos' = 1
    /\ UNCHANGED <<analyzed, pass, at, scopes, attr, warnings, analyze_error>>

HasNode == pos > 0 /\ pos <= Len(File.nodes)
Visit(a) == attr' = [attr EXCEPT ![at][pos] = a] /\ pos' = pos + 1

\* A node of the feature pass: its own scope, its attributes.
VisitFeatures ==
    /\ Running("features") /\ HasNode
    /\ LET own == apply_features(Node.options, Inherited(Node))
       IN  /\ scopes' = Append(SubSeq(scopes, 1, Node.depth), own)
           /\ Visit(IF Node.kind \in {"field", "enum"} THEN WithFeatures(Node, attr[at][pos], own)
                    ELSE attr[at][pos])
    /\ UNCHANGED <<analyzed, pass, at, warnings, analyze_error>>

\* A node of the type pass; a type without a meaning ends the analysis.
VisitTypes ==
    /\ Running("types") /\ HasNode
    /\ IF Node.kind = "field" /\ Node.type = "missing"
       THEN analyze_error' = "unresolved type" /\ UNCHANGED <<attr, pos>>
       ELSE /\ Visit(IF Node.kind = "field" THEN WithType(Node, attr[at][pos]) ELSE attr[at][pos])
            /\ UNCHANGED analyze_error
    /\ UNCHANGED <<analyzed, pass, at, scopes, warnings>>

\* interpret_message and interpret_field: a MessageSet is warned about.
VisitOptions ==
    /\ Running("interpret") /\ HasNode
    /\ Visit(IF Node.kind = "field" THEN WithOptions(Node, attr[at][pos]) ELSE attr[at][pos])
    /\ warnings' = IF Node.kind = "message"
                      /\ find_option(Node.options, "message_set_wire_format") = "true"
                   THEN Append(warnings, <<at, pos>>) ELSE warnings
    /\ UNCHANGED <<analyzed, pass, at, scopes, analyze_error>>

\* The next file, the next pass, or the end of analyze().
Advance ==
    /\ pass <= 3 /\ analyze_error = "" /\ pos > Len(File.nodes)
    /\ pos' = 0
    /\ IF at < Len(analyzed) THEN at' = at + 1 /\ UNCHANGED pass ELSE at' = 1 /\ pass' = pass + 1
    /\ UNCHANGED <<analyzed, scopes, attr, warnings, analyze_error>>

AnalyzeInit ==
    /\ analyzed \in AnalyzedSets
    /\ pass = 1 /\ at = 1 /\ pos = 0 /\ scopes = <<>> /\ warnings = <<>> /\ analyze_error = ""
    /\ attr = [f \in DOMAIN analyzed |-> [n \in DOMAIN analyzed[f].nodes |->
                    build_field(analyzed[f].nodes[n], analyzed[f].syntax)]]

AnalyzeNext == EnterFeatures \/ EnterOther \/ VisitFeatures \/ VisitTypes \/ VisitOptions \/ Advance

AnalyzeSpec == AnalyzeInit /\ [][AnalyzeNext]_analyze_vars

Succeeded == pass = 4

-----------------------------------------------------------------------------
(* Properties                                                              *)

\* The nodes around node n of file f, outermost first, and n itself.
Ancestry(f, n) ==
    LET nodes == analyzed[f].nodes
        around == {m \in 1 .. n : m = n \/ (nodes[m].depth < nodes[n].depth
                       /\ \A k \in (m + 1) .. n : nodes[k].depth > nodes[m].depth)}
    IN  SetToSortSeq(around, <)

\* The options that can set a feature of node n: of the file, and of the nodes around it.
Chain(f, n) ==
    LET a == Ancestry(f, n)
    IN  analyzed[f].options \o FlattenSeq([i \in DOMAIN a |-> analyzed[f].nodes[a[i]].options])

\* Reference: the innermost, last setting of the feature around the node.
Feature(f, n, name, default) ==
    LET s == SelectSeq(Chain(f, n), LAMBDA o : o.features /\ o.name = name /\ o.value # "unknown")
    IN  IF s = <<>> THEN default ELSE Last(s).value

Kind(f, n) == analyzed[f].nodes[n].kind
NodesOf(kind) == {x \in UNION {{<<f, n>> : n \in DOMAIN analyzed[f].nodes} : f \in DOMAIN analyzed} :
                    Kind(x[1], x[2]) = kind}

PresenceOf(f, n) ==
    LET d == analyzed[f].nodes[n]
        edition == analyzed[f].syntax = "edition"
        declared == IF edition THEN Feature(f, n, "field_presence", "explicit")
                    ELSE IF d.label = "required" THEN "required"
                    ELSE IF analyzed[f].syntax = "proto3" /\ d.label = "" THEN "implicit" ELSE "explicit"
    IN  IF d.member \/ (d.type = "message" /\ declared = "implicit") THEN "explicit" ELSE declared

EncodingOf(f, n) ==
    LET d == analyzed[f].nodes[n]
        packed == SelectSeq(d.options, LAMBDA o : ~o.features /\ o.name = "packed")
    IN  IF d.label # "repeated" \/ d.type # "int32" THEN "expanded"
        ELSE IF packed # <<>> THEN IF packed[1].value = "true" THEN "packed" ELSE "expanded"
        ELSE IF analyzed[f].syntax = "edition" THEN Feature(f, n, "repeated_field_encoding", "packed")
        ELSE IF analyzed[f].syntax = "proto3" THEN "packed" ELSE "expanded"

\* After the three passes a field is decoded as it is declared: presence and encoding follow
\* from the label, the syntax, the innermost feature, the type and [packed], in the priority
\* protobuf gives them, whichever pass found out what.
FieldsAsDeclared ==
    Succeeded => \A x \in NodesOf("field") :
        LET a == attr[x[1]][x[2]]
            d == analyzed[x[1]].nodes[x[2]]
        IN  /\ a.presence = PresenceOf(x[1], x[2])
            /\ a.repeated_encoding = EncodingOf(x[1], x[2])
            /\ a.message_encoding =
                 IF d.group THEN "delimited"
                 ELSE IF analyzed[x[1]].syntax = "edition"
                 THEN Feature(x[1], x[2], "message_encoding", "length_prefixed") ELSE "length_prefixed"

\* A feature reaches the enums inside the node it is set on, and nothing beside it.
EnumsAsDeclared ==
    Succeeded => \A x \in NodesOf("enum") :
        attr[x[1]][x[2]].openness =
            IF analyzed[x[1]].syntax = "edition" THEN Feature(x[1], x[2], "enum_type", "open")
            ELSE IF analyzed[x[1]].syntax = "proto2" THEN "closed" ELSE "open"

\* No file is decoded by the defaults of another edition: analysis succeeds only if every
\* file of the set, imported or not, has a syntax or an edition that is known; and it fails
\* for no reason but that or a type without a meaning.
EditionsKnown ==
    /\ Succeeded => \A f \in DOMAIN analyzed :
                        analyzed[f].syntax = "edition" => analyzed[f].edition \in kKnownEditions
    /\ analyze_error # "" => (\E f \in DOMAIN analyzed : analyzed[f].edition \notin kKnownEditions \cup {""})
                     \/ (\E x \in NodesOf("field") : analyzed[x[1]].nodes[x[2]].type = "missing")

\* What analyze() leaves for the generators is what the files declare: presence and encodings
\* of the fields, openness of the enums, and no file of an unknown edition among them.
AttributesAsDeclared == FieldsAsDeclared /\ EnumsAsDeclared /\ EditionsKnown
=============================================================================
