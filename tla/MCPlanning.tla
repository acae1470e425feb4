----------------------------- MODULE MCPlanning -----------------------------
(* The plan of the arena decoders: the modes of the fields, the layout of the *)
(* messages, the budget for what is decoded in line. The passes share a run:  *)
(* the initial state says which of them it is and what it is given; the      *)
(* others are idle. Termination is checked on instances of their own ("deep", *)
(* "walk"), which are small.                                                  *)
EXTENDS Layout, FlattenBudget, FieldModes

VARIABLE part
vars == <<part, layout_vars, flatten_vars, modes_vars>>

-----------------------------------------------------------------------------
(* Layout: three messages, each of one of a list of shapes over references   *)
(* to all.                                                                   *)

F(num, type) == [num |-> num, type |-> type, rep |-> FALSE, presence |-> "explicit",
                 mode |-> "materialize", key |-> "", oneof |-> 0]

ShapesOver(x) ==
    {<<F(1, x)>>,
     <<F(2, "int32"), [F(1, x) EXCEPT !.presence = "required"]>>,
     <<F(1, "bool"), F(2, "bool"), F(3, x), F(4, "int64")>>,
     <<F(1, "bool"), [F(2, x) EXCEPT !.rep = TRUE]>>,
     <<F(1, "enum"), [F(2, x) EXCEPT !.mode = "raw"], [F(3, x) EXCEPT !.mode = "drop"]>>,
     <<F(1, "int64"), [F(2, x) EXCEPT !.key = "bool"]>>,
     <<F(1, "int32"), F(2, "int64"), [F(3, "string") EXCEPT !.oneof = 1],
       [F(4, "int64") EXCEPT !.oneof = 1], [F(5, x) EXCEPT !.oneof = 1],
       [F(6, "bool") EXCEPT !.oneof = 2]>>}
Leaves ==
    {<<>>, <<F(1, "int32"), [F(2, "string") EXCEPT !.oneof = 1], [F(3, "int64") EXCEPT !.oneof = 1]>>,
     <<F(1, "int64"), F(2, "bool")>>, <<F(1, "int64"), F(2, "int64"), F(3, "int32")>>,
     <<F(9, "string"), [F(2, "int32") EXCEPT !.presence = "implicit"]>>,
     \* more flags than a byte, and than a word of kBitsPerWord 16
     <<F(1, "bool"), F(2, "bool"), F(3, "bool"), F(4, "bool"), F(5, "enum")>>,
     [i \in 1 .. 9 |-> F(i, IF i = 9 THEN "enum" ELSE "bool")]}
Three == {"A", "B", "C"}

\* A shape with the oneofs of its members, and shapes with oneofs that have none: before and
\* after one that has, and alone.
Declared(items, more) ==
    [items |-> items, oneofs |-> Max({0} \cup {items[i].oneof : i \in DOMAIN items}) + more]
Shapes ==
    {Declared(s, 0) : s \in Leaves \cup UNION {ShapesOver(x) : x \in Three}}
    \cup {Declared(<<>>, 1), Declared(<<F(1, "int64"), [F(2, "bool") EXCEPT !.oneof = 2]>>, 1)}

MCMessages == {"A", "B", "C", "D", "E"}
MCSchemas ==
    {[order |-> <<"A", "B", "C">>,
      items |-> [m \in Messages |-> IF m \in Three THEN s[m].items ELSE <<>>],
      oneofs |-> [m \in Messages |-> IF m \in Three THEN s[m].oneofs ELSE 0],
      unknown |-> u] : s \in [Three -> Shapes], u \in {{}, {"B"}}}

\* Chains and cycles of five messages, longer than the cap on the depth.
After(m) == CASE m = "A" -> "B" [] m = "B" -> "C" [] m = "C" -> "D" [] m = "D" -> "E" [] m = "E" -> "A"
LongSchemas ==
    {[order |-> <<"A", "B", "C", "D", "E">>,
      items |-> [m \in Messages |-> IF m \in leaves THEN <<>> ELSE <<F(1, After(m)), F(2, to)>>],
      oneofs |-> [m \in Messages |-> 0], unknown |-> {}] : leaves \in SUBSET Messages, to \in Three}
MCAllSchemas == MCSchemas \cup LongSchemas

-----------------------------------------------------------------------------
(* Flattening: three messages of up to three members over each other; the    *)
(* budget is below, at and above the costs, and the sums pass the largest    *)
(* size.                                                                     *)

Member(kind, target) == [kind |-> kind, target |-> target]
Enum == 0

MCShapes ==
    {<<>>, <<Member("scalar", Enum)>>, <<Member("scalar", Enum), Member("repeated", Enum), Member("oneof", Enum)>>}
    \cup UNION {{<<Member("pointer", x)>>, <<Member("inline", x), Member("raw", y)>>,
                 <<Member("oneof", x), Member("repeated", y)>>, <<Member("map", x), Member("pointer", y), Member("map", x)>>}
                : <<x, y>> \in {<<a, b>> \in Indices \X Indices : b \in {a, 1}}}
MCFlattens == {[members |-> m, budget |-> b] : m \in [Indices -> MCShapes], b \in {2, 4, 8}}
FewShapes == {<<>>} \cup {<<Member("pointer", x), Member("map", y)>> : x \in Indices, y \in Indices}
FewFlattens == {[members |-> m, budget |-> b] : m \in [Indices -> FewShapes], b \in {0, 2}}
MCAllFlattens == MCFlattens \cup FewFlattens

-----------------------------------------------------------------------------
(* Modes: a message with a field of every kind, and profiles of up to three  *)
(* lines.                                                                    *)

Fd(type, kind, required) == [parent |-> "A", type |-> type, kind |-> kind, required |-> required]
MCFields ==
    [f \in {"A.b", "A.r", "A.o", "A.m", "A.e", "A.s"} |->
        CASE f = "A.b" -> Fd("B", "field", FALSE) [] f = "A.r" -> Fd("B", "field", TRUE)
          [] f = "A.o" -> Fd("B", "oneof", FALSE) [] f = "A.m" -> Fd("B", "map", FALSE)
          [] f = "A.e" -> Fd("E", "field", FALSE) [] f = "A.s" -> Fd("int32", "field", FALSE)]

L(directive, fqn) ==
    [directive |-> directive, arg |-> [dot |-> TRUE, fqn |-> fqn], single |-> TRUE, identifier |-> TRUE]
NoDot(l) == [l EXCEPT !.arg.dot = FALSE]
MCLines ==
    {L(d, n) : d \in {"drop", "raw"}, n \in {"A.b", "A.r", "A.o", "A.m", "A.s", "B", "E", "X"}}
    \cup {NoDot(L("drop", "A.b")), NoDot(L("raw", "A.b")), NoDot(L("drop", "B")), L("drop", "A")}
    \cup {L("unknown-fields", "A"), NoDot(L("unknown-fields", "A")), L("unknown-fields", "E"),
          L("unknown-fields", "A.b"), L("keep", "A"), L("name", "p"), L("name", "q"), L("drop", ""),
          [L("name", "1") EXCEPT !.identifier = FALSE], [L("drop", "B") EXCEPT !.single = FALSE]}
MCProfiles ==
    {[lines |-> s, unknown_all |-> a] :
        s \in UNION {[1 .. n -> MCLines] : n \in 0 .. 3}, a \in BOOLEAN}

-----------------------------------------------------------------------------
(* The run                                                                   *)

LayoutIdle ==
    /\ schema = [order |-> <<>>, items |-> <<>>, oneofs |-> <<>>, unknown |-> {}]
    /\ walked = 0 /\ stack = <<>> /\ m_memo = <<>>
FlattenIdle ==
    /\ input = [members |-> [m \in Indices |-> <<>>], budget |-> 0]
    /\ root = 0 /\ walk = <<>> /\ seen = <<>> /\ flatten_cost = <<>>
    /\ noinline_decode = [m \in Indices |-> FALSE]
ModesIdle ==
    /\ phase = "idle" /\ given = <<>> /\ line_no = 0 /\ spec = <<>> /\ entry = 0 /\ sel = <<>>
    /\ modes = <<>> /\ unknown = 0 /\ unknown_messages = {} /\ unknown_lines = <<>>
    /\ profile = <<>> /\ error = ""

Init ==
    \/ LayoutInit /\ FlattenIdle /\ ModesIdle
       /\ part = IF Len(schema.order) > kMaxChainDepth THEN "deep" ELSE "layout"
    \/ FlattenInit /\ LayoutIdle /\ ModesIdle
       /\ part = IF input \in FewFlattens THEN "walk" ELSE "flatten"
    \/ ModesInit /\ LayoutIdle /\ FlattenIdle /\ part = "modes"

Next ==
    /\ UNCHANGED part
    /\ \/ part \in {"layout", "deep"} /\ LayoutNext /\ UNCHANGED <<flatten_vars, modes_vars>>
       \/ part \in {"flatten", "walk"} /\ FlattenNext /\ UNCHANGED <<layout_vars, modes_vars>>
       \/ part = "modes" /\ ModesNext /\ UNCHANGED <<layout_vars, flatten_vars>>

\* A call keeps running until it returns.
Spec == Init /\ [][Next]_vars /\ WF_vars(part \in {"deep", "walk"} /\ Next)

\* Both passes end with every message planned and settled: layout_for and compute, which call
\* each other, whatever cycles the references form and wherever the cap on the depth cuts a
\* chain of them; apply_flatten_budget although its stack holds a message several times.
PassesEnd ==
    /\ part = "deep" => EveryMessagePlanned
    /\ part = "walk" => EverySettled
=============================================================================
