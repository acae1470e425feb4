--------------------------- MODULE MCArenaDecode ----------------------------
(* A decode into an arena: the decoders emitted for three messages, the       *)
(* kernels that fill their packed arrays, and one arena reused by decode      *)
(* after decode. The three share a run: the initial state says which of them  *)
(* is at work, and on what; the others are idle.                              *)
EXTENDS ArenaDecodeRefines, ArenaReuse, PackedVarints

VARIABLE part
vars == <<part, decode_vars, reuse_vars, packed_vars>>

---------------------------------------------------------------------------
(* The emitted decoders: message A for the growable arrays, C for singular *)
(* fields, oneofs, maps and modes, G for required fields.                  *)

CONSTANTS v1, v2

MCWidth == [v \in {v1, v2, Bad} |-> IF v = v2 THEN 2 ELSE 1]

F(kind, wire, type) ==
    [kind |-> kind, wire |-> wire, type |-> type, oneof |-> 0, required |-> 0, bit |-> FALSE]
R(num, wire, val) == [num |-> num, wire |-> wire, val |-> val]

\* message A { repeated uint32 e = 1; repeated fixed32 x = 2; repeated B m = 3; }
\* message B { repeated uint32 e = 1; }
\* message C { required uint32 s = 1; C self = 2; group in = 3; oneof o { uint32 a = 4; D b = 5; }
\*             map<uint32, D> m = 6; D raw = 7; D gone = 8; repeated D raws = 9; }
\* with 7 and 9 raw, 8 dropped; the inner body of the group has the fields of D
\* message D { uint32 s = 1; }
\* message G { required uint32 b = 2; required D a = 1; required uint32 c = 3; }
MCSchema ==
    [A |-> [f \in 1 .. 3 |-> CASE f = 1 -> F("elements", "Varint", Absent)
                               [] f = 2 -> F("elements", "I32", Absent)
                               [] f = 3 -> F("messages", "Len", "B")],
     B |-> [f \in {1} |-> F("elements", "Varint", Absent)],
     C |-> [f \in 1 .. 9 |->
              CASE f = 1 -> [F("scalar", "Varint", Absent) EXCEPT !.required = 1, !.bit = TRUE]
                [] f = 2 -> F("pointer", "Len", "C")
                [] f = 3 -> [F("inline", "SGroup", "D") EXCEPT !.bit = TRUE]
                [] f = 4 -> [F("scalar", "Varint", Absent) EXCEPT !.oneof = 4]
                [] f = 5 -> [F("pointer", "Len", "D") EXCEPT !.oneof = 4]
                [] f = 6 -> F("map", "Len", "E")
                [] f = 7 -> F("raw", "Len", "D")
                [] f = 8 -> F("dropped", "Len", "D")
                [] f = 9 -> F("raws", "Len", "D")],
     E |-> [f \in 1 .. 2 |-> IF f = 1 THEN F("scalar", "Varint", Absent)
                             ELSE F("pointer", "Len", "D")],
     D |-> [f \in {1} |-> [F("scalar", "Varint", Absent) EXCEPT !.bit = TRUE]],
     G |-> [f \in 1 .. 3 |->
              CASE f = 1 -> [F("inline", "Len", "D") EXCEPT !.required = 2, !.bit = TRUE]
                [] f = 2 -> [F("scalar", "Varint", Absent) EXCEPT !.required = 1, !.bit = TRUE]
                [] f = 3 -> [F("scalar", "Varint", Absent) EXCEPT !.required = 3, !.bit = TRUE]]]

Spans == {<<>>, <<v1>>, <<v1, v2>>, <<v2, v2, v1>>}
InB == {<<>>, <<R(1, "Varint", v1)>>, <<R(1, "Len", <<v1, v2>>)>>,
        <<R(1, "Len", <<v2>>), R(1, "Varint", v1)>>}
ArrayRecords ==
    {R(1, "Varint", v1), R(1, "Len", <<v1, Bad>>), R(2, "I32", v2), R(2, "Len", <<v1, v2>>),
     R(2, "Len", <<v2, Bad>>)}
    \cup {R(1, "Len", s) : s \in Spans} \cup {R(3, "Len", b) : b \in InB}
ArrayInputs == UNION {[1 .. k -> ArrayRecords] : k \in 0 .. 4}

InD == {<<>>, <<R(1, "Varint", v1)>>, <<R(1, "Varint", v1), R(1, "Varint", v2)>>}
FieldRecords ==
    {R(1, "Varint", v1), R(1, "Varint", v2), R(1, "I32", v1), R(1, Bad, v1),
     R(2, "Len", <<>>), R(2, "Len", <<R(1, "Varint", v1)>>), R(2, "Len", Bad),
     R(2, "Len", <<R(1, "Varint", v1), R(2, "Len", <<R(1, "Varint", v2)>>)>>),
     R(2, "Len", <<R(1, "Varint", v1), R(2, "Len", <<R(2, "Len", <<>>)>>)>>),
     R(4, "Varint", v1), R(8, "Len", <<>>), R(8, "Len", Bad), R(10, "Varint", v1),
     R(6, "Len", <<R(1, "Varint", v1), R(2, "Len", <<>>)>>),
     R(6, "Len", <<R(2, "Len", <<>>), R(10, "Varint", v2), R(2, "Len", <<>>)>>),
     R(6, "Len", <<R(1, "Varint", v1), R(1, "Varint", v2)>>)}
    \cup {R(f, "Len", <<R(1, "Varint", v1)>>) : f \in {5, 7, 9}}
    \cup {R(3, "SGroup", b) : b \in InD} \cup {R(3, "Len", <<>>), R(5, "Len", <<>>)}
FieldInputs == UNION {[1 .. k -> FieldRecords] : k \in 0 .. 3}

RequiredRecords == {R(1, "Len", <<>>), R(1, "Varint", v1), R(2, "Varint", v1), R(3, "Varint", v1)}
RequiredInputs == UNION {[1 .. k -> RequiredRecords] : k \in 0 .. 3}

\* The sub-messages and entries met in these bodies are made of records of their own.
MCRecords ==
    [A |-> ArrayRecords, B |-> UNION {ToSet(b) : b \in InB},
     C |-> FieldRecords \cup {R(2, "Len", <<R(1, "Varint", v2)>>), R(2, "Len", <<R(2, "Len", <<>>)>>)},
     D |-> UNION {ToSet(b) : b \in InD},
     E |-> {R(1, "Varint", v1), R(1, "Varint", v2), R(2, "Len", <<>>), R(10, "Varint", v2)},
     G |-> RequiredRecords]

MCInputs == [A |-> ArrayInputs, C |-> FieldInputs, G |-> RequiredInputs]

---------------------------------------------------------------------------
(* The reused arena: four workloads over chunks of 8, 16 and 32 bytes.     *)

Alloc(bytes, align, keep) == [bytes |-> bytes, align |-> align, keep |-> keep]

MCDecodes == {
    \* a small tree, then a request larger than the chunk grown for it
    <<Alloc(4, 4, 4), Alloc(6, 2, 6), Alloc(40, 4, 40)>>,
    \* a packed array trimmed to a third, then small nodes
    <<Alloc(24, 4, 8), Alloc(4, 4, 4), Alloc(12, 4, 12)>>,
    \* many small requests that fill several chunks
    <<Alloc(6, 2, 6)>> \o [i \in 1 .. 5 |-> Alloc(8, 4, 8)],
    \* one request larger than kMaxChunk after one that fits the head
    <<Alloc(8, 4, 4), Alloc(60, 4, 60), Alloc(8, 4, 8)>>}

MCHost == {64 * i : i \in 2 .. 61}

\* Arena() and an arena on a 12-byte buffer.
MCSeeds == {[base |-> 0, size |-> 0], [base |-> 64, size |-> 12]}

---------------------------------------------------------------------------
(* Packed spans made of runs: a run is a kind of varint repeated. The kinds *)
(* are the widths 1 to 10, 11 for an overlong one and 12 for a ten-byte     *)
(* varint whose last byte overflows the word. Lanes differ so that a value  *)
(* assembled from the wrong bytes is a wrong value. A span may lack its     *)
(* last byte.                                                               *)

CONSTANTS Kinds, RunLengths, MaxRuns, MaxSpan

Bytes(kind) == IF kind = 12 THEN 10 ELSE kind

Encoded(kind) ==
    [i \in 1 .. Bytes(kind) |->
        IF i < Bytes(kind) THEN Radix + ((3 * i + kind) % Radix)
        ELSE IF kind = 12 THEN 2 ELSE 1]

Runs == {FlattenSeq([i \in 1 .. r |-> Encoded(k)]) : k \in Kinds, r \in RunLengths}

MCSpans ==
    LET whole == {s \in {FlattenSeq(f) : f \in UNION {[1 .. m -> Runs] : m \in 1 .. MaxRuns}} :
                    Len(s) <= MaxSpan}
    IN  whole \cup {Front(s) : s \in whole}

---------------------------------------------------------------------------
(* The run                                                                 *)

\* decode() of an empty A, not yet called.
DecodeIdle == input = [type |-> "A", body |-> <<>>] /\ stack = <<>> /\ mem = <<>> /\ result = Pending
ReuseIdle ==
    /\ m_cur = 0 /\ m_limit = 0 /\ chunks = <<>> /\ m_cursor = 0
    /\ m_used = 0 /\ m_reserved = 0 /\ m_next_chunk = kDefaultChunk /\ m_cap = SizeMax
    /\ live = {} /\ decode = <<>> /\ step = 0 /\ untrimmed = FALSE /\ previous = <<>>
PackedIdle ==
    /\ span = <<>> /\ q = 0 /\ q_start = 0 /\ kern = "Done" /\ width = 0 /\ t = {} /\ start = 0
    /\ n = 0 /\ out = <<>> /\ err = None /\ fail_off = 0 /\ read_to = 0

Init ==
    \/ part = "decode" /\ DecodeInit /\ ReuseIdle /\ PackedIdle
    \/ part = "reuse" /\ ReuseInit /\ DecodeIdle /\ PackedIdle
    \/ part = "packed" /\ PackedInit /\ DecodeIdle /\ ReuseIdle

Next ==
    /\ UNCHANGED part
    /\ \/ part = "decode" /\ DecodeNext /\ UNCHANGED <<reuse_vars, packed_vars>>
       \/ part = "reuse" /\ ReuseNext /\ UNCHANGED <<decode_vars, packed_vars>>
       \/ part = "packed" /\ PackedNext /\ UNCHANGED <<decode_vars, reuse_vars>>

\* The decode of a packed span is a sequential call: it takes its next step until it
\* returns.
Spec == Init /\ [][Next]_vars /\ WF_vars(part = "packed" /\ Next)
============================================================================
