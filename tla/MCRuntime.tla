----------------------------- MODULE MCRuntime -----------------------------
(* The runtime that generated decoders are built on: the arena, called in any *)
(* order, and the wire readers, on any bytes. The two share a run: the        *)
(* initial state says which of them is used, and on what; the other is idle.  *)
EXTENDS Arena, WireDecode

VARIABLE part
vars == <<part, arena_vars, wire_vars>>

-----------------------------------------------------------------------------
(* The arena: a 7-bit size_t, chunks of 4 to 8 bytes.                        *)

MCTypes == {[size |-> 2, align |-> 1], [size |-> 4, align |-> 4]}
\* 2: more than the default chunk; 33 and 65: n * sizeof(T) just past the 7-bit
\* word; 127: SIZE_MAX.
MCCounts == {0, 2, 33, 65, 127}
\* No seed; a seed too small to adopt; an aligned one; a misaligned one.
MCSeeds == {[base |-> 0, size |-> 0], [base |-> 4, size |-> 4],
            [base |-> 4, size |-> 8], [base |-> 3, size |-> 8]}
\* 12 touches the end of the aligned seed, 24 that of a 12-byte chunk at 12; 41 is
\* misaligned.
MCHost == {12, 24, 41}
MCCaps == {20, 127}

-----------------------------------------------------------------------------
(* The readers: every buffer of a few bytes over two alphabets of real byte  *)
(* values: one of groups, where 11/12 and 19/20 start and end the groups 1   *)
(* and 2 and 10 is a length-delimited field 1; and one of edges, where 8 is  *)
(* a varint tag of field 1 and a length, 9 and 13 are fixed fields, 14 has a *)
(* reserved wire type, 127, 128 and 255 are the ends of a byte of a varint.  *)

CONSTANTS GroupBytes, MaxGroupBytes, EdgeBytes, MaxEdgeBytes

MCInputs == UNION ({[1 .. n -> GroupBytes] : n \in 0 .. MaxGroupBytes}
                   \cup {[1 .. n -> EdgeBytes] : n \in 0 .. MaxEdgeBytes})

-----------------------------------------------------------------------------
(* The run                                                                   *)

ArenaIdle ==
    /\ m_cur = 0 /\ m_limit = 0 /\ chunks = <<>> /\ m_cursor = 0
    /\ m_used = 0 /\ m_reserved = 0 /\ m_next_chunk = kDefaultChunk /\ m_cap = SizeMax
    /\ live = {}
WireIdle ==
    /\ input = <<>> /\ rp_c = 0 /\ value_start = 0 /\ egroup_tag = 0
    /\ tag = [field |-> 0, wire |-> Varint] /\ scan = <<>> /\ out = <<>> /\ pending = FALSE
    /\ status = Success

Init ==
    \/ part = "arena" /\ ArenaInit /\ WireIdle
    \/ part = "wire" /\ WireInit /\ ArenaIdle

Next ==
    /\ UNCHANGED part
    /\ \/ part = "arena" /\ ArenaNext /\ UNCHANGED wire_vars
       \/ part = "wire" /\ WireNext /\ UNCHANGED arena_vars

\* A decode is a sequential call: it takes its next step until it returns. The arena is
\* called or not.
Spec == Init /\ [][Next]_vars /\ WF_vars(part = "wire" /\ Next)
=============================================================================
