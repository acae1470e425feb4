------------------------- MODULE MessageSemantics --------------------------
(***************************************************************************)
(* What an arena decode promises: the message that a body stands for, or   *)
(* the first thing wrong with it.  Stated per field from the whole body,   *)
(* without arrays, capacities, bits or a cursor.                           *)
(***************************************************************************)
EXTENDS MessageSchema, FiniteSetsExt

CONSTANTS Pending, NoError

VARIABLES input, result

vars == <<input, result>>

Error(code, num) == [code |-> code, num |-> num]

\* The records of body b that belong to field n.
Occurrences(t, n, b) == SelectSeq(b, LAMBDA r : Belongs(t, n, r))

\* The last record of body b that belongs to one of the fields ns, Absent if none.
LastOf(t, ns, b) ==
    LET is == {i \in DOMAIN b : \E n \in ns : Belongs(t, n, b[i])}
    IN  IF is = {} THEN Absent ELSE b[Max(is)]

\* The fields that share the member of field n.
Sharing(t, n) == {m \in DOMAIN Schema[t] : Storage(t, m) = Storage(t, n)}

RECURSIVE Meaning(_, _)

\* The value of one occurrence of a field.  Map entries do not tell unknown fields.
ValueOf(f, r) ==
    IF f.kind = "map" THEN [Meaning(f.type, r.val) EXCEPT !.unknown = FALSE]
    ELSE IF f.kind \in MessageKinds THEN Meaning(f.type, r.val)
    ELSE r.val

\* Singular fields and oneofs keep the last occurrence, repeated ones all elements in
\* order, packed or not, and maps all entries.
MemberValue(t, n, b) ==
    LET f == Schema[t][n]
        occ == Occurrences(t, n, b)
        last == LastOf(t, Sharing(t, n), b)
    IN  IF f.kind = "elements"
        THEN FlattenSeq([i \in DOMAIN occ |->
                            IF TakesPacked(f, occ[i]) THEN occ[i].val ELSE <<occ[i].val>>])
        ELSE IF f.kind \in RepeatedKinds
        THEN [i \in DOMAIN occ |-> ValueOf(f, occ[i])]
        ELSE IF last = Absent THEN Absent
        ELSE <<last.num, ValueOf(Schema[t][last.num], last)>>

\* has: the bits an accessor reads; unknown: the record of some number not in the schema.
Meaning(t, b) ==
    [val |-> [n \in Members(t) |-> MemberValue(t, n, b)],
     has |-> {n \in DOMAIN Schema[t] : Schema[t][n].bit /\ Occurrences(t, n, b) # <<>>},
     unknown |-> \E i \in DOMAIN b : ~Known(t, b[i])]

-----------------------------------------------------------------------------

\* Record i gives a sub-message a second time while the message still holds the
\* first: protobuf would merge them.
Repeats(t, b, i) ==
    LET n == b[i].num
        last == LastOf(t, Sharing(t, n), SubSeq(b, 1, i - 1))
    IN  Schema[t][n].kind \in SingularMessageKinds /\ last # Absent /\ last.num = n

RECURSIVE Verdict(_, _, _, _)

\* What is wrong with record i of a body of type t.  map is the number of the map whose
\* entry the body is, 0 if it is a message.
DefectAt(t, b, i, depth, map) ==
    LET r == b[i]
        f == Schema[t][r.num]
    IN  IF r.wire = Bad THEN Error("Wire", 0)
        ELSE IF ~Belongs(t, r.num, r)
        THEN IF r.val = Bad THEN Error("Wire", 0) ELSE NoError
        ELSE IF Repeats(t, b, i)
        THEN Error("RepeatedSingularMessage", IF map # 0 THEN map ELSE r.num)
        ELSE IF r.val = Bad THEN Error("Wire", 0)
        ELSE IF f.kind = "map" THEN Verdict(f.type, r.val, depth, r.num)
        ELSE IF f.kind \in MessageKinds
        THEN IF depth + 1 > kMaxDecodeDepth THEN Error("RecursionTooDeep", 0)
             ELSE Verdict(f.type, r.val, depth + 1, 0)
        ELSE IF TakesPacked(f, r) /\ (\E k \in DOMAIN r.val : r.val[k] = Bad)
        THEN Error("Wire", 0)
        ELSE NoError

\* The first defect in wire order, or the required field that is missing and
\* declared first.
Verdict(t, b, depth, map) ==
    LET defects == {i \in DOMAIN b : DefectAt(t, b, i, depth, map) # NoError}
        missing == {n \in DOMAIN Schema[t] : /\ Schema[t][n].required # 0
                                             /\ Occurrences(t, n, b) = <<>>}
        first == Min({Schema[t][n].required : n \in missing})
    IN  IF defects # {} THEN DefectAt(t, b, Min(defects), depth, map)
        ELSE IF missing # {} THEN Error("MissingRequired", CHOOSE n \in missing : Schema[t][n].required = first)
        ELSE NoError

-----------------------------------------------------------------------------

Init ==
    /\ \E t \in DOMAIN Inputs : input \in [type : {t}, body : Inputs[t]]
    /\ result = Pending

\* decode() returns the message or what is wrong; memory may run out first.
Decode ==
    /\ result = Pending /\ result' # Pending
    /\ \/ LET e == Verdict(input.type, input.body, 0, 0)
          IN  result' = IF e = NoError THEN [msg |-> Meaning(input.type, input.body)] ELSE [err |-> e]
       \/ result' = [err |-> Error("OutOfMemory", 0)]
    /\ UNCHANGED input

Spec == Init /\ [][Decode]_vars

=============================================================================
