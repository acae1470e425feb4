------------------------ MODULE ArenaDecodeRefines -------------------------
(***************************************************************************)
(* The emitted arena decoder implements MessageSemantics: read through its *)
(* pointers and views, what it returns is the message that the input       *)
(* stands for, or the defect that the input has first.                     *)
(***************************************************************************)
EXTENDS ArenaDecode

CONSTANT NoError

RECURSIVE Deref(_, _)

\* The sub-message held by a member: in place, or behind a pointer into the arena.
Held(t, held) ==
    IF "ptr" \in DOMAIN held THEN Deref(t, mem[held.ptr]) ELSE Deref(t, held.msg)

\* Message m of type t as its accessors return it.
Deref(t, m) ==
    [m EXCEPT !.val =
        [n \in Members(t) |->
            LET f == Schema[t][n]
                v == m.val[n]
            IN  IF f.kind \in {"messages", "map"}
                THEN [i \in 1 .. v.size |-> Deref(f.type, mem[v.acc + i - 1])]
                ELSE IF f.kind \in RepeatedKinds
                THEN [i \in 1 .. v.size |-> CellAt(v.acc + i - 1)]
                ELSE IF v = Absent \/ Schema[t][v[1]].kind \notin MessageKinds THEN v
                ELSE <<v[1], Held(Schema[t][v[1]].type, v[2])>>]]

Outcome ==
    IF result = Pending THEN Pending
    ELSE IF "err" \in DOMAIN result THEN result
    ELSE [msg |-> Deref(input.type, mem[result.root])]

Semantics == INSTANCE MessageSemantics WITH result <- Outcome

\* decode() returns what docs/semantics.md promises, for every order of the records:
\* singular values and oneofs keep the last occurrence, repeated fields concatenate
\* packed and expanded forms, maps keep every entry, a repeated sub-message is rejected
\* while it is held, a required field that is missing is named, nesting is bounded, the
\* first defect in wire order is the one reported.
ImplementsSemantics == Semantics!Spec

-----------------------------------------------------------------------------

\* arena_runtime.hpp:114 says of shrink_last(): "generated callers always pass the true
\* size".  A packed span that the array has room for trims it by rp_cap, which is then
\* the size of what the arena holds for it.
TrueSizePassed ==
    AtField({"elements"}) /\ TakesPacked(Field, Rec) /\ Field.wire = "Varint" /\ Rec.val # Bad =>
        LET a == Top.arr[Rec.num]
        IN  SpanNeedsGrowth(a, UpperBound(Field, Rec.val)) \/ a.cap = a.got

=============================================================================
