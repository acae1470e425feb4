----------------------------- MODULE WireDecode -----------------------------
(***************************************************************************)
(* One generated decode() over untrusted bytes: the field loop that        *)
(* src/streamgen/generator.cpp emits (general path), with skip_value,      *)
(* scan_group_end and read_group of include/rapidproto/runtime.hpp.  The   *)
(* mutual recursion of skip_value and scan_group_end is the stack `scan`:  *)
(* one frame per group being scanned, the field number it must end with.   *)
(* The depth argument is the length of the stack.                          *)
(*                                                                         *)
(* The schema knows GroupFields, group fields with a callback.  Any other  *)
(* field number is not in the schema and goes to the UnknownField          *)
(* callback.  A callback may abort.                                        *)
(***************************************************************************)
EXTENDS Wire

CONSTANTS
    Inputs,             \* the buffers
    GroupFields,
    kMaxGroupDepth

ASSUME DecodeAssumption ==
    /\ Inputs \subseteq Seq(Byte)
    /\ kMaxGroupDepth \in Nat \ {0}

VARIABLES
    input,
    rp_c,               \* the cursor
    tag,                \* rp_tag, the field being read
    value_start,        \* where its value begins
    scan,               \* the field numbers of the groups being scanned
    egroup_tag,         \* where the tag of the EGROUP that was matched last begins
    pending,            \* a value has been read and not been dispatched
    out,                \* what the callbacks received: [kind, tag, lo, hi, next]
    status              \* DecodeStatus: [wire, offset, aborted], with wire "running"

wire_vars == <<input, rp_c, tag, value_start, scan, egroup_tag, pending, out, status>>

Running == [wire |-> "running", offset |-> 0, aborted |-> FALSE]
Success == [wire |-> None, offset |-> 0, aborted |-> FALSE]
Aborted == [wire |-> None, offset |-> 0, aborted |-> TRUE]
Failed(err, offset) == [wire |-> err, offset |-> offset, aborted |-> FALSE]

\* The decode returns; the cursors are gone with its frames.
FailWith(err, offset) ==
    /\ status' = Failed(err, offset)
    /\ rp_c' = offset
    /\ UNCHANGED <<scan, pending>>

-----------------------------------------------------------------------------
TooDeep(depth) == depth > kMaxGroupDepth

\* scan_group_end entered for field f with the cursor at p.
EnterGroup(f, p) ==
    IF TooDeep(Len(scan) + 1)
    THEN FailWith("GroupTooDeep", p)
    ELSE /\ scan' = Append(scan, f)
         /\ rp_c' = p
         /\ UNCHANGED <<pending, status>>

\* Mutant: inside a group the cursor stays where it was.
LeafEndStuck(v) == IF scan = <<>> THEN v.next ELSE rp_c

LeafEnd(v) == v.next

\* The field of the loop is complete when no group is open.
FieldComplete(depth) == depth = 0

\* skip_value of a leaf whose value begins at p.
ReadLeaf(wire, p) ==
    LET v == SkipLeaf(input, p, wire)
    IN  IF v.err # None
        THEN FailWith(v.err, p)
        ELSE /\ rp_c' = LeafEnd(v)
             /\ pending' = FieldComplete(Len(scan))
             /\ UNCHANGED <<scan, status>>

\* skip_value, or read_group, of the value at p of a field that is no end of group.
ReadValue(t, p) ==
    \/ t.wire = SGroup /\ EnterGroup(t.field, p)
    \/ IsLeaf(t.wire) /\ ReadLeaf(t.wire, p)

Idle == status = Running /\ ~pending

\* One turn of the field loop, up to the end of the value or into a group.
NextField ==
    /\ Idle /\ scan = <<>>
    /\ LET t == read_tag_or_end(input, rp_c)
       IN  \/ /\ t.err = "End"
              /\ status' = Success
              /\ UNCHANGED <<rp_c, tag, value_start, scan, pending>>
           \/ /\ t.err \notin {None, "End"}
              /\ FailWith(t.err, rp_c)
              /\ UNCHANGED <<tag, value_start>>
           \/ /\ t.err = None
              /\ tag' = t.val
              /\ value_start' = t.next
              /\ IF t.val.wire = EGroup
                 THEN FailWith("UnexpectedEndGroup", t.next)
                 ELSE ReadValue(t.val, t.next)
    /\ UNCHANGED <<input, egroup_tag, out>>

\* Mutant: an end of group closes whatever group is open.
ClosesAny(f) == TRUE

Closes(f) == f = Last(scan)

EndOfBody(tag_start, next) == tag_start

\* One turn of the loop of scan_group_end, in the innermost group.
ScanGroup ==
    /\ Idle /\ scan # <<>>
    /\ LET t == read_tag(input, rp_c)
       IN  \/ /\ rp_c >= Len(input)
              /\ FailWith("UnterminatedGroup", rp_c)
              /\ UNCHANGED egroup_tag
           \/ /\ rp_c < Len(input) /\ t.err # None
              /\ FailWith(t.err, rp_c)
              /\ UNCHANGED egroup_tag
           \/ /\ rp_c < Len(input) /\ t.err = None /\ t.val.wire = EGroup
              /\ IF Closes(t.val.field)
                 THEN /\ scan' = Front(scan)
                      /\ rp_c' = t.next
                      /\ egroup_tag' = EndOfBody(rp_c, t.next)
                      /\ pending' = FieldComplete(Len(scan) - 1)
                      /\ UNCHANGED status
                 ELSE FailWith("EndGroupMismatch", rp_c) /\ UNCHANGED egroup_tag
           \/ /\ rp_c < Len(input) /\ t.err = None
              /\ ReadValue(t.val, t.next)
              /\ UNCHANGED egroup_tag
    /\ UNCHANGED <<input, tag, value_start, out>>

\* A known group delivers its body, an unknown field the raw bytes after its tag, a
\* group field of another wire type nothing.
Kind == IF tag.field \notin GroupFields THEN "unknown"
        ELSE IF tag.wire = SGroup THEN "group" ELSE "skipped"

Item == [kind |-> Kind, tag |-> tag, lo |-> value_start,
         hi |-> IF Kind = "group" THEN egroup_tag ELSE rp_c, next |-> rp_c]

Dispatch ==
    /\ status = Running /\ pending
    /\ out' = Append(out, Item)
    /\ pending' = FALSE
    /\ status' \in IF Kind = "skipped" THEN {Running} ELSE {Running, Aborted}
    /\ UNCHANGED <<input, rp_c, tag, value_start, scan, egroup_tag>>

WireInit ==
    /\ input \in Inputs
    /\ rp_c = 0 /\ value_start = 0 /\ egroup_tag = 0
    /\ tag = [field |-> 0, wire |-> Varint]
    /\ scan = <<>> /\ out = <<>>
    /\ pending = FALSE
    /\ status = Running

WireNext == NextField \/ ScanGroup \/ Dispatch

\* A decode is a sequential call: it takes its next step until it returns.
WireSpec == WireInit /\ [][WireNext]_wire_vars /\ WF_wire_vars(WireNext)

-----------------------------------------------------------------------------
(* The reference: the bytes as a flat list of tokens, a token being a tag   *)
(* with the value of a leaf or a bare start or end of group, and the rules  *)
(* of matching brackets on that list.                                      *)

\* The token at q: [err, at] of what is wrong with it, else its end and tag.
Token(s, q) ==
    LET t == read_tag(s, q)
        v == SkipLeaf(s, t.next, t.val.wire)
    IN  IF t.err # None THEN [err |-> t.err, at |-> q, next |-> 0, tag |-> 0]
        ELSE IF ~IsLeaf(t.val.wire)
        THEN [err |-> None, at |-> t.next, next |-> t.next, tag |-> t.val]
        ELSE [err |-> v.err, at |-> t.next, next |-> v.next, tag |-> t.val]

\* The positions at which a token begins, and the end after the last one.
Boundaries(s) ==
    LET reached[k \in 0 .. Len(s)] ==
            IF k = 0 THEN {0}
            ELSE IF k - 1 \in reached[k - 1] /\ Token(s, k - 1).err = None
            THEN reached[k - 1] \cup {Token(s, k - 1).next} ELSE reached[k - 1]
    IN  reached[Len(s)]

Tokens(s) == [q \in Boundaries(s) |-> Token(s, q)]

\* Over the tokens tok of a buffer, a function of where they begin.
Is(tok, q, wire) == tok[q].err = None /\ tok[q].tag.wire = wire

Count(tok, q, wire) == Cardinality({r \in DOMAIN tok : r < q /\ Is(tok, r, wire)})

DepthAt(tok, q) == Count(tok, q, SGroup) - Count(tok, q, EGroup)

\* The start of the group that is innermost at q.
OpenAt(tok, q) ==
    Max({r \in DOMAIN tok :
            r < q /\ Is(tok, r, SGroup) /\ DepthAt(tok, r) = DepthAt(tok, q) - 1})

NoDefect == [err |-> None, at |-> 0]

\* What is wrong at q, the end being n.
Defect(tok, n, q) ==
    LET t == tok[q]
        d == DepthAt(tok, q)
        bad(err, at) == [err |-> err, at |-> at]
    IN  IF q = n THEN IF d > 0 THEN bad("UnterminatedGroup", q) ELSE NoDefect
        ELSE IF t.err # None THEN bad(t.err, t.at)
        ELSE IF t.tag.wire = SGroup /\ d >= kMaxGroupDepth THEN bad("GroupTooDeep", t.next)
        ELSE IF t.tag.wire # EGroup THEN NoDefect
        ELSE IF d <= 0 THEN bad("UnexpectedEndGroup", t.next)
        ELSE IF tok[OpenAt(tok, q)].tag.field # t.tag.field THEN bad("EndGroupMismatch", q)
        ELSE NoDefect

FirstDefect(tok, n) ==
    LET defects == {q \in DOMAIN tok : Defect(tok, n, q) # NoDefect}
    IN  IF defects = {} THEN NoDefect ELSE Defect(tok, n, Min(defects))

\* What is wrong with a buffer: its first defect, with the position of the defect.
Verdict(s) == FirstDefect(Tokens(s), Len(s))

-----------------------------------------------------------------------------
(* Properties                                                              *)

\* The readers are safe on any bytes: the cursor, the position an error is reported at and
\* every span given to a callback stay inside the buffer, the recursion of the group scan
\* within its limit, and no accepted varint loses bits off the top of the 64-bit word.
ReadersAreSafe ==
    /\ value_start <= rp_c /\ rp_c <= Len(input)
    /\ status.offset <= Len(input)
    /\ \A i \in DOMAIN out : /\ out[i].lo <= out[i].hi
                             /\ out[i].hi <= out[i].next /\ out[i].next <= Len(input)
    /\ Len(scan) <= kMaxGroupDepth
    /\ LET v == read_varint(input, rp_c)
       IN  v.err = None => v.val < WordSize

\* Decoding accepts exactly the well-nested buffers within the depth limit and
\* otherwise reports the first defect of the buffer, at the position of the defect:
\* the recursive scan loses no error and no position on the way out.
VerdictIsFirstDefect ==
    status \notin {Running, Aborted} =>
        status.wire = Verdict(input).err /\ status.offset = Verdict(input).at

\* Nothing is lost between two callbacks: each field begins where the value of the one
\* before ended, with the tag the callback is told, which the plain reader of the group
\* scan reads there too, so that an application that writes tags and raw bytes out again
\* reproduces the message; and the body of a group is a well-formed buffer of its own,
\* without the end-of-group tag or half a field.
FieldsTileTheInput ==
    \A i \in DOMAIN out :
        LET from == IF i = 1 THEN 0 ELSE out[i - 1].next
            t == read_tag(input, from)
        IN  /\ t.err = None /\ t.val = out[i].tag /\ t.next = out[i].lo
            /\ out[i].kind = "group" => Verdict(SubSeq(input, out[i].lo + 1, out[i].hi)) = NoDefect

\* Every buffer is decoded or rejected: no input keeps the loops going.
Terminates == <>(status # Running)

=============================================================================
