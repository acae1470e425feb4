------------------------------- MODULE Layout -------------------------------
(***************************************************************************)
(* The arena layout planner, class Planner of src/arenagen/layout.cpp: how *)
(* each field of a message is stored, at which offset, and which messages  *)
(* are small enough to be inlined into their parents.  layout_for() and    *)
(* compute() recurse over references between messages; their stack is      *)
(* `stack`, one frame per message under way, which is m_visiting too.      *)
(*                                                                         *)
(* A message is the sequence of its items: fields, then maps, then the     *)
(* members of its oneofs, in declaration order; and the number of its      *)
(* oneofs, of which some may have no members.                              *)
(***************************************************************************)
EXTENDS Integers, Sequences, FiniteSets, SequencesExt, Functions, SeqSelect

CONSTANTS
    Messages,               \* the message types
    Schemas,                \* candidate inputs: [order, items, oneofs, unknown]
    inline_submsg_cutoff,   \* 16
    kMaxChainDepth,         \* 200
    kBitsPerWord            \* 64; a mask word of the array form has as many bits

VARIABLES
    schema,                 \* the input
    walked,                 \* how many messages of schema.order plan_layouts has dealt with
    stack,                  \* frames [fqn, plans]
    m_memo                  \* message -> its layout

layout_vars == <<schema, walked, stack, m_memo>>

\* The types of fields other than messages, one per size and storage.
ScalarTypes == {"int32", "int64", "bool", "enum", "string"}

\* Above every field number.
kMaskTiebreak == 2147483647

\* What the parser and the type resolver deliver: every type is known, the key of a map is a
\* scalar, oneofs are numbered from 1 (0 is none) and have no repeated members.  Raw maps are
\* refused when the modes are resolved, and modes do not apply inside a oneof.
ASSUME LayoutAssumption ==
    /\ inline_submsg_cutoff \in Nat /\ kMaxChainDepth \in Nat \ {0} /\ kBitsPerWord \in {8, 16, 32, 64}
    /\ Messages \cap ScalarTypes = {}
    /\ \A s \in Schemas :
         /\ s.order \in Seq(Messages) /\ DOMAIN s.items = Messages /\ s.oneofs \in [Messages -> Nat]
         /\ \A m \in Messages :
              /\ s.items[m] \in Seq(ToSet(s.items[m]))
              /\ \A f \in ToSet(s.items[m]) :
                   /\ f.type \in Messages \cup ScalarTypes /\ f.key \in {""} \cup ScalarTypes
                   /\ f.num \in 0 .. (kMaskTiebreak - 1) /\ f.oneof \in 0 .. s.oneofs[m]
                   /\ f.key # "" => f.mode # "raw"
                   /\ f.oneof # 0 => f.mode = "materialize" /\ ~f.rep

None == -1
align_up(n, align) == ((n + align - 1) \div align) * align

-----------------------------------------------------------------------------
(* Slots                                                                   *)

Slot(id, size, align, tie, seq) ==
    [id |-> id, size |-> size, align |-> align, tie |-> tie, seq |-> seq, off |-> 0]

\* The order of order_slots: alignment and size descending, tiebreak, sequence.
FirstSlot(a, b) ==
    IF a.align # b.align THEN a.align > b.align
    ELSE IF a.size # b.size THEN a.size > b.size
    ELSE IF a.tie # b.tie THEN a.tie < b.tie ELSE a.seq < b.seq

\* The last of some slots in that order.
LastSlot(slots) == CHOOSE a \in slots : \A b \in slots \ {a} : FirstSlot(b, a)

\* Mutant: a slot goes where the one before it ends.
SlotOffsetPacked(cursor, slot) == cursor

SlotOffset(cursor, slot) == align_up(cursor, slot.align)

\* The slots, each with its offset, and the extent of the struct.  The cursor after some of the
\* slots is where the last of them ends.
order_slots(slots) ==
    LET cursor[some \in SUBSET slots] ==
            IF some = {} THEN 0
            ELSE LET a == LastSlot(some) IN SlotOffset(cursor[some \ {a}], a) + a.size
        offset(a) == SlotOffset(cursor[{b \in slots : FirstSlot(b, a)}], a)
        align == Max({1} \cup {a.align : a \in slots})
        end == cursor[slots]
    IN  [placed |-> {[a EXCEPT !.off = offset(a)] : a \in slots},
         align |-> align, size |-> IF end = 0 THEN 1 ELSE align_up(end, align)]

-----------------------------------------------------------------------------
(* Storage of one field                                                    *)

Store(kind, size, align) == [kind |-> kind, size |-> size, align |-> align]
Pointer == Store("pointer", 8, 8)
View(kind) == Store(kind, 12, 4)

\* The messages under way.
m_visiting == {stack[i].fqn : i \in DOMAIN stack}

\* A message under way is a cycle, and a long chain is cut: both are pointers.
MayInspect(t) == Cardinality(m_visiting) < kMaxChainDepth /\ t \notin m_visiting

Inlinable(l) == l.fixed /\ l.size <= inline_submsg_cutoff

\* classify_message: t has a layout whenever it may be inspected (see Descend).
classify_message(t) ==
    IF MayInspect(t) /\ Inlinable(m_memo[t])
    THEN Store("inline", m_memo[t].size, m_memo[t].align) ELSE Pointer

\* scalar_info, with strings and enums.
ScalarStore ==
    [int32 |-> Store("scalar", 4, 4), int64 |-> Store("scalar", 8, 8),
     bool |-> Store("scalar", 1, 1), enum |-> Store("enum", 4, 4), string |-> View("string")]

\* classify_byte_member, and the value of build_entry: bytes, a bool included.
ByteStore(t) == IF t \in Messages THEN classify_message(t) ELSE ScalarStore[t]

\* classify_field and raw_member; a bool outside a oneof is a bit.
FieldStore(f) ==
    IF f.mode = "raw" THEN View("raw")
    ELSE IF f.rep THEN View("repeated")
    ELSE IF f.type = "bool" THEN Store("scalar", 0, 0)
    ELSE ByteStore(f.type)

\* build_entry: the synthesized {key, value} of a map.
build_entry(f) ==
    LET k == ByteStore(f.key)
        v == ByteStore(f.type)
    IN  order_slots({Slot("key", k.size, k.align, 0, 0), Slot("value", v.size, v.align, 1, 1)})

\* The entry of a field that is no map.
NoEntry == [placed |-> {}, align |-> 1, size |-> 1]

IsMap(f) == f.key # ""
InOneof(f) == f.oneof # 0

\* The plan of item f of a message.
Plan(f) ==
    LET s == IF IsMap(f) THEN View("map") ELSE IF InOneof(f) THEN ByteStore(f.type)
             ELSE FieldStore(f)
    IN  [num |-> f.num, kind |-> s.kind, size |-> s.size, align |-> s.align, oneof |-> f.oneof,
         target |-> f.type, presence |-> f.presence,
         is_bool |-> s.kind = "scalar" /\ s.size = 0,
         entry |-> IF IsMap(f) THEN build_entry(f) ELSE NoEntry,
         value |-> IF IsMap(f) THEN ByteStore(f.type).kind ELSE "",
         presence_bit |-> None, value_bit |-> None]

-----------------------------------------------------------------------------
(* A whole message                                                         *)

needs_presence(m) ==
    /\ m.presence = "explicit" /\ m.oneof = 0
    /\ m.kind \in {"scalar", "enum", "string", "inline"}

BitsOf(m) == (IF needs_presence(m) THEN 1 ELSE 0) + (IF m.is_bool THEN 1 ELSE 0)

\* allocate_bits: the bits are given out in declaration order; the first of item i, and
\* for Len(plans) + 1 their number.
FirstBit(plans, i) ==
    SumFunctionOnSet([j \in DOMAIN plans |-> BitsOf(plans[j])], 1 .. (i - 1))
WithBits(plans) ==
    [i \in DOMAIN plans |->
        [plans[i] EXCEPT
            !.presence_bit = IF needs_presence(plans[i]) THEN FirstBit(plans, i) ELSE None,
            !.value_bit = IF plans[i].is_bool THEN FirstBit(plans, i) + BitsOf(plans[i]) - 1
                          ELSE None]]

\* The smallest power of two of bytes for that many bits, or an array of words.
MaskStore(bits) ==
    IF bits = 0 THEN Store("mask", 0, 0)
    ELSE IF bits <= kBitsPerWord
    THEN LET bytes == Min({b \in {1, 2, 4, 8} : b * 8 >= bits})
         IN  Store("mask", bytes, bytes)
    ELSE LET bytes == kBitsPerWord \div 8
         IN  Store("mask", bytes * ((bits + kBitsPerWord - 1) \div kBitsPerWord), bytes)

MembersOf(plans, o) == {i \in DOMAIN plans : plans[i].oneof = o}

\* classify_oneof: the union is as large, and as aligned, as its largest member; without
\* members it takes no space.
UnionStore(plans, o) ==
    Store("union", Max({0} \cup {plans[i].size : i \in MembersOf(plans, o)}),
                   Max({1} \cup {plans[i].align : i \in MembersOf(plans, o)}))

\* order_members: byte members, discriminant and union of every oneof, the mask.  Sequence
\* numbers grow in that order; the one of the mask never decides, no other slot has its tiebreak.
SlotsOf(plans, oneofs, mask) ==
    LET bytes == {i \in DOMAIN plans : plans[i].oneof = 0 /\ plans[i].size > 0}
        tie(o) == IF MembersOf(plans, o) = {} THEN 0 ELSE plans[Min(MembersOf(plans, o))].num
        seq(o) == Len(plans) + 2 * o
    IN  {Slot("member", plans[i].size, plans[i].align, plans[i].num, i) : i \in bytes}
        \cup {Slot("disc", 1, 1, tie(o), seq(o)) : o \in 1 .. oneofs}
        \cup {Slot("union", UnionStore(plans, o).size, UnionStore(plans, o).align, tie(o), seq(o) + 1)
                : o \in 1 .. oneofs}
        \cup (IF mask.size = 0 THEN {} ELSE {Slot("mask", mask.size, mask.align, kMaskTiebreak, 0)})

\* Mutant: a pointer, also to a message of the same cycle, counts as fixed-size.
FixedKindsWithPointer == {"scalar", "enum", "inline", "pointer"}

FixedKinds == {"scalar", "enum", "inline"}

\* compute_fixed_size
IsFixed(plans, oneofs) ==
    oneofs = 0 /\ \A i \in DOMAIN plans : plans[i].kind \in FixedKinds

\* The end of compute(): bits, offsets, extent.
LayoutOf(plans, oneofs, unknown) ==
    LET known == FirstBit(plans, Len(plans) + 1)
        total == known + (IF unknown THEN 1 ELSE 0)
        mask == MaskStore(total)
        ext == order_slots(SlotsOf(plans, oneofs, mask))
    IN  [plans |-> WithBits(plans), placed |-> ext.placed, size |-> ext.size, align |-> ext.align,
         fixed |-> IsFixed(plans, oneofs), mask_bits |-> total, mask_size |-> mask.size,
         unknown_bit |-> IF unknown THEN known ELSE None]

-----------------------------------------------------------------------------
(* The recursion                                                           *)

Top == Last(stack)

\* The items of a message that its profile does not drop.
ItemsOf(m) == Select(schema.items[m], {f \in ToSet(schema.items[m]) : f.mode # "drop"})

\* The next item of the message under way.
Item == ItemsOf(Top.fqn)[Len(Top.plans) + 1]

\* The items whose storage depends on the layout of their type; a repeated or a raw
\* one never asks.
Asks(f) == f.type \in Messages /\ f.mode # "raw" /\ (IsMap(f) \/ ~f.rep)

\* Mutant: one planned message stands for all.
PlannedAny(m) == m_memo # <<>>

Planned(m) == m \in DOMAIN m_memo

Started(m) == Append(stack, [fqn |-> m, plans |-> <<>>])

\* plan_layouts, walk_messages: the next message, unless it is memoized.
NextMessage ==
    /\ stack = <<>> /\ walked < Len(schema.order)
    /\ LET m == schema.order[walked + 1]
       IN  stack' = IF Planned(m) THEN stack ELSE Started(m)
    /\ walked' = walked + 1
    /\ UNCHANGED <<schema, m_memo>>

HasItem == stack # <<>> /\ Len(Top.plans) < Len(ItemsOf(Top.fqn))

\* classify_message calls layout_for(), which computes the target first.
Descend ==
    /\ HasItem /\ Asks(Item) /\ MayInspect(Item.type) /\ Item.type \notin DOMAIN m_memo
    /\ stack' = Started(Item.type)
    /\ UNCHANGED <<schema, walked, m_memo>>

\* The storage of the next item is decided.
Classify ==
    /\ HasItem
    /\ Asks(Item) => ~MayInspect(Item.type) \/ Item.type \in DOMAIN m_memo
    /\ stack' = [stack EXCEPT ![Len(stack)].plans = Append(@, Plan(Item))]
    /\ UNCHANGED <<schema, walked, m_memo>>

\* compute() returns: the message is laid out and no longer under way.
Complete ==
    /\ stack # <<>> /\ ~HasItem
    /\ m_memo' = [m \in DOMAIN m_memo \cup {Top.fqn} |->
                     IF m = Top.fqn
                     THEN LayoutOf(Top.plans, schema.oneofs[m], m \in schema.unknown)
                     ELSE m_memo[m]]
    /\ stack' = Front(stack)
    /\ UNCHANGED <<schema, walked>>

LayoutInit == schema \in Schemas /\ walked = 0 /\ stack = <<>> /\ m_memo = <<>>

LayoutNext == NextMessage \/ Descend \/ Classify \/ Complete

LayoutSpec == LayoutInit /\ [][LayoutNext]_layout_vars /\ WF_layout_vars(LayoutNext)

LayoutDone == stack = <<>> /\ walked = Len(schema.order)

-----------------------------------------------------------------------------
(* Properties                                                              *)

LaidOut == DOMAIN m_memo
Bytes(s) == s.off .. (s.off + s.size - 1)

\* The slots of a struct are aligned, inside it and apart.
Apart(l) ==
    /\ l.size % l.align = 0
    /\ \A s \in l.placed :
         /\ s.off % s.align = 0 /\ l.align % s.align = 0
         /\ s.off + s.size <= l.size
         /\ \A t \in l.placed \ {s} : Bytes(s) \cap Bytes(t) = {}

\* Every byte of a message, and of the entries of its maps, belongs to one member, for messages
\* with inlined sub-messages, unions and masks alike.
SlotsApart ==
    \A m \in LaidOut : /\ Apart(m_memo[m])
                       /\ \A i \in DOMAIN m_memo[m].plans : Apart(m_memo[m].plans[i].entry)

\* No two flags of a message share a bit, and all of them are inside the mask.
FlagsApart(l) ==
    LET uses == {<<i, "p">> : i \in {i \in DOMAIN l.plans : l.plans[i].presence_bit # None}}
                \cup {<<i, "v">> : i \in {i \in DOMAIN l.plans : l.plans[i].value_bit # None}}
                \cup (IF l.unknown_bit # None THEN {<<0, "u">>} ELSE {})
        bit(u) == IF u[2] = "p" THEN l.plans[u[1]].presence_bit
                  ELSE IF u[2] = "v" THEN l.plans[u[1]].value_bit ELSE l.unknown_bit
    IN  /\ \A u, v \in uses : bit(u) = bit(v) => u = v
        /\ \A u \in uses : bit(u) \in 0 .. (8 * l.mask_size - 1)

BitsApart == \A m \in LaidOut : FlagsApart(m_memo[m])

\* The fields held by value of a laid-out message: its members, map values, oneof members.
ByValue(m) ==
    {m_memo[m].plans[i] : i \in {i \in DOMAIN m_memo[m].plans :
        m_memo[m].plans[i].kind = "inline" \/ m_memo[m].plans[i].value = "inline"}}

\* A message held by value has a final layout, fixed and small, and takes exactly its
\* size in the parent: nothing was decided from a layout that changed later.
InlinedAsLaidOut ==
    \A m \in LaidOut : \A p \in ByValue(m) :
        /\ p.target \in LaidOut
        /\ LET t == m_memo[p.target]
               s == IF p.kind = "inline" THEN p
                    ELSE CHOOSE s \in p.entry.placed : s.id = "value"
           IN  t.fixed /\ t.size <= inline_submsg_cutoff /\ s.size = t.size /\ s.align = t.align

\* The messages that m refers to by singular fields.
SingularRefs(m) ==
    {ItemsOf(m)[i].type : i \in {i \in DOMAIN ItemsOf(m) :
        Asks(ItemsOf(m)[i]) /\ ~IsMap(ItemsOf(m)[i]) /\ ~InOneof(ItemsOf(m)[i])}}

\* Reference: the messages that are fixed-size whatever is planned first, the least set
\* closed under "all its fields are scalars or inlinable members of the set".
FixedMessages ==
    CHOOSE S \in SUBSET LaidOut :
        LET ok(m) == /\ schema.oneofs[m] = 0
                     /\ \A i \in DOMAIN ItemsOf(m) :
                          LET f == ItemsOf(m)[i]
                          IN  /\ ~IsMap(f) /\ ~f.rep /\ f.mode # "raw"
                              /\ f.type # "string"
                              /\ f.type \in Messages =>
                                    f.type \in S /\ m_memo[f.type].size <= inline_submsg_cutoff
        IN  /\ \A m \in LaidOut : m \in S <=> ok(m)
            /\ \A T \in SUBSET S : T # {} => \E m \in T : SingularRefs(m) \cap T = {}

\* Every member has memory of its own: the slots, the flags of the mask and the messages that
\* are held by value.
MembersApart == SlotsApart /\ BitsApart /\ InlinedAsLaidOut

\* What is inlined does not depend on the message the planner starts from, nor on where
\* it enters a cycle of references: as long as no chain is cut, a field is inlined exactly
\* if its type is fixed-size and small by the reference.
PlanIgnoresTheOrder ==
    (LayoutDone /\ Len(schema.order) < kMaxChainDepth) =>
        \A m \in LaidOut :
            /\ m_memo[m].fixed <=> m \in FixedMessages
            /\ \A i \in DOMAIN m_memo[m].plans :
                 LET p == m_memo[m].plans[i]
                     f == ItemsOf(m)[i]
                 IN  Asks(f) => (("inline" \in {p.kind, p.value})
                                 <=> (f.type \in FixedMessages /\ Inlinable(m_memo[f.type])))

\* Every message is planned, whatever cycles the references form and wherever the
\* depth cap cuts them.
EveryMessagePlanned == <>(LayoutDone /\ LaidOut = {schema.order[i] : i \in DOMAIN schema.order})

=============================================================================
